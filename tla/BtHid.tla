------------------------------- MODULE BtHid -------------------------------
(***************************************************************************)
(* The Bluetooth side of the Picopad firmware: bt_hid.c (connection state  *)
(* machine), reconnect_manager.c (retry sessions), the connection callback *)
(* and the boot sequence of main.c, the bond kept by bonding_storage.c and *)
(* the host commands of host_protocol.c that drive them.  Everything runs  *)
(* on one run loop, so a handler, with every call nested in it, is one     *)
(* step.  The handlers are functions from the RAM of the firmware to the   *)
(* RAM of the firmware; the actions below deliver BTstack's events, timers *)
(* and host commands to them.  BTstack and the consoles are external:      *)
(* they may deliver any event that fits the channels and links there are.  *)
(***************************************************************************)
EXTENDS Naturals, FiniteSets

CONSTANTS
  Peer,          \* the consoles
  NoPeer,        \* no address (all zeros in the code)
  MaxCid,        \* BTstack's channels are numbered 1..MaxCid
  BootAttempts,  \* max_attempts of the BOOT policy
  AutoAttempts,  \* max_attempts of the AUTO policy
  UserAttempts,  \* max_attempts of the USER policy
  AuthLimit,     \* security refusals tolerated
  HostCommands,  \* the commands the host program may send
  Restarts,      \* the board may be restarted
  Orderly        \* the consoles use a link for one HID session, in order

ASSUME ConstantsAssumption ==
  /\ NoPeer \notin Peer
  /\ MaxCid \in Nat
  /\ {BootAttempts, AutoAttempts, UserAttempts} \subseteq Nat \ {0}
  /\ AuthLimit \in Nat \ {0}
  /\ {Restarts, Orderly} \subseteq BOOLEAN

VARIABLES
  dev,      \* the RAM of the firmware, and the bond, which is in flash too
  chan,     \* BTstack: the L2CAP channels there are
  link,     \* BTstack: the consoles with a baseband link
  spent,    \* the consoles that closed a channel of the link they have
  dropping, \* BTstack: the console whose link is being torn down
  doomed    \* BTstack: the channels that go with that link

vars == <<dev, chan, link, spent, dropping, doomed>>

State == {"IDLE", "ADVERTISING", "RECONNECTING", "CONTROL_CONNECTED", "READY"}
Mode == {"SERVER", "CLIENT"}
HostConn == {"DISCONNECTED", "ADVERTISING", "READY"}
Psm == {"CONTROL", "INTERRUPT"}
Cid == 1..MaxCid
Address == Peer \cup {NoPeer}
Budgets == {BootAttempts, AutoAttempts, UserAttempts}
AuthFails == 0..(AuthLimit - 1)

Device ==
  [ state : State,
    mode : Mode,
    control : Cid \cup {0},       \* l2cap_control_cid
    interrupt : Cid \cup {0},     \* l2cap_interrupt_cid
    handle : Address,             \* hci_handle, as the peer it belongs to
    connected : Address,          \* connected_addr
    target : Address,             \* reconnect_target_addr
    authFails : AuthFails,
    inProgress : BOOLEAN,         \* reconnect_in_progress
    gap : BOOLEAN,                \* discoverable and connectable
    active : BOOLEAN,             \* reconnect_manager: a session is open
    timer : BOOLEAN,              \*   its retry timer is armed
    attempt : Nat,                \*   current_attempt
    max : Budgets \cup {0},       \*   policy.max_attempts
    isConnected : BOOLEAN,        \* main.c, drives the LED
    hostConn : HostConn,          \* host_protocol's conn_state
    bond : Address ]              \* last connected console

(* ours: requested by the firmware, not by the console.                    *)
Channel == [cid : Cid, psm : Psm, peer : Address, ours : BOOLEAN, open : BOOLEAN]

-----------------------------------------------------------------------------
(* The handlers.  c is the identifier l2cap_create_channel returns should  *)
(* the handler call it, 0 when that call fails; no handler calls it twice. *)
(* A definition whose name ends in _Bug is a wrong version of the one that *)
(* follows it; MCBtHid's properties are seen to fail with it.              *)

ManagerStop(d) == [d EXCEPT !.active = FALSE, !.timer = FALSE]

ManagerStart_Bug(d, max) ==
  [d EXCEPT !.active = TRUE, !.timer = FALSE, !.attempt = @ + 1, !.max = max]

ManagerStart(d, max) ==
  [d EXCEPT !.active = TRUE, !.timer = FALSE, !.attempt = 1, !.max = max]

StopAdvertising_Bug(d) == [d EXCEPT !.gap = FALSE]

StopAdvertising(d) ==
  [d EXCEPT !.gap = FALSE,
            !.state = IF @ = "ADVERTISING" THEN "IDLE" ELSE @]

StartAdvertising(d) ==
  IF d.state = "READY" THEN d
  ELSE LET e == IF d.state = "RECONNECTING" THEN ManagerStop(d) ELSE d
       IN  [e EXCEPT !.state = "ADVERTISING", !.mode = "SERVER", !.gap = TRUE]

OnFailure_CountBug(d) ==
  IF ~d.active THEN d
  ELSE IF d.attempt > d.max
       THEN StartAdvertising([ManagerStop(d) EXCEPT !.inProgress = FALSE])
       ELSE [d EXCEPT !.timer = TRUE]

OnFailure_FallbackBug(d) ==
  IF ~d.active THEN d
  ELSE IF d.attempt >= d.max
       THEN [ManagerStop(d) EXCEPT !.inProgress = FALSE]
       ELSE [d EXCEPT !.timer = TRUE]

(* reconnect_manager_on_failure, schedule_retry, and, when the budget is   *)
(* spent, handle_reconnect_callback, which falls back to advertising.      *)
OnFailure(d) ==
  IF ~d.active THEN d
  ELSE IF d.attempt >= d.max
       THEN StartAdvertising([ManagerStop(d) EXCEPT !.inProgress = FALSE])
       ELSE [d EXCEPT !.timer = TRUE]

(* reconnect_manager_on_success and handle_reconnect_callback.             *)
OnSuccess(d) ==
  IF ~d.active THEN d
  ELSE [ManagerStop(d) EXCEPT !.authFails = 0, !.inProgress = FALSE]

InitiateClient_Bug(d, p, c) ==
  LET e == [d EXCEPT !.mode = "CLIENT", !.connected = p]
  IN  IF c = 0 THEN [e EXCEPT !.state = "IDLE"]
      ELSE [e EXCEPT !.state = "RECONNECTING", !.control = c]

InitiateClient(d, p, c) ==
  LET e == [d EXCEPT !.mode = "CLIENT", !.connected = p]
  IN  IF c = 0
      THEN OnFailure([e EXCEPT !.state = "IDLE"])
      ELSE [e EXCEPT !.state = "RECONNECTING", !.control = c]

Reconnect(d, p, max, c) ==
  IF d.state = "READY" THEN d
  ELSE LET e == IF d.state = "ADVERTISING" THEN StopAdvertising(d) ELSE d
           f == [ManagerStart(e, max) EXCEPT !.state = "IDLE", !.target = p,
                                             !.inProgress = TRUE]
       IN  InitiateClient(f, p, c)

(* retry_timer_handler and handle_reconnect_callback.                      *)
RetryFires(d, c) ==
  LET e == [d EXCEPT !.timer = FALSE]
  IN  IF ~d.active THEN e
      ELSE InitiateClient([e EXCEPT !.attempt = @ + 1], d.target, c)

(* main.c's connection_callback(true) and connection_callback(false).      *)
CallbackUp(d) == [d EXCEPT !.isConnected = TRUE, !.hostConn = "READY"]

CallbackDown(d, c) ==
  LET e == [d EXCEPT !.isConnected = FALSE, !.hostConn = "DISCONNECTED"]
  IN  IF d.bond = NoPeer THEN e ELSE Reconnect(e, d.bond, AutoAttempts, c)

ClearBonding_Bug(d) ==
  LET e == [d EXCEPT !.bond = NoPeer]
  IN  IF d.state = "RECONNECTING" THEN ManagerStop(e) ELSE e

ClearBonding(d) ==
  LET e == [d EXCEPT !.bond = NoPeer]
  IN  IF d.state = "RECONNECTING"
      THEN [ManagerStop(e) EXCEPT !.state = "IDLE"] ELSE e

ChannelFailed_LimitBug(d, security) ==
  IF d.state = "READY" \/ d.mode = "SERVER" THEN d
  ELSE OnFailure([d EXCEPT !.state = "IDLE",
                           !.authFails = IF security THEN @ + 1 ELSE @])

ChannelFailed_StopBug(d, security) ==
  LET fails == IF security THEN d.authFails + 1 ELSE d.authFails
  IN  CASE d.state = "READY" \/ d.mode = "SERVER" -> d
        [] d.state # "READY" /\ d.mode = "CLIENT" /\ fails >= AuthLimit ->
             StartAdvertising([d EXCEPT !.authFails = 0, !.state = "IDLE"])
        [] OTHER ->
             OnFailure([d EXCEPT !.authFails = fails, !.state = "IDLE"])

(* L2CAP_EVENT_CHANNEL_OPENED with an error.                               *)
ChannelFailed(d, security) ==
  LET fails == IF security THEN d.authFails + 1 ELSE d.authFails
  IN  CASE d.state = "READY" \/ d.mode = "SERVER" -> d
        [] d.state # "READY" /\ d.mode = "CLIENT" /\ fails >= AuthLimit ->
             StartAdvertising([ManagerStop(d) EXCEPT !.authFails = 0,
                                 !.state = "IDLE", !.mode = "SERVER"])
        [] OTHER ->
             OnFailure([d EXCEPT !.authFails = fails, !.state = "IDLE"])

(* L2CAP_EVENT_CHANNEL_OPENED without error.                               *)
ControlOpened(d, cid, c) ==
  LET e == [d EXCEPT !.control = cid, !.state = "CONTROL_CONNECTED"]
  IN  IF d.mode = "SERVER" THEN e
      ELSE IF c = 0 THEN OnFailure([e EXCEPT !.state = "IDLE"])
      ELSE [e EXCEPT !.interrupt = c]

InterruptOpened(d, cid) ==
  LET e == [d EXCEPT !.interrupt = cid]
      f == [e EXCEPT !.state = "READY", !.gap = FALSE, !.bond = d.connected]
  IN  IF d.control = 0 THEN e
      ELSE CallbackUp(IF d.mode = "CLIENT" THEN OnSuccess(f) ELSE f)

SessionOver_Bug(d, e, c) ==
  LET f == [e EXCEPT !.handle = NoPeer]
      g == IF d.state \in {"READY", "CONTROL_CONNECTED"}
           THEN CallbackDown(f, c) ELSE f
  IN  IF d.state = "ADVERTISING" THEN StartAdvertising(g) ELSE g

(* The end that L2CAP_EVENT_CHANNEL_CLOSED and                             *)
(* HCI_EVENT_DISCONNECTION_COMPLETE share: d before, e after the fields    *)
(* they reset.                                                             *)
SessionOver(d, e, c) ==
  LET f == [e EXCEPT !.state = "IDLE", !.handle = NoPeer]
      g == IF d.state \in {"READY", "CONTROL_CONNECTED"}
           THEN CallbackDown(f, c) ELSE f
  IN  IF d.state = "ADVERTISING" THEN StartAdvertising(g) ELSE g

ChannelClosed(d, cid, c) ==
  LET e == [d EXCEPT !.control = IF @ = cid THEN 0 ELSE @,
                     !.interrupt = IF @ = cid THEN 0 ELSE @]
  IN  IF e.control = 0 /\ e.interrupt = 0 THEN SessionOver(d, e, c) ELSE e

Disconnected(d, c) ==
  LET keepsMode == d.state = "RECONNECTING" \/ d.inProgress
  IN  SessionOver(d, [d EXCEPT !.control = 0, !.interrupt = 0,
                               !.mode = IF keepsMode THEN @ ELSE "SERVER"], c)

(* The RAM after reset, and BTSTACK_EVENT_STATE with a bond b in flash.    *)
Reset(b) ==
  [ state |-> "IDLE", mode |-> "SERVER", control |-> 0, interrupt |-> 0,
    handle |-> NoPeer, connected |-> NoPeer, target |-> NoPeer,
    authFails |-> 0, inProgress |-> FALSE, gap |-> FALSE, active |-> FALSE,
    timer |-> FALSE, attempt |-> 0, max |-> 0, isConnected |-> FALSE,
    hostConn |-> "DISCONNECTED", bond |-> b ]

Boot(b, c) ==
  IF b = NoPeer THEN Reset(b) ELSE Reconnect(Reset(b), b, BootAttempts, c)

-----------------------------------------------------------------------------
(* BTstack.  It numbers a new channel apart from the live ones and from    *)
(* those the firmware still remembers (its counter has 16 bits).           *)

FreshCid == Cid \ ({ch.cid : ch \in chan} \cup {dev.control, dev.interrupt})

NewCid == {c \in FreshCid : \A e \in FreshCid : c <= e}

(* A handler turned dev into d while the channels became rest.  If it      *)
(* created channel c, BTstack has that channel too.                        *)
Handled(d, rest, c) ==
  LET asked == [cid |-> c, peer |-> d.connected, ours |-> TRUE,
                open |-> FALSE,
                psm |-> IF d.control = c THEN "CONTROL" ELSE "INTERRUPT"]
  IN  /\ dev' = d
      /\ chan' = rest \cup
           (IF c # 0 /\ c \in {d.control, d.interrupt} THEN {asked} ELSE {})

Quiet == dropping = NoPeer    \* no teardown is in the middle of its events

(* A console connects, or answers the page an outgoing channel caused.     *)
(* HCI_EVENT_CONNECTION_COMPLETE.                                          *)
LinkUp(p) ==
  /\ Quiet
  /\ p \notin link
  /\ dev.gap \/ \E ch \in chan : ch.peer = p /\ ch.ours
  /\ link' = link \cup {p}
  /\ dev' = [dev EXCEPT !.connected = p, !.handle = p]
  /\ UNCHANGED <<chan, spent, dropping, doomed>>

ChannelsOf(p) == {ch \in chan : ch.peer = p}

(* The console opens a HID channel it does not have.  An orderly console   *)
(* opens control first, none after it closed one, and none on a link where *)
(* the firmware opens them.  L2CAP_EVENT_INCOMING_CONNECTION.              *)
Incoming(p, psm) ==
  /\ Quiet
  /\ p \in link
  /\ ~\E ch \in ChannelsOf(p) : ch.psm = psm /\ (ch.open \/ ~ch.ours)
  /\ Orderly =>
       /\ p \notin spent
       /\ \A ch \in ChannelsOf(p) : ~ch.ours
       /\ psm = "INTERRUPT" => \E ch \in ChannelsOf(p) : ch.open
  /\ \E cid \in NewCid :
       /\ chan' = chan \cup {[cid |-> cid, psm |-> psm, peer |-> p,
                              ours |-> FALSE, open |-> FALSE]}
       /\ dev' = IF psm = "CONTROL"
                 THEN [dev EXCEPT !.control = cid, !.handle = p,
                                  !.state = "CONTROL_CONNECTED"]
                 ELSE [dev EXCEPT !.interrupt = cid]
  /\ UNCHANGED <<link, spent, dropping, doomed>>

(* A requested channel opens.  L2CAP_EVENT_CHANNEL_OPENED, status 0.       *)
Opened(ch) ==
  /\ Quiet
  /\ ~ch.open
  /\ ch.peer \in link
  /\ \E c \in NewCid \cup {0} :
       Handled(IF ch.psm = "CONTROL" THEN ControlOpened(dev, ch.cid, c)
               ELSE InterruptOpened(dev, ch.cid),
               (chan \ {ch}) \cup {[ch EXCEPT !.open = TRUE]}, c)
  /\ UNCHANGED <<link, spent, dropping, doomed>>

(* A requested channel fails: the page times out, the console refuses it   *)
(* (for lack of a link key: security), or its link goes.                   *)
Failed(ch) ==
  /\ Quiet \/ ch.peer = dropping
  /\ ~ch.open
  /\ \E security \in BOOLEAN :
       /\ security => ch.peer \in link
       /\ dev' = ChannelFailed(dev, security)
  /\ chan' = chan \ {ch}
  /\ UNCHANGED <<link, spent, dropping, doomed>>

(* An open channel closes; an orderly console closes interrupt first.      *)
(* L2CAP_EVENT_CHANNEL_CLOSED.                                             *)
Closed(ch) ==
  /\ \/ ch.peer = dropping
     \/ /\ Quiet
        /\ Orderly /\ ch.psm = "CONTROL" =>
             \A o \in ChannelsOf(ch.peer) : o.psm = "CONTROL"
  /\ ch.open
  /\ \E c \in NewCid \cup {0} :
       Handled(ChannelClosed(dev, ch.cid, c), chan \ {ch}, c)
  /\ spent' = spent \cup {ch.peer}
  /\ UNCHANGED <<link, dropping, doomed>>

(* A link goes: out of range, the console slept, gap_disconnect.  BTstack  *)
(* reports its channels first, then the link, before any other event.      *)
LinkDrops(p) ==
  /\ Quiet
  /\ p \in link
  /\ dropping' = p
  /\ doomed' = ChannelsOf(p)
  /\ UNCHANGED <<dev, chan, link, spent>>

(* HCI_EVENT_DISCONNECTION_COMPLETE.  A channel requested while the        *)
(* teardown was being reported may live on and page the console anew.      *)
LinkGone ==
  /\ ~Quiet
  /\ doomed \cap chan = {}
  /\ \E c \in NewCid \cup {0} : Handled(Disconnected(dev, c), chan, c)
  /\ link' = link \ {dropping}
  /\ spent' = spent \ {dropping}
  /\ dropping' = NoPeer
  /\ doomed' = {}

-----------------------------------------------------------------------------
(* Timers, host commands and restarts.                                     *)

RetryTimer ==
  /\ Quiet
  /\ dev.timer
  /\ \E c \in NewCid \cup {0} : Handled(RetryFires(dev, c), chan, c)
  /\ UNCHANGED <<link, spent, dropping, doomed>>

HostStartAdvertising ==
  /\ Quiet /\ "START_ADVERTISING" \in HostCommands
  /\ dev' = [StartAdvertising(dev) EXCEPT !.hostConn = "ADVERTISING"]
  /\ UNCHANGED <<chan, link, spent, dropping, doomed>>

HostStopAdvertising ==
  /\ Quiet /\ "STOP_ADVERTISING" \in HostCommands
  /\ dev' = [StopAdvertising(dev) EXCEPT !.hostConn = "DISCONNECTED"]
  /\ UNCHANGED <<chan, link, spent, dropping, doomed>>

HostDisconnect ==
  /\ "DISCONNECT" \in HostCommands
  /\ dev.handle # NoPeer
  /\ LinkDrops(dev.handle)

HostReconnect ==
  /\ Quiet /\ "RECONNECT" \in HostCommands
  /\ dev.bond # NoPeer
  /\ \E c \in NewCid \cup {0} :
       Handled(Reconnect(dev, dev.bond, UserAttempts, c), chan, c)
  /\ UNCHANGED <<link, spent, dropping, doomed>>

HostForgetBonding ==
  /\ Quiet /\ "FORGET_BONDING" \in HostCommands
  /\ dev' = ClearBonding(dev)
  /\ UNCHANGED <<chan, link, spent, dropping, doomed>>

(* HOST_CMD_RESET or a power cycle.                                        *)
BootsWith(b) ==
  /\ Restarts
  /\ \E c \in {0} \cup {n \in Cid : n = 1} : Handled(Boot(b, c), {}, c)
  /\ link' = {}
  /\ spent' = {}
  /\ dropping' = NoPeer
  /\ doomed' = {}

Restart == BootsWith(dev.bond)

(* Power is lost while the flash sector of the bond is rewritten, after    *)
(* the erase and before the program: the bond is gone.                     *)
TornSave(ch) ==
  /\ Quiet
  /\ ch.psm = "INTERRUPT" /\ ~ch.open /\ ch.peer \in link
  /\ dev.control # 0
  /\ BootsWith(NoPeer)

(* The board is powered on, with or without a bond in flash.               *)
Init == \E b \in Address, c \in {0} \cup {n \in Cid : n = 1} :
  /\ dev = Boot(b, c)
  /\ chan = IF dev.control = 0 THEN {}
            ELSE {[cid |-> c, psm |-> "CONTROL", peer |-> b,
                   ours |-> TRUE, open |-> FALSE]}
  /\ link = {}
  /\ spent = {}
  /\ dropping = NoPeer
  /\ doomed = {}

Next ==
  \/ \E p \in Peer : LinkUp(p) \/ LinkDrops(p)
  \/ \E p \in Peer, psm \in Psm : Incoming(p, psm)
  \/ \E ch \in chan : Opened(ch) \/ Failed(ch) \/ Closed(ch) \/ TornSave(ch)
  \/ LinkGone
  \/ RetryTimer
  \/ HostStartAdvertising
  \/ HostStopAdvertising
  \/ HostDisconnect
  \/ HostReconnect
  \/ HostForgetBonding
  \/ Restart

Spec == Init /\ [][Next]_vars

(* BTstack answers every request within its timeouts and reports the whole *)
(* of a teardown; an armed timer fires.  Link losses in between may delay  *)
(* the first and the last, hence strong fairness.  Hosts and consoles owe  *)
(* nothing.                                                                *)
Answer(n) == \E ch \in chan : ch.cid = n /\ (Opened(ch) \/ Failed(ch))

Teardown == LinkGone \/ \E ch \in doomed \cap chan : Closed(ch) \/ Failed(ch)

FairSpec == /\ Spec
            /\ SF_vars(RetryTimer)
            /\ \A n \in Cid : SF_vars(Answer(n))
            /\ WF_vars(Teardown)

-----------------------------------------------------------------------------
(* Properties.                                                             *)

(* Type invariant.                                                         *)
TypeOK ==
  /\ dev \in Device
  /\ chan \subseteq Channel
  /\ link \subseteq Peer
  /\ spent \subseteq link
  /\ dropping \in link \cup {NoPeer}
  /\ doomed \subseteq Channel

(* reconnect_manager.c is re-entered from its own callback (a retry that   *)
(* fails at once schedules the next one from inside the timer handler).    *)
(* Still an open session never exceeds its budget, and a timer is armed    *)
(* only for a session that may try again.                                  *)
RetryWithinBudget ==
  /\ dev.active => dev.attempt \in 1..dev.max
  /\ dev.timer => dev.active /\ dev.attempt < dev.max

(* bt_hid.c's state and reconnect_manager.c's session are separate pieces  *)
(* of state, stopped in many places.  A device that says RECONNECTING      *)
(* always has an open session behind it, so the failure of the attempt is  *)
(* acted upon and not dropped (reconnect_manager_on_failure returns at     *)
(* once when no session is open).                                          *)
ReconnectingIsManaged == dev.state = "RECONNECTING" => dev.active

(* ADVERTISING means that the radio really can be found, READY that it     *)
(* cannot, whatever sequence of collisions, losses and commands led there. *)
RadioMatchesState ==
  /\ dev.state = "ADVERTISING" => dev.gap
  /\ dev.state = "READY" => ~dev.gap

(* A READY device has told the rest of the firmware so (LED, host event),  *)
(* and remembers a channel whose closing will end READY.                   *)
ReadyIsAnnounced ==
  dev.state = "READY" =>
    /\ dev.isConnected
    /\ dev.control # 0 \/ dev.interrupt # 0

(* The reconnection sessions as ReconnectBudget sees them.                 *)
PhaseOf(d) == IF ~d.active THEN "off" ELSE IF d.timer THEN "waiting" ELSE "trying"

Phase == PhaseOf(dev)

Budget == INSTANCE ReconnectBudget
            WITH phase <- Phase, tries <- dev.attempt, budget <- dev.max

(* The firmware's use of reconnect_manager.c implements ReconnectBudget: a *)
(* session counts its attempts one by one, makes none but the first        *)
(* without a wait, and none beyond its budget.                             *)
RetriesAsPromised == Budget!Spec

(* An open session has a next event coming: its timer is armed or BTstack  *)
(* owes an answer.  Otherwise nothing would ever continue or end it.       *)
(* Holds as long as the host does not start advertising and there is one   *)
(* console, an orderly one: a second console's link, when it goes, takes   *)
(* the first one's control channel out of the firmware's memory.           *)
SessionHasNextEvent == dev.active => dev.timer \/ \E ch \in chan : ~ch.open

(* An open session while the device says it is advertising: a retry may    *)
(* start from under the advertisement.                                     *)
Beside(d) == d.state = "ADVERTISING" /\ d.active


(* That command is the only way into it: when the firmware itself falls    *)
(* back to advertising (budget spent, console refuses for security, a link *)
(* lost) it has ended the session first, and no session is begun under an  *)
(* advertisement, whatever hosts and consoles do.                          *)
OnlyHostAdvertisesInSession ==
  [][Beside(dev)' => Beside(dev) \/ HostStartAdvertising]_vars

(* An open session ends in service: connected, or, as                      *)
(* handle_reconnect_callback says, "falling back to advertising"; unless   *)
(* the bond is lost or sessions are begun anew for ever.                   *)
SessionsEndInService ==
  \/ []<><<HostReconnect \/ Restart>>_vars
  \/ dev.active ~> dev.state \in {"READY", "ADVERTISING"} \/ dev.bond = NoPeer

=============================================================================
