---------------------------- MODULE BtHidProofs ----------------------------
(***************************************************************************)
(* Proofs about BtHid for every set of consoles, every size of the         *)
(* channel pool, every retry policy and every behaviour of BTstack and the *)
(* consoles.  Good is the inductive invariant on the RAM of the firmware;  *)
(* each handler is shown to preserve it, then each action.  Then the       *)
(* firmware's reconnection sessions are shown to implement                 *)
(* ReconnectBudget: for every handler a lemma says which abstract step it  *)
(* takes, or that it takes none.  Last, only a host can bring about        *)
(* advertising beside a session (Beside); for a host that leaves it to the *)
(* firmware they are apart (Apart, on the RAM), and with one orderly       *)
(* console a session always has an event to come (EventInv, on the RAM and *)
(* BTstack's channels).                                                    *)
(***************************************************************************)
EXTENDS BtHid, TLAPS

Good(d) ==
  /\ d \in Device
  /\ d.active => d.attempt \in 1..d.max
  /\ d.timer => d.active /\ d.attempt < d.max
  /\ d.state = "RECONNECTING" => d.active
  /\ d.state = "ADVERTISING" => d.gap
  /\ d.state = "READY" => ~d.gap
  /\ d.state = "READY" => d.isConnected
  /\ d.state = "READY" => d.control # 0 \/ d.interrupt # 0

Answers == Cid \cup {0}    \* what l2cap_create_channel may return

LEMMA ZeroAuthFails == 0 \in AuthFails
BY ConstantsAssumption DEF AuthFails

-----------------------------------------------------------------------------
(* The handlers.                                                           *)

(* bt_hid_start_advertising keeps the invariant, from any state.           *)
LEMMA StartAdvertisingGood ==
  ASSUME NEW d, Good(d) PROVE Good(StartAdvertising(d))
<1> DEFINE e == IF d.state = "RECONNECTING" THEN ManagerStop(d) ELSE d
           f == [e EXCEPT !.state = "ADVERTISING", !.mode = "SERVER", !.gap = TRUE]
<1>1. CASE d.state = "READY"
  BY <1>1 DEF StartAdvertising
<1>2. CASE d.state # "READY"
  <2>1. e \in Device /\ (e.timer => e.active /\ e.attempt < e.max)
         /\ (e.active => e.attempt \in 1..e.max)
    BY DEF Good, ManagerStop, Device
  <2> HIDE DEF e
  <2>2. Good(f)
    BY ZenonT(60), <2>1 DEF Good, Device, State, Mode
  <2>3. QED  BY <1>2, <2>2 DEF StartAdvertising, e
<1>3. QED  BY <1>1, <1>2

(* So does bt_hid_stop_advertising.                                        *)
LEMMA StopAdvertisingGood ==
  ASSUME NEW d, Good(d) PROVE Good(StopAdvertising(d))
<1> DEFINE s == IF d.state = "ADVERTISING" THEN "IDLE" ELSE d.state
<1>1. StopAdvertising(d) = [d EXCEPT !.gap = FALSE, !.state = s]
  BY DEF StopAdvertising, Good, Device
<1>2. s \in State /\ s # "ADVERTISING" /\ (s # "IDLE" => s = d.state)
  BY DEF Good, Device, State
<1> HIDE DEF s
<1>3. Good([d EXCEPT !.gap = FALSE, !.state = s])
  BY <1>2 DEF Good, Device
<1>4. QED  BY <1>1, <1>3

(* A failure is reported with the state at IDLE; the session waits, or     *)
(* ends in advertising.                                                    *)
LEMMA OnFailureGood ==
  ASSUME NEW d, Good(d), d.state = "IDLE" PROVE Good(OnFailure(d))
<1>1. CASE ~d.active
  BY <1>1 DEF OnFailure
<1>2. CASE d.active /\ d.attempt >= d.max
  <2> DEFINE e == [ManagerStop(d) EXCEPT !.inProgress = FALSE]
  <2>1. Good(e)
    BY <1>2 DEF Good, ManagerStop, Device
  <2>2. OnFailure(d) = StartAdvertising(e)
    BY <1>2 DEF OnFailure
  <2>3. QED  BY <2>1, <2>2, StartAdvertisingGood
<1>3. CASE d.active /\ ~(d.attempt >= d.max)
  <2>1. OnFailure(d) = [d EXCEPT !.timer = TRUE]
    BY <1>3 DEF OnFailure
  <2>2. d.attempt < d.max
    BY <1>3, ConstantsAssumption DEF Good, Device, Budgets
  <2>3. Good([d EXCEPT !.timer = TRUE])
    BY <1>3, <2>2 DEF Good, Device
  <2>4. QED  BY <2>1, <2>3
<1>4. QED  BY <1>1, <1>2, <1>3

(* An attempt is made for an open session only.                            *)
LEMMA InitiateClientGood ==
  ASSUME NEW d, Good(d), d.active, NEW p \in Address, NEW c \in Answers
  PROVE  Good(InitiateClient(d, p, c))
<1> DEFINE e == [d EXCEPT !.mode = "CLIENT", !.connected = p]
           f == [e EXCEPT !.state = "IDLE"]
           g == [e EXCEPT !.state = "RECONNECTING", !.control = c]
<1>1. Good(e) /\ e.active
  BY DEF Good, Device, Mode
<1> HIDE DEF e
<1>2. CASE c = 0
  <2>1. Good(f) /\ f.state = "IDLE"
    BY <1>1 DEF Good, Device, State
  <2> HIDE DEF f
  <2>2. Good(OnFailure(f))
    BY <2>1, OnFailureGood
  <2>3. QED  BY <1>2, <2>2 DEF InitiateClient, e, f
<1>3. CASE c # 0
  <2>1. Good(g)
    BY ZenonT(60), <1>1 DEF Good, Device, State, Answers
  <2>2. QED  BY <1>3, <2>1 DEF InitiateClient, e
<1>4. QED  BY <1>2, <1>3

(* bt_hid_reconnect refuses when READY and opens a session otherwise.      *)
LEMMA ReconnectGood ==
  ASSUME NEW d, Good(d), NEW p \in Address, NEW max \in Budgets, NEW c \in Answers
  PROVE  Good(Reconnect(d, p, max, c))
<1> DEFINE e == IF d.state = "ADVERTISING" THEN StopAdvertising(d) ELSE d
           f == [ManagerStart(e, max) EXCEPT !.state = "IDLE", !.target = p,
                                             !.inProgress = TRUE]
<1>1. CASE d.state = "READY"
  BY <1>1 DEF Reconnect
<1>2. CASE d.state # "READY"
  <2>1. Good(e)
    BY StopAdvertisingGood
  <2> HIDE DEF e
  <2>2. max \in Nat \ {0}
    BY ConstantsAssumption DEF Budgets
  <2> DEFINE m == ManagerStart(e, max)
  <2>3. m \in Device /\ m.active /\ ~m.timer /\ m.attempt = 1 /\ m.max = max
    BY <2>1, <2>2 DEF Good, Device, ManagerStart
  <2>4. f = [m EXCEPT !.state = "IDLE", !.target = p, !.inProgress = TRUE]
    OBVIOUS
  <2> HIDE DEF m, f
  <2>5. Good(f) /\ f.active
    <3>1. f \in Device
      BY <2>3, <2>4 DEF Device, State
    <3>2. /\ f.active /\ ~f.timer /\ f.attempt = 1 /\ f.max = max
          /\ f.state = "IDLE"
      BY <2>3, <2>4 DEF Device
    <3>3. QED  BY <2>2, <3>1, <3>2 DEF Good
  <2>6. Good(InitiateClient(f, p, c))
    BY <2>5, InitiateClientGood
  <2>7. QED  BY <1>2, <2>6 DEF Reconnect, e, f
<1>3. QED  BY <1>1, <1>2

(* The retry timer is armed for a session with an attempt left.            *)
LEMMA RetryFiresGood ==
  ASSUME NEW d, Good(d), d.timer, NEW c \in Answers
  PROVE  Good(RetryFires(d, c))
<1> DEFINE e == [d EXCEPT !.timer = FALSE]
           n == d.attempt + 1
           f == [e EXCEPT !.attempt = n]
<1>1. d.active /\ d.attempt < d.max /\ d.attempt \in Nat /\ d.max \in Nat
  BY ConstantsAssumption DEF Good, Device, Budgets
<1>2. /\ Good(e) /\ e.active /\ e.attempt = d.attempt /\ e.max = d.max
      /\ ~e.timer
  BY <1>1 DEF Good, Device
<1>3. RetryFires(d, c) = InitiateClient(f, d.target, c)
  BY <1>1, <1>2 DEF RetryFires
<1> HIDE DEF e
<1>4. Good(f) /\ f.active
  <2>1. n \in 1..d.max /\ n \in Nat
    BY <1>1
  <2> HIDE DEF n
  <2>2. f \in Device
    BY <1>2, <2>1 DEF Good, Device
  <2>3. /\ f.attempt = n /\ f.max = d.max /\ f.active /\ ~f.timer
        /\ f.state = e.state /\ f.gap = e.gap /\ f.control = e.control
        /\ f.interrupt = e.interrupt /\ f.isConnected = e.isConnected
    BY <1>2 DEF Good, Device
  <2>4. QED  BY <1>2, <2>1, <2>2, <2>3 DEF Good
<1>5. d.target \in Address
  BY DEF Good, Device
<1> HIDE DEF f
<1>6. QED  BY <1>3, <1>4, <1>5, InitiateClientGood

(* A lost session: the bonded console is called, from IDLE.                *)
LEMMA CallbackDownGood ==
  ASSUME NEW d, Good(d), d.state = "IDLE", NEW c \in Answers
  PROVE  Good(CallbackDown(d, c))
<1> DEFINE e == [d EXCEPT !.isConnected = FALSE, !.hostConn = "DISCONNECTED"]
<1>1. Good(e) /\ d.bond \in Address
  BY DEF Good, Device, HostConn
<1>2. AutoAttempts \in Budgets
  BY DEF Budgets
<1> HIDE DEF e
<1>3. Good(Reconnect(e, d.bond, AutoAttempts, c))
  BY <1>1, <1>2, ReconnectGood
<1>4. QED  BY <1>1, <1>3 DEF CallbackDown, e

(* Forgetting the bond calls off the attempt under way.                    *)
LEMMA ClearBondingGood ==
  ASSUME NEW d, Good(d) PROVE Good(ClearBonding(d))
<1> DEFINE e == [d EXCEPT !.bond = NoPeer]
           m == ManagerStop(e)
<1>1. Good(e) /\ e.state = d.state
  BY DEF Good, Device, Address
<1> HIDE DEF e
<1>2. m \in Device /\ ~m.active /\ ~m.timer
  BY <1>1 DEF Good, Device, ManagerStop
<1> HIDE DEF m
<1>3. Good([m EXCEPT !.state = "IDLE"])
  BY <1>2 DEF Good, Device, State
<1>4. QED  BY <1>1, <1>3 DEF ClearBonding, e, m

(* A refused or timed-out channel.                                         *)
LEMMA ChannelFailedGood ==
  ASSUME NEW d, Good(d), NEW security \in BOOLEAN
  PROVE  Good(ChannelFailed(d, security))
<1> DEFINE fails == IF security THEN d.authFails + 1 ELSE d.authFails
<1>1. fails \in Nat /\ (~(fails >= AuthLimit) => fails \in AuthFails)
  BY ConstantsAssumption DEF Good, Device, AuthFails
<1>2. CASE d.state = "READY" \/ d.mode = "SERVER"
  BY <1>2 DEF ChannelFailed
<1>3. CASE d.state # "READY" /\ d.mode = "CLIENT" /\ fails >= AuthLimit
  <2> DEFINE m == ManagerStop(d)
             e == [m EXCEPT !.authFails = 0, !.state = "IDLE", !.mode = "SERVER"]
  <2>1. m \in Device /\ ~m.active /\ ~m.timer
    BY DEF Good, Device, ManagerStop
  <2> HIDE DEF m
  <2>2. Good(e)
    <3>1. e \in Device
      BY <2>1, ZeroAuthFails DEF Device, State, Mode
    <3>2. ~e.active /\ ~e.timer /\ e.state = "IDLE"
      BY <2>1 DEF Device
    <3>3. QED  BY <3>1, <3>2 DEF Good
  <2>3. ChannelFailed(d, security) = StartAdvertising(e)
    BY <1>3 DEF ChannelFailed, m
  <2> HIDE DEF e
  <2>4. QED  BY <2>2, <2>3, StartAdvertisingGood
<1>4. CASE ~(d.state = "READY" \/ d.mode = "SERVER") /\ ~(fails >= AuthLimit)
  <2> DEFINE e == [d EXCEPT !.authFails = fails, !.state = "IDLE"]
  <2>1. ChannelFailed(d, security) = OnFailure(e)
    BY <1>4 DEF ChannelFailed
  <2> HIDE DEF fails
  <2>2. Good(e) /\ e.state = "IDLE"
    BY <1>1, <1>4 DEF Good, Device, State
  <2> HIDE DEF e
  <2>3. QED  BY <2>1, <2>2, OnFailureGood
<1>5. d.mode \in {"SERVER", "CLIENT"}
  BY DEF Good, Device, Mode
<1>6. QED  BY <1>2, <1>3, <1>4, <1>5

(* The control channel opens; a client asks for the interrupt channel.     *)
LEMMA ControlOpenedGood ==
  ASSUME NEW d, Good(d), NEW cid \in Cid, NEW c \in Answers
  PROVE  Good(ControlOpened(d, cid, c))
<1> DEFINE e == [d EXCEPT !.control = cid, !.state = "CONTROL_CONNECTED"]
           f == [e EXCEPT !.state = "IDLE"]
<1>1. Good(e) /\ e.state = "CONTROL_CONNECTED"
  BY DEF Good, Device, State
<1> HIDE DEF e
<1>2. Good(f) /\ f.state = "IDLE"
  BY <1>1 DEF Good, Device, State
<1> DEFINE g == [e EXCEPT !.interrupt = c]
<1>3. Good(g)
  <2>1. g \in Device
    BY <1>1 DEF Good, Device, Answers
  <2>2. /\ g.active = e.active /\ g.timer = e.timer
        /\ g.attempt = e.attempt /\ g.max = e.max
        /\ g.state = "CONTROL_CONNECTED"
    BY <1>1 DEF Good, Device
  <2>3. QED  BY <1>1, <2>1, <2>2 DEF Good
<1> HIDE DEF f
<1>4. Good(OnFailure(f))
  BY <1>2, OnFailureGood
<1>5. QED  BY <1>1, <1>3, <1>4 DEF ControlOpened, e, f

(* The interrupt channel opens; with the control channel that is READY.    *)
LEMMA InterruptOpenedGood ==
  ASSUME NEW d, Good(d), NEW cid \in Cid
  PROVE  Good(InterruptOpened(d, cid))
<1> DEFINE e == [d EXCEPT !.interrupt = cid]
           f == [e EXCEPT !.state = "READY", !.gap = FALSE, !.bond = d.connected]
           g == IF d.mode = "CLIENT" THEN OnSuccess(f) ELSE f
<1>1. cid # 0
  BY ConstantsAssumption DEF Cid
<1>2. Good(e) /\ e.interrupt = cid /\ d.connected \in Address
  <2>1. e \in Device /\ d.connected \in Address
    BY DEF Good, Device
  <2>2. /\ e.interrupt = cid /\ e.active = d.active /\ e.timer = d.timer
        /\ e.attempt = d.attempt /\ e.max = d.max /\ e.state = d.state
        /\ e.gap = d.gap /\ e.isConnected = d.isConnected
    BY DEF Good, Device
  <2>3. QED  BY <1>1, <2>1, <2>2 DEF Good
<1> HIDE DEF e
<1>3. /\ f \in Device /\ f.state = "READY" /\ ~f.gap /\ f.interrupt = cid
      /\ f.active => f.attempt \in 1..f.max
      /\ f.timer => f.active /\ f.attempt < f.max
  <2>1. f \in Device
    BY <1>2 DEF Good, Device, State
  <2>2. /\ f.state = "READY" /\ ~f.gap /\ f.interrupt = cid
        /\ f.active = e.active /\ f.timer = e.timer
        /\ f.attempt = e.attempt /\ f.max = e.max
    BY <1>2 DEF Good, Device
  <2>3. QED  BY <1>2, <2>1, <2>2 DEF Good
<1> HIDE DEF f
<1>4. /\ g \in Device /\ g.state = "READY" /\ ~g.gap /\ g.interrupt = cid
      /\ g.active => g.attempt \in 1..g.max
      /\ g.timer => g.active /\ g.attempt < g.max
  <2>1. CASE d.mode = "CLIENT" /\ f.active
    <3> DEFINE m == ManagerStop(f)
               h == [m EXCEPT !.authFails = 0, !.inProgress = FALSE]
    <3>1. /\ m \in Device /\ m.state = "READY" /\ ~m.gap /\ m.interrupt = cid
          /\ ~m.active /\ ~m.timer
      BY <1>3 DEF Device, ManagerStop
    <3> HIDE DEF m
    <3>2. /\ h \in Device /\ h.state = "READY" /\ ~h.gap /\ h.interrupt = cid
          /\ ~h.active /\ ~h.timer
      BY <3>1, ZeroAuthFails DEF Device
    <3>3. g = h
      BY <2>1 DEF OnSuccess, m
    <3> HIDE DEF g, h
    <3>4. QED  BY <3>2, <3>3
  <2>2. CASE ~(d.mode = "CLIENT" /\ f.active)
    <3>1. g = f
      BY <2>2 DEF OnSuccess
    <3> HIDE DEF g
    <3>2. QED  BY <1>3, <3>1
  <2>3. QED  BY <2>1, <2>2
<1> HIDE DEF g
<1>5. Good(CallbackUp(g))
  BY SMTT(30), ZenonT(60), <1>1, <1>4 DEF Good, Device, CallbackUp, HostConn
<1>6. QED  BY <1>2, <1>5 DEF InterruptOpened, e, f, g

(* The end of a session, by its last channel or by its link: e is d with   *)
(* fields reset that the invariant relates to READY only.                  *)
LEMMA SessionOverGood ==
  ASSUME NEW d, NEW e \in Device, NEW c \in Answers,
         e.active => e.attempt \in 1..e.max,
         e.timer => e.active /\ e.attempt < e.max
  PROVE  Good(SessionOver(d, e, c))
<1> DEFINE f == [e EXCEPT !.state = "IDLE", !.handle = NoPeer]
           g == IF d.state \in {"READY", "CONTROL_CONNECTED"}
                THEN CallbackDown(f, c) ELSE f
<1>1. Good(f) /\ f.state = "IDLE"
  <2>1. f \in Device
    BY DEF Device, State, Address
  <2>2. /\ f.state = "IDLE" /\ f.active = e.active /\ f.timer = e.timer
        /\ f.attempt = e.attempt /\ f.max = e.max
    BY DEF Device
  <2>3. QED  BY <2>1, <2>2 DEF Good
<1> HIDE DEF f
<1>2. Good(g)
  BY <1>1, CallbackDownGood
<1> HIDE DEF g
<1>3. Good(StartAdvertising(g))
  BY <1>2, StartAdvertisingGood
<1>4. QED  BY <1>2, <1>3 DEF SessionOver, f, g

(* A channel closes; the other one, if it is there, keeps READY.           *)
LEMMA ChannelClosedGood ==
  ASSUME NEW d, Good(d), NEW cid \in Cid, NEW c \in Answers
  PROVE  Good(ChannelClosed(d, cid, c))
<1> DEFINE x == IF d.control = cid THEN 0 ELSE d.control
           y == IF d.interrupt = cid THEN 0 ELSE d.interrupt
           e == [d EXCEPT !.control = x, !.interrupt = y]
<1>1. x \in Cid \cup {0} /\ y \in Cid \cup {0}
  BY DEF Good, Device
<1>2. ChannelClosed(d, cid, c) = IF e.control = 0 /\ e.interrupt = 0
                                 THEN SessionOver(d, e, c) ELSE e
  BY DEF ChannelClosed, Good, Device
<1> HIDE DEF x, y
<1>3. e \in Device
  BY <1>1 DEF Good, Device
<1>4. /\ e.active = d.active /\ e.timer = d.timer
      /\ e.attempt = d.attempt /\ e.max = d.max /\ e.state = d.state
      /\ e.gap = d.gap /\ e.isConnected = d.isConnected
  BY DEF Good, Device
<1> HIDE DEF e
<1>5. ~(e.control = 0 /\ e.interrupt = 0) => Good(e)
  BY <1>3, <1>4 DEF Good
<1>6. Good(SessionOver(d, e, c))
  BY <1>3, <1>4, SessionOverGood DEF Good
<1>7. QED  BY <1>2, <1>5, <1>6

(* The link is gone.                                                       *)
LEMMA DisconnectedGood ==
  ASSUME NEW d, Good(d), NEW c \in Answers
  PROVE  Good(Disconnected(d, c))
<1> DEFINE x == IF d.state = "RECONNECTING" \/ d.inProgress
                THEN d.mode ELSE "SERVER"
           e == [d EXCEPT !.control = 0, !.interrupt = 0, !.mode = x]
<1>1. x \in Mode
  BY DEF Good, Device, Mode
<1>2. Disconnected(d, c) = SessionOver(d, e, c)
  BY DEF Disconnected, Good, Device
<1> HIDE DEF x
<1>3. e \in Device
  BY <1>1 DEF Good, Device
<1>4. /\ e.active = d.active /\ e.timer = d.timer
      /\ e.attempt = d.attempt /\ e.max = d.max
  BY DEF Good, Device
<1> HIDE DEF e
<1>5. Good(SessionOver(d, e, c))
  BY <1>3, <1>4, SessionOverGood DEF Good
<1>6. QED  BY <1>2, <1>5

(* Power on.                                                               *)
LEMMA BootGood ==
  ASSUME NEW b \in Address, NEW c \in Answers
  PROVE  Good(Boot(b, c))
<1>1. Good(Reset(b))
  <2>1. Reset(b) \in Device
    BY ZeroAuthFails DEF Reset, Device, State, Mode, HostConn, Address
  <2>2. QED  BY <2>1 DEF Reset, Good
<1>2. BootAttempts \in Budgets
  BY DEF Budgets
<1>3. QED  BY <1>1, <1>2, ReconnectGood DEF Boot

-----------------------------------------------------------------------------
(* The actions.                                                            *)

(* Every open channel has a link under it, and no channel opens while a    *)
(* link is torn down, so the channels that go with it are the doomed ones. *)
OpenIsLinked ==
  \A ch \in chan : ch.open => /\ ch.peer \in link
                              /\ ch.peer = dropping => ch \in doomed

IInv == TypeOK /\ Good(dev) /\ OpenIsLinked

LEMMA NewCidTyped == NewCid \subseteq Cid /\ NewCid \cup {0} \subseteq Answers
BY DEF NewCid, FreshCid, Answers

(* A handler that may have asked for a channel adds no open one.           *)
LEMMA HandledTyped ==
  ASSUME NEW d, Good(d), NEW rest \in SUBSET Channel, NEW c \in Answers,
         Handled(d, rest, c)
  PROVE  /\ dev' = d
         /\ chan' \subseteq Channel
         /\ \A ch \in chan' : ch.open => ch \in rest
<1> DEFINE asked == [cid |-> c, peer |-> d.connected, ours |-> TRUE,
                     open |-> FALSE,
                     psm |-> IF d.control = c THEN "CONTROL" ELSE "INTERRUPT"]
<1>1. dev' = d /\ chan' \subseteq rest \cup {asked}
  BY DEF Handled
<1>2. c # 0 => asked \in Channel
  BY DEF Channel, Answers, Psm, Good, Device
<1>3. c = 0 => chan' \subseteq rest
  BY DEF Handled
<1>4. ~asked.open
  OBVIOUS
<1> HIDE DEF asked
<1>5. QED  BY <1>1, <1>2, <1>3, <1>4

LEMMA InitIInv == Init => IInv
<1> SUFFICES ASSUME NEW b \in Address, NEW c \in {0} \cup {n \in Cid : n = 1},
                    dev = Boot(b, c),
                    chan = IF dev.control = 0 THEN {}
                           ELSE {[cid |-> c, psm |-> "CONTROL", peer |-> b,
                                  ours |-> TRUE, open |-> FALSE]},
                    link = {}, spent = {}, dropping = NoPeer, doomed = {}
             PROVE  IInv
  BY DEF Init
<1>1. c \in Answers
  BY DEF Answers
<1>2. Good(dev)
  BY <1>1, BootGood
<1>3. c = 0 => dev.control = 0
  <2>1. Reset(b).control = 0 /\ Reset(b).active = FALSE /\ Reset(b).state = "IDLE"
    BY DEF Reset
  <2>2. QED
    BY <2>1 DEF Boot, Reset, Reconnect, InitiateClient, OnFailure,
                ManagerStart, ManagerStop, StartAdvertising
<1>4. chan \subseteq Channel
  <2>1. CASE c = 0
    BY <1>3, <2>1
  <2>2. CASE c # 0
    <3> DEFINE asked == [cid |-> c, psm |-> "CONTROL", peer |-> b,
                         ours |-> TRUE, open |-> FALSE]
    <3>1. asked \in Channel
      BY <1>1, <2>2 DEF Channel, Psm, Answers
    <3> HIDE DEF asked
    <3>2. chan = {} \/ chan = {asked}
      BY DEF asked
    <3>3. QED  BY <3>1, <3>2
  <2>3. QED  BY <2>1, <2>2
<1>5. QED
  BY <1>2, <1>4 DEF IInv, TypeOK, Good, OpenIsLinked

(* What the actions with a handler have in common: nothing but the device, *)
(* the channels and the consoles that are spent may have changed.          *)
LEMMA DeviceStep ==
  ASSUME IInv, Good(dev'), chan' \subseteq Channel,
         \A ch \in chan' : ch.open => \/ ch \in chan
                                      \/ ch.peer \in link /\ dropping = NoPeer,
         spent' \subseteq link, UNCHANGED <<link, dropping, doomed>>
  PROVE  IInv'
<1>1. TypeOK'
  BY DEF IInv, TypeOK, Good
<1>2. OpenIsLinked'
  BY ConstantsAssumption DEF IInv, OpenIsLinked, TypeOK
<1>3. QED  BY <1>1, <1>2 DEF IInv

LEMMA LinkUpIInv == ASSUME IInv, NEW p \in Peer, LinkUp(p) PROVE IInv'
<1> DEFINE e == [dev EXCEPT !.connected = p, !.handle = p]
<1>1. Good(e)
  <2>1. e \in Device
    BY DEF IInv, Good, Device, Address
  <2>2. /\ e.active = dev.active /\ e.timer = dev.timer
        /\ e.attempt = dev.attempt /\ e.max = dev.max /\ e.state = dev.state
        /\ e.gap = dev.gap /\ e.isConnected = dev.isConnected
        /\ e.control = dev.control /\ e.interrupt = dev.interrupt
    BY DEF IInv, Good, Device
  <2>3. QED  BY <2>1, <2>2 DEF IInv, Good
<1>2. dev' = e /\ link' = link \cup {p} /\ UNCHANGED <<chan, spent, dropping, doomed>>
  BY DEF LinkUp
<1> HIDE DEF e
<1>3. TypeOK'
  BY <1>1, <1>2 DEF IInv, TypeOK, Good
<1>4. OpenIsLinked'
  BY <1>2 DEF IInv, OpenIsLinked
<1>5. QED  BY <1>1, <1>2, <1>3, <1>4 DEF IInv

LEMMA IncomingIInv ==
  ASSUME IInv, NEW p \in Peer, NEW psm \in Psm, Incoming(p, psm) PROVE IInv'
<1>1. PICK cid \in NewCid :
        /\ chan' = chan \cup {[cid |-> cid, psm |-> psm, peer |-> p,
                               ours |-> FALSE, open |-> FALSE]}
        /\ dev' = IF psm = "CONTROL"
                  THEN [dev EXCEPT !.control = cid, !.handle = p,
                                   !.state = "CONTROL_CONNECTED"]
                  ELSE [dev EXCEPT !.interrupt = cid]
  BY DEF Incoming
<1>2. cid \in Cid /\ cid # 0
  BY NewCidTyped, ConstantsAssumption DEF Cid
<1>3. chan' \subseteq Channel /\ \A ch \in chan' : ch.open => ch \in chan
  <2> DEFINE asked == [cid |-> cid, psm |-> psm, peer |-> p,
                       ours |-> FALSE, open |-> FALSE]
  <2>1. asked \in Channel /\ ~asked.open
    BY <1>2 DEF Channel, Address
  <2>2. chan' = chan \cup {asked}
    BY <1>1
  <2> HIDE DEF asked
  <2>3. QED  BY <2>1, <2>2 DEF IInv, TypeOK
<1> DEFINE e == [dev EXCEPT !.control = cid, !.handle = p,
                            !.state = "CONTROL_CONNECTED"]
           f == [dev EXCEPT !.interrupt = cid]
<1>4. Good(e)
  <2>1. e \in Device
    BY <1>2 DEF IInv, Good, Device, Address, State
  <2>2. /\ e.active = dev.active /\ e.timer = dev.timer
        /\ e.attempt = dev.attempt /\ e.max = dev.max
        /\ e.state = "CONTROL_CONNECTED"
    BY DEF IInv, Good, Device
  <2>3. QED  BY <2>1, <2>2 DEF IInv, Good
<1>5. Good(f)
  <2>1. f \in Device
    BY <1>2 DEF IInv, Good, Device
  <2>2. /\ f.active = dev.active /\ f.timer = dev.timer
        /\ f.attempt = dev.attempt /\ f.max = dev.max /\ f.state = dev.state
        /\ f.gap = dev.gap /\ f.isConnected = dev.isConnected
        /\ f.interrupt = cid
    BY DEF IInv, Good, Device
  <2>3. QED  BY <1>2, <2>1, <2>2 DEF IInv, Good
<1>6. dev' = e \/ dev' = f
  BY <1>1
<1> HIDE DEF e, f
<1>7. Good(dev')
  BY <1>4, <1>5, <1>6
<1>8. spent' \subseteq link /\ UNCHANGED <<link, dropping, doomed>>
  BY DEF Incoming, IInv, TypeOK
<1>9. QED  BY <1>3, <1>7, <1>8, DeviceStep

LEMMA OpenedIInv == ASSUME IInv, NEW ch \in chan, Opened(ch) PROVE IInv'
<1>1. ch \in Channel /\ ch.peer \in link /\ dropping = NoPeer
  BY DEF IInv, TypeOK, Opened, Quiet
<1> DEFINE rest == (chan \ {ch}) \cup {[ch EXCEPT !.open = TRUE]}
           d(c) == IF ch.psm = "CONTROL" THEN ControlOpened(dev, ch.cid, c)
                   ELSE InterruptOpened(dev, ch.cid)
<1>2. PICK c \in NewCid \cup {0} : Handled(d(c), rest, c)
  BY DEF Opened
<1>3. c \in Answers /\ ch.cid \in Cid
  BY <1>1, NewCidTyped DEF Channel
<1>4. Good(d(c))
  BY <1>3, ControlOpenedGood, InterruptOpenedGood DEF IInv
<1> HIDE DEF d
<1>5. rest \in SUBSET Channel
  BY <1>1 DEF IInv, TypeOK, Channel
<1>6. \A o \in rest : o \in chan \/ o.peer \in link
  BY <1>1 DEF Channel
<1> HIDE DEF rest
<1>7. dev' = d(c) /\ chan' \subseteq Channel /\ \A o \in chan' : o.open => o \in rest
  BY <1>2, <1>3, <1>4, <1>5, HandledTyped
<1>8. spent' \subseteq link /\ UNCHANGED <<link, dropping, doomed>>
  BY DEF Opened, IInv, TypeOK
<1>9. QED  BY <1>1, <1>4, <1>6, <1>7, <1>8, DeviceStep

LEMMA FailedIInv == ASSUME IInv, NEW ch \in chan, Failed(ch) PROVE IInv'
<1>1. Good(dev')
  BY ChannelFailedGood DEF Failed, IInv
<1>2. /\ chan' \subseteq Channel /\ \A o \in chan' : o \in chan
      /\ spent' \subseteq link /\ UNCHANGED <<link, dropping, doomed>>
  BY DEF Failed, IInv, TypeOK
<1>3. QED  BY <1>1, <1>2, DeviceStep

LEMMA ClosedIInv == ASSUME IInv, NEW ch \in chan, Closed(ch) PROVE IInv'
<1>1. ch \in Channel /\ ch.peer \in link
  BY DEF IInv, TypeOK, OpenIsLinked, Closed
<1>2. PICK c \in NewCid \cup {0} :
        Handled(ChannelClosed(dev, ch.cid, c), chan \ {ch}, c)
  BY DEF Closed
<1>3. c \in Answers /\ ch.cid \in Cid
  BY <1>1, NewCidTyped DEF Channel
<1>4. Good(ChannelClosed(dev, ch.cid, c))
  BY <1>3, ChannelClosedGood DEF IInv
<1>5. chan \ {ch} \in SUBSET Channel
  BY DEF IInv, TypeOK
<1>6. /\ dev' = ChannelClosed(dev, ch.cid, c) /\ chan' \subseteq Channel
      /\ \A o \in chan' : o.open => o \in chan
  BY <1>2, <1>3, <1>4, <1>5, HandledTyped
<1>7. spent' \subseteq link /\ UNCHANGED <<link, dropping, doomed>>
  BY <1>1 DEF Closed, IInv, TypeOK
<1>8. QED  BY <1>4, <1>6, <1>7, DeviceStep

LEMMA LinkDropsIInv == ASSUME IInv, NEW p, LinkDrops(p) PROVE IInv'
<1>1. TypeOK'
  BY DEF LinkDrops, IInv, TypeOK, ChannelsOf
<1>2. OpenIsLinked'
  BY DEF LinkDrops, IInv, OpenIsLinked, ChannelsOf
<1>3. Good(dev')
  BY DEF LinkDrops, IInv
<1>4. QED  BY <1>1, <1>2, <1>3 DEF IInv

LEMMA LinkGoneIInv == ASSUME IInv, LinkGone PROVE IInv'
<1>1. PICK c \in NewCid \cup {0} : Handled(Disconnected(dev, c), chan, c)
  BY DEF LinkGone
<1>2. c \in Answers
  BY NewCidTyped
<1>3. Good(Disconnected(dev, c))
  BY <1>2, DisconnectedGood DEF IInv
<1>4. /\ dev' = Disconnected(dev, c) /\ chan' \subseteq Channel
      /\ \A ch \in chan' : ch.open => ch \in chan
  BY <1>1, <1>2, <1>3, HandledTyped DEF IInv, TypeOK
<1>5. TypeOK'
  BY <1>3, <1>4 DEF LinkGone, IInv, TypeOK, Good
<1>6. OpenIsLinked'
  BY <1>4, ConstantsAssumption DEF LinkGone, IInv, OpenIsLinked, TypeOK
<1>7. QED  BY <1>3, <1>4, <1>5, <1>6 DEF IInv

LEMMA RetryTimerIInv == ASSUME IInv, RetryTimer PROVE IInv'
<1>1. PICK c \in NewCid \cup {0} : Handled(RetryFires(dev, c), chan, c)
  BY DEF RetryTimer
<1>2. c \in Answers
  BY NewCidTyped
<1>3. Good(RetryFires(dev, c))
  BY <1>2, RetryFiresGood DEF IInv, RetryTimer
<1>4. /\ dev' = RetryFires(dev, c) /\ chan' \subseteq Channel
      /\ \A ch \in chan' : ch.open => ch \in chan
  BY <1>1, <1>2, <1>3, HandledTyped DEF IInv, TypeOK
<1>5. spent' \subseteq link /\ UNCHANGED <<link, dropping, doomed>>
  BY DEF RetryTimer, IInv, TypeOK
<1>6. QED  BY <1>3, <1>4, <1>5, DeviceStep

(* The host's commands change the device only, through handlers.           *)
LEMMA HostConnGood ==
  ASSUME NEW d, Good(d), NEW h \in HostConn
  PROVE  Good([d EXCEPT !.hostConn = h])
<1> DEFINE e == [d EXCEPT !.hostConn = h]
<1>1. e \in Device
  BY DEF Good, Device
<1>2. /\ e.active = d.active /\ e.timer = d.timer
      /\ e.attempt = d.attempt /\ e.max = d.max /\ e.state = d.state
      /\ e.gap = d.gap /\ e.isConnected = d.isConnected
      /\ e.control = d.control /\ e.interrupt = d.interrupt
  BY DEF Good, Device
<1>3. QED  BY <1>1, <1>2 DEF Good

LEMMA HostIInv ==
  ASSUME IInv,
         \/ HostStartAdvertising \/ HostStopAdvertising
         \/ HostReconnect \/ HostForgetBonding
  PROVE  IInv'
<1>1. ASSUME Good(dev'), UNCHANGED <<chan, link, spent, dropping, doomed>>
      PROVE  IInv'
  BY <1>1, DeviceStep DEF IInv, TypeOK
<1>2. CASE HostStartAdvertising
  <2>1. Good(StartAdvertising(dev)) /\ "ADVERTISING" \in HostConn
    BY StartAdvertisingGood DEF IInv, HostConn
  <2>2. Good(dev')
    BY <1>2, <2>1, HostConnGood DEF HostStartAdvertising
  <2>3. QED  BY <1>1, <1>2, <2>2 DEF HostStartAdvertising
<1>3. CASE HostStopAdvertising
  <2>1. Good(StopAdvertising(dev)) /\ "DISCONNECTED" \in HostConn
    BY StopAdvertisingGood DEF IInv, HostConn
  <2>2. Good(dev')
    BY <1>3, <2>1, HostConnGood DEF HostStopAdvertising
  <2>3. QED  BY <1>1, <1>3, <2>2 DEF HostStopAdvertising
<1>4. CASE HostReconnect
  <2> DEFINE d(c) == Reconnect(dev, dev.bond, UserAttempts, c)
  <2>1. PICK c \in NewCid \cup {0} : Handled(d(c), chan, c)
    BY <1>4 DEF HostReconnect
  <2>2. c \in Answers /\ dev.bond \in Address /\ UserAttempts \in Budgets
    BY NewCidTyped DEF IInv, Good, Device, Budgets
  <2>3. Good(d(c))
    BY <2>2, ReconnectGood DEF IInv
  <2> HIDE DEF d
  <2>4. /\ dev' = d(c) /\ chan' \subseteq Channel
        /\ \A ch \in chan' : ch.open => ch \in chan
    BY <2>1, <2>2, <2>3, HandledTyped DEF IInv, TypeOK
  <2>5. spent' \subseteq link /\ UNCHANGED <<link, dropping, doomed>>
    BY <1>4 DEF HostReconnect, IInv, TypeOK
  <2>6. QED  BY <2>3, <2>4, <2>5, DeviceStep
<1>5. CASE HostForgetBonding
  BY <1>1, <1>5, ClearBondingGood DEF HostForgetBonding, IInv
<1>6. QED  BY <1>2, <1>3, <1>4, <1>5

(* A restart, with the bond or without.                                    *)
LEMMA BootsWithIInv == ASSUME NEW b \in Address, BootsWith(b) PROVE IInv'
<1>1. PICK c \in {0} \cup {n \in Cid : n = 1} : Handled(Boot(b, c), {}, c)
  BY DEF BootsWith
<1>2. c \in Answers
  BY DEF Answers
<1>3. Good(Boot(b, c))
  BY <1>2, BootGood
<1>4. /\ dev' = Boot(b, c) /\ chan' \subseteq Channel
      /\ \A ch \in chan' : ~ch.open
  BY <1>1, <1>2, <1>3, HandledTyped
<1>5. TypeOK'
  BY <1>3, <1>4 DEF BootsWith, TypeOK, Good
<1>6. OpenIsLinked'
  BY <1>4 DEF OpenIsLinked
<1>7. QED  BY <1>3, <1>4, <1>5, <1>6 DEF IInv

LEMMA NextIInv == IInv /\ [Next]_vars => IInv'
<1> SUFFICES ASSUME IInv, [Next]_vars PROVE IInv'
  OBVIOUS
<1>1. ASSUME NEW p \in Peer, LinkUp(p) \/ LinkDrops(p) PROVE IInv'
  BY <1>1, LinkUpIInv, LinkDropsIInv
<1>2. ASSUME NEW p \in Peer, NEW psm \in Psm, Incoming(p, psm) PROVE IInv'
  BY <1>2, IncomingIInv
<1>3. ASSUME NEW ch \in chan, Opened(ch) \/ Failed(ch) \/ Closed(ch) PROVE IInv'
  BY <1>3, OpenedIInv, FailedIInv, ClosedIInv
<1>4. ASSUME NEW ch \in chan, TornSave(ch) PROVE IInv'
  BY <1>4, BootsWithIInv DEF TornSave, Address
<1>5. CASE LinkGone
  BY <1>5, LinkGoneIInv
<1>6. CASE RetryTimer
  BY <1>6, RetryTimerIInv
<1>7. CASE \/ HostStartAdvertising \/ HostStopAdvertising
           \/ HostReconnect \/ HostForgetBonding
  BY <1>7, HostIInv
<1>8. CASE HostDisconnect
  BY <1>8, LinkDropsIInv DEF HostDisconnect
<1>9. CASE Restart
  <2>1. dev.bond \in Address
    BY DEF IInv, Good, Device
  <2>2. QED  BY <1>9, <2>1, BootsWithIInv DEF Restart
<1>10. CASE UNCHANGED vars
  BY <1>10 DEF vars, IInv, TypeOK, Good, OpenIsLinked
<1>11. QED
  BY <1>1, <1>2, <1>3, <1>4, <1>5, <1>6, <1>7, <1>8, <1>9, <1>10 DEF Next

(* The state of the firmware is of its type in every reachable state, and  *)
(* the invariant that the handlers preserve holds throughout.              *)
THEOREM Inductive == Spec => []IInv
BY InitIInv, NextIInv, PTL DEF Spec

(* Type correctness of the whole component.                                *)
THEOREM TypeCorrect == Spec => []TypeOK
BY Inductive, PTL DEF IInv

(* reconnect_manager.c: no session, for whatever policies, makes more      *)
(* attempts than its policy allows, and no timer outlives its session.     *)
THEOREM RetriesBounded == Spec => []RetryWithinBudget
<1>1. IInv => RetryWithinBudget
  BY DEF IInv, Good, RetryWithinBudget
<1>2. QED  BY Inductive, <1>1, PTL

(* bt_hid.c: RECONNECTING never without an open session.                   *)
THEOREM ReconnectingManaged == Spec => []ReconnectingIsManaged
<1>1. IInv => ReconnectingIsManaged
  BY DEF IInv, Good, ReconnectingIsManaged
<1>2. QED  BY Inductive, <1>1, PTL

(* bt_hid.c: the scan mode of the radio matches ADVERTISING and READY.     *)
THEOREM RadioMatches == Spec => []RadioMatchesState
<1>1. IInv => RadioMatchesState
  BY DEF IInv, Good, RadioMatchesState
<1>2. QED  BY Inductive, <1>1, PTL

(* bt_hid.c and main.c: READY was announced and can still end.             *)
THEOREM ReadyAnnounced == Spec => []ReadyIsAnnounced
<1>1. IInv => ReadyIsAnnounced
  BY DEF IInv, Good, ReadyIsAnnounced
<1>2. QED  BY Inductive, <1>1, PTL

-----------------------------------------------------------------------------
(* Refinement.  The mapping reads the session from the fields of           *)
(* reconnect_manager.c.                                                    *)

SameSession(d, e) == /\ e.active = d.active
                     /\ e.timer = d.timer
                     /\ e.attempt = d.attempt
                     /\ e.max = d.max

AfterFailure(n, max) == IF n >= max THEN "off" ELSE "waiting"

Started(e) == /\ e.max \in Budgets
              /\ e.attempt = 1
              /\ PhaseOf(e) \in {"trying", AfterFailure(1, e.max)}

FailedOnce(d, e) == /\ d.active
                    /\ PhaseOf(e) = AfterFailure(d.attempt, d.max)
                    /\ e.attempt = d.attempt
                    /\ e.max = d.max

Retried(d, e) == /\ d.active /\ d.timer
                 /\ e.attempt = d.attempt + 1
                 /\ PhaseOf(e) \in {"trying", AfterFailure(d.attempt + 1, d.max)}
                 /\ e.max = d.max

Ended(d, e) == /\ d.active
               /\ ~e.active
               /\ e.attempt = d.attempt
               /\ e.max = d.max

(* The same four steps are the abstract specification's actions.           *)
SessionStep(d, e) == \/ SameSession(d, e) \/ Started(e)
                     \/ FailedOnce(d, e) \/ Retried(d, e) \/ Ended(d, e)

-----------------------------------------------------------------------------
(* The handlers.                                                           *)

(* Advertising ends the session of an attempt under way, no other.         *)
LEMMA StartAdvertisingSession ==
  ASSUME NEW d, Good(d)
  PROVE  /\ d.state # "RECONNECTING" => SameSession(d, StartAdvertising(d))
         /\ d.state = "RECONNECTING" => Ended(d, StartAdvertising(d))
<1>1. ASSUME d.state # "RECONNECTING"
      PROVE  SameSession(d, StartAdvertising(d))
  BY <1>1 DEF SameSession, StartAdvertising, Good, Device
<1>2. ASSUME d.state = "RECONNECTING"
      PROVE  Ended(d, StartAdvertising(d))
  <2> DEFINE m == ManagerStop(d)
  <2>1. /\ m \in Device /\ ~m.active /\ m.attempt = d.attempt
        /\ m.max = d.max /\ d.active
    BY <1>2 DEF ManagerStop, Good, Device
  <2>2. StartAdvertising(d) =
          [m EXCEPT !.state = "ADVERTISING", !.mode = "SERVER", !.gap = TRUE]
    BY <1>2 DEF StartAdvertising
  <2> HIDE DEF m
  <2>3. QED  BY <2>1, <2>2 DEF Ended, Device
<1>3. QED  BY <1>1, <1>2

LEMMA StopAdvertisingSession ==
  ASSUME NEW d, Good(d) PROVE SameSession(d, StopAdvertising(d))
BY DEF SameSession, StopAdvertising, Good, Device

(* A reported failure: the wait or the end, if a session is open.          *)
LEMMA OnFailureSession ==
  ASSUME NEW d, Good(d), d.state = "IDLE"
  PROVE  IF d.active THEN FailedOnce(d, OnFailure(d))
                     ELSE SameSession(d, OnFailure(d))
<1>1. CASE ~d.active
  BY <1>1 DEF OnFailure, SameSession
<1>2. CASE d.active /\ d.attempt >= d.max
  <2> DEFINE m == ManagerStop(d)
             e == [m EXCEPT !.inProgress = FALSE]
  <2>1. /\ m \in Device /\ ~m.active /\ ~m.timer /\ m.attempt = d.attempt
        /\ m.max = d.max /\ m.state = "IDLE"
    BY DEF ManagerStop, Good, Device
  <2> HIDE DEF m
  <2>2. /\ e \in Device /\ ~e.active /\ ~e.timer /\ e.attempt = d.attempt
        /\ e.max = d.max /\ e.state = "IDLE"
    BY <2>1 DEF Device
  <2>3. OnFailure(d) = StartAdvertising(e)
    BY <1>2 DEF OnFailure, m
  <2> HIDE DEF e
  <2>4. SameSession(e, StartAdvertising(e))
    BY <2>2, StartAdvertisingSession DEF Good
  <2>5. QED
    BY <1>2, <2>2, <2>3, <2>4 DEF FailedOnce, SameSession, PhaseOf, AfterFailure
<1>3. CASE d.active /\ ~(d.attempt >= d.max)
  <2> DEFINE e == [d EXCEPT !.timer = TRUE]
  <2>1. OnFailure(d) = e
    BY <1>3 DEF OnFailure
  <2>2. e.active /\ e.timer /\ e.attempt = d.attempt /\ e.max = d.max
    BY <1>3 DEF Good, Device
  <2> HIDE DEF e
  <2>3. QED  BY <1>3, <2>1, <2>2 DEF FailedOnce, PhaseOf, AfterFailure
<1>4. QED  BY <1>1, <1>2, <1>3

(* An attempt is under way, or has failed on the spot.                     *)
LEMMA InitiateClientSession ==
  ASSUME NEW d, Good(d), d.active, ~d.timer, NEW p \in Address, NEW c \in Answers
  PROVE  LET e == InitiateClient(d, p, c)
         IN  /\ PhaseOf(e) \in {"trying", AfterFailure(d.attempt, d.max)}
             /\ e.attempt = d.attempt
             /\ e.max = d.max
<1> DEFINE e == [d EXCEPT !.mode = "CLIENT", !.connected = p]
           f == [e EXCEPT !.state = "IDLE"]
           g == [e EXCEPT !.state = "RECONNECTING", !.control = c]
<1>1. e \in Device /\ SameSession(d, e)
  BY DEF Good, Device, Mode, SameSession
<1> HIDE DEF e
<1>2. CASE c = 0
  <2>1. f \in Device /\ SameSession(d, f) /\ f.state = "IDLE"
    BY <1>1 DEF Device, State, SameSession
  <2>2. InitiateClient(d, p, c) = OnFailure(f)
    BY <1>2 DEF InitiateClient, e
  <2> HIDE DEF f
  <2>3. Good(f)
    BY <2>1 DEF Good, SameSession
  <2>4. FailedOnce(f, OnFailure(f))
    BY <2>1, <2>3, OnFailureSession DEF SameSession
  <2>5. QED  BY <2>1, <2>2, <2>4 DEF FailedOnce, SameSession
<1>3. CASE c # 0
  <2>1. SameSession(d, g)
    BY <1>1 DEF Device, SameSession
  <2>2. InitiateClient(d, p, c) = g
    BY <1>3 DEF InitiateClient, e
  <2> HIDE DEF g
  <2>3. QED  BY <2>1, <2>2 DEF SameSession, PhaseOf
<1>4. QED  BY <1>2, <1>3

(* bt_hid_reconnect replaces whatever session there is, unless READY.      *)
LEMMA ReconnectSession ==
  ASSUME NEW d, Good(d), NEW p \in Address, NEW max \in Budgets, NEW c \in Answers
  PROVE  \/ SameSession(d, Reconnect(d, p, max, c))
         \/ Started(Reconnect(d, p, max, c))
<1> DEFINE e == IF d.state = "ADVERTISING" THEN StopAdvertising(d) ELSE d
           m == ManagerStart(e, max)
           f == [m EXCEPT !.state = "IDLE", !.target = p, !.inProgress = TRUE]
<1>1. CASE d.state = "READY"
  BY <1>1 DEF Reconnect, SameSession
<1>2. CASE d.state # "READY"
  <2>1. Good(e)
    BY StopAdvertisingGood
  <2>2. max \in Nat \ {0}
    BY ConstantsAssumption DEF Budgets
  <2>3. Reconnect(d, p, max, c) = InitiateClient(f, p, c)
    BY <1>2 DEF Reconnect
  <2> HIDE DEF e
  <2>4. m \in Device /\ m.active /\ ~m.timer /\ m.attempt = 1 /\ m.max = max
    BY <2>1, <2>2 DEF Good, Device, ManagerStart
  <2> HIDE DEF m
  <2>5. f \in Device
    BY <2>4 DEF Device, State
  <2>6. /\ f.active /\ ~f.timer /\ f.attempt = 1 /\ f.max = max
        /\ f.state = "IDLE"
    BY <2>4 DEF Device
  <2> HIDE DEF f
  <2>7. Good(f)
    BY <2>2, <2>5, <2>6 DEF Good
  <2>8. QED
    BY <2>3, <2>6, <2>7, InitiateClientSession DEF Started
<1>3. QED  BY <1>1, <1>2

(* The retry timer makes the next attempt.                                 *)
LEMMA RetryFiresSession ==
  ASSUME NEW d, Good(d), d.timer, NEW c \in Answers
  PROVE  Retried(d, RetryFires(d, c))
<1> DEFINE e == [d EXCEPT !.timer = FALSE]
           n == d.attempt + 1
           f == [e EXCEPT !.attempt = n]
<1>1. d.active /\ n \in 1..d.max /\ n \in Nat /\ d.max \in Nat
  BY ConstantsAssumption DEF Good, Device, Budgets
<1>2. /\ e \in Device /\ e.active /\ ~e.timer /\ e.attempt = d.attempt
      /\ e.max = d.max /\ e.state = d.state /\ e.gap = d.gap
      /\ e.control = d.control /\ e.interrupt = d.interrupt
      /\ e.isConnected = d.isConnected
  BY <1>1 DEF Good, Device
<1>3. RetryFires(d, c) = InitiateClient(f, d.target, c)
  BY <1>1, <1>2 DEF RetryFires
<1> HIDE DEF e, n
<1>4. f \in Device
  BY <1>1, <1>2 DEF Device
<1>5. /\ f.active /\ ~f.timer /\ f.attempt = n /\ f.max = d.max
      /\ f.state = d.state /\ f.gap = d.gap /\ f.control = d.control
      /\ f.interrupt = d.interrupt /\ f.isConnected = d.isConnected
  BY <1>2 DEF Device
<1>6. d.target \in Address
  BY DEF Good, Device
<1> HIDE DEF f
<1>7. Good(f)
  BY <1>1, <1>4, <1>5 DEF Good
<1>8. /\ PhaseOf(RetryFires(d, c)) \in {"trying", AfterFailure(n, d.max)}
      /\ RetryFires(d, c).attempt = n
      /\ RetryFires(d, c).max = d.max
  BY <1>3, <1>5, <1>6, <1>7, InitiateClientSession
<1>9. QED  BY <1>1, <1>8 DEF Retried, n

(* A lost session may begin a reconnection session.                        *)
LEMMA CallbackDownSession ==
  ASSUME NEW d, Good(d), d.state = "IDLE", NEW c \in Answers
  PROVE  SameSession(d, CallbackDown(d, c)) \/ Started(CallbackDown(d, c))
<1> DEFINE e == [d EXCEPT !.isConnected = FALSE, !.hostConn = "DISCONNECTED"]
<1>1. Good(e) /\ d.bond \in Address
  BY DEF Good, Device, HostConn
<1>2. SameSession(d, e)
  BY DEF Good, Device, SameSession
<1>3. AutoAttempts \in Budgets
  BY DEF Budgets
<1>4. CallbackDown(d, c) = IF d.bond = NoPeer THEN e
                           ELSE Reconnect(e, d.bond, AutoAttempts, c)
  BY DEF CallbackDown
<1> HIDE DEF e
<1>5. \/ SameSession(e, Reconnect(e, d.bond, AutoAttempts, c))
      \/ Started(Reconnect(e, d.bond, AutoAttempts, c))
  BY <1>1, <1>3, ReconnectSession
<1>6. QED  BY <1>2, <1>4, <1>5 DEF SameSession

(* Forgetting the bond calls off the attempt under way.                    *)
LEMMA ClearBondingSession ==
  ASSUME NEW d, Good(d)
  PROVE  SameSession(d, ClearBonding(d)) \/ Ended(d, ClearBonding(d))
<1> DEFINE e == [d EXCEPT !.bond = NoPeer]
           m == ManagerStop(e)
           f == [m EXCEPT !.state = "IDLE"]
<1>1. e \in Device /\ SameSession(d, e)
  BY DEF Good, Device, Address, SameSession
<1>2. ClearBonding(d) = IF d.state = "RECONNECTING" THEN f ELSE e
  BY DEF ClearBonding
<1> HIDE DEF e
<1>3. m \in Device /\ ~m.active /\ m.attempt = d.attempt /\ m.max = d.max
  BY <1>1 DEF Device, ManagerStop, SameSession
<1> HIDE DEF m
<1>4. ~f.active /\ f.attempt = d.attempt /\ f.max = d.max
  BY <1>3 DEF Device
<1> HIDE DEF f
<1>5. QED  BY <1>1, <1>2, <1>4 DEF Ended, Good

(* A channel that fails is a failed attempt, unless the device is          *)
(* connected, waits for a console, or gives up for want of a link key.     *)
LEMMA ChannelFailedSession ==
  ASSUME NEW d, Good(d), NEW security \in BOOLEAN
  PROVE  SessionStep(d, ChannelFailed(d, security))
<1> DEFINE fails == IF security THEN d.authFails + 1 ELSE d.authFails
<1>1. fails \in Nat /\ (~(fails >= AuthLimit) => fails \in AuthFails)
  BY ConstantsAssumption DEF Good, Device, AuthFails
<1>2. CASE d.state = "READY" \/ d.mode = "SERVER"
  BY <1>2 DEF ChannelFailed, SessionStep, SameSession
<1>3. CASE d.state # "READY" /\ d.mode = "CLIENT" /\ fails >= AuthLimit
  <2> DEFINE m == ManagerStop(d)
             e == [m EXCEPT !.authFails = 0, !.state = "IDLE", !.mode = "SERVER"]
  <2>1. ChannelFailed(d, security) = StartAdvertising(e)
    BY <1>3 DEF ChannelFailed
  <2>2. /\ m \in Device /\ ~m.active /\ ~m.timer /\ m.attempt = d.attempt
        /\ m.max = d.max
    BY DEF Good, Device, ManagerStop
  <2> HIDE DEF m
  <2>3. e \in Device
    BY <2>2, ZeroAuthFails DEF Device, State, Mode
  <2>4. /\ ~e.active /\ ~e.timer /\ e.attempt = d.attempt /\ e.max = d.max
        /\ e.state = "IDLE"
    BY <2>2 DEF Device
  <2> HIDE DEF e
  <2>5. SameSession(e, StartAdvertising(e))
    BY <2>3, <2>4, StartAdvertisingSession DEF Good
  <2>6. d.active \in BOOLEAN /\ d.timer \in BOOLEAN /\ (d.timer => d.active)
    BY DEF Good, Device
  <2>7. CASE d.active
    BY <2>1, <2>4, <2>5, <2>7 DEF SameSession, SessionStep, Ended
  <2>8. CASE ~d.active
    <3>1. e.active = d.active /\ e.timer = d.timer
      BY <2>3, <2>4, <2>6, <2>8 DEF Device
    <3>2. QED
      BY <2>1, <2>4, <2>5, <3>1 DEF SameSession, SessionStep
  <2>9. QED  BY <2>7, <2>8
<1>4. CASE ~(d.state = "READY" \/ d.mode = "SERVER") /\ ~(fails >= AuthLimit)
  <2> DEFINE e == [d EXCEPT !.authFails = fails, !.state = "IDLE"]
  <2>1. ChannelFailed(d, security) = OnFailure(e)
    BY <1>4 DEF ChannelFailed
  <2> HIDE DEF fails
  <2>2. e \in Device /\ SameSession(d, e) /\ e.state = "IDLE"
    BY <1>1, <1>4 DEF Good, Device, State, SameSession
  <2> HIDE DEF e
  <2>3. Good(e)
    BY <2>2 DEF Good, SameSession
  <2>4. QED
    BY <2>1, <2>2, <2>3, OnFailureSession
       DEF SessionStep, SameSession, FailedOnce
<1>5. d.mode \in {"SERVER", "CLIENT"}
  BY DEF Good, Device, Mode
<1>6. QED  BY <1>2, <1>3, <1>4, <1>5

(* The second channel may fail on the spot.                                *)
LEMMA ControlOpenedSession ==
  ASSUME NEW d, Good(d), NEW cid \in Cid, NEW c \in Answers
  PROVE  SessionStep(d, ControlOpened(d, cid, c))
<1> DEFINE e == [d EXCEPT !.control = cid, !.state = "CONTROL_CONNECTED"]
           f == [e EXCEPT !.state = "IDLE"]
           g == [e EXCEPT !.interrupt = c]
<1>1. e \in Device /\ SameSession(d, e)
  BY DEF Good, Device, State, SameSession
<1>2. ControlOpened(d, cid, c) \in {e, g, OnFailure(f)}
  BY DEF ControlOpened
<1> HIDE DEF e
<1>3. f \in Device /\ SameSession(d, f) /\ f.state = "IDLE"
  BY <1>1 DEF Device, State, SameSession
<1>4. SameSession(d, g)
  BY <1>1 DEF Device, SameSession
<1> HIDE DEF f, g
<1>5. Good(f)
  BY <1>3 DEF Good, SameSession
<1>6. SessionStep(d, OnFailure(f))
  BY <1>3, <1>5, OnFailureSession DEF SessionStep, SameSession, FailedOnce
<1>7. QED  BY <1>1, <1>2, <1>4, <1>6 DEF SessionStep

(* READY ends the session the firmware has as a client with success.       *)
LEMMA InterruptOpenedSession ==
  ASSUME NEW d, Good(d), NEW cid \in Cid
  PROVE  SessionStep(d, InterruptOpened(d, cid))
<1> DEFINE e == [d EXCEPT !.interrupt = cid]
           f == [e EXCEPT !.state = "READY", !.gap = FALSE, !.bond = d.connected]
           m == ManagerStop(f)
           h == [m EXCEPT !.authFails = 0, !.inProgress = FALSE]
<1>1. e \in Device /\ SameSession(d, e) /\ d.connected \in Address
  BY DEF Good, Device, SameSession
<1>2. InterruptOpened(d, cid) =
        IF d.control = 0 THEN e
        ELSE CallbackUp(IF d.mode = "CLIENT" /\ f.active THEN h ELSE f)
  BY DEF InterruptOpened, OnSuccess
<1> HIDE DEF e
<1>3. f \in Device /\ SameSession(d, f)
  BY <1>1 DEF Device, State, SameSession
<1> HIDE DEF f
<1>4. m \in Device /\ ~m.active /\ m.attempt = d.attempt /\ m.max = d.max
  BY <1>3 DEF Device, ManagerStop, SameSession
<1> HIDE DEF m
<1>5. h \in Device /\ ~h.active /\ h.attempt = d.attempt /\ h.max = d.max
  BY <1>4, ZeroAuthFails DEF Device
<1> HIDE DEF h
<1>6. ASSUME NEW x \in Device PROVE SameSession(x, CallbackUp(x))
  BY DEF SameSession, CallbackUp, Device
<1>7. SameSession(h, CallbackUp(h)) /\ SameSession(f, CallbackUp(f))
  BY <1>3, <1>5, <1>6
<1>8. f.active => Ended(d, CallbackUp(h))
  BY <1>3, <1>5, <1>7 DEF Ended, SameSession
<1>9. SameSession(d, CallbackUp(f))
  BY <1>3, <1>7 DEF SameSession
<1>10. QED  BY <1>1, <1>2, <1>8, <1>9 DEF SessionStep

(* The end of a connection may begin a reconnection session.               *)
LEMMA SessionOverSession ==
  ASSUME NEW d, Good(d), NEW e \in Device, NEW c \in Answers, SameSession(d, e)
  PROVE  SessionStep(d, SessionOver(d, e, c))
<1> DEFINE f == [e EXCEPT !.state = "IDLE", !.handle = NoPeer]
<1>1. f \in Device /\ f.state = "IDLE" /\ SameSession(d, f)
  BY DEF Device, State, Address, SameSession
<1>2. SessionOver(d, e, c) =
        IF d.state = "ADVERTISING" THEN StartAdvertising(f)
        ELSE IF d.state \in {"READY", "CONTROL_CONNECTED"}
             THEN CallbackDown(f, c) ELSE f
  BY DEF SessionOver
<1> HIDE DEF f
<1>3. Good(f)
  BY <1>1 DEF Good, SameSession
<1>4. SameSession(d, StartAdvertising(f))
  BY <1>1, <1>3, StartAdvertisingSession DEF SameSession
<1>5. SameSession(d, CallbackDown(f, c)) \/ Started(CallbackDown(f, c))
  BY <1>1, <1>3, CallbackDownSession DEF SameSession
<1>6. QED  BY <1>1, <1>2, <1>4, <1>5 DEF SessionStep

LEMMA ChannelClosedSession ==
  ASSUME NEW d, Good(d), NEW cid \in Cid, NEW c \in Answers
  PROVE  SessionStep(d, ChannelClosed(d, cid, c))
<1> DEFINE x == IF d.control = cid THEN 0 ELSE d.control
           y == IF d.interrupt = cid THEN 0 ELSE d.interrupt
           e == [d EXCEPT !.control = x, !.interrupt = y]
<1>1. x \in Cid \cup {0} /\ y \in Cid \cup {0}
  BY DEF Good, Device
<1>2. ChannelClosed(d, cid, c) = IF e.control = 0 /\ e.interrupt = 0
                                 THEN SessionOver(d, e, c) ELSE e
  BY DEF ChannelClosed, Good, Device
<1> HIDE DEF x, y
<1>3. e \in Device /\ SameSession(d, e)
  BY <1>1 DEF Good, Device, SameSession
<1> HIDE DEF e
<1>4. QED  BY <1>2, <1>3, SessionOverSession DEF SessionStep

LEMMA DisconnectedSession ==
  ASSUME NEW d, Good(d), NEW c \in Answers
  PROVE  SessionStep(d, Disconnected(d, c))
<1> DEFINE x == IF d.state = "RECONNECTING" \/ d.inProgress
                THEN d.mode ELSE "SERVER"
           e == [d EXCEPT !.control = 0, !.interrupt = 0, !.mode = x]
<1>1. x \in Mode
  BY DEF Good, Device, Mode
<1>2. Disconnected(d, c) = SessionOver(d, e, c)
  BY DEF Disconnected, Good, Device
<1> HIDE DEF x
<1>3. e \in Device /\ SameSession(d, e)
  BY <1>1 DEF Good, Device, SameSession
<1> HIDE DEF e
<1>4. QED  BY <1>2, <1>3, SessionOverSession

(* After power on: no session, or the BOOT session.                        *)
LEMMA BootSession ==
  ASSUME NEW b \in Address, NEW c \in Answers
  PROVE  LET e == Boot(b, c)
         IN  Started(e) \/ (~e.active /\ e.attempt = 0 /\ e.max = 0)
<1> DEFINE r == Reset(b)
<1>1. r.state = "IDLE" /\ ~r.active /\ r.attempt = 0 /\ r.max = 0
  BY DEF Reset
<1>2. r \in Device
  BY ZeroAuthFails DEF Reset, Device, State, Mode, HostConn, Address
<1>3. BootAttempts \in Budgets /\ BootAttempts \in Nat \ {0}
  BY ConstantsAssumption DEF Budgets
<1>4. Boot(b, c) = IF b = NoPeer THEN r ELSE Reconnect(r, b, BootAttempts, c)
  BY DEF Boot
<1> HIDE DEF r
<1> DEFINE m == ManagerStart(r, BootAttempts)
           f == [m EXCEPT !.state = "IDLE", !.target = b, !.inProgress = TRUE]
<1>5. Reconnect(r, b, BootAttempts, c) = InitiateClient(f, b, c)
  BY <1>1 DEF Reconnect
<1>6. /\ m \in Device /\ m.active /\ ~m.timer /\ m.attempt = 1
      /\ m.max = BootAttempts
  BY <1>2, <1>3 DEF Device, ManagerStart
<1> HIDE DEF m
<1>7. /\ f \in Device /\ f.active /\ ~f.timer /\ f.attempt = 1
      /\ f.max = BootAttempts /\ f.state = "IDLE"
  BY <1>6 DEF Device, State
<1> HIDE DEF f
<1>8. Good(f)
  BY <1>3, <1>7 DEF Good
<1>9. Started(InitiateClient(f, b, c))
  BY <1>3, <1>7, <1>8, InitiateClientSession DEF Started
<1>10. QED  BY <1>1, <1>4, <1>5, <1>9

-----------------------------------------------------------------------------
(* The actions.                                                            *)

LEMMA SessionStepImplements ==
  ASSUME SessionStep(dev, dev')
  PROVE  [Budget!Next]_(Budget!vars)
<1>1. CASE SameSession(dev, dev')
  <2>1. Phase' = Phase
    BY <1>1 DEF SameSession, Phase, PhaseOf
  <2>2. QED  BY <1>1, <2>1 DEF SameSession, Budget!vars
<1>2. CASE Started(dev')
  BY <1>2 DEF Started, Phase, Budget!Next, Budget!Start, AfterFailure,
              Budget!AfterFailure
<1>3. CASE FailedOnce(dev, dev')
  <2>1. Phase \in {"trying", "waiting"}
    BY <1>3 DEF FailedOnce, Phase, PhaseOf
  <2>2. Budget!Fail
    BY <1>3, <2>1 DEF FailedOnce, Phase, Budget!Fail, AfterFailure,
                      Budget!AfterFailure
  <2>3. QED  BY <2>2 DEF Budget!Next
<1>4. CASE Retried(dev, dev')
  <2>1. Phase = "waiting"
    BY <1>4 DEF Retried, Phase, PhaseOf
  <2>2. Budget!Retry
    BY <1>4, <2>1 DEF Retried, Phase, Budget!Retry, AfterFailure,
                      Budget!AfterFailure
  <2>3. QED  BY <2>2 DEF Budget!Next
<1>5. CASE Ended(dev, dev')
  <2>1. Phase # "off" /\ Phase' = "off"
    BY <1>5 DEF Ended, Phase, PhaseOf
  <2>2. Budget!End
    BY <1>5, <2>1 DEF Ended, Budget!End
  <2>3. QED  BY <2>2 DEF Budget!Next
<1>6. QED  BY <1>1, <1>2, <1>3, <1>4, <1>5 DEF SessionStep

LEMMA InitImplements == Init => Budget!Init
<1> SUFFICES ASSUME NEW b \in Address, NEW c \in {0} \cup {n \in Cid : n = 1},
                    dev = Boot(b, c)
             PROVE  Budget!Init
  BY DEF Init
<1>1. c \in Answers
  BY DEF Answers
<1>2. Started(dev) \/ (~dev.active /\ dev.attempt = 0 /\ dev.max = 0)
  BY <1>1, BootSession
<1>3. QED
  BY <1>2 DEF Started, Phase, PhaseOf, Budget!Init, AfterFailure,
              Budget!AfterFailure

LEMMA BootsWithImplements ==
  ASSUME NEW b \in Address, BootsWith(b) PROVE Budget!Next
<1>1. PICK c \in {0} \cup {n \in Cid : n = 1} : dev' = Boot(b, c)
  BY DEF BootsWith, Handled
<1>2. c \in Answers
  BY DEF Answers
<1>3. Started(dev') \/ (~dev'.active /\ dev'.attempt = 0 /\ dev'.max = 0)
  BY <1>1, <1>2, BootSession
<1>4. CASE Started(dev')
  BY <1>4 DEF Started, Phase, Budget!Next, Budget!Start, AfterFailure,
              Budget!AfterFailure
<1>5. CASE ~dev'.active /\ dev'.attempt = 0 /\ dev'.max = 0
  <2>1. Phase' = "off"
    BY <1>5 DEF Phase, PhaseOf
  <2>2. Budget!Restart
    BY <1>5, <2>1 DEF Budget!Restart, Budget!Init
  <2>3. QED  BY <2>2 DEF Budget!Next
<1>6. QED  BY <1>3, <1>4, <1>5

LEMMA NextImplements == IInv /\ [Next]_vars => [Budget!Next]_(Budget!vars)
<1> SUFFICES ASSUME IInv, [Next]_vars PROVE [Budget!Next]_(Budget!vars)
  OBVIOUS
<1> USE DEF SessionStep
<1>1. ASSUME NEW ch \in chan, Opened(ch) \/ Failed(ch) \/ Closed(ch)
      PROVE  SessionStep(dev, dev')
  <2>1. ch.cid \in Cid
    BY DEF IInv, TypeOK, Channel
  <2>2. CASE Opened(ch)
    <3>1. PICK c \in NewCid \cup {0} :
            dev' = IF ch.psm = "CONTROL" THEN ControlOpened(dev, ch.cid, c)
                   ELSE InterruptOpened(dev, ch.cid)
      BY <2>2 DEF Opened, Handled
    <3>2. c \in Answers
      BY NewCidTyped
    <3>3. QED
      BY <2>1, <3>1, <3>2, ControlOpenedSession, InterruptOpenedSession DEF IInv
  <2>3. CASE Failed(ch)
    BY <2>3, ChannelFailedSession DEF Failed, IInv
  <2>4. CASE Closed(ch)
    <3>1. PICK c \in NewCid \cup {0} : dev' = ChannelClosed(dev, ch.cid, c)
      BY <2>4 DEF Closed, Handled
    <3>2. c \in Answers
      BY NewCidTyped
    <3>3. QED  BY <2>1, <3>1, <3>2, ChannelClosedSession DEF IInv
  <2>5. QED  BY <1>1, <2>2, <2>3, <2>4
<1>2. CASE LinkGone
  <2>1. PICK c \in NewCid \cup {0} : dev' = Disconnected(dev, c)
    BY <1>2 DEF LinkGone, Handled
  <2>2. c \in Answers
    BY NewCidTyped
  <2>3. SessionStep(dev, dev')
    BY <2>1, <2>2, DisconnectedSession DEF IInv
  <2>4. QED  BY <2>3, SessionStepImplements
<1>3. CASE RetryTimer
  <2>1. PICK c \in NewCid \cup {0} : dev' = RetryFires(dev, c)
    BY <1>3 DEF RetryTimer, Handled
  <2>2. c \in Answers
    BY NewCidTyped
  <2>3. Retried(dev, dev')
    BY <1>3, <2>1, <2>2, RetryFiresSession DEF IInv, RetryTimer
  <2>4. QED  BY <2>3, SessionStepImplements
<1>4. CASE HostReconnect
  <2>1. PICK c \in NewCid \cup {0} :
          dev' = Reconnect(dev, dev.bond, UserAttempts, c)
    BY <1>4 DEF HostReconnect, Handled
  <2>2. c \in Answers /\ dev.bond \in Address /\ UserAttempts \in Budgets
    BY NewCidTyped DEF IInv, Good, Device, Budgets
  <2>3. SessionStep(dev, dev')
    BY <2>1, <2>2, ReconnectSession DEF IInv
  <2>4. QED  BY <2>3, SessionStepImplements
<1>5. CASE HostForgetBonding
  <2>1. SessionStep(dev, dev')
    BY <1>5, ClearBondingSession DEF IInv, HostForgetBonding
  <2>2. QED  BY <2>1, SessionStepImplements
<1>6. CASE HostStartAdvertising \/ HostStopAdvertising
  <2>1. PICK e : /\ e \in {StartAdvertising(dev), StopAdvertising(dev)}
                 /\ \E h \in HostConn : dev' = [e EXCEPT !.hostConn = h]
    BY <1>6 DEF HostStartAdvertising, HostStopAdvertising, HostConn
  <2>2. Good(e) /\ (SameSession(dev, e) \/ Ended(dev, e))
    BY <2>1, StartAdvertisingGood, StopAdvertisingGood,
       StartAdvertisingSession, StopAdvertisingSession DEF IInv
  <2>3. SameSession(e, dev')
    BY <2>1, <2>2 DEF Good, Device, SameSession
  <2>4. SessionStep(dev, dev')
    BY <2>2, <2>3 DEF SameSession, Ended
  <2>5. QED  BY <2>4, SessionStepImplements
<1>7. ASSUME \/ \E p \in Peer : LinkUp(p)
             \/ \E p \in Peer, psm \in Psm : Incoming(p, psm)
             \/ \E p \in Peer : LinkDrops(p)
             \/ HostDisconnect
             \/ UNCHANGED vars
      PROVE  SessionStep(dev, dev')
  BY ZenonT(60), <1>7 DEF LinkUp, Incoming, LinkDrops, HostDisconnect, vars, SameSession,
              IInv, Good, Device
<1>8. ASSUME NEW ch \in chan, TornSave(ch) PROVE Budget!Next
  BY <1>8, BootsWithImplements DEF TornSave, Address
<1>9. CASE Restart
  <2>1. dev.bond \in Address
    BY DEF IInv, Good, Device
  <2>2. QED  BY <1>9, <2>1, BootsWithImplements DEF Restart
<1>10. QED
  BY <1>1, <1>2, <1>3, <1>4, <1>5, <1>6, <1>7, <1>8, <1>9,
     SessionStepImplements DEF Next

(* bt_hid.c and main.c use reconnect_manager.c the way ReconnectBudget     *)
(* promises, for every policy and every behaviour of BTstack.              *)
THEOREM SessionsImplementBudget == Spec => RetriesAsPromised
<1>1. Spec => Budget!Init /\ [][Budget!Next]_(Budget!vars)
  BY InitImplements, NextImplements, Inductive, PTL DEF Spec
<1>2. QED  BY <1>1 DEF RetriesAsPromised, Budget!Spec

-----------------------------------------------------------------------------
(* A session beside advertising, and the events it waits for.              *)

(* What an open session implies, of any RAM: it is the client's, its       *)
(* console is known, and the device is neither in service nor advertising. *)
Apart(d) ==
  /\ d.active => /\ d.mode = "CLIENT" /\ d.inProgress
                 /\ d.state \notin {"READY", "ADVERTISING"}
                 /\ d.target \in Peer
  /\ d.mode = "CLIENT" => d.connected \in Peer

(* A handler that turns d into e and may have asked for channel c leaves   *)
(* an open session with an event to come: a timer, an answer, or what it   *)
(* had before.  It forgets no control channel but for c.                   *)
Asks(e, c) == c # 0 /\ c \in {e.control, e.interrupt}

Continues(d, e, c) ==
  /\ Apart(e)
  /\ e.active => e.timer \/ Asks(e, c) \/ (d.active /\ ~d.timer)

Calls(d, e, c) ==
  /\ \/ e.control = d.control
     \/ c # 0 /\ e.control = c /\ e.mode = "CLIENT"
  /\ e.interrupt = d.interrupt

(* Advertising is begun without a session: none is left.                   *)
LEMMA StartAdvertisingApart ==
  ASSUME NEW d \in Device, Apart(d), ~d.active
  PROVE  LET e == StartAdvertising(d)
         IN  /\ Apart(e) /\ ~e.active
             /\ e.control = d.control /\ e.interrupt = d.interrupt
<1> DEFINE f == [d EXCEPT !.state = "ADVERTISING", !.mode = "SERVER", !.gap = TRUE]
           m == ManagerStop(d)
           g == [m EXCEPT !.state = "ADVERTISING", !.mode = "SERVER", !.gap = TRUE]
<1>1. /\ f.mode = "SERVER" /\ f.active = d.active
      /\ f.control = d.control /\ f.interrupt = d.interrupt
  BY DEF Device
<1>2. m \in Device /\ ~m.active /\ m.control = d.control /\ m.interrupt = d.interrupt
  BY DEF Device, ManagerStop
<1> HIDE DEF m
<1>3. /\ g.mode = "SERVER" /\ ~g.active
      /\ g.control = d.control /\ g.interrupt = d.interrupt
  BY <1>2 DEF Device
<1>4. StartAdvertising(d) \in {d, f, g}
  BY DEF StartAdvertising, m
<1> HIDE DEF f, g
<1>5. QED  BY <1>1, <1>3, <1>4 DEF Apart

(* After a failed attempt the session waits, or is over.                   *)
LEMMA OnFailureApart ==
  ASSUME NEW d \in Device, Apart(d), d.state = "IDLE"
  PROVE  LET e == OnFailure(d)
         IN  /\ Apart(e) /\ (e.active => e.timer)
             /\ e.control = d.control /\ e.interrupt = d.interrupt
<1> DEFINE m == ManagerStop(d)
           f == [m EXCEPT !.inProgress = FALSE]
           g == [d EXCEPT !.timer = TRUE]
<1>1. /\ m \in Device /\ ~m.active /\ m.control = d.control
      /\ m.interrupt = d.interrupt /\ m.mode = d.mode /\ m.connected = d.connected
  BY DEF Device, ManagerStop
<1> HIDE DEF m
<1>2. /\ f \in Device /\ ~f.active /\ f.control = d.control
      /\ f.interrupt = d.interrupt /\ f.mode = d.mode /\ f.connected = d.connected
  BY <1>1 DEF Device
<1>3. /\ g.timer /\ g.active = d.active /\ g.control = d.control
      /\ g.interrupt = d.interrupt /\ g.mode = d.mode /\ g.connected = d.connected
      /\ g.inProgress = d.inProgress /\ g.state = d.state /\ g.target = d.target
  BY DEF Device
<1>4. OnFailure(d) = IF ~d.active THEN d
                     ELSE IF d.attempt >= d.max THEN StartAdvertising(f) ELSE g
  BY DEF OnFailure, m
<1> HIDE DEF f, g
<1>5. Apart(f) /\ Apart(g)
  BY <1>2, <1>3 DEF Apart
<1>6. QED  BY <1>2, <1>3, <1>4, <1>5, StartAdvertisingApart

(* An attempt asks for a channel, or fails at once.                        *)
LEMMA InitiateClientApart ==
  ASSUME NEW d \in Device, d.active, d.inProgress, d.target \in Peer,
         NEW p \in Peer, NEW c \in Answers
  PROVE  LET e == InitiateClient(d, p, c)
         IN  /\ Apart(e) /\ Calls(d, e, c)
             /\ e.active => e.timer \/ Asks(e, c)
<1> DEFINE e == [d EXCEPT !.mode = "CLIENT", !.connected = p]
           f == [e EXCEPT !.state = "IDLE"]
           g == [e EXCEPT !.state = "RECONNECTING", !.control = c]
<1>1. /\ e \in Device /\ e.active /\ e.inProgress /\ e.target = d.target
      /\ e.mode = "CLIENT" /\ e.connected = p
      /\ e.control = d.control /\ e.interrupt = d.interrupt
  BY DEF Device, Mode, Address
<1> HIDE DEF e
<1>2. /\ f \in Device /\ f.active /\ f.inProgress /\ f.target = d.target
      /\ f.mode = "CLIENT" /\ f.connected = p /\ f.state = "IDLE"
      /\ f.control = d.control /\ f.interrupt = d.interrupt
  BY <1>1 DEF Device, State
<1>3. /\ g.active /\ g.inProgress /\ g.target = d.target
      /\ g.mode = "CLIENT" /\ g.connected = p /\ g.state = "RECONNECTING"
      /\ g.control = c /\ g.interrupt = d.interrupt
  BY <1>1 DEF Device
<1>4. InitiateClient(d, p, c) = IF c = 0 THEN OnFailure(f) ELSE g
  BY DEF InitiateClient, e
<1> HIDE DEF f, g
<1>5. Apart(f) /\ Apart(g)
  BY <1>2, <1>3 DEF Apart
<1>6. CASE c = 0
  BY <1>2, <1>4, <1>5, <1>6, OnFailureApart DEF Calls
<1>7. CASE c # 0
  BY <1>3, <1>4, <1>5, <1>7 DEF Calls, Asks
<1>8. QED  BY <1>6, <1>7

(* So does the first attempt of a new session, except in service.          *)
LEMMA ReconnectApart ==
  ASSUME NEW d \in Device, Apart(d),
         NEW p \in Peer, NEW max \in Budgets, NEW c \in Answers
  PROVE  LET e == Reconnect(d, p, max, c)
         IN  /\ Apart(e) /\ Calls(d, e, c)
             /\ e.active => e.timer \/ Asks(e, c)
<1> DEFINE s == StopAdvertising(d)
           e == IF d.state = "ADVERTISING" THEN s ELSE d
           m == ManagerStart(e, max)
           f == [m EXCEPT !.state = "IDLE", !.target = p, !.inProgress = TRUE]
<1>1. CASE d.state = "READY"
  <2>1. Reconnect(d, p, max, c) = d
    BY <1>1 DEF Reconnect
  <2>2. ~d.active
    BY <1>1 DEF Apart
  <2>3. QED  BY <2>1, <2>2 DEF Calls
<1>2. CASE d.state # "READY"
  <2>1. s \in Device /\ s.control = d.control /\ s.interrupt = d.interrupt
    BY SMTT(30), ZenonT(60) DEF StopAdvertising, Device, State
  <2> HIDE DEF s
  <2>2. e \in Device /\ e.control = d.control /\ e.interrupt = d.interrupt
    BY <2>1
  <2> HIDE DEF e
  <2>3. max \in Nat \ {0}
    BY ConstantsAssumption DEF Budgets
  <2>4. m \in Device /\ m.active /\ m.control = d.control /\ m.interrupt = d.interrupt
    BY <2>2, <2>3 DEF ManagerStart, Device
  <2> HIDE DEF m
  <2>5. /\ f \in Device /\ f.active /\ f.inProgress /\ f.target = p
        /\ f.control = d.control /\ f.interrupt = d.interrupt
    <3>1. p \in Address /\ "IDLE" \in State
      BY DEF Address, State
    <3>2. f \in Device
      BY <2>4, <3>1 DEF Device
    <3>3. /\ f.active /\ f.inProgress /\ f.target = p
          /\ f.control = d.control /\ f.interrupt = d.interrupt
      BY <2>4 DEF Device
    <3>4. QED  BY <3>2, <3>3
  <2>6. Reconnect(d, p, max, c) = InitiateClient(f, p, c)
    BY <1>2 DEF Reconnect, e, f, m, s
  <2> HIDE DEF f
  <2>7. QED  BY <2>5, <2>6, InitiateClientApart DEF Calls
<1>3. QED  BY <1>1, <1>2

(* So does each further one.                                               *)
LEMMA RetryFiresApart ==
  ASSUME NEW d \in Device, Apart(d), d.active, NEW c \in Answers
  PROVE  LET e == RetryFires(d, c)
         IN  /\ Apart(e) /\ Calls(d, e, c)
             /\ e.active => e.timer \/ Asks(e, c)
<1> DEFINE e == [d EXCEPT !.timer = FALSE]
           f == [e EXCEPT !.attempt = @ + 1]
<1>1. /\ e \in Device /\ e.active /\ e.inProgress /\ e.target = d.target
      /\ e.control = d.control /\ e.interrupt = d.interrupt
  BY DEF Device, Apart
<1> HIDE DEF e
<1>2. /\ f \in Device /\ f.active /\ f.inProgress /\ f.target = d.target
      /\ f.control = d.control /\ f.interrupt = d.interrupt
  BY <1>1 DEF Device
<1>3. RetryFires(d, c) = InitiateClient(f, d.target, c)
  BY DEF RetryFires, e
<1>4. d.target \in Peer
  BY DEF Apart
<1> HIDE DEF f
<1>5. QED  BY <1>2, <1>3, <1>4, InitiateClientApart DEF Calls

(* A lost session: the bonded console is called, if there is one.          *)
LEMMA CallbackDownApart ==
  ASSUME NEW d \in Device, Apart(d), NEW c \in Answers
  PROVE  LET e == CallbackDown(d, c)
         IN  Continues(d, e, c) /\ Calls(d, e, c)
<1> DEFINE e == [d EXCEPT !.isConnected = FALSE, !.hostConn = "DISCONNECTED"]
<1>1. /\ e \in Device /\ e.active = d.active /\ e.timer = d.timer
      /\ e.control = d.control /\ e.interrupt = d.interrupt
      /\ e.mode = d.mode /\ e.connected = d.connected /\ e.state = d.state
      /\ e.inProgress = d.inProgress /\ e.target = d.target
  BY DEF Device, HostConn
<1>2. CallbackDown(d, c) = IF d.bond = NoPeer THEN e
                           ELSE Reconnect(e, d.bond, AutoAttempts, c)
  BY DEF CallbackDown
<1> HIDE DEF e
<1>3. Apart(e)
  BY <1>1 DEF Apart
<1>4. CASE d.bond = NoPeer
  BY <1>1, <1>2, <1>3, <1>4 DEF Continues, Calls
<1>5. CASE d.bond # NoPeer
  <2>1. d.bond \in Peer /\ AutoAttempts \in Budgets
    BY <1>5 DEF Device, Address, Budgets
  <2>2. LET r == Reconnect(e, d.bond, AutoAttempts, c)
        IN  /\ Apart(r) /\ Calls(e, r, c)
            /\ r.active => r.timer \/ Asks(r, c)
    BY <1>1, <1>3, <2>1, ReconnectApart
  <2>3. QED  BY <1>1, <1>2, <1>5, <2>2 DEF Continues, Calls
<1>6. QED  BY <1>4, <1>5

(* Forgetting the bond ends the attempt under way, or changes nothing.     *)
LEMMA ClearBondingApart ==
  ASSUME NEW d \in Device, Apart(d)
  PROVE  LET e == ClearBonding(d)
         IN  /\ Apart(e) /\ (e.active => d.active /\ e.timer = d.timer)
             /\ e.control = d.control
<1> DEFINE e == [d EXCEPT !.bond = NoPeer]
           m == ManagerStop(e)
           f == [m EXCEPT !.state = "IDLE"]
<1>1. /\ e \in Device /\ e.active = d.active /\ e.timer = d.timer
      /\ e.control = d.control
      /\ e.mode = d.mode /\ e.connected = d.connected /\ e.state = d.state
      /\ e.inProgress = d.inProgress /\ e.target = d.target
  BY DEF Device, Address
<1> HIDE DEF e
<1>2. /\ m \in Device /\ ~m.active /\ m.control = d.control
      /\ m.mode = d.mode /\ m.connected = d.connected
  BY <1>1 DEF Device, ManagerStop
<1> HIDE DEF m
<1>3. /\ ~f.active /\ f.control = d.control
      /\ f.mode = d.mode /\ f.connected = d.connected
  BY <1>2 DEF Device
<1>4. ClearBonding(d) = IF d.state = "RECONNECTING" THEN f ELSE e
  BY DEF ClearBonding, e, f, m
<1> HIDE DEF f
<1>5. QED  BY <1>1, <1>3, <1>4 DEF Apart

(* A refused or timed-out channel: the session waits, or is over.          *)
LEMMA ChannelFailedApart ==
  ASSUME NEW d \in Device, Apart(d), NEW security \in BOOLEAN
  PROVE  LET e == ChannelFailed(d, security)
         IN  /\ Apart(e) /\ (e.active => e.timer) /\ e.control = d.control
<1> DEFINE fails == IF security THEN d.authFails + 1 ELSE d.authFails
           m == ManagerStop(d)
           e == [m EXCEPT !.authFails = 0, !.state = "IDLE", !.mode = "SERVER"]
           f == [d EXCEPT !.authFails = fails, !.state = "IDLE"]
<1>1. CASE d.state = "READY" \/ d.mode = "SERVER"
  <2>1. ChannelFailed(d, security) = d
    BY <1>1 DEF ChannelFailed
  <2>2. ~d.active
    BY <1>1 DEF Apart
  <2>3. QED  BY <2>1, <2>2
<1>2. CASE d.state # "READY" /\ d.mode = "CLIENT" /\ fails >= AuthLimit
  <2>1. m \in Device /\ ~m.active /\ m.control = d.control
    BY DEF Device, ManagerStop
  <2> HIDE DEF m
  <2>2. e \in Device /\ ~e.active /\ e.control = d.control /\ e.mode = "SERVER"
    BY <2>1, ZeroAuthFails DEF Device, State, Mode
  <2>3. ChannelFailed(d, security) = StartAdvertising(e)
    BY <1>2 DEF ChannelFailed, m
  <2> HIDE DEF e
  <2>4. Apart(e)
    BY <2>2 DEF Apart
  <2>5. QED  BY <2>2, <2>3, <2>4, StartAdvertisingApart
<1>3. CASE ~(d.state = "READY" \/ d.mode = "SERVER") /\ ~(fails >= AuthLimit)
  <2>1. ChannelFailed(d, security) = OnFailure(f)
    BY <1>3 DEF ChannelFailed
  <2>2. fails \in AuthFails
    BY <1>3, ConstantsAssumption DEF Device, AuthFails
  <2> HIDE DEF fails
  <2>3. /\ f \in Device /\ f.state = "IDLE" /\ f.active = d.active
        /\ f.control = d.control /\ f.mode = d.mode /\ f.connected = d.connected
        /\ f.inProgress = d.inProgress /\ f.target = d.target
    BY <2>2 DEF Device, State
  <2> HIDE DEF f
  <2>4. Apart(f)
    BY <2>3 DEF Apart
  <2>5. QED  BY <2>1, <2>3, <2>4, OnFailureApart
<1>4. d.mode \in {"SERVER", "CLIENT"}
  BY DEF Device, Mode
<1>5. QED  BY <1>1, <1>2, <1>3, <1>4

(* The control channel opens: the client asks for the other one.           *)
LEMMA ControlOpenedApart ==
  ASSUME NEW d \in Device, Apart(d), NEW cid \in Cid, NEW c \in Answers
  PROVE  LET e == ControlOpened(d, cid, c)
         IN  /\ Apart(e) /\ (e.active => e.timer \/ Asks(e, c))
             /\ e.control = cid
             /\ e.interrupt = d.interrupt \/ (e.interrupt = c /\ e.mode = "CLIENT")
<1> DEFINE e == [d EXCEPT !.control = cid, !.state = "CONTROL_CONNECTED"]
           f == [e EXCEPT !.state = "IDLE"]
           g == [e EXCEPT !.interrupt = c]
<1>1. /\ e \in Device /\ e.state = "CONTROL_CONNECTED" /\ e.active = d.active
      /\ e.control = cid /\ e.mode = d.mode /\ e.connected = d.connected
      /\ e.inProgress = d.inProgress /\ e.target = d.target
      /\ e.interrupt = d.interrupt
  BY DEF Device, State
<1> HIDE DEF e
<1>2. /\ f \in Device /\ f.state = "IDLE" /\ f.active = d.active
      /\ f.control = cid /\ f.mode = d.mode /\ f.connected = d.connected
      /\ f.inProgress = d.inProgress /\ f.target = d.target
      /\ f.interrupt = d.interrupt
  BY <1>1 DEF Device, State
<1>3. /\ g.state = "CONTROL_CONNECTED" /\ g.active = d.active
      /\ g.control = cid /\ g.mode = d.mode /\ g.connected = d.connected
      /\ g.inProgress = d.inProgress /\ g.target = d.target
      /\ g.interrupt = c
  BY <1>1 DEF Device
<1>4. ControlOpened(d, cid, c) =
        IF d.mode = "SERVER" THEN e ELSE IF c = 0 THEN OnFailure(f) ELSE g
  BY DEF ControlOpened, e
<1> HIDE DEF f, g
<1>5. Apart(e) /\ Apart(f) /\ Apart(g)
  BY <1>1, <1>2, <1>3 DEF Apart
<1>6. CASE d.mode = "SERVER"
  BY <1>1, <1>4, <1>5, <1>6 DEF Apart
<1>7. CASE d.mode # "SERVER" /\ c = 0
  BY <1>2, <1>4, <1>5, <1>7, OnFailureApart
<1>8. CASE d.mode # "SERVER" /\ c # 0
  <2>1. d.mode = "CLIENT"
    BY <1>8 DEF Device, Mode
  <2>2. QED  BY <1>3, <1>4, <1>5, <1>8, <2>1 DEF Asks
<1>9. QED  BY <1>6, <1>7, <1>8

(* The interrupt channel opens: with the control channel there, the        *)
(* session has succeeded.                                                  *)
LEMMA InterruptOpenedApart ==
  ASSUME NEW d \in Device, Apart(d), NEW cid \in Cid
  PROVE  LET e == InterruptOpened(d, cid)
         IN  /\ Apart(e) /\ e.control = d.control
             /\ d.control # 0 => ~e.active
             /\ d.control = 0 => e.active = d.active /\ e.timer = d.timer
<1> DEFINE e == [d EXCEPT !.interrupt = cid]
           f == [e EXCEPT !.state = "READY", !.gap = FALSE, !.bond = d.connected]
           m == ManagerStop(f)
           h == [m EXCEPT !.authFails = 0, !.inProgress = FALSE]
           g == IF d.mode = "CLIENT" THEN OnSuccess(f) ELSE f
<1>1. /\ e \in Device /\ e.active = d.active /\ e.timer = d.timer
      /\ e.control = d.control /\ e.mode = d.mode /\ e.connected = d.connected
      /\ e.inProgress = d.inProgress /\ e.target = d.target /\ e.state = d.state
      /\ d.connected \in Address
  BY DEF Device
<1> HIDE DEF e
<1>2. /\ f \in Device /\ f.active = d.active
      /\ f.control = d.control /\ f.mode = d.mode /\ f.connected = d.connected
  BY ZenonT(60), <1>1 DEF Device, State
<1> HIDE DEF f
<1>3. /\ m \in Device /\ ~m.active /\ m.control = d.control /\ m.mode = d.mode
      /\ m.connected = d.connected
  BY <1>2 DEF Device, ManagerStop
<1> HIDE DEF m
<1>4. /\ h \in Device /\ ~h.active /\ h.control = d.control /\ h.mode = d.mode
      /\ h.connected = d.connected
  BY <1>3, ZeroAuthFails DEF Device
<1>5. g = f \/ g = h
  BY DEF OnSuccess, m
<1>6. g.active => d.mode # "CLIENT" /\ d.active
  BY <1>2, <1>4 DEF OnSuccess, m
<1> HIDE DEF g, h
<1>7. /\ g \in Device /\ ~g.active /\ g.control = d.control /\ g.mode = d.mode
      /\ g.connected = d.connected
  BY <1>2, <1>4, <1>5, <1>6 DEF Apart
<1>8. /\ ~CallbackUp(g).active /\ CallbackUp(g).control = d.control
      /\ CallbackUp(g).mode = d.mode /\ CallbackUp(g).connected = d.connected
  BY <1>7 DEF CallbackUp, Device
<1>9. InterruptOpened(d, cid) = IF d.control = 0 THEN e ELSE CallbackUp(g)
  BY DEF InterruptOpened, e, f, g
<1>10. Apart(e) /\ Apart(CallbackUp(g))
  BY <1>1, <1>8 DEF Apart
<1>11. QED  BY <1>1, <1>8, <1>9, <1>10

(* The end of a session; e is d with channels and mode reset.              *)
LEMMA SessionOverApart ==
  ASSUME NEW d, NEW e \in Device, Apart(e), NEW c \in Answers,
         e.active => d.state # "ADVERTISING"
  PROVE  LET g == SessionOver(d, e, c)
         IN  Continues(e, g, c) /\ Calls(e, g, c)
<1> DEFINE f == [e EXCEPT !.state = "IDLE", !.handle = NoPeer]
           g == IF d.state \in {"READY", "CONTROL_CONNECTED"}
                THEN CallbackDown(f, c) ELSE f
<1>1. /\ f \in Device /\ f.active = e.active /\ f.timer = e.timer
      /\ f.control = e.control /\ f.interrupt = e.interrupt
      /\ f.mode = e.mode /\ f.connected = e.connected /\ f.state = "IDLE"
      /\ f.inProgress = e.inProgress /\ f.target = e.target
  BY DEF Device, State, Address
<1>2. SessionOver(d, e, c) = IF d.state = "ADVERTISING" THEN StartAdvertising(g) ELSE g
  BY DEF SessionOver
<1> HIDE DEF f
<1>3. Apart(f)
  BY <1>1 DEF Apart
<1>4. CASE d.state = "ADVERTISING"
  <2>1. SessionOver(d, e, c) = StartAdvertising(f)
    BY <1>2, <1>4
  <2>2. QED
    BY <1>1, <1>3, <1>4, <2>1, StartAdvertisingApart DEF Continues, Calls
<1>5. CASE d.state \in {"READY", "CONTROL_CONNECTED"}
  <2>1. SessionOver(d, e, c) = CallbackDown(f, c)
    BY <1>2, <1>5
  <2>2. QED
    BY <1>1, <1>3, <2>1, CallbackDownApart DEF Continues, Calls
<1>6. CASE d.state \notin {"ADVERTISING", "READY", "CONTROL_CONNECTED"}
  <2>1. SessionOver(d, e, c) = f
    BY <1>2, <1>6
  <2>2. QED
    BY <1>1, <1>3, <2>1 DEF Continues, Calls
<1>7. QED  BY <1>4, <1>5, <1>6

(* A channel closes: no other identifier is forgotten unless a new channel *)
(* takes its place.                                                        *)
LEMMA ChannelClosedApart ==
  ASSUME NEW d \in Device, Apart(d), NEW cid \in Cid, NEW c \in Answers
  PROVE  LET e == ChannelClosed(d, cid, c)
         IN  /\ Continues(d, e, c)
             /\ \/ e.control = 0 /\ d.control \in {cid, 0}
                \/ e.control = d.control
                \/ c # 0 /\ e.control = c /\ e.mode = "CLIENT"
             /\ e.interrupt \in {0, d.interrupt}
<1> DEFINE x == IF d.control = cid THEN 0 ELSE d.control
           y == IF d.interrupt = cid THEN 0 ELSE d.interrupt
           e == [d EXCEPT !.control = x, !.interrupt = y]
<1>1. x \in Cid \cup {0} /\ y \in Cid \cup {0}
  BY DEF Device
<1>2. ChannelClosed(d, cid, c) = IF e.control = 0 /\ e.interrupt = 0
                                 THEN SessionOver(d, e, c) ELSE e
  BY DEF ChannelClosed, Device
<1>3. /\ (x = 0 /\ d.control \in {cid, 0}) \/ x = d.control
      /\ y \in {0, d.interrupt}
  OBVIOUS
<1> HIDE DEF x, y
<1>4. /\ e \in Device /\ e.active = d.active /\ e.timer = d.timer
      /\ e.control = x /\ e.interrupt = y
      /\ e.mode = d.mode /\ e.connected = d.connected /\ e.state = d.state
      /\ e.inProgress = d.inProgress /\ e.target = d.target
  BY <1>1 DEF Device
<1> HIDE DEF e
<1>5. Apart(e) /\ (e.active => d.state # "ADVERTISING")
  BY <1>4 DEF Apart
<1>6. LET g == SessionOver(d, e, c)
      IN  Continues(e, g, c) /\ Calls(e, g, c)
  BY <1>4, <1>5, SessionOverApart
<1>7. Continues(d, e, c)
  BY <1>4, <1>5 DEF Continues
<1>8. QED  BY <1>2, <1>3, <1>4, <1>6, <1>7 DEF Continues, Calls

(* A link is gone: the mode of a client with a session stays.              *)
LEMMA DisconnectedApart ==
  ASSUME NEW d \in Device, Apart(d), NEW c \in Answers
  PROVE  LET e == Disconnected(d, c)
         IN  /\ Continues(d, e, c)
             /\ e.control \in {0, c} /\ e.interrupt = 0
             /\ e.control # 0 => e.mode = "CLIENT"
<1> DEFINE x == IF d.state = "RECONNECTING" \/ d.inProgress
                THEN d.mode ELSE "SERVER"
           e == [d EXCEPT !.control = 0, !.interrupt = 0, !.mode = x]
<1>1. /\ x \in Mode /\ (x = "CLIENT" => d.mode = "CLIENT")
      /\ d.inProgress => x = d.mode
  BY DEF Device, Mode
<1>2. Disconnected(d, c) = SessionOver(d, e, c)
  BY DEF Disconnected, Device
<1> HIDE DEF x
<1>3. /\ e \in Device /\ e.active = d.active /\ e.timer = d.timer
      /\ e.control = 0 /\ e.interrupt = 0
      /\ e.mode = x /\ e.connected = d.connected /\ e.state = d.state
      /\ e.inProgress = d.inProgress /\ e.target = d.target
  BY <1>1 DEF Device
<1> HIDE DEF e
<1>4. Apart(e) /\ (e.active => d.state # "ADVERTISING")
  BY <1>1, <1>3 DEF Apart
<1>5. LET g == SessionOver(d, e, c)
      IN  Continues(e, g, c) /\ Calls(e, g, c)
  BY <1>3, <1>4, SessionOverApart
<1>6. QED  BY <1>2, <1>3, <1>5 DEF Continues, Calls

(* Power on: the bonded console is called, if there is one.                *)
LEMMA BootApart ==
  ASSUME NEW b \in Address, NEW c \in Answers
  PROVE  LET e == Boot(b, c)
         IN  /\ Apart(e) /\ (e.active => e.timer \/ Asks(e, c))
             /\ e.control \in {0, c} /\ e.interrupt = 0
             /\ e.control # 0 => e.mode = "CLIENT"
<1> DEFINE r == Reset(b)
<1>1. r \in Device /\ ~r.active /\ r.mode = "SERVER" /\ r.control = 0 /\ r.interrupt = 0
  BY ZeroAuthFails DEF Reset, Device, State, Mode, HostConn, Address
<1>2. Boot(b, c) = IF b = NoPeer THEN r ELSE Reconnect(r, b, BootAttempts, c)
  BY DEF Boot
<1> HIDE DEF r
<1>3. Apart(r)
  BY <1>1 DEF Apart
<1>4. CASE b = NoPeer
  BY <1>1, <1>2, <1>3, <1>4
<1>5. CASE b # NoPeer
  <2>1. b \in Peer /\ BootAttempts \in Budgets
    BY <1>5 DEF Address, Budgets
  <2>2. LET e == Reconnect(r, b, BootAttempts, c)
        IN  /\ Apart(e) /\ Calls(r, e, c)
            /\ e.active => e.timer \/ Asks(e, c)
    BY <1>1, <1>3, <2>1, ReconnectApart
  <2>3. QED  BY <1>1, <1>2, <1>5, <2>2 DEF Calls
<1>6. QED  BY <1>4, <1>5

-----------------------------------------------------------------------------
(* What a session and its console's channels have to do with each other.   *)

(* Every step keeps open sessions apart from service and advertising, if   *)
(* the host leaves advertising to the firmware.                            *)
LEMMA NextApart ==
  ASSUME IInv, Apart(dev), "START_ADVERTISING" \notin HostCommands, [Next]_vars
  PROVE  Apart(dev')
<1>1. dev \in Device
  BY DEF IInv, Good
<1>2. ASSUME NEW p \in Peer, LinkUp(p) PROVE Apart(dev')
  <2> DEFINE e == [dev EXCEPT !.connected = p, !.handle = p]
  <2>1. /\ e.active = dev.active /\ e.mode = dev.mode /\ e.connected = p
        /\ e.inProgress = dev.inProgress /\ e.target = dev.target
        /\ e.state = dev.state
    BY <1>1 DEF Device
  <2>2. dev' = e
    BY <1>2 DEF LinkUp
  <2> HIDE DEF e
  <2>3. QED  BY <2>1, <2>2 DEF Apart
<1>3. ASSUME NEW p \in Peer, NEW psm \in Psm, Incoming(p, psm) PROVE Apart(dev')
  <2>1. PICK cid \in NewCid :
          dev' = IF psm = "CONTROL"
                 THEN [dev EXCEPT !.control = cid, !.handle = p,
                                  !.state = "CONTROL_CONNECTED"]
                 ELSE [dev EXCEPT !.interrupt = cid]
    BY <1>3 DEF Incoming
  <2>2. /\ dev'.active = dev.active /\ dev'.mode = dev.mode
        /\ dev'.connected = dev.connected
        /\ dev'.inProgress = dev.inProgress /\ dev'.target = dev.target
        /\ dev'.state \in {dev.state, "CONTROL_CONNECTED"}
    BY <1>1, <2>1 DEF Device
  <2>3. QED  BY <2>2 DEF Apart
<1>4. ASSUME NEW ch \in chan, Opened(ch) PROVE Apart(dev')
  <2>1. PICK c \in NewCid \cup {0} :
          dev' = IF ch.psm = "CONTROL" THEN ControlOpened(dev, ch.cid, c)
                 ELSE InterruptOpened(dev, ch.cid)
    BY <1>4 DEF Opened, Handled
  <2>2. ch.cid \in Cid /\ c \in Answers
    BY NewCidTyped DEF IInv, TypeOK, Channel
  <2>3. QED  BY <1>1, <2>1, <2>2, ControlOpenedApart, InterruptOpenedApart
<1>5. ASSUME NEW ch \in chan, Failed(ch) PROVE Apart(dev')
  BY <1>1, <1>5, ChannelFailedApart DEF Failed
<1>6. ASSUME NEW ch \in chan, Closed(ch) PROVE Apart(dev')
  <2>1. PICK c \in NewCid \cup {0} : dev' = ChannelClosed(dev, ch.cid, c)
    BY <1>6 DEF Closed, Handled
  <2>2. ch.cid \in Cid /\ c \in Answers
    BY NewCidTyped DEF IInv, TypeOK, Channel
  <2>3. QED  BY <1>1, <2>1, <2>2, ChannelClosedApart DEF Continues
<1>7. ASSUME LinkGone PROVE Apart(dev')
  <2>1. PICK c \in NewCid \cup {0} : dev' = Disconnected(dev, c)
    BY <1>7 DEF LinkGone, Handled
  <2>2. c \in Answers
    BY NewCidTyped
  <2>3. QED  BY <1>1, <2>1, <2>2, DisconnectedApart DEF Continues
<1>8. ASSUME RetryTimer PROVE Apart(dev')
  <2>1. PICK c \in NewCid \cup {0} : dev' = RetryFires(dev, c)
    BY <1>8 DEF RetryTimer, Handled
  <2>2. c \in Answers /\ dev.active
    BY <1>8, NewCidTyped DEF RetryTimer, IInv, Good
  <2>3. QED  BY <1>1, <2>1, <2>2, RetryFiresApart
<1>9. ASSUME HostStopAdvertising PROVE Apart(dev')
  <2> DEFINE s == StopAdvertising(dev)
  <2>1. /\ s \in Device /\ s.active = dev.active /\ s.mode = dev.mode
        /\ s.connected = dev.connected
        /\ s.inProgress = dev.inProgress /\ s.target = dev.target
        /\ s.state \in {dev.state, "IDLE"}
    BY SMTT(30), ZenonT(60), <1>1 DEF StopAdvertising, Device, State
  <2>2. dev' = [s EXCEPT !.hostConn = "DISCONNECTED"]
    BY <1>9 DEF HostStopAdvertising
  <2> HIDE DEF s
  <2>3. /\ dev'.active = dev.active /\ dev'.mode = dev.mode
        /\ dev'.connected = dev.connected
        /\ dev'.inProgress = dev.inProgress /\ dev'.target = dev.target
        /\ dev'.state \in {dev.state, "IDLE"}
    BY <2>1, <2>2 DEF Device
  <2>4. QED  BY <2>3 DEF Apart
<1>10. ASSUME HostReconnect PROVE Apart(dev')
  <2>1. PICK c \in NewCid \cup {0} :
          dev' = Reconnect(dev, dev.bond, UserAttempts, c)
    BY <1>10 DEF HostReconnect, Handled
  <2>2. c \in Answers /\ dev.bond \in Peer /\ UserAttempts \in Budgets
    BY <1>1, <1>10, NewCidTyped DEF HostReconnect, Device, Address, Budgets
  <2>3. QED  BY <1>1, <2>1, <2>2, ReconnectApart
<1>11. ASSUME HostForgetBonding PROVE Apart(dev')
  BY <1>1, <1>11, ClearBondingApart DEF HostForgetBonding
<1>12. ASSUME NEW b \in Address, BootsWith(b) PROVE Apart(dev')
  <2>1. PICK c \in {0} \cup {n \in Cid : n = 1} : dev' = Boot(b, c)
    BY <1>12 DEF BootsWith, Handled
  <2>2. c \in Answers
    BY DEF Answers
  <2>3. QED  BY <2>1, <2>2, BootApart
<1>13. dev.bond \in Address /\ NoPeer \in Address
  BY <1>1 DEF Device, Address
<1>14. ASSUME NEW p, LinkDrops(p) PROVE Apart(dev')
  BY <1>14 DEF LinkDrops
<1>15. CASE UNCHANGED vars
  BY <1>15 DEF vars
<1>16. QED
  BY <1>2, <1>3, <1>4, <1>5, <1>6, <1>7, <1>8, <1>9, <1>10, <1>11, <1>12, <1>13,
     <1>14, <1>15
  DEF Next, HostStartAdvertising, HostDisconnect, Restart, TornSave

LEMMA InitApart == Init => Apart(dev)
<1> SUFFICES ASSUME NEW b \in Address, NEW c \in {0} \cup {n \in Cid : n = 1},
                    dev = Boot(b, c)
             PROVE  Apart(dev)
  BY DEF Init
<1>1. c \in Answers
  BY DEF Answers
<1>2. QED  BY <1>1, BootApart

(* Which steps lead into advertising beside an open session.  Of a handler *)
(* that turns d into e: such an e comes of such a d only.                  *)
LEMMA OnFailureBeside ==
  ASSUME NEW d \in Device
  PROVE  Beside(OnFailure(d)) => Beside(d)
<1> DEFINE s == [ManagerStop(d) EXCEPT !.inProgress = FALSE]
           t == [d EXCEPT !.timer = TRUE]
<1>1. /\ s \in Device /\ ~s.active
      /\ t.state = d.state /\ t.active = d.active
  BY DEF ManagerStop, Device
<1>2. OnFailure(d) \in {d, StartAdvertising(s), t}
  BY DEF OnFailure
<1> HIDE DEF s, t
<1>3. ~StartAdvertising(s).active
  BY <1>1 DEF StartAdvertising, ManagerStop, Device
<1>4. QED  BY <1>1, <1>2, <1>3 DEF Beside

LEMMA InitiateClientBeside ==
  ASSUME NEW d \in Device, NEW p \in Address, NEW c \in Answers
  PROVE  ~Beside(InitiateClient(d, p, c))
<1> DEFINE e == [d EXCEPT !.mode = "CLIENT", !.connected = p]
           f == [e EXCEPT !.state = "IDLE"]
           g == [e EXCEPT !.state = "RECONNECTING", !.control = c]
<1>1. f \in Device /\ f.state = "IDLE" /\ g.state = "RECONNECTING"
  BY DEF Device, State, Mode
<1>2. InitiateClient(d, p, c) \in {OnFailure(f), g}
  BY DEF InitiateClient
<1> HIDE DEF f, g
<1>3. QED  BY <1>1, <1>2, OnFailureBeside DEF Beside

LEMMA ReconnectBeside ==
  ASSUME NEW d \in Device, NEW p \in Peer, NEW max \in Budgets, NEW c \in Answers
  PROVE  ~Beside(Reconnect(d, p, max, c))
<1>1. CASE d.state = "READY"
  BY <1>1 DEF Reconnect, Beside
<1>2. CASE d.state # "READY"
  <2> DEFINE e == IF d.state = "ADVERTISING" THEN StopAdvertising(d) ELSE d
             f == [ManagerStart(e, max) EXCEPT !.state = "IDLE", !.target = p,
                                               !.inProgress = TRUE]
  <2>1. e \in Device
    BY DEF StopAdvertising, Device, State
  <2> HIDE DEF e
  <2>2. f \in Device
    BY <2>1 DEF ManagerStart, Device, State, Address
  <2> HIDE DEF f
  <2>3. Reconnect(d, p, max, c) = InitiateClient(f, p, c)
    BY <1>2 DEF Reconnect, e, f
  <2>4. QED  BY <2>2, <2>3, InitiateClientBeside DEF Address
<1>3. QED  BY <1>1, <1>2

LEMMA RetryFiresBeside ==
  ASSUME NEW d \in Device, NEW c \in Answers
  PROVE  ~Beside(RetryFires(d, c))
<1> DEFINE e == [d EXCEPT !.timer = FALSE]
           n == d.attempt + 1
           f == [e EXCEPT !.attempt = n]
<1>1. e \in Device /\ e.active = d.active /\ e.attempt = d.attempt
  BY DEF Device
<1>5. d.target \in Address /\ d.attempt \in Nat
  BY DEF Device
<1>6. n \in Nat
  BY <1>5
<1> HIDE DEF n
<1>4. f \in Device
  <2> HIDE DEF e
  <2>1. QED  BY <1>1, <1>6 DEF Device
<1>2. RetryFires(d, c) = IF ~d.active THEN e ELSE InitiateClient(f, d.target, c)
  BY <1>1 DEF RetryFires, n
<1> HIDE DEF e, f
<1>3. QED  BY <1>1, <1>2, <1>4, <1>5, InitiateClientBeside DEF Beside

LEMMA CallbackDownBeside ==
  ASSUME NEW d \in Device, NEW c \in Answers
  PROVE  Beside(CallbackDown(d, c)) => Beside(d)
<1> DEFINE e == [d EXCEPT !.isConnected = FALSE, !.hostConn = "DISCONNECTED"]
<1>1. /\ e \in Device /\ e.state = d.state /\ e.active = d.active
      /\ d.bond \in Address /\ AutoAttempts \in Budgets
  BY DEF Device, HostConn, Budgets
<1>2. CallbackDown(d, c) = IF d.bond = NoPeer THEN e
                           ELSE Reconnect(e, d.bond, AutoAttempts, c)
  BY DEF CallbackDown
<1> HIDE DEF e
<1>3. QED  BY <1>1, <1>2, ReconnectBeside DEF Beside, Address

LEMMA ChannelFailedBeside ==
  ASSUME NEW d \in Device, Good(d), NEW security \in BOOLEAN
  PROVE  Beside(ChannelFailed(d, security)) => Beside(d)
<1> DEFINE fails == IF security THEN d.authFails + 1 ELSE d.authFails
           s == [ManagerStop(d) EXCEPT !.authFails = 0, !.state = "IDLE",
                                       !.mode = "SERVER"]
           t == [d EXCEPT !.authFails = fails, !.state = "IDLE"]
<1>1. CASE d.state = "READY" \/ d.mode = "SERVER"
  BY <1>1 DEF ChannelFailed
<1>2. CASE d.state # "READY" /\ d.mode = "CLIENT" /\ fails >= AuthLimit
  <2>1. ChannelFailed(d, security) = StartAdvertising(s)
    BY <1>2 DEF ChannelFailed
  <2>2. s.state = "IDLE" /\ ~s.active /\ s \in Device
    BY ZeroAuthFails DEF ManagerStop, Device, State, Mode
  <2> HIDE DEF s
  <2>3. QED  BY <2>1, <2>2 DEF StartAdvertising, Beside, Device
<1>3. CASE d.state # "READY" /\ d.mode = "CLIENT" /\ ~(fails >= AuthLimit)
  <2>1. ChannelFailed(d, security) = OnFailure(t)
    BY <1>3 DEF ChannelFailed
  <2>4. fails \in AuthFails
    BY <1>3, ConstantsAssumption DEF Device, AuthFails
  <2> HIDE DEF fails
  <2>2. t \in Device /\ t.state = "IDLE"
    BY <2>4 DEF Device, State
  <2> HIDE DEF t
  <2>3. QED  BY <2>1, <2>2, OnFailureBeside DEF Beside
<1>4. QED  BY <1>1, <1>2, <1>3 DEF Device, Mode

LEMMA ControlOpenedBeside ==
  ASSUME NEW d \in Device, NEW cid \in Cid, NEW c \in Answers
  PROVE  ~Beside(ControlOpened(d, cid, c))
<1> DEFINE e == [d EXCEPT !.control = cid, !.state = "CONTROL_CONNECTED"]
           f == [e EXCEPT !.state = "IDLE"]
           g == [e EXCEPT !.interrupt = c]
<1>1. /\ e.state = "CONTROL_CONNECTED" /\ f \in Device /\ f.state = "IDLE"
      /\ g.state = "CONTROL_CONNECTED"
  BY DEF Device, State
<1>2. ControlOpened(d, cid, c) \in {e, OnFailure(f), g}
  BY DEF ControlOpened
<1> HIDE DEF e, f, g
<1>3. QED  BY <1>1, <1>2, OnFailureBeside DEF Beside

LEMMA InterruptOpenedBeside ==
  ASSUME NEW d \in Device, NEW cid \in Cid
  PROVE  Beside(InterruptOpened(d, cid)) => Beside(d)
<1> DEFINE e == [d EXCEPT !.interrupt = cid]
           f == [e EXCEPT !.state = "READY", !.gap = FALSE, !.bond = d.connected]
           g == IF d.mode = "CLIENT" THEN OnSuccess(f) ELSE f
<1>1. /\ e.state = d.state /\ e.active = d.active
      /\ f \in Device /\ f.state = "READY"
  BY DEF Device, State
<1>2. InterruptOpened(d, cid) = IF d.control = 0 THEN e ELSE CallbackUp(g)
  BY DEF InterruptOpened
<1>3. CallbackUp(g).state = "READY"
  <2>1. f.state = "READY" /\ f \in Device
    BY <1>1
  <2> HIDE DEF f
  <2>2. OnSuccess(f).state = "READY" /\ OnSuccess(f) \in Device
    BY <2>1, ZeroAuthFails DEF OnSuccess, ManagerStop, Device
  <2>3. g.state = "READY" /\ g \in Device
    BY <2>1, <2>2
  <2> HIDE DEF g
  <2>4. QED  BY <2>3 DEF CallbackUp, Device
<1> HIDE DEF e, g
<1>4. QED  BY <1>1, <1>2, <1>3 DEF Beside

(* e: d after the fields the two events reset.                             *)
LEMMA SessionOverBeside ==
  ASSUME NEW d, NEW e \in Device, e.active = d.active,
         NEW c \in Answers
  PROVE  Beside(SessionOver(d, e, c)) => Beside(d)
<1> DEFINE f == [e EXCEPT !.state = "IDLE", !.handle = NoPeer]
<1>1. f \in Device /\ f.state = "IDLE" /\ f.active = d.active
  <2>1. f \in Device /\ f.state = "IDLE" /\ f.active = e.active
    BY DEF Device, State, Address
  <2>2. QED  BY <2>1
<1>2. CASE d.state = "ADVERTISING"
  <2>1. SessionOver(d, e, c) = StartAdvertising(f)
    BY <1>2 DEF SessionOver
  <2> HIDE DEF f
  <2>2. StartAdvertising(f).active = d.active
    BY <1>1 DEF StartAdvertising, Device
  <2>3. QED  BY <1>2, <2>1, <2>2 DEF Beside
<1>3. CASE d.state # "ADVERTISING"
  <2>1. SessionOver(d, e, c) \in {CallbackDown(f, c), f}
    BY <1>3 DEF SessionOver
  <2> HIDE DEF f
  <2>2. QED  BY <1>1, <2>1, CallbackDownBeside DEF Beside
<1>4. QED  BY <1>2, <1>3

LEMMA BootBeside ==
  ASSUME NEW b \in Address, NEW c \in Answers
  PROVE  ~Beside(Boot(b, c))
<1>1. Reset(b) \in Device /\ ~Reset(b).active /\ BootAttempts \in Budgets
  BY ZeroAuthFails DEF Reset, Device, State, Mode, HostConn, Address, Budgets
<1>2. QED  BY <1>1, ReconnectBeside DEF Boot, Beside, Address

LEMMA NextBeside ==
  ASSUME IInv, [Next]_vars
  PROVE  Beside(dev)' => Beside(dev) \/ HostStartAdvertising
<1>1. dev \in Device /\ Good(dev)
  BY DEF IInv, TypeOK
<1> DEFINE Goal == Beside(dev') => Beside(dev) \/ HostStartAdvertising
<1>2. ASSUME NEW p \in Peer, LinkUp(p) PROVE Goal
  <2>1. dev'.state = dev.state /\ dev'.active = dev.active
    BY <1>1, <1>2 DEF LinkUp, Device
  <2>2. QED  BY <2>1 DEF Beside
<1>3. ASSUME NEW p \in Peer, NEW psm \in Psm, Incoming(p, psm) PROVE Goal
  <2>1. dev'.active = dev.active /\ dev'.state \in {dev.state, "CONTROL_CONNECTED"}
    <3>1. PICK cid \in NewCid :
            dev' = IF psm = "CONTROL"
                   THEN [dev EXCEPT !.control = cid, !.handle = p,
                                    !.state = "CONTROL_CONNECTED"]
                   ELSE [dev EXCEPT !.interrupt = cid]
      BY <1>3 DEF Incoming
    <3>2. QED  BY <1>1, <3>1 DEF Device
  <2>2. QED  BY <2>1 DEF Beside
<1>4. ASSUME NEW ch \in chan, Opened(ch) PROVE Goal
  <2>1. PICK c \in NewCid \cup {0} :
          dev' = IF ch.psm = "CONTROL" THEN ControlOpened(dev, ch.cid, c)
                 ELSE InterruptOpened(dev, ch.cid)
    BY <1>4 DEF Opened, Handled
  <2>2. ch.cid \in Cid /\ c \in Answers
    BY NewCidTyped DEF IInv, TypeOK, Channel
  <2>3. QED  BY <1>1, <2>1, <2>2, ControlOpenedBeside, InterruptOpenedBeside
<1>5. ASSUME NEW ch \in chan, Failed(ch) PROVE Goal
  BY <1>1, <1>5, ChannelFailedBeside DEF Failed
<1>6. ASSUME NEW ch \in chan, Closed(ch) PROVE Goal
  <2>1. PICK c \in NewCid \cup {0} : dev' = ChannelClosed(dev, ch.cid, c)
    BY <1>6 DEF Closed, Handled
  <2>2. ch.cid \in Cid /\ c \in Answers
    BY NewCidTyped DEF IInv, TypeOK, Channel
  <2> DEFINE e == [dev EXCEPT !.control = IF @ = ch.cid THEN 0 ELSE @,
                              !.interrupt = IF @ = ch.cid THEN 0 ELSE @]
  <2>3. e \in Device /\ e.active = dev.active /\ e.state = dev.state
    BY <1>1 DEF Device
  <2>4. ChannelClosed(dev, ch.cid, c) \in {SessionOver(dev, e, c), e}
    BY DEF ChannelClosed
  <2> HIDE DEF e
  <2>5. QED  BY <1>1, <2>1, <2>2, <2>3, <2>4, SessionOverBeside DEF Beside
<1>7. ASSUME LinkGone PROVE Goal
  <2>1. PICK c \in NewCid \cup {0} : dev' = Disconnected(dev, c)
    BY <1>7 DEF LinkGone, Handled
  <2>2. c \in Answers
    BY NewCidTyped
  <2> DEFINE keepsMode == dev.state = "RECONNECTING" \/ dev.inProgress
             e == [dev EXCEPT !.control = 0, !.interrupt = 0,
                              !.mode = IF keepsMode THEN @ ELSE "SERVER"]
  <2>3. e \in Device /\ e.active = dev.active
    BY <1>1 DEF Device, Mode
  <2>4. Disconnected(dev, c) = SessionOver(dev, e, c)
    BY DEF Disconnected
  <2> HIDE DEF e
  <2>5. QED  BY <1>1, <2>1, <2>2, <2>3, <2>4, SessionOverBeside
<1>8. ASSUME RetryTimer PROVE Goal
  <2>1. PICK c \in NewCid \cup {0} : dev' = RetryFires(dev, c)
    BY <1>8 DEF RetryTimer, Handled
  <2>2. QED  BY <1>1, <2>1, NewCidTyped, RetryFiresBeside
<1>9. ASSUME HostStopAdvertising PROVE Goal
  <2> DEFINE s == StopAdvertising(dev)
  <2>1. s \in Device /\ s.state # "ADVERTISING"
    BY <1>1 DEF StopAdvertising, Device, State
  <2>2. dev' = [s EXCEPT !.hostConn = "DISCONNECTED"]
    BY <1>9 DEF HostStopAdvertising
  <2> HIDE DEF s
  <2>3. dev'.state # "ADVERTISING"
    BY <2>1, <2>2 DEF Device
  <2>4. QED  BY <2>3 DEF Beside
<1>10. ASSUME HostReconnect PROVE Goal
  <2>1. PICK c \in NewCid \cup {0} :
          dev' = Reconnect(dev, dev.bond, UserAttempts, c)
    BY <1>10 DEF HostReconnect, Handled
  <2>2. c \in Answers /\ dev.bond \in Peer /\ UserAttempts \in Budgets
    BY <1>1, <1>10, NewCidTyped DEF HostReconnect, Device, Address, Budgets
  <2>3. QED  BY <1>1, <2>1, <2>2, ReconnectBeside
<1>11. ASSUME HostForgetBonding PROVE Goal
  <2>1. /\ ClearBonding(dev).state \in {dev.state, "IDLE"}
        /\ ClearBonding(dev).active \in {dev.active, FALSE}
    BY <1>1 DEF ClearBonding, ManagerStop, Device
  <2>2. QED  BY <1>11, <2>1 DEF HostForgetBonding, Beside
<1>12. ASSUME NEW b \in Address, BootsWith(b) PROVE Goal
  <2>1. PICK c \in {0} \cup {n \in Cid : n = 1} : dev' = Boot(b, c)
    BY <1>12 DEF BootsWith, Handled
  <2>2. c \in Answers
    BY DEF Answers
  <2>3. QED  BY <2>1, <2>2, BootBeside
<1>13. dev.bond \in Address /\ NoPeer \in Address
  BY <1>1 DEF Device, Address
<1>14. ASSUME NEW p, LinkDrops(p) PROVE Goal
  BY <1>14 DEF LinkDrops
<1>15. CASE UNCHANGED vars
  BY <1>15 DEF vars
<1>16. QED
  BY <1>2, <1>3, <1>4, <1>5, <1>6, <1>7, <1>8, <1>9, <1>10, <1>11, <1>12, <1>13,
     <1>14, <1>15
  DEF Next, HostDisconnect, Restart, TornSave

(* Whatever hosts and consoles do, the firmware never begins to advertise  *)
(* beside an open session, nor to reconnect under an advertisement: both   *)
(* ways into advertising that are its own end the session first, and every *)
(* session it begins ends the advertisement.  START_ADVERTISING between    *)
(* two attempts is the one way there (bt_hid.c, bt_hid_start_advertising). *)
THEOREM FallbackEndsSession == Spec => OnlyHostAdvertisesInSession
<1>1. IInv /\ [Next]_vars
      => [Beside(dev)' => Beside(dev) \/ HostStartAdvertising]_vars
  BY NextBeside
<1>2. QED  BY <1>1, Inductive, PTL DEF Spec, OnlyHostAdvertisesInSession

(* With one console.                                                       *)
OneConsole == \A p, q \in Peer : p = q

(* The channels are the console's, each has its number, and the number the *)
(* firmware knows the control channel by is that of no interrupt channel.  *)
Numbered(cs, d) ==
  /\ \A ch \in cs : ch.peer \in Peer
  /\ \A a, b \in cs : a.cid = b.cid => a = b
  /\ \A ch \in cs : ch.cid = d.control => ch.psm = "CONTROL"

(* An interrupt channel on its way, that no teardown is about to end, has  *)
(* its control channel known to the firmware: it will complete the         *)
(* session.  The known number is lost with a closed channel, after which   *)
(* an orderly console opens none, or with the link.                        *)
Half(ch) == ch.psm = "INTERRUPT" /\ ~ch.open

HalvesComplete ==
  /\ Quiet => doomed = {}
  /\ Quiet => \A ch \in chan : ch.open => ch.peer \in spent \/ dev.control # 0
  /\ Quiet => \A ch \in chan : Half(ch) => dev.control # 0
  /\ ~Quiet => \A ch \in chan : Half(ch) => ch \in doomed

EventInv == /\ IInv
            /\ Apart(dev)
            /\ Numbered(chan, dev)
            /\ HalvesComplete
            /\ SessionHasNextEvent

LEMMA NewCidFresh ==
  ASSUME NEW c \in NewCid
  PROVE  /\ c \in Cid /\ c # 0
         /\ c # dev.control /\ c # dev.interrupt
         /\ \A ch \in chan : ch.cid # c
BY ConstantsAssumption DEF NewCid, FreshCid, Cid

(* What a handler leaves of the channels, and the one it may ask for.      *)
LEMMA HandledChannels ==
  ASSUME NEW d, NEW rest, NEW c, Handled(d, rest, c)
  PROVE  /\ dev' = d
         /\ rest \subseteq chan'
         /\ Asks(d, c) => \E ch \in chan' : ~ch.open
         /\ \A ch \in chan' : \/ ch \in rest
                              \/ /\ Asks(d, c)
                                 /\ ch.cid = c /\ ch.peer = d.connected /\ ~ch.open
                                 /\ d.control = c => ch.psm = "CONTROL"
         /\ \A a, b \in chan' : a \in rest \/ b \in rest \/ a = b
<1> DEFINE asked == [cid |-> c, peer |-> d.connected, ours |-> TRUE,
                     open |-> FALSE,
                     psm |-> IF d.control = c THEN "CONTROL" ELSE "INTERRUPT"]
<1>1. dev' = d /\ chan' = rest \cup (IF Asks(d, c) THEN {asked} ELSE {})
  BY DEF Handled, Asks
<1>2. /\ asked.cid = c /\ asked.peer = d.connected /\ ~asked.open
      /\ d.control = c => asked.psm = "CONTROL"
  OBVIOUS
<1> HIDE DEF asked
<1>3. QED  BY <1>1, <1>2

(* A channel asked for gets a number of its own.                           *)
LEMMA HandledNumbered ==
  ASSUME NEW d, NEW rest, NEW c, Handled(d, rest, c),
         Numbered(rest, d), \A ch \in rest : ch.cid # c,
         Asks(d, c) => d.connected \in Peer
  PROVE  Numbered(chan', dev')
<1>1. \A ch \in chan' : \/ ch \in rest
                        \/ /\ Asks(d, c)
                           /\ ch.cid = c /\ ch.peer = d.connected
                           /\ d.control = c => ch.psm = "CONTROL"
  BY HandledChannels
<1>2. dev' = d /\ \A a, b \in chan' : a \in rest \/ b \in rest \/ a = b
  BY HandledChannels
<1>3. \A ch \in chan' : ch.peer \in Peer
  BY <1>1 DEF Numbered
<1>4. \A a, b \in chan' : a.cid = b.cid => a = b
  BY <1>1, <1>2 DEF Numbered
<1>5. \A ch \in chan' : ch.cid = d.control => ch.psm = "CONTROL"
  BY <1>1 DEF Numbered
<1>6. QED  BY <1>2, <1>3, <1>4, <1>5 DEF Numbered

(* Fewer channels, and a control channel known by its number, by a new     *)
(* one, or no longer.                                                      *)
LEMMA FewerNumbered ==
  ASSUME NEW d, NEW e, NEW cs, NEW c \in NewCid \cup {0}, chan \subseteq Channel,
         Numbered(chan, d), cs \subseteq chan, e.control \in {0, d.control, c}
  PROVE  Numbered(cs, e) /\ \A ch \in cs : ch.cid # c
<1>1. \A ch \in chan : ch.cid # 0 /\ ch.cid # c
  BY NewCidFresh, ConstantsAssumption DEF Channel, Cid
<1>2. QED  BY <1>1 DEF Numbered

LEMMA InitEvents == Init => EventInv
<1> SUFFICES ASSUME NEW b \in Address, NEW c \in {0} \cup {n \in Cid : n = 1},
                    dev = Boot(b, c),
                    chan = IF dev.control = 0 THEN {}
                           ELSE {[cid |-> c, psm |-> "CONTROL", peer |-> b,
                                  ours |-> TRUE, open |-> FALSE]},
                    link = {}, spent = {}, dropping = NoPeer, doomed = {},
                    Init
             PROVE  EventInv
  BY DEF Init
<1>1. c \in Answers
  BY DEF Answers
<1>2. IInv /\ Apart(dev)
  BY InitIInv, InitApart
<1>3. /\ dev.active => dev.timer \/ Asks(dev, c)
      /\ dev.control \in {0, c} /\ dev.interrupt = 0
  BY <1>1, BootApart
<1>4. dev.control # 0 => b \in Peer
  <2>1. CASE b = NoPeer
    BY <2>1 DEF Boot, Reset
  <2>2. CASE b # NoPeer
    BY <2>2 DEF Address
  <2>3. QED  BY <2>1, <2>2
<1> DEFINE asked == [cid |-> c, psm |-> "CONTROL", peer |-> b,
                     ours |-> TRUE, open |-> FALSE]
<1>5. asked.psm = "CONTROL" /\ asked.peer = b /\ ~asked.open
  OBVIOUS
<1> HIDE DEF asked
<1>6. chan = IF dev.control = 0 THEN {} ELSE {asked}
  BY DEF asked
<1>7. Numbered(chan, dev)
  BY <1>4, <1>5, <1>6 DEF Numbered
<1>8. HalvesComplete
  BY <1>5, <1>6 DEF HalvesComplete, Half, Quiet
<1>9. SessionHasNextEvent
  BY <1>3, <1>5, <1>6 DEF SessionHasNextEvent, Asks
<1>10. QED  BY <1>2, <1>7, <1>8, <1>9 DEF EventInv

-----------------------------------------------------------------------------
(* The actions keep it.                                                    *)

(* What most actions leave alone.                                          *)
LEMMA Undisturbed ==
  ASSUME EventInv, UNCHANGED <<chan, spent, dropping, doomed>>,
         dev'.control = dev.control,
         dev'.active => dev.active /\ dev'.timer = dev.timer
  PROVE  Numbered(chan', dev') /\ HalvesComplete' /\ SessionHasNextEvent'
<1>1. Numbered(chan', dev')
  BY DEF EventInv, Numbered
<1>2. HalvesComplete'
  BY DEF EventInv, HalvesComplete, Quiet
<1>3. SessionHasNextEvent'
  BY DEF EventInv, SessionHasNextEvent
<1>4. QED  BY <1>1, <1>2, <1>3

LEMMA LinkUpEvents ==
  ASSUME EventInv, NEW p \in Peer, LinkUp(p)
  PROVE  Numbered(chan', dev') /\ HalvesComplete' /\ SessionHasNextEvent'
<1>1. /\ dev'.control = dev.control /\ dev'.active = dev.active
      /\ dev'.timer = dev.timer
  BY DEF EventInv, IInv, Good, Device, LinkUp
<1>2. QED  BY <1>1, Undisturbed DEF LinkUp

(* A channel a console opens.                                              *)
LEMMA IncomingNew ==
  ASSUME NEW p \in Peer, NEW psm \in Psm, Incoming(p, psm)
  PROVE  \E cid \in NewCid :
           /\ chan' = chan \cup {[cid |-> cid, psm |-> psm, peer |-> p,
                                  ours |-> FALSE, open |-> FALSE]}
           /\ dev' = IF psm = "CONTROL"
                     THEN [dev EXCEPT !.control = cid, !.handle = p,
                                      !.state = "CONTROL_CONNECTED"]
                     ELSE [dev EXCEPT !.interrupt = cid]
BY DEF Incoming

LEMMA IncomingEvents ==
  ASSUME EventInv, Orderly, NEW p \in Peer, NEW psm \in Psm, Incoming(p, psm)
  PROVE  Numbered(chan', dev') /\ HalvesComplete' /\ SessionHasNextEvent'
<1>1. PICK cid \in NewCid :
        /\ chan' = chan \cup {[cid |-> cid, psm |-> psm, peer |-> p,
                               ours |-> FALSE, open |-> FALSE]}
        /\ dev' = IF psm = "CONTROL"
                  THEN [dev EXCEPT !.control = cid, !.handle = p,
                                   !.state = "CONTROL_CONNECTED"]
                  ELSE [dev EXCEPT !.interrupt = cid]
  BY IncomingNew
<1> DEFINE new == [cid |-> cid, psm |-> psm, peer |-> p,
                   ours |-> FALSE, open |-> FALSE]
<1>2. /\ new.cid = cid /\ new.psm = psm /\ new.peer = p /\ ~new.open
      /\ chan' = chan \cup {new}
  BY <1>1
<1> HIDE DEF new
<1>3. /\ dev'.control = IF psm = "CONTROL" THEN cid ELSE dev.control
      /\ dev'.active = dev.active /\ dev'.timer = dev.timer
  BY <1>1 DEF EventInv, IInv, Good, Device
<1>4. /\ cid # 0 /\ cid # dev.control /\ \A ch \in chan : ch.cid # cid
  BY NewCidFresh
<1>5. Numbered(chan', dev')
  <2>1. Numbered(chan, dev)
    BY DEF EventInv
  <2>2. \A ch \in chan' : ch.peer \in Peer
    BY <1>2, <2>1 DEF Numbered
  <2>3. \A a, b \in chan' : a.cid = b.cid => a = b
    BY <1>2, <1>4, <2>1 DEF Numbered
  <2>4. \A ch \in chan' : ch.cid = dev'.control => ch.psm = "CONTROL"
    BY <1>2, <1>3, <1>4, <2>1 DEF Numbered, Psm
  <2>5. QED  BY <2>2, <2>3, <2>4 DEF Numbered
<1>6. Quiet /\ Quiet' /\ UNCHANGED <<spent, doomed>>
  BY DEF Incoming, Quiet
<1>7. psm = "INTERRUPT" => dev.control # 0
  <2> SUFFICES ASSUME psm = "INTERRUPT" PROVE dev.control # 0
    OBVIOUS
  <2>1. p \notin spent /\ \E ch \in chan : ch.peer = p /\ ch.open
    BY DEF Incoming, ChannelsOf
  <2>2. QED  BY <1>6, <2>1 DEF EventInv, HalvesComplete
<1>8. HalvesComplete'
  <2>1. dev'.control # 0 \/ (psm = "CONTROL" /\ cid # 0) \/ psm = "CONTROL"
    BY <1>3, <1>7 DEF Psm
  <2>2. dev'.control # 0
    BY <1>3, <1>4, <1>7, <2>1
  <2>3. QED  BY <1>6, <2>2 DEF EventInv, HalvesComplete
<1>9. SessionHasNextEvent'
  BY <1>2, <1>3 DEF EventInv, SessionHasNextEvent
<1>10. QED  BY <1>5, <1>8, <1>9

LEMMA OpenedEvents ==
  ASSUME EventInv, NEW ch \in chan, Opened(ch)
  PROVE  Numbered(chan', dev') /\ HalvesComplete' /\ SessionHasNextEvent'
<1> DEFINE now == [ch EXCEPT !.open = TRUE]
           rest == (chan \ {ch}) \cup {now}
<1>1. PICK c \in NewCid \cup {0} :
        Handled(IF ch.psm = "CONTROL" THEN ControlOpened(dev, ch.cid, c)
                ELSE InterruptOpened(dev, ch.cid), rest, c)
  BY DEF Opened
<1>2. /\ dev \in Device /\ Apart(dev) /\ Numbered(chan, dev)
      /\ chan \subseteq Channel /\ ch \in Channel
  BY DEF EventInv, IInv, TypeOK
<1>3. /\ now.cid = ch.cid /\ now.psm = ch.psm /\ now.peer = ch.peer /\ now.open
      /\ ch.cid \in Cid /\ ch.cid # 0
  BY <1>2, ConstantsAssumption DEF Channel, Cid
<1> HIDE DEF now
<1>4. c \in Answers /\ (c # 0 => c # dev.control /\ c # dev.interrupt)
      /\ \A o \in rest : o.cid # c
  BY <1>2, <1>3, NewCidTyped, NewCidFresh, ConstantsAssumption DEF Channel, Cid
<1>5. Quiet /\ Quiet' /\ ~ch.open /\ UNCHANGED <<spent, doomed>>
  BY DEF Opened, Quiet
<1>6. CASE ch.psm = "CONTROL"
  <2> DEFINE d == ControlOpened(dev, ch.cid, c)
  <2>1. /\ d.active => d.timer \/ Asks(d, c)
        /\ d.control = ch.cid /\ Apart(d)
        /\ d.interrupt = dev.interrupt \/ (d.interrupt = c /\ d.mode = "CLIENT")
    BY <1>2, <1>3, <1>4, ControlOpenedApart
  <2>2. Handled(d, rest, c)
    BY <1>1, <1>6
  <2> HIDE DEF d
  <2>3. dev' = d /\ (Asks(d, c) => \E o \in chan' : ~o.open)
    BY <2>2, HandledChannels
  <2>4. Numbered(rest, d)
    BY <1>2, <1>3, <1>6, <2>1 DEF Numbered
  <2>5. Asks(d, c) => d.connected \in Peer
    BY <1>3, <1>4, <2>1, NewCidFresh DEF Asks, Apart
  <2>6. Numbered(chan', dev')
    BY <1>4, <2>2, <2>4, <2>5, HandledNumbered
  <2>7. HalvesComplete'
    BY <1>3, <1>5, <2>1, <2>3 DEF EventInv, HalvesComplete
  <2>8. SessionHasNextEvent'
    BY <2>1, <2>3 DEF SessionHasNextEvent
  <2>9. QED  BY <2>6, <2>7, <2>8
<1>7. CASE ch.psm # "CONTROL"
  <2> DEFINE d == InterruptOpened(dev, ch.cid)
  <2>1. dev.control # 0
    BY <1>2, <1>5, <1>7 DEF EventInv, HalvesComplete, Half, Channel, Psm
  <2>2. d.control = dev.control /\ ~d.active
    BY <1>2, <1>3, <2>1, InterruptOpenedApart
  <2>3. Handled(d, rest, c)
    BY <1>1, <1>7
  <2>4. d.interrupt = ch.cid
    <3> DEFINE e == [dev EXCEPT !.interrupt = ch.cid]
               f == [e EXCEPT !.state = "READY", !.gap = FALSE, !.bond = dev.connected]
               g == IF dev.mode = "CLIENT" THEN OnSuccess(f) ELSE f
    <3>1. e \in Device /\ e.interrupt = ch.cid /\ dev.connected \in Address
      BY <1>2, <1>3 DEF Device
    <3> HIDE DEF e
    <3>2. f \in Device /\ f.interrupt = ch.cid
      BY <3>1 DEF Device, State
    <3> HIDE DEF f
    <3>3. OnSuccess(f) \in Device /\ OnSuccess(f).interrupt = ch.cid
      BY <3>2, ZeroAuthFails DEF OnSuccess, ManagerStop, Device
    <3>4. g \in Device /\ g.interrupt = ch.cid
      BY <3>2, <3>3
    <3> HIDE DEF g
    <3>5. CallbackUp(g).interrupt = ch.cid
      BY <3>4 DEF CallbackUp, Device
    <3>6. d = CallbackUp(g)
      BY <2>1 DEF InterruptOpened, e, f, g
    <3>7. QED  BY <3>5, <3>6
  <2> HIDE DEF d
  <2>5. ~Asks(d, c)
    BY <1>3, <1>4, <2>2, <2>4 DEF Asks
  <2>6. dev' = d /\ \A o \in chan' : o \in rest
    BY <2>3, <2>5, HandledChannels
  <2>7. Numbered(rest, d)
    BY <1>2, <1>3, <2>2 DEF Numbered
  <2>8. Numbered(chan', dev')
    BY <2>6, <2>7 DEF Numbered
  <2>9. HalvesComplete'
    BY <1>5, <2>1, <2>2, <2>6 DEF EventInv, HalvesComplete
  <2>10. SessionHasNextEvent'
    BY <2>2, <2>6 DEF SessionHasNextEvent
  <2>11. QED  BY <2>8, <2>9, <2>10
<1>8. QED  BY <1>6, <1>7

LEMMA FailedEvents ==
  ASSUME EventInv, NEW ch \in chan, Failed(ch)
  PROVE  Numbered(chan', dev') /\ HalvesComplete' /\ SessionHasNextEvent'
<1>1. /\ dev'.control = dev.control /\ (dev'.active => dev'.timer)
  BY ChannelFailedApart DEF EventInv, IInv, Good, Failed
<1>2. chan' \subseteq chan /\ UNCHANGED <<spent, dropping, doomed>>
  BY DEF Failed
<1>3. Numbered(chan', dev')
  BY <1>1, <1>2 DEF EventInv, Numbered
<1>4. HalvesComplete'
  BY <1>1, <1>2 DEF EventInv, HalvesComplete, Quiet
<1>5. SessionHasNextEvent'
  BY <1>1 DEF SessionHasNextEvent
<1>6. QED  BY <1>3, <1>4, <1>5

LEMMA ClosedEvents ==
  ASSUME EventInv, OneConsole, Orderly, NEW ch \in chan, Closed(ch)
  PROVE  Numbered(chan', dev') /\ HalvesComplete' /\ SessionHasNextEvent'
<1>1. PICK c \in NewCid \cup {0} :
        Handled(ChannelClosed(dev, ch.cid, c), chan \ {ch}, c)
  BY DEF Closed
<1> DEFINE d == ChannelClosed(dev, ch.cid, c)
           rest == chan \ {ch}
<1>2. /\ dev \in Device /\ Apart(dev) /\ Numbered(chan, dev)
      /\ chan \subseteq Channel /\ ch.cid \in Cid
  BY DEF EventInv, IInv, TypeOK, Channel
<1>3. c \in Answers /\ (c # 0 => c # dev.control /\ c # dev.interrupt)
  BY NewCidTyped, NewCidFresh
<1>4. /\ Continues(dev, d, c)
      /\ \/ d.control = 0 /\ dev.control \in {ch.cid, 0}
         \/ d.control = dev.control
         \/ c # 0 /\ d.control = c /\ d.mode = "CLIENT"
      /\ d.interrupt \in {0, dev.interrupt}
  BY <1>2, <1>3, ChannelClosedApart
<1> HIDE DEF d
<1>5. Asks(d, c) => d.control = c /\ d.connected \in Peer
  BY <1>3, <1>4 DEF Asks, Continues, Apart
<1>6. /\ dev' = d /\ rest \subseteq chan'
      /\ Asks(d, c) => \E o \in chan' : ~o.open
      /\ \A o \in chan' : o \in rest \/ (~o.open /\ o.psm = "CONTROL")
  BY <1>1, <1>5, HandledChannels DEF d
<1>7. Numbered(chan', dev')
  <2>1. Numbered(rest, d) /\ \A o \in rest : o.cid # c
    BY <1>2, <1>4, FewerNumbered
  <2>2. QED  BY <1>1, <1>5, <2>1, HandledNumbered DEF d
<1>8. /\ ch.open /\ spent' = spent \cup {ch.peer}
      /\ UNCHANGED <<link, dropping, doomed>>
      /\ Quiet /\ ch.psm = "CONTROL" /\ ch.peer # dropping =>
           \A o \in chan : o.peer = ch.peer => o.psm = "CONTROL"
  BY DEF Closed, ChannelsOf
<1>9. \A o \in chan : o.peer = ch.peer /\ o.peer \in Peer
  BY <1>2 DEF OneConsole, Numbered
<1>10. HalvesComplete'
  <2>1. CASE ~Quiet
    BY <1>6, <1>8, <2>1 DEF EventInv, HalvesComplete, Half, Quiet
  <2>2. CASE Quiet /\ dev'.control # 0
    BY <1>6, <1>8, <2>2 DEF EventInv, HalvesComplete, Quiet
  <2>3. CASE Quiet /\ dev'.control = 0
    <3>1. \A o \in chan' : o.open => o.peer \in spent'
      BY <1>6, <1>8, <1>9
    <3>2. \A o \in chan : ~Half(o)
      <4>1. CASE dev.control = ch.cid
        <5>1. ch.psm = "CONTROL"
          BY <1>2, <4>1 DEF Numbered
        <5>2. ch.peer # dropping
          BY <1>9, <2>3, ConstantsAssumption DEF Quiet
        <5>3. QED  BY <1>8, <1>9, <2>3, <5>1, <5>2 DEF Half
      <4>2. CASE dev.control # ch.cid
        <5>1. dev.control = 0
          BY <1>4, <1>6, <2>3, <4>2
        <5>2. QED  BY <2>3, <5>1 DEF EventInv, HalvesComplete
      <4>3. QED  BY <4>1, <4>2
    <3>3. \A o \in chan' : ~Half(o)
      BY <1>6, <3>2 DEF Half
    <3>4. Quiet' /\ doomed' = {}
      BY <1>8, <2>3 DEF EventInv, HalvesComplete, Quiet
    <3>5. QED  BY <3>1, <3>3, <3>4 DEF HalvesComplete
  <2>4. QED  BY <2>1, <2>2, <2>3
<1>11. SessionHasNextEvent'
  BY <1>4, <1>6, <1>8 DEF Continues, EventInv, SessionHasNextEvent
<1>12. QED  BY <1>7, <1>10, <1>11

LEMMA LinkDropsEvents ==
  ASSUME EventInv, OneConsole, NEW p, LinkDrops(p)
  PROVE  Numbered(chan', dev') /\ HalvesComplete' /\ SessionHasNextEvent'
<1>1. /\ p \in link /\ dropping' = p /\ doomed' = ChannelsOf(p)
      /\ UNCHANGED <<dev, chan>>
  BY DEF LinkDrops
<1>2. p \in Peer /\ p # NoPeer
  BY <1>1, ConstantsAssumption DEF EventInv, IInv, TypeOK
<1>3. \A ch \in chan : ch \in doomed'
  BY <1>1, <1>2 DEF ChannelsOf, OneConsole, EventInv, Numbered
<1>4. Numbered(chan', dev')
  BY <1>1 DEF EventInv
<1>5. HalvesComplete'
  BY <1>1, <1>2, <1>3 DEF HalvesComplete, Quiet
<1>6. SessionHasNextEvent'
  BY <1>1 DEF EventInv, SessionHasNextEvent
<1>7. QED  BY <1>4, <1>5, <1>6

LEMMA LinkGoneEvents ==
  ASSUME EventInv, OneConsole, LinkGone
  PROVE  Numbered(chan', dev') /\ HalvesComplete' /\ SessionHasNextEvent'
<1>1. PICK c \in NewCid \cup {0} : Handled(Disconnected(dev, c), chan, c)
  BY DEF LinkGone
<1> DEFINE d == Disconnected(dev, c)
<1>2. /\ dev \in Device /\ Apart(dev) /\ Numbered(chan, dev)
      /\ chan \subseteq Channel
  BY DEF EventInv, IInv, TypeOK
<1>3. c \in Answers
  BY NewCidTyped
<1>4. /\ Continues(dev, d, c)
      /\ d.control \in {0, c} /\ d.interrupt = 0
      /\ d.control # 0 => d.mode = "CLIENT"
  BY <1>2, <1>3, DisconnectedApart
<1> HIDE DEF d
<1>5. Asks(d, c) => d.control = c /\ d.connected \in Peer
  BY <1>4 DEF Asks, Continues, Apart
<1>6. /\ dev' = d /\ chan \subseteq chan'
      /\ Asks(d, c) => \E o \in chan' : ~o.open
      /\ \A o \in chan' : o \in chan \/ (~o.open /\ o.psm = "CONTROL")
  BY <1>1, <1>5, HandledChannels DEF d
<1>7. Numbered(chan', dev')
  <2>1. Numbered(chan, d) /\ \A o \in chan : o.cid # c
    BY <1>2, <1>4, FewerNumbered
  <2>2. QED  BY <1>1, <1>5, <2>1, HandledNumbered DEF d
<1>8. HalvesComplete'
  <2>1. /\ ~Quiet /\ doomed \cap chan = {} /\ dropping' = NoPeer /\ doomed' = {}
    BY DEF LinkGone
  <2>2. \A o \in chan : ~Half(o)
    BY <2>1 DEF EventInv, HalvesComplete
  <2>3. \A o \in chan : ~o.open
    BY <1>2, <2>1 DEF EventInv, IInv, TypeOK, OpenIsLinked, OneConsole, Numbered, Quiet
  <2>4. QED  BY <1>6, <2>1, <2>2, <2>3 DEF HalvesComplete, Half
<1>9. SessionHasNextEvent'
  BY <1>4, <1>6 DEF Continues, EventInv, SessionHasNextEvent
<1>10. QED  BY <1>7, <1>8, <1>9

(* The firmware makes an attempt by itself, with no event of a channel.    *)
LEMMA AttemptEvents ==
  ASSUME EventInv, NEW d, NEW c \in NewCid \cup {0}, Handled(d, chan, c),
         Calls(dev, d, c), Apart(d), d.active => d.timer \/ Asks(d, c),
         UNCHANGED <<spent, dropping, doomed>>
  PROVE  Numbered(chan', dev') /\ HalvesComplete' /\ SessionHasNextEvent'
<1>1. chan \subseteq Channel /\ Numbered(chan, dev)
  BY DEF EventInv, IInv, TypeOK
<1>2. d.control \in {0, dev.control, c} /\ (c # 0 => c # dev.control /\ c # dev.interrupt)
  BY NewCidFresh DEF Calls
<1>3. Asks(d, c) => d.control = c /\ d.connected \in Peer
  BY <1>2 DEF Asks, Calls, Apart
<1>4. /\ dev' = d /\ chan \subseteq chan'
      /\ Asks(d, c) => \E o \in chan' : ~o.open
      /\ \A o \in chan' : o \in chan \/ (~o.open /\ o.psm = "CONTROL")
  BY <1>3, HandledChannels
<1>5. Numbered(chan', dev')
  <2>1. Numbered(chan, d) /\ \A o \in chan : o.cid # c
    BY <1>1, <1>2, FewerNumbered
  <2>2. QED  BY <1>3, <2>1, HandledNumbered
<1>6. HalvesComplete'
  <2>1. dev.control # 0 => dev'.control # 0
    BY <1>4 DEF Calls
  <2>2. QED  BY <1>4, <2>1 DEF EventInv, HalvesComplete, Half, Quiet
<1>7. SessionHasNextEvent'
  BY <1>4 DEF SessionHasNextEvent
<1>8. QED  BY <1>5, <1>6, <1>7

LEMMA RetryTimerEvents ==
  ASSUME EventInv, RetryTimer
  PROVE  Numbered(chan', dev') /\ HalvesComplete' /\ SessionHasNextEvent'
<1>1. PICK c \in NewCid \cup {0} : Handled(RetryFires(dev, c), chan, c)
  BY DEF RetryTimer
<1>2. c \in Answers /\ dev \in Device /\ Apart(dev) /\ dev.active
  BY NewCidTyped DEF RetryTimer, EventInv, IInv, Good
<1>3. UNCHANGED <<spent, dropping, doomed>>
  BY DEF RetryTimer
<1>4. QED  BY <1>1, <1>2, <1>3, RetryFiresApart, AttemptEvents

LEMMA HostEvents ==
  ASSUME EventInv,
         HostStopAdvertising \/ HostReconnect \/ HostForgetBonding
  PROVE  Numbered(chan', dev') /\ HalvesComplete' /\ SessionHasNextEvent'
<1>1. dev \in Device /\ Apart(dev)
  BY DEF EventInv, IInv, Good
<1>2. CASE HostStopAdvertising
  <2> DEFINE s == StopAdvertising(dev)
  <2>1. /\ s \in Device /\ s.active = dev.active /\ s.timer = dev.timer
        /\ s.control = dev.control
    BY SMTT(30), ZenonT(60), <1>1 DEF StopAdvertising, Device, State
  <2>2. dev' = [s EXCEPT !.hostConn = "DISCONNECTED"]
    BY <1>2 DEF HostStopAdvertising
  <2> HIDE DEF s
  <2>3. /\ dev'.active = dev.active /\ dev'.timer = dev.timer
        /\ dev'.control = dev.control
    BY <2>1, <2>2 DEF Device
  <2>4. QED  BY <1>2, <2>3, Undisturbed DEF HostStopAdvertising
<1>3. CASE HostForgetBonding
  BY <1>1, <1>3, ClearBondingApart, Undisturbed DEF HostForgetBonding
<1>4. CASE HostReconnect
  <2>1. PICK c \in NewCid \cup {0} :
          Handled(Reconnect(dev, dev.bond, UserAttempts, c), chan, c)
    BY <1>4 DEF HostReconnect
  <2>2. c \in Answers /\ dev.bond \in Peer /\ UserAttempts \in Budgets
    BY <1>1, <1>4, NewCidTyped DEF HostReconnect, Device, Address, Budgets
  <2>3. UNCHANGED <<spent, dropping, doomed>>
    BY <1>4 DEF HostReconnect
  <2>4. QED  BY <1>1, <2>1, <2>2, <2>3, ReconnectApart, AttemptEvents
<1>5. QED  BY <1>2, <1>3, <1>4

LEMMA BootsWithEvents ==
  ASSUME NEW b \in Address, BootsWith(b)
  PROVE  Numbered(chan', dev') /\ HalvesComplete' /\ SessionHasNextEvent'
<1>1. PICK c \in {0} \cup {n \in Cid : n = 1} : Handled(Boot(b, c), {}, c)
  BY DEF BootsWith
<1> DEFINE d == Boot(b, c)
<1>2. c \in Answers
  BY DEF Answers
<1>3. /\ Apart(d) /\ (d.active => d.timer \/ Asks(d, c))
      /\ d.control \in {0, c} /\ d.interrupt = 0
      /\ d.control # 0 => d.mode = "CLIENT"
  BY <1>2, BootApart
<1> HIDE DEF d
<1>4. Asks(d, c) => d.control = c /\ d.connected \in Peer
  BY <1>3 DEF Asks, Apart
<1>5. /\ dev' = d /\ (Asks(d, c) => \E o \in chan' : ~o.open)
      /\ \A o \in chan' : ~o.open /\ o.psm = "CONTROL"
  BY <1>1, <1>4, HandledChannels DEF d
<1>6. Numbered(chan', dev')
  <2>1. Numbered({}, d)
    BY DEF Numbered
  <2>2. QED  BY <1>1, <1>4, <2>1, HandledNumbered DEF d
<1>7. HalvesComplete'
  BY <1>5 DEF BootsWith, HalvesComplete, Half, Quiet
<1>8. SessionHasNextEvent'
  BY <1>3, <1>5 DEF SessionHasNextEvent
<1>9. QED  BY <1>6, <1>7, <1>8

LEMMA NextEvents ==
  ASSUME EventInv, OneConsole, Orderly, "START_ADVERTISING" \notin HostCommands,
         [Next]_vars
  PROVE  EventInv'
<1> DEFINE Goal == Numbered(chan', dev') /\ HalvesComplete' /\ SessionHasNextEvent'
<1>1. IInv' /\ Apart(dev')
  BY NextIInv, NextApart DEF EventInv
<1>2. dev.bond \in Address /\ NoPeer \in Address
  BY DEF EventInv, IInv, Good, Device, Address
<1>3. ASSUME NEW p \in Peer, LinkUp(p) \/ LinkDrops(p) PROVE Goal
  BY <1>3, LinkUpEvents, LinkDropsEvents
<1>4. ASSUME NEW p \in Peer, NEW psm \in Psm, Incoming(p, psm) PROVE Goal
  BY <1>4, IncomingEvents
<1>5. ASSUME NEW ch \in chan,
             Opened(ch) \/ Failed(ch) \/ Closed(ch) \/ TornSave(ch)
      PROVE  Goal
  BY <1>2, <1>5, OpenedEvents, FailedEvents, ClosedEvents, BootsWithEvents
  DEF TornSave
<1>6. ASSUME LinkGone PROVE Goal
  BY <1>6, LinkGoneEvents
<1>7. ASSUME RetryTimer PROVE Goal
  BY <1>7, RetryTimerEvents
<1>8. ASSUME HostStopAdvertising \/ HostReconnect \/ HostForgetBonding PROVE Goal
  BY <1>8, HostEvents
<1>9. ASSUME HostDisconnect PROVE Goal
  BY <1>9, LinkDropsEvents DEF HostDisconnect
<1>10. ASSUME Restart PROVE Goal
  BY <1>2, <1>10, BootsWithEvents DEF Restart
<1>11. ASSUME UNCHANGED vars PROVE Goal
  BY <1>11, Undisturbed DEF vars
<1>12. Goal
  <2> HIDE DEF Goal
  <2>1. QED
    BY <1>3, <1>4, <1>5, <1>6, <1>7, <1>8, <1>9, <1>10, <1>11
    DEF Next, HostStartAdvertising
<1>13. QED  BY <1>1, <1>12 DEF EventInv

(* With one orderly console, and advertising left to the firmware, nothing *)
(* strands an open session: whatever is lost, refused, collides or is      *)
(* commanded, its timer is armed or BTstack owes an answer.                *)
THEOREM SessionsGoOn ==
  ASSUME OneConsole, Orderly, "START_ADVERTISING" \notin HostCommands
  PROVE  Spec => []SessionHasNextEvent
<1>1. Init => EventInv
  BY InitEvents
<1>2. EventInv /\ [Next]_vars => EventInv'
  BY NextEvents
<1>3. EventInv => SessionHasNextEvent
  BY DEF EventInv
<1>4. QED  BY <1>1, <1>2, <1>3, PTL DEF Spec

=============================================================================
