-------------------------- MODULE SerialConnection --------------------------
(***************************************************************************)
(* Picopad.Connection: the GenServer that owns the serial port of a        *)
(* Picopad.  It lets one command at a time through to the firmware and     *)
(* hands the next response to whoever is waiting; responses carry no       *)
(* request number.  Callers are Elixir processes, each in GenServer.call.  *)
(* The firmware (host_protocol.c) executes commands one after the other    *)
(* and sends log events of its own.  Frames arrive in pieces.              *)
(***************************************************************************)
EXTENDS Naturals, Sequences

CONSTANTS
  Caller,       \* processes that send commands
  MaxRequests,  \* commands in a behaviour; they are numbered in order
  MaxEvents     \* events the firmware sends in a behaviour

ASSUME SerialAssumption == {MaxRequests, MaxEvents} \subseteq Nat

VARIABLES
  open,      \* the connection process lives
  caller,    \* the request each caller waits for; 0: none
  issued,    \* requests so far
  mailbox,   \* messages to the connection process
  pending,   \* pending_request, as the number of the request; 0: nil
  timer,     \* the request timeout_timer runs for; 0: it does not run
  buffer,    \* rx_buffer: the frame whose head it holds
  device,    \* commands the firmware has yet to answer
  wire,      \* pieces of frames on their way from the firmware
  events,    \* events so far
  answered   \* pairs: the request that was answered, the one the answer is to

connection == <<pending, timer, buffer>>
firmware == <<device, wire, events>>
vars == <<open, caller, issued, mailbox, connection, firmware, answered>>

Request == 1..MaxRequests
Event == 0                       \* the frame of an event
Nothing == MaxRequests + 1       \* no frame
Frame == 0..MaxRequests          \* a response, by its request, or an event

Piece == [type : {"data"}, frame : Frame, part : 1..2]
Message == Piece \cup [type : {"call", "timeout"}, req : Request]

Pieces(f) == << [type |-> "data", frame |-> f, part |-> 1],
                [type |-> "data", frame |-> f, part |-> 2] >>

Receives(m) == mailbox # <<>> /\ Head(mailbox) = m /\ mailbox' = Tail(mailbox)

(* The caller of request n, if it still waits, is done with it.            *)
Return(n) == caller' = [c \in Caller |-> IF caller[c] = n THEN 0 ELSE caller[c]]

-----------------------------------------------------------------------------
(* The callers.                                                            *)

SendCommand(c) ==
  /\ open
  /\ caller[c] = 0
  /\ issued < MaxRequests
  /\ issued' = issued + 1
  /\ caller' = [caller EXCEPT ![c] = issued + 1]
  /\ mailbox' = Append(mailbox, [type |-> "call", req |-> issued + 1])
  /\ UNCHANGED <<open, connection, firmware, answered>>

(* GenServer.call's own timeout, which ends before the connection's.       *)
CallerTimeout(c) ==
  /\ caller[c] # 0
  /\ caller' = [caller EXCEPT ![c] = 0]
  /\ UNCHANGED <<open, issued, mailbox, connection, firmware, answered>>

-----------------------------------------------------------------------------
(* The connection process.  A definition whose name ends in Bug is a wrong *)
(* version of the one that follows it, with which a property fails.        *)

HandleCall_BusyBug(n) ==
  /\ Receives([type |-> "call", req |-> n])
  /\ pending' = n
  /\ timer' = n
  /\ device' \in {device, Append(device, n)}
  /\ UNCHANGED <<open, caller, issued, buffer, wire, events, answered>>

HandleCall_TimerBug(n) ==
  /\ Receives([type |-> "call", req |-> n])
  /\ pending = 0
  /\ pending' = n
  /\ device' \in {device, Append(device, n)}
  /\ UNCHANGED <<open, caller, issued, timer, buffer, wire, events, answered>>

(* handle_call of a command that finds none pending.  What is written may  *)
(* get lost; Circuits.UART.write's result is not looked at.                *)
HandleCall(n) ==
  /\ Receives([type |-> "call", req |-> n])
  /\ pending = 0
  /\ pending' = n
  /\ timer' = n
  /\ device' \in {device, Append(device, n)}
  /\ UNCHANGED <<open, caller, issued, buffer, wire, events, answered>>

HandleBusyCall(n) ==
  /\ Receives([type |-> "call", req |-> n])
  /\ pending # 0
  /\ Return(n)
  /\ UNCHANGED <<open, issued, connection, firmware, answered>>

HandleTimeout_Bug(n) ==
  /\ Receives([type |-> "timeout", req |-> n])
  /\ timer' = 0
  /\ buffer' = Nothing
  /\ UNCHANGED <<open, caller, issued, pending, firmware, answered>>

HandleTimeout(n) ==
  /\ Receives([type |-> "timeout", req |-> n])
  /\ pending' = 0
  /\ timer' = 0
  /\ buffer' = Nothing
  /\ UNCHANGED <<open, caller, issued, firmware, answered>>

HandleHead(f) ==
  /\ Receives(Pieces(f)[1])
  /\ buffer' = f
  /\ UNCHANGED <<open, caller, issued, pending, timer, firmware, answered>>

(* handle_response: the pending request, if there is one, gets the answer. *)
Reply(answers) ==
  IF pending = 0
  THEN UNCHANGED <<caller, pending, timer, answered>>
  ELSE /\ pending' = 0
       /\ timer' = 0
       /\ Return(pending)
       /\ answered' = answered \cup answers

Dropped == UNCHANGED <<caller, pending, timer, answered>>

HandleTail_Bug(f) ==
  /\ Receives(Pieces(f)[2])
  /\ buffer' = Nothing
  /\ \/ buffer = f /\ Reply({<<pending, f>>})
     \/ buffer # f /\ Dropped
     \/ buffer # f /\ Reply({})
  /\ UNCHANGED <<open, issued, firmware>>

(* The rest of a frame.  If its head is gone, what is left is dropped or,  *)
(* should it still decode, answers the pending request with an error.      *)
HandleTail(f) ==
  /\ Receives(Pieces(f)[2])
  /\ buffer' = Nothing
  /\ \/ buffer = f /\ f = Event /\ Dropped
     \/ buffer = f /\ f # Event /\ Reply({<<pending, f>>})
     \/ buffer # f /\ Dropped
     \/ buffer # f /\ Reply({})
  /\ UNCHANGED <<open, issued, firmware>>

(* The process ends, on a UART error or by close: waiting callers fail.    *)
Stop ==
  /\ open
  /\ open' = FALSE
  /\ caller' = [c \in Caller |-> 0]
  /\ mailbox' = <<>>
  /\ pending' = 0
  /\ timer' = 0
  /\ buffer' = Nothing
  /\ wire' = <<>>
  /\ UNCHANGED <<issued, device, events, answered>>

(* A new process on the port.                                              *)
Open ==
  /\ ~open
  /\ open' = TRUE
  /\ UNCHANGED <<caller, issued, mailbox, connection, firmware, answered>>

(* timeout_timer fires: its message goes behind those already there.       *)
TimerFires ==
  /\ timer # 0
  /\ mailbox' = Append(mailbox, [type |-> "timeout", req |-> timer])
  /\ timer' = 0
  /\ UNCHANGED <<open, caller, issued, pending, buffer, firmware, answered>>

-----------------------------------------------------------------------------
(* The firmware and the line.                                              *)

(* A response, or none: a reset, for one, is not answered.                 *)
Answer ==
  /\ device # <<>>
  /\ device' = Tail(device)
  /\ wire' \in {wire, IF open THEN wire \o Pieces(Head(device)) ELSE wire}
  /\ UNCHANGED <<open, caller, issued, mailbox, connection, events, answered>>

SendEvent ==
  /\ open
  /\ events < MaxEvents
  /\ events' = events + 1
  /\ wire' = wire \o Pieces(Event)
  /\ UNCHANGED <<open, caller, issued, mailbox, connection, device, answered>>

Deliver ==
  /\ wire # <<>>
  /\ wire' = Tail(wire)
  /\ mailbox' = Append(mailbox, Head(wire))
  /\ UNCHANGED <<open, caller, issued, connection, device, events, answered>>

-----------------------------------------------------------------------------
Init ==
  /\ open = TRUE
  /\ caller = [c \in Caller |-> 0]
  /\ issued = 0
  /\ mailbox = <<>>
  /\ pending = 0
  /\ timer = 0
  /\ buffer = Nothing
  /\ device = <<>>
  /\ wire = <<>>
  /\ events = 0
  /\ answered = {}

Handle ==
  \/ \E n \in Request : HandleCall(n) \/ HandleBusyCall(n) \/ HandleTimeout(n)
  \/ \E f \in Frame : HandleHead(f) \/ HandleTail(f)

Next ==
  \/ \E c \in Caller : SendCommand(c) \/ CallerTimeout(c)
  \/ Handle
  \/ Stop \/ Open
  \/ TimerFires
  \/ Answer \/ SendEvent \/ Deliver

Spec == Init /\ [][Next]_vars

(* The connection process runs and the runtime's timers fire.  Neither the *)
(* firmware nor a caller owes anything.                                    *)
Fairness == WF_vars(Handle) /\ WF_vars(TimerFires)

-----------------------------------------------------------------------------
(* Properties.                                                             *)

(* Type invariant.                                                         *)
TypeOK ==
  /\ open \in BOOLEAN
  /\ caller \in [Caller -> 0..MaxRequests]
  /\ issued \in 0..MaxRequests
  /\ mailbox \in Seq(Message)
  /\ {pending, timer} \subseteq 0..MaxRequests
  /\ buffer \in Frame \cup {Nothing}
  /\ device \in Seq(Request)
  /\ wire \in Seq(Piece)
  /\ events \in 0..MaxEvents
  /\ answered \subseteq Request \X Request

(* A pending request, which makes every other caller busy, is under a      *)
(* running timer or one that has just fired, also when responses and       *)
(* timeouts cross.                                                         *)
PendingIsTimed ==
  pending # 0 => \/ timer = pending
                 \/ \E i \in 1..Len(mailbox) :
                      mailbox[i] = [type |-> "timeout", req |-> pending]

(* The connection does not stay busy, whatever the firmware does.          *)
BusyEnds == pending # 0 ~> pending = 0

=============================================================================
