----------------------- MODULE SerialConnectionProofs -----------------------
(***************************************************************************)
(* Proofs about SerialConnection for any number of callers, requests and   *)
(* events.  A pending request is always timed, whether or not the firmware *)
(* answers late (IInv).  Until a timeout crosses an answer, an answer      *)
(* reaches the caller that asked (OwnInv): frames come whole (Stream), and *)
(* what is under way belongs to the one pending request (Owed), for which  *)
(* there is one command or one answer at most (Commands, Single).          *)
(***************************************************************************)
EXTENDS MCSerialConnection, TLAPS

(* A timeout for request n waits in mailbox m.                             *)
Fired(m, n) == \E i \in 1..Len(m) : m[i] = [type |-> "timeout", req |-> n]

IInv == TypeOK /\ PendingIsTimed

-----------------------------------------------------------------------------
(* Mailboxes.                                                              *)

LEMMA MessageTypes ==
  /\ \A f \in Frame : Pieces(f)[1] \in Message /\ Pieces(f)[2] \in Message
  /\ \A f \in Frame : Pieces(f) \in Seq(Piece)
  /\ \A n \in Request : /\ [type |-> "call", req |-> n] \in Message
                        /\ [type |-> "timeout", req |-> n] \in Message
BY DEF Pieces, Piece, Message

(* What was waiting still waits behind a new message.                      *)
LEMMA AppendKeeps ==
  ASSUME NEW m \in Seq(Message), NEW x \in Message, NEW n, Fired(m, n)
  PROVE  Fired(Append(m, x), n)
<1>1. PICK i \in 1..Len(m) : m[i] = [type |-> "timeout", req |-> n]
  BY DEF Fired
<1>2. i \in 1..Len(Append(m, x)) /\ Append(m, x)[i] = m[i]
  OBVIOUS
<1> QED BY <1>1, <1>2 DEF Fired

LEMMA AppendFires ==
  ASSUME NEW m \in Seq(Message), NEW n \in Request
  PROVE  Fired(Append(m, [type |-> "timeout", req |-> n]), n)
<1> DEFINE x == [type |-> "timeout", req |-> n]
<1>1. x \in Message
  BY MessageTypes
<1> HIDE DEF x
<1>2. Len(m) + 1 \in 1..Len(Append(m, x)) /\ Append(m, x)[Len(m) + 1] = x
  BY <1>1
<1> QED BY <1>2 DEF Fired, x

(* Taking another message leaves it waiting.                               *)
LEMMA TailKeeps ==
  ASSUME NEW m \in Seq(Message), m # <<>>, NEW n, Fired(m, n),
         Head(m) # [type |-> "timeout", req |-> n]
  PROVE  Fired(Tail(m), n)
<1>1. PICK i \in 1..Len(m) : m[i] = [type |-> "timeout", req |-> n]
  BY DEF Fired
<1>2. i # 1
  BY <1>1
<1>3. i - 1 \in 1..Len(Tail(m)) /\ Tail(m)[i - 1] = m[i]
  BY <1>2
<1> QED BY <1>1, <1>3 DEF Fired

(* A handler takes its message, which leaves every timeout but its own.    *)
LEMMA Taken ==
  ASSUME TypeOK, NEW x, Receives(x)
  PROVE  /\ mailbox' \in Seq(Message)
         /\ \A n : Fired(mailbox, n) /\ x # [type |-> "timeout", req |-> n]
                  => Fired(mailbox', n)
<1>1. mailbox \in Seq(Message) /\ mailbox # <<>> /\ Head(mailbox) = x
      /\ mailbox' = Tail(mailbox)
  BY DEF TypeOK, Receives
<1>2. mailbox' \in Seq(Message)
  BY <1>1
<1> QED BY <1>1, <1>2, TailKeeps

(* A frame's pieces and a call are no timeouts.                            *)
LEMMA NoTimeouts ==
  \A n : /\ \A f : \A i \in 1..2 : Pieces(f)[i] # [type |-> "timeout", req |-> n]
        /\ \A k : [type |-> "call", req |-> k] # [type |-> "timeout", req |-> n]
<1>1. SUFFICES ASSUME NEW n, NEW f, NEW i \in 1..2
               PROVE  Pieces(f)[i] # [type |-> "timeout", req |-> n]
  OBVIOUS
<1>2. Pieces(f)[i].type = "data"
  BY DEF Pieces
<1> QED BY <1>2

PendingFired == pending # 0 => timer = pending \/ Fired(mailbox, pending)

LEMMA PendingFiredIsTimed == PendingFired <=> PendingIsTimed
BY DEF PendingFired, PendingIsTimed, Fired

-----------------------------------------------------------------------------
(* The initial states satisfy the invariant.                               *)
LEMMA InitInductive == Init => IInv
<1> SUFFICES ASSUME Init PROVE IInv
  OBVIOUS
<1>1. TypeOK
  BY SerialAssumption DEF Init, TypeOK, Frame, Nothing, Message, Piece, Request
<1>2. PendingIsTimed
  BY DEF Init, PendingIsTimed
<1> QED BY <1>1, <1>2 DEF IInv

(* Returning to a caller keeps what callers wait for in range.             *)
LEMMA ReturnType ==
  ASSUME caller \in [Caller -> 0..MaxRequests], NEW n, Return(n)
  PROVE  caller' \in [Caller -> 0..MaxRequests]
BY SerialAssumption DEF Return

(* handle_response ends the pending request or leaves it as it was.        *)
LEMMA ReplyType ==
  ASSUME TypeOK, NEW answers, Reply(answers),
         pending # 0 => answers \subseteq Request \X Request
  PROVE  /\ caller' \in [Caller -> 0..MaxRequests]
         /\ {pending', timer'} \subseteq 0..MaxRequests
         /\ answered' \subseteq Request \X Request
         /\ pending' = 0 \/ (pending' = pending /\ timer' = timer)
<1>1. CASE pending = 0
  BY <1>1 DEF Reply, TypeOK
<1>2. CASE pending # 0
  BY <1>2, ReturnType, SerialAssumption DEF Reply, TypeOK
<1> QED BY <1>1, <1>2

-----------------------------------------------------------------------------
(* Every step preserves the invariant.                                     *)
LEMMA NextInductive == IInv /\ [Next]_vars => IInv'
<1> SUFFICES ASSUME IInv, [Next]_vars PROVE IInv'
  OBVIOUS
<1> USE SerialAssumption
<1>0. TypeOK /\ PendingFired
  BY PendingFiredIsTimed DEF IInv
<1>1. TypeOK' /\ PendingFired'
  <2>1. ASSUME NEW c \in Caller, SendCommand(c) PROVE TypeOK' /\ PendingFired'
    <3> DEFINE x == [type |-> "call", req |-> issued + 1]
    <3>1. issued + 1 \in Request
      BY <1>0, <2>1 DEF TypeOK, SendCommand, Request
    <3>2. x \in Message
      BY <3>1, MessageTypes
    <3>3. mailbox' = Append(mailbox, x) /\ mailbox \in Seq(Message)
      BY <1>0, <2>1 DEF SendCommand, TypeOK
    <3> HIDE DEF x
    <3>4. TypeOK'
      BY <1>0, <2>1, <3>1, <3>2, <3>3
      DEF TypeOK, SendCommand, Request, connection, firmware
    <3>5. PendingFired'
      BY <1>0, <2>1, <3>2, <3>3, AppendKeeps DEF PendingFired, SendCommand, connection
    <3> QED BY <3>4, <3>5
  <2>2. ASSUME NEW c \in Caller, CallerTimeout(c) PROVE TypeOK' /\ PendingFired'
    BY <1>0, <2>2 DEF TypeOK, PendingFired, CallerTimeout, connection, firmware
  <2>3. ASSUME NEW n \in Request, HandleCall(n) PROVE TypeOK' /\ PendingFired'
    <3>1. mailbox' \in Seq(Message)
      BY <1>0, <2>3, Taken DEF HandleCall
    <3>2. /\ device \in Seq(Request)
          /\ device' = device \/ device' = Append(device, n)
          /\ pending' = n /\ timer' = n
      BY <1>0, <2>3 DEF TypeOK, HandleCall
    <3>3. device' \in Seq(Request)
      BY <3>2
    <3>4. {pending', timer'} \subseteq 0..MaxRequests
      BY <3>2 DEF Request
    <3>5. TypeOK'
      BY <1>0, <2>3, <3>1, <3>3, <3>4 DEF TypeOK, HandleCall
    <3> QED BY <2>3, <3>5 DEF PendingFired, HandleCall
  <2>4. ASSUME NEW n \in Request, HandleBusyCall(n) PROVE TypeOK' /\ PendingFired'
    <3>1. mailbox' \in Seq(Message) /\ (Fired(mailbox, pending) => Fired(mailbox', pending))
      BY <1>0, <2>4, Taken, NoTimeouts DEF HandleBusyCall
    <3>2. caller' \in [Caller -> 0..MaxRequests]
      BY <1>0, <2>4, ReturnType DEF HandleBusyCall, TypeOK
    <3> QED BY <1>0, <2>4, <3>1, <3>2
        DEF TypeOK, PendingFired, HandleBusyCall, connection, firmware
  <2>5. ASSUME NEW n \in Request, HandleTimeout(n) PROVE TypeOK' /\ PendingFired'
    <3>1. mailbox' \in Seq(Message)
      BY <1>0, <2>5, Taken DEF HandleTimeout
    <3> QED BY <1>0, <2>5, <3>1 DEF TypeOK, PendingFired, HandleTimeout, firmware
  <2>6. ASSUME NEW f \in Frame, HandleHead(f) PROVE TypeOK' /\ PendingFired'
    <3>1. mailbox' \in Seq(Message) /\ (Fired(mailbox, pending) => Fired(mailbox', pending))
      BY <1>0, <2>6, Taken, NoTimeouts DEF HandleHead
    <3> QED BY <1>0, <2>6, <3>1 DEF TypeOK, PendingFired, HandleHead, firmware
  <2>7. ASSUME NEW f \in Frame, HandleTail(f) PROVE TypeOK' /\ PendingFired'
    <3>1. mailbox' \in Seq(Message) /\ (Fired(mailbox, pending) => Fired(mailbox', pending))
      BY <1>0, <2>7, Taken, NoTimeouts DEF HandleTail
    <3>2. pending # 0 /\ f # Event => {<<pending, f>>} \subseteq Request \X Request
      BY <1>0 DEF TypeOK, Frame, Request, Event
    <3>3. /\ caller' \in [Caller -> 0..MaxRequests]
          /\ {pending', timer'} \subseteq 0..MaxRequests
          /\ answered' \subseteq Request \X Request
          /\ pending' = 0 \/ (pending' = pending /\ timer' = timer)
      <4>1. CASE Dropped
        BY <1>0, <4>1 DEF Dropped, TypeOK
      <4>2. CASE f # Event /\ Reply({<<pending, f>>})
        BY <1>0, <3>2, <4>2, ReplyType
      <4>3. CASE Reply({})
        BY <1>0, <4>3, ReplyType
      <4> QED BY <2>7, <4>1, <4>2, <4>3 DEF HandleTail
    <3>4. TypeOK'
      BY <1>0, <2>7, <3>1, <3>3 DEF TypeOK, HandleTail, firmware
    <3> QED BY <1>0, <3>1, <3>3, <3>4 DEF PendingFired
  <2>8. ASSUME Stop PROVE TypeOK' /\ PendingFired'
    <3>1. mailbox' \in Seq(Message) /\ wire' \in Seq(Piece)
      BY <2>8 DEF Stop
    <3>2. caller' \in [Caller -> 0..MaxRequests]
      BY <2>8 DEF Stop
    <3>3. /\ open' = FALSE /\ pending' = 0 /\ timer' = 0 /\ buffer' = Nothing
          /\ UNCHANGED <<issued, device, events, answered>>
      BY <2>8 DEF Stop
    <3>4. {pending', timer'} \subseteq 0..MaxRequests
      BY <3>3
    <3>5. TypeOK'
      BY <1>0, <3>1, <3>2, <3>3, <3>4 DEF TypeOK
    <3> QED BY <3>3, <3>5 DEF PendingFired
  <2>9. ASSUME Open PROVE TypeOK' /\ PendingFired'
    BY <1>0, <2>9 DEF TypeOK, PendingFired, Open, connection, firmware
  <2>10. ASSUME TimerFires PROVE TypeOK' /\ PendingFired'
    <3> DEFINE x == [type |-> "timeout", req |-> timer]
    <3>1. timer \in Request /\ mailbox \in Seq(Message)
      BY <1>0, <2>10 DEF TypeOK, TimerFires, Request
    <3>2. x \in Message /\ mailbox' = Append(mailbox, x)
      BY <2>10, <3>1, MessageTypes DEF TimerFires
    <3>3. Fired(mailbox', timer)
      BY <3>1, <3>2, AppendFires
    <3>4. Fired(mailbox, pending) => Fired(mailbox', pending)
      BY <3>1, <3>2, AppendKeeps
    <3> HIDE DEF x
    <3>5. TypeOK'
      BY <1>0, <2>10, <3>1, <3>2 DEF TypeOK, TimerFires, firmware
    <3> QED BY <1>0, <2>10, <3>3, <3>4, <3>5 DEF PendingFired, TimerFires
  <2>11. ASSUME Answer PROVE TypeOK' /\ PendingFired'
    <3>1. device' \in Seq(Request) /\ Head(device) \in Frame
      BY SMTT(30), ZenonT(60), <1>0, <2>11 DEF TypeOK, Answer, Request, Frame
    <3>2. wire \o Pieces(Head(device)) \in Seq(Piece)
      BY <1>0, <3>1, MessageTypes DEF TypeOK
    <3> QED BY <1>0, <2>11, <3>1, <3>2 DEF TypeOK, PendingFired, Answer, connection
  <2>12. ASSUME SendEvent PROVE TypeOK' /\ PendingFired'
    <3>1. wire \o Pieces(Event) \in Seq(Piece)
      BY <1>0, MessageTypes DEF TypeOK, Event, Frame
    <3> QED BY <1>0, <2>12, <3>1 DEF TypeOK, PendingFired, SendEvent, connection
  <2>13. ASSUME Deliver PROVE TypeOK' /\ PendingFired'
    <3>1. wire' \in Seq(Piece) /\ Head(wire) \in Message /\ mailbox \in Seq(Message)
      BY <1>0, <2>13 DEF TypeOK, Deliver, Message
    <3>2. mailbox' \in Seq(Message)
      BY <2>13, <3>1 DEF Deliver
    <3>3. Fired(mailbox, pending) => Fired(mailbox', pending)
      BY <2>13, <3>1, AppendKeeps DEF Deliver
    <3> QED BY <1>0, <2>13, <3>1, <3>2, <3>3 DEF TypeOK, PendingFired, Deliver, connection
  <2>14. CASE UNCHANGED vars
    BY <1>0, <2>14 DEF TypeOK, PendingFired, vars, connection, firmware
  <2> QED BY <2>1, <2>2, <2>3, <2>4, <2>5, <2>6, <2>7, <2>8, <2>9, <2>10,
             <2>11, <2>12, <2>13, <2>14 DEF Next, Handle
<1>2. PendingIsTimed'
  BY <1>1 DEF PendingFired, PendingIsTimed, Fired
<1> QED BY <1>1, <1>2 DEF IInv

-----------------------------------------------------------------------------
(* Every reachable state satisfies the invariant.                          *)
THEOREM Inductive == Spec => []IInv
<1>1. Init => IInv
  BY InitInductive
<1>2. IInv /\ [Next]_vars => IInv'
  BY NextInductive
<1> QED BY <1>1, <1>2, PTL DEF Spec

(* Every variable keeps its type: in particular only requests that were    *)
(* made are ever answered (handle_response looks at no request number).    *)
THEOREM TypeCorrect == Spec => []TypeOK
<1>1. IInv => TypeOK
  BY DEF IInv
<1> QED BY <1>1, Inductive, PTL

(* A pending request always has its timeout running or in the mailbox, so  *)
(* connection.ex never refuses callers as busy with nothing to end that.   *)
THEOREM AlwaysTimed == Spec => []PendingIsTimed
<1>1. IInv => PendingIsTimed
  BY DEF IInv
<1> QED BY <1>1, Inductive, PTL

-----------------------------------------------------------------------------
(* Frames, answers and timeouts.                                           *)

HeadOf(f) == [type |-> "data", frame |-> f, part |-> 1]
TailOf(f) == [type |-> "data", frame |-> f, part |-> 2]
IsData(m) == m.type = "data"

Has(s, x) == \E i \in 1..Len(s) : s[i] = x
Once(s, x) == \A i, j \in 1..Len(s) : s[i] = x /\ s[j] = x => i = j

(* The head of frame f is the last data before the i-th message of s, or,  *)
(* if there is none, what the connection holds, b.                         *)
Begun(s, b, f, i) ==
  \/ b = f /\ \A k \in 1..(i - 1) : ~IsData(s[k])
  \/ \E j \in 1..(i - 1) : s[j] = HeadOf(f) /\ \A k \in (j + 1)..(i - 1) : ~IsData(s[k])

(* The rest of a frame comes just behind its head.                         *)
MailboxPaired ==
  \A f \in Frame : \A i \in 1..Len(mailbox) :
    mailbox[i] = TailOf(f) => Begun(mailbox, buffer, f, i)

WirePaired ==
  \A f \in Frame : \A i \in 1..Len(wire) :
    wire[i] = TailOf(f) =>
      IF i = 1 THEN Begun(mailbox, buffer, f, Len(mailbox) + 1)
               ELSE wire[i - 1] = HeadOf(f)

(* The head of an answer has the rest behind it.                           *)
Followed(n) ==
  /\ \A j \in 1..Len(mailbox) :
       mailbox[j] = HeadOf(n) =>
         Has(wire, TailOf(n)) \/ \E i \in (j + 1)..Len(mailbox) : mailbox[i] = TailOf(n)
  /\ \A j \in 1..Len(wire) :
       wire[j] = HeadOf(n) => \E i \in (j + 1)..Len(wire) : wire[i] = TailOf(n)

(* There is one answer to a request at most.                               *)
Single(n) ==
  /\ Once(mailbox, TailOf(n)) /\ Once(wire, TailOf(n))
  /\ ~(Has(mailbox, TailOf(n)) /\ Has(wire, TailOf(n)))

Stream == MailboxPaired /\ WirePaired /\ \A n \in Request : Followed(n) /\ Single(n)

-----------------------------------------------------------------------------
(* A frame is a head and the rest.                                         *)
LEMMA PiecesAre ==
  ASSUME NEW f \in Frame
  PROVE  /\ Pieces(f) = <<HeadOf(f), TailOf(f)>>
         /\ HeadOf(f) \in Piece /\ TailOf(f) \in Piece
         /\ HeadOf(f) \in Message /\ TailOf(f) \in Message
         /\ IsData(HeadOf(f)) /\ IsData(TailOf(f))
BY DEF Pieces, HeadOf, TailOf, Piece, Message, IsData

LEMMA PiecesDiffer ==
  ASSUME NEW f, NEW g
  PROVE  /\ HeadOf(f) # TailOf(g)
         /\ (HeadOf(f) = HeadOf(g) => f = g) /\ (TailOf(f) = TailOf(g) => f = g)
         /\ IsData(HeadOf(f)) /\ IsData(TailOf(f))
BY DEF HeadOf, TailOf, IsData

LEMMA FrameTypes ==
  /\ Request \subseteq Frame
  /\ Event \in Frame \ Request
  /\ Nothing \notin Frame
BY SerialAssumption DEF Request, Frame, Event, Nothing

(* What a sequence has, and has once, when an element comes or the first   *)
(* one goes.                                                               *)
LEMMA AppendHas ==
  ASSUME NEW T, NEW s \in Seq(T), NEW y \in T, NEW x
  PROVE  Has(Append(s, y), x) <=> Has(s, x) \/ x = y
<1>1. Len(Append(s, y)) = Len(s) + 1 /\ Append(s, y)[Len(s) + 1] = y
      /\ \A i \in 1..Len(s) : Append(s, y)[i] = s[i]
  OBVIOUS
<1> QED BY <1>1 DEF Has

LEMMA AppendOnce ==
  ASSUME NEW T, NEW s \in Seq(T), NEW y \in T, NEW x, Once(s, x), x # y \/ ~Has(s, x)
  PROVE  Once(Append(s, y), x)
<1>1. Len(Append(s, y)) = Len(s) + 1 /\ Append(s, y)[Len(s) + 1] = y
      /\ \A i \in 1..Len(s) : Append(s, y)[i] = s[i]
  OBVIOUS
<1> QED BY <1>1 DEF Has, Once

LEMMA TailHas ==
  ASSUME NEW T, NEW s \in Seq(T), s # <<>>, NEW x
  PROVE  /\ Has(Tail(s), x) => Has(s, x)
         /\ Once(s, x) => Once(Tail(s), x)
         /\ Once(s, x) /\ Head(s) = x => ~Has(Tail(s), x)
         /\ Has(s, x) /\ Head(s) # x => Has(Tail(s), x)
         /\ Has(s, Head(s))
<1>1. Len(s) \in Nat \ {0} /\ Len(Tail(s)) = Len(s) - 1 /\ Head(s) = s[1]
      /\ \A i \in 1..Len(Tail(s)) : Tail(s)[i] = s[i + 1]
  OBVIOUS
<1>2. \A i \in 1..Len(s) : i = 1 \/ (i - 1 \in 1..Len(Tail(s)) /\ Tail(s)[i - 1] = s[i])
  BY <1>1
<1> QED BY <1>1, <1>2 DEF Has, Once

(* A message behind s changes nothing before it, and a call or a timeout    *)
(* leaves the frame begun.                                                 *)
LEMMA AppendBegun ==
  ASSUME NEW s \in Seq(Message), NEW x \in Message, NEW b, NEW f, NEW i \in 1..(Len(s) + 1)
  PROVE  /\ Begun(Append(s, x), b, f, i) <=> Begun(s, b, f, i)
         /\ ~IsData(x) /\ Begun(s, b, f, Len(s) + 1) => Begun(Append(s, x), b, f, Len(s) + 2)
         /\ x = HeadOf(f) => Begun(Append(s, x), b, f, Len(s) + 2)
<1>1. Len(s) \in Nat /\ Append(s, x)[Len(s) + 1] = x
      /\ \A k \in 1..Len(s) : Append(s, x)[k] = s[k]
  OBVIOUS
<1>2. \A k \in 1..(i - 1) : Append(s, x)[k] = s[k]
  BY <1>1
<1>3. Begun(Append(s, x), b, f, i) <=> Begun(s, b, f, i)
  BY <1>2 DEF Begun
<1>4. ASSUME ~IsData(x), Begun(s, b, f, Len(s) + 1)
      PROVE  Begun(Append(s, x), b, f, Len(s) + 2)
  <2>1. CASE b = f /\ \A k \in 1..Len(s) : ~IsData(s[k])
    <3>1. \A k \in 1..(Len(s) + 1) : ~IsData(Append(s, x)[k])
      BY <1>1, <1>4, <2>1
    <3> QED BY <1>1, <2>1, <3>1 DEF Begun
  <2>2. CASE \E j \in 1..Len(s) : s[j] = HeadOf(f) /\ \A k \in (j + 1)..Len(s) : ~IsData(s[k])
    <3>1. PICK j \in 1..Len(s) : s[j] = HeadOf(f) /\ \A k \in (j + 1)..Len(s) : ~IsData(s[k])
      BY <2>2
    <3>2. \A k \in (j + 1)..(Len(s) + 1) : ~IsData(Append(s, x)[k])
      BY <1>1, <1>4, <3>1
    <3> QED BY <1>1, <3>1, <3>2 DEF Begun
  <2> QED BY <1>1, <1>4, <2>1, <2>2 DEF Begun
<1>5. ASSUME x = HeadOf(f) PROVE Begun(Append(s, x), b, f, Len(s) + 2)
  BY <1>1, <1>5 DEF Begun
<1> QED BY <1>3, <1>4, <1>5

(* The first message of s is handled, and c is held afterwards.            *)
LEMMA TailBegun ==
  ASSUME NEW s \in Seq(Message), s # <<>>, NEW b, NEW c, NEW f \in Frame,
         NEW i \in 2..(Len(s) + 1), Begun(s, b, f, i),
         \/ ~IsData(Head(s)) /\ c = b
         \/ \E g \in Frame : Head(s) = HeadOf(g) /\ c = g
         \/ \E g \in Frame : Head(s) = TailOf(g)
  PROVE  Begun(Tail(s), c, f, i - 1)
<1>1. Len(s) \in Nat \ {0} /\ Len(Tail(s)) = Len(s) - 1 /\ Head(s) = s[1]
      /\ \A k \in 1..(Len(s) - 1) : Tail(s)[k] = s[k + 1]
  OBVIOUS
<1>2. CASE b = f /\ \A k \in 1..(i - 1) : ~IsData(s[k])
  <2>1. ~IsData(Head(s)) /\ c = b
    BY <1>1, <1>2, PiecesDiffer
  <2>2. \A k \in 1..(i - 2) : ~IsData(Tail(s)[k])
    BY <1>1, <1>2
  <2> QED BY <1>2, <2>1, <2>2 DEF Begun
<1>3. CASE \E j \in 1..(i - 1) : s[j] = HeadOf(f) /\ \A k \in (j + 1)..(i - 1) : ~IsData(s[k])
  <2>1. PICK j \in 1..(i - 1) : s[j] = HeadOf(f) /\ \A k \in (j + 1)..(i - 1) : ~IsData(s[k])
    BY <1>3
  <2>2. CASE j = 1
    <3>1. Head(s) = HeadOf(f) /\ c = f
      BY <1>1, <2>1, <2>2, PiecesDiffer
    <3>2. \A k \in 1..(i - 2) : ~IsData(Tail(s)[k])
      BY <1>1, <2>1, <2>2
    <3> QED BY <3>1, <3>2 DEF Begun
  <2>3. CASE j # 1
    <3>1. j - 1 \in 1..(i - 2) /\ Tail(s)[j - 1] = HeadOf(f)
      BY <1>1, <2>1, <2>3
    <3>2. \A k \in j..(i - 2) : ~IsData(Tail(s)[k])
      BY <1>1, <2>1, <2>3
    <3> QED BY <3>1, <3>2 DEF Begun
  <2> QED BY <2>2, <2>3
<1> QED BY <1>2, <1>3 DEF Begun

-----------------------------------------------------------------------------
(* A call or a timeout comes to the mailbox.                               *)
LEMMA StreamAppends ==
  ASSUME TypeOK, Stream, NEW x \in Message, ~IsData(x),
         mailbox' = Append(mailbox, x), UNCHANGED <<wire, buffer>>
  PROVE  Stream'
<1> DEFINE m == mailbox
<1>1. /\ m \in Seq(Message) /\ mailbox' \in Seq(Message) /\ Len(m) \in Nat
      /\ Len(mailbox') = Len(m) + 1 /\ mailbox'[Len(m) + 1] = x
      /\ \A i \in 1..Len(m) : mailbox'[i] = m[i]
  BY DEF TypeOK
<1>2. \A f : x # HeadOf(f) /\ x # TailOf(f)
  BY PiecesDiffer
<1>3. MailboxPaired'
  <2> SUFFICES ASSUME NEW f \in Frame, NEW i \in 1..Len(mailbox'), mailbox'[i] = TailOf(f)
               PROVE  Begun(mailbox', buffer', f, i)
    BY DEF MailboxPaired
  <2>1. i \in 1..Len(m) /\ m[i] = TailOf(f)
    BY <1>1, <1>2
  <2>2. Begun(m, buffer, f, i)
    BY <2>1 DEF MailboxPaired, Stream
  <2> QED BY <1>1, <2>1, <2>2, AppendBegun
<1>4. WirePaired'
  <2> SUFFICES ASSUME NEW f \in Frame, 1 \in 1..Len(wire), wire[1] = TailOf(f)
               PROVE  Begun(mailbox', buffer', f, Len(mailbox') + 1)
    BY DEF WirePaired, Stream
  <2>1. Begun(m, buffer, f, Len(m) + 1)
    BY DEF WirePaired, Stream
  <2>2. Begun(mailbox', buffer, f, Len(m) + 2)
    BY <1>1, <2>1, AppendBegun
  <2> QED BY <1>1, <2>2
<1>5. ASSUME NEW n \in Request PROVE Followed(n)' /\ Single(n)'
  <2>1. Followed(n)'
    BY <1>1, <1>2 DEF Stream, Followed
  <2>2. Single(n)'
    BY <1>1, <1>2, AppendHas, AppendOnce DEF Stream, Single
  <2> QED BY <2>1, <2>2
<1> QED BY <1>3, <1>4, <1>5 DEF Stream

(* The connection takes the first message of its mailbox.                  *)
LEMMA StreamTakes ==
  ASSUME TypeOK, Stream, mailbox # <<>>, mailbox' = Tail(mailbox), UNCHANGED wire,
         \/ ~IsData(Head(mailbox)) /\ buffer' = buffer
         \/ \E g \in Frame : Head(mailbox) = HeadOf(g) /\ buffer' = g
         \/ \E g \in Frame : Head(mailbox) = TailOf(g)
  PROVE  Stream'
<1> DEFINE m == mailbox
<1>1. /\ m \in Seq(Message) /\ Len(m) \in Nat \ {0}
      /\ Len(mailbox') = Len(m) - 1 /\ Head(m) = m[1]
      /\ \A i \in 1..Len(mailbox') : mailbox'[i] = m[i + 1]
  BY DEF TypeOK
<1>2. \A f \in Frame : \A i \in 2..(Len(m) + 1) :
        Begun(m, buffer, f, i) => Begun(mailbox', buffer', f, i - 1)
  BY <1>1, TailBegun
<1>3. MailboxPaired'
  <2> SUFFICES ASSUME NEW f \in Frame, NEW i \in 1..Len(mailbox'), mailbox'[i] = TailOf(f)
               PROVE  Begun(mailbox', buffer', f, i)
    BY DEF MailboxPaired
  <2>1. i + 1 \in 1..Len(m) /\ m[i + 1] = TailOf(f) /\ i + 1 \in 2..(Len(m) + 1)
    BY <1>1
  <2>2. Begun(m, buffer, f, i + 1)
    BY <2>1 DEF MailboxPaired, Stream
  <2>3. Begun(mailbox', buffer', f, i + 1 - 1)
    BY <1>2, <2>1, <2>2
  <2> QED BY <2>3
<1>4. WirePaired'
  <2> SUFFICES ASSUME NEW f \in Frame, 1 \in 1..Len(wire), wire[1] = TailOf(f)
               PROVE  Begun(mailbox', buffer', f, Len(mailbox') + 1)
    BY DEF WirePaired, Stream
  <2>1. Begun(m, buffer, f, Len(m) + 1)
    BY DEF WirePaired, Stream
  <2>2. Begun(mailbox', buffer', f, Len(m) + 1 - 1)
    BY <1>1, <1>2, <2>1
  <2> QED BY <1>1, <2>2
<1>5. ASSUME NEW n \in Request PROVE Followed(n)' /\ Single(n)'
  <2>1. ASSUME NEW j \in 1..Len(mailbox'), mailbox'[j] = HeadOf(n), ~Has(wire, TailOf(n))
        PROVE  \E i \in (j + 1)..Len(mailbox') : mailbox'[i] = TailOf(n)
    <3>1. j + 1 \in 1..Len(m) /\ m[j + 1] = HeadOf(n)
      BY <1>1, <2>1
    <3>2. PICK i \in (j + 2)..Len(m) : m[i] = TailOf(n)
      BY <2>1, <3>1 DEF Stream, Followed
    <3>3. i - 1 \in (j + 1)..Len(mailbox') /\ mailbox'[i - 1] = TailOf(n)
      BY <1>1, <3>2
    <3> QED BY <3>3
  <2>2. Followed(n)'
    BY <2>1 DEF Stream, Followed
  <2>3. Single(n)'
    BY <1>1, TailHas DEF Stream, Single
  <2> QED BY <2>2, <2>3
<1> QED BY <1>3, <1>4, <1>5 DEF Stream

(* The next piece of the wire comes to the mailbox.                        *)
LEMMA StreamDelivers ==
  ASSUME TypeOK, Stream, Deliver
  PROVE  Stream'
<1> DEFINE m == mailbox
           x == Head(wire)
<1>1. /\ m \in Seq(Message) /\ Len(m) \in Nat /\ x \in Message
      /\ mailbox' = Append(m, x) /\ mailbox' \in Seq(Message)
      /\ Len(mailbox') = Len(m) + 1 /\ mailbox'[Len(m) + 1] = x
      /\ \A i \in 1..Len(m) : mailbox'[i] = m[i]
      /\ buffer' = buffer
  BY DEF TypeOK, Deliver, Message, connection
<1>2. /\ wire \in Seq(Piece) /\ wire # <<>> /\ wire' = Tail(wire) /\ Len(wire) \in Nat \ {0}
      /\ Len(wire') = Len(wire) - 1 /\ x = wire[1] /\ 1 \in 1..Len(wire)
      /\ \A i \in 1..Len(wire') : wire'[i] = wire[i + 1]
  BY DEF TypeOK, Deliver
<1> HIDE DEF x
<1>3. MailboxPaired'
  <2> SUFFICES ASSUME NEW f \in Frame, NEW i \in 1..Len(mailbox'), mailbox'[i] = TailOf(f)
               PROVE  Begun(mailbox', buffer', f, i)
    BY DEF MailboxPaired
  <2>1. Begun(m, buffer, f, i) /\ i \in 1..(Len(m) + 1)
    <3>1. CASE i \in 1..Len(m)
      BY <1>1, <3>1 DEF MailboxPaired, Stream
    <3>2. CASE i = Len(m) + 1
      BY <1>1, <1>2, <3>2 DEF WirePaired, Stream
    <3> QED BY <1>1, <3>1, <3>2
  <2> QED BY <1>1, <2>1, AppendBegun
<1>4. WirePaired'
  <2> SUFFICES ASSUME NEW f \in Frame, NEW i \in 1..Len(wire'), wire'[i] = TailOf(f)
               PROVE  IF i = 1 THEN Begun(mailbox', buffer', f, Len(mailbox') + 1)
                               ELSE wire'[i - 1] = HeadOf(f)
    BY DEF WirePaired
  <2>1. i + 1 \in 1..Len(wire) /\ wire[i + 1] = TailOf(f) /\ i + 1 # 1
    BY <1>2
  <2>2. wire[i + 1 - 1] = HeadOf(f)
    BY <2>1 DEF WirePaired, Stream
  <2>3. CASE i = 1
    <3>1. x = HeadOf(f)
      BY <1>2, <2>2, <2>3
    <3>2. Begun(mailbox', buffer, f, Len(m) + 2)
      BY <1>1, <3>1, AppendBegun
    <3> QED BY <1>1, <2>3, <3>2
  <2>4. CASE i # 1
    <3>1. i - 1 \in 1..Len(wire') /\ wire'[i - 1] = wire[i]
      BY <1>2, <2>4
    <3> QED BY <2>2, <2>4, <3>1
  <2> QED BY <2>3, <2>4
<1>5. ASSUME NEW n \in Request PROVE Followed(n)' /\ Single(n)'
  <2> DEFINE t == TailOf(n)
  <2>0. Followed(n) /\ Single(n) /\ HeadOf(n) # t
    BY PiecesDiffer DEF Stream
  <2>1. /\ Has(wire, t) /\ x # t => Has(wire', t)
        /\ Has(wire', t) => Has(wire, t)
        /\ Has(mailbox', t) <=> Has(m, t) \/ x = t
        /\ Once(wire, t) /\ x = t => ~Has(wire', t)
        /\ Once(wire, t) => Once(wire', t)
        /\ x = t => Has(wire, t)
    BY <1>1, <1>2, TailHas, AppendHas
  <2>2. Single(n)'
    BY <1>1, <2>0, <2>1, AppendOnce DEF Single
  <2>3. ASSUME NEW j \in 1..Len(wire'), wire'[j] = HeadOf(n)
        PROVE  \E i \in (j + 1)..Len(wire') : wire'[i] = t
    <3>1. j + 1 \in 1..Len(wire) /\ wire[j + 1] = HeadOf(n)
      BY <1>2, <2>3
    <3>2. PICK i \in (j + 2)..Len(wire) : wire[i] = t
      BY <2>0, <3>1 DEF Followed
    <3>3. i - 1 \in (j + 1)..Len(wire') /\ wire'[i - 1] = t
      BY <1>2, <3>2
    <3> QED BY <3>3
  <2>4. ASSUME NEW j \in 1..Len(mailbox'), mailbox'[j] = HeadOf(n)
        PROVE  Has(wire', t) \/ \E i \in (j + 1)..Len(mailbox') : mailbox'[i] = t
    <3>1. CASE j \in 1..Len(m) /\ Has(wire, t)
      BY <1>1, <2>1, <3>1
    <3>2. CASE j \in 1..Len(m) /\ ~Has(wire, t)
      <4>1. PICK i \in (j + 1)..Len(m) : m[i] = t
        BY <1>1, <2>0, <2>4, <3>2 DEF Followed
      <4> QED BY <1>1, <4>1
    <3>3. CASE j = Len(m) + 1
      <4>1. wire[1] = HeadOf(n)
        BY <1>1, <1>2, <2>4, <3>3
      <4>2. PICK i \in 2..Len(wire) : wire[i] = t
        BY <1>2, <2>0, <4>1 DEF Followed
      <4>3. Has(wire, t) /\ x # t
        BY <1>2, <2>0, <4>1, <4>2 DEF Has
      <4> QED BY <2>1, <4>3
    <3> QED BY <1>1, <3>1, <3>2, <3>3
  <2> QED BY <2>2, <2>3, <2>4 DEF Followed
<1> QED BY <1>3, <1>4, <1>5 DEF Stream

LEMMA ConcatPair ==
  ASSUME NEW T, NEW s \in Seq(T), NEW a \in T, NEW b \in T
  PROVE  s \o <<a, b>> = Append(Append(s, a), b)
OBVIOUS

(* A frame on the wire.                                                    *)
LEMMA ConcatHas ==
  ASSUME TypeOK, NEW f \in Frame
  PROVE  \A x : Has(wire \o Pieces(f), x) <=> Has(wire, x) \/ x = HeadOf(f) \/ x = TailOf(f)
<1>1. wire \in Seq(Piece) /\ HeadOf(f) \in Piece /\ TailOf(f) \in Piece
  BY PiecesAre DEF TypeOK
<1>2. wire \o Pieces(f) = Append(Append(wire, HeadOf(f)), TailOf(f))
  <2>1. wire \o <<HeadOf(f), TailOf(f)>> = Append(Append(wire, HeadOf(f)), TailOf(f))
    BY <1>1, ConcatPair
  <2> QED BY <2>1, PiecesAre
<1>3. Append(wire, HeadOf(f)) \in Seq(Piece)
  BY <1>1
<1>4. \A x : Has(Append(wire, HeadOf(f)), x) <=> Has(wire, x) \/ x = HeadOf(f)
  BY <1>1, AppendHas
<1>5. \A x : Has(wire \o Pieces(f), x)
             <=> Has(Append(wire, HeadOf(f)), x) \/ x = TailOf(f)
  <2> DEFINE v == Append(wire, HeadOf(f))
  <2>1. v \in Seq(Piece) /\ wire \o Pieces(f) = Append(v, TailOf(f))
    BY <1>2, <1>3
  <2> HIDE DEF v
  <2>2. \A x : Has(Append(v, TailOf(f)), x) <=> Has(v, x) \/ x = TailOf(f)
    BY <1>1, <2>1, AppendHas
  <2> QED BY <2>1, <2>2 DEF v
<1> QED BY <1>4, <1>5

(* A frame comes on the wire: an event, or an answer there was no other of. *)
LEMMA StreamGrows ==
  ASSUME TypeOK, Stream, NEW f \in Frame, wire' = wire \o Pieces(f),
         UNCHANGED <<mailbox, buffer>>,
         f \in Request => ~Has(mailbox, TailOf(f)) /\ ~Has(wire, TailOf(f))
  PROVE  Stream'
<1> DEFINE w == wire
           v == Append(w, HeadOf(f))
<1>1. /\ w \in Seq(Piece) /\ Len(w) \in Nat /\ wire' = Append(v, TailOf(f))
      /\ v \in Seq(Piece) /\ HeadOf(f) \in Piece /\ TailOf(f) \in Piece
  <2>1. w \in Seq(Piece) /\ Pieces(f) = <<HeadOf(f), TailOf(f)>>
        /\ HeadOf(f) \in Piece /\ TailOf(f) \in Piece
    BY PiecesAre DEF TypeOK
  <2>2. v \in Seq(Piece) /\ Len(w) \in Nat
    BY <2>1
  <2> QED BY <2>1, <2>2, ConcatPair
<1>2. /\ Len(wire') = Len(w) + 2
      /\ wire'[Len(w) + 1] = HeadOf(f) /\ wire'[Len(w) + 2] = TailOf(f)
      /\ \A i \in 1..Len(w) : wire'[i] = w[i]
  BY <1>1
<1> HIDE DEF v
<1>3. MailboxPaired'
  BY DEF Stream, MailboxPaired
<1>4. WirePaired'
  <2> SUFFICES ASSUME NEW g \in Frame, NEW i \in 1..Len(wire'), wire'[i] = TailOf(g)
               PROVE  IF i = 1 THEN Begun(mailbox, buffer, g, Len(mailbox) + 1)
                               ELSE wire'[i - 1] = HeadOf(g)
    BY DEF WirePaired
  <2>1. CASE i \in 1..Len(w)
    <3>1. IF i = 1 THEN Begun(mailbox, buffer, g, Len(mailbox) + 1)
                   ELSE w[i - 1] = HeadOf(g)
      BY <1>2, <2>1 DEF WirePaired, Stream
    <3>2. i # 1 => i - 1 \in 1..Len(w)
      BY <1>1, <2>1
    <3> QED BY <1>2, <3>1, <3>2
  <2>2. CASE i = Len(w) + 1
    BY <1>2, <2>2, PiecesDiffer
  <2>3. CASE i = Len(w) + 2
    BY <1>1, <1>2, <2>3, PiecesDiffer
  <2> QED BY <1>1, <1>2, <2>1, <2>2, <2>3
<1>5. ASSUME NEW n \in Request PROVE Followed(n)' /\ Single(n)'
  <2>0. Followed(n) /\ Single(n) /\ HeadOf(f) # TailOf(n) /\ HeadOf(n) # TailOf(f)
    BY PiecesDiffer DEF Stream
  <2>1. Has(v, TailOf(n)) <=> Has(w, TailOf(n))
    BY <1>1, <2>0, AppendHas DEF v
  <2>2. Has(wire', TailOf(n)) <=> Has(w, TailOf(n)) \/ n = f
    <3>1. Has(wire', TailOf(n)) <=> Has(v, TailOf(n)) \/ TailOf(n) = TailOf(f)
      BY <1>1, AppendHas
    <3> QED BY <2>1, <3>1, PiecesDiffer
  <2>3. Once(v, TailOf(n))
    BY <1>1, <2>0, AppendOnce DEF Single, v
  <2>4. Once(wire', TailOf(n))
    <3>1. TailOf(n) # TailOf(f) \/ ~Has(v, TailOf(n))
      BY <2>1, PiecesDiffer
    <3> QED BY <1>1, <2>3, <3>1, AppendOnce
  <2>5. Single(n)'
    BY <2>0, <2>2, <2>4 DEF Single
  <2>6. ASSUME NEW j \in 1..Len(wire'), wire'[j] = HeadOf(n)
        PROVE  \E i \in (j + 1)..Len(wire') : wire'[i] = TailOf(n)
    <3>1. CASE j \in 1..Len(w)
      <4>1. PICK i \in (j + 1)..Len(w) : w[i] = TailOf(n)
        BY <1>2, <2>0, <2>6, <3>1 DEF Followed
      <4>2. i \in 1..Len(w) /\ i \in (j + 1)..Len(wire')
        BY <1>1, <1>2, <3>1
      <4> QED BY <1>2, <4>1, <4>2
    <3>2. CASE j = Len(w) + 1
      BY <1>1, <1>2, <2>6, <3>2, PiecesDiffer
    <3>3. CASE j = Len(w) + 2
      BY <1>2, <2>0, <2>6, <3>3
    <3> QED BY <1>1, <1>2, <3>1, <3>2, <3>3
  <2>7. Followed(n)'
    BY <2>0, <2>2, <2>6 DEF Followed
  <2> QED BY <2>5, <2>7
<1> QED BY <1>3, <1>4, <1>5 DEF Stream

-----------------------------------------------------------------------------
(* The answer to request n has not reached the connection yet.             *)
Owing(n) ==
  \/ Has(device, n)
  \/ Has(mailbox, HeadOf(n)) \/ Has(mailbox, TailOf(n))
  \/ Has(wire, HeadOf(n)) \/ Has(wire, TailOf(n))

Owed == open => \A n \in Request : Owing(n) => pending = n /\ timer = n

Timeouts ==
  /\ \A i \in 1..Len(mailbox) :
       mailbox[i].type = "timeout" => mailbox[i].req = pending /\ timer = 0
  /\ \A i, j \in 1..Len(mailbox) :
       mailbox[i].type = "timeout" /\ mailbox[j].type = "timeout" => i = j

Commands ==
  /\ Len(device) <= 1
  /\ \A n \in Request :
       Has(device, n) => ~Has(mailbox, TailOf(n)) /\ ~Has(wire, TailOf(n))

Quiet == ~open => mailbox = <<>> /\ wire = <<>> /\ pending = 0 /\ buffer = Nothing

Armed == timer \in {0, pending}

Own == \A a \in answered : a[1] = a[2]

Matched == Stream /\ Owed /\ Timeouts /\ Commands /\ Own

OwnInv == TypeOK /\ Quiet /\ Armed /\ (~crossed => Matched)

(* MCSerialConnection's word for it.                                       *)
LEMMA OwingIsUnderway == ASSUME TypeOK, NEW n \in Request PROVE Owing(n) <=> Underway(n)
<1>1. /\ device \in Seq(Request) /\ wire \in Seq(Piece) /\ mailbox \in Seq(Message)
      /\ Pieces(n)[1] = HeadOf(n) /\ Pieces(n)[2] = TailOf(n)
  BY PiecesAre, FrameTypes DEF TypeOK
<1>2. /\ n \in Range(device) <=> Has(device, n)
      /\ \A x : x \in Range(wire) <=> Has(wire, x)
      /\ \A x : x \in Range(mailbox) <=> Has(mailbox, x)
  BY <1>1 DEF Range, Has
<1> QED BY <1>1, <1>2 DEF Owing, Underway

(* Nothing that is timed out is under way.                                 *)
LEMMA TimedOutIsNotOwed ==
  ASSUME TypeOK, open, Owed, timer = 0, NEW n \in Request
  PROVE  ~Owing(n)
BY SerialAssumption DEF Owed, Request

LEMMA MessageFacts ==
  /\ \A m \in Message : m.type \in {"data", "call", "timeout"}
  /\ \A n : [type |-> "call", req |-> n].type = "call"
  /\ \A n : [type |-> "timeout", req |-> n].type = "timeout"
  /\ \A n : [type |-> "timeout", req |-> n].req = n
  /\ \A f : HeadOf(f).type = "data" /\ TailOf(f).type = "data"
BY DEF Message, Piece, HeadOf, TailOf

(* Timeouts stay as they are when another message comes or goes.           *)
LEMMA TimeoutsAppend ==
  ASSUME TypeOK, Timeouts, NEW x \in Message, x.type # "timeout",
         mailbox' = Append(mailbox, x), UNCHANGED <<pending, timer>>
  PROVE  Timeouts'
<1>1. /\ mailbox \in Seq(Message) /\ Len(mailbox) \in Nat
      /\ Len(mailbox') = Len(mailbox) + 1 /\ mailbox'[Len(mailbox) + 1] = x
      /\ \A i \in 1..Len(mailbox) : mailbox'[i] = mailbox[i]
  BY DEF TypeOK
<1>2. \A i \in 1..Len(mailbox') : mailbox'[i].type = "timeout" => i \in 1..Len(mailbox)
  BY <1>1
<1> QED BY <1>1, <1>2 DEF Timeouts

(* Once the only timeout has been taken, or a timer runs, none waits.       *)
LEMMA TimeoutsTail ==
  ASSUME TypeOK, Timeouts, mailbox # <<>>, mailbox' = Tail(mailbox)
  PROVE  /\ UNCHANGED <<pending, timer>> => Timeouts'
         /\ Head(mailbox).type = "timeout" =>
              Timeouts' /\ \A i \in 1..Len(mailbox') : mailbox'[i].type # "timeout"
         /\ timer # 0 \/ pending = 0 =>
              Timeouts' /\ \A i \in 1..Len(mailbox') : mailbox'[i].type # "timeout"
<1>1. /\ mailbox \in Seq(Message) /\ Len(mailbox) \in Nat \ {0}
      /\ Len(mailbox') = Len(mailbox) - 1 /\ Head(mailbox) = mailbox[1]
      /\ \A i \in 1..Len(mailbox') : i + 1 \in 1..Len(mailbox) /\ mailbox'[i] = mailbox[i + 1]
  BY DEF TypeOK
<1>2. \A i \in 1..Len(mailbox) : mailbox[i].type = "timeout" => mailbox[i].req \in Request
  BY <1>1 DEF Message, Piece
<1>3. UNCHANGED <<pending, timer>> => Timeouts'
  BY <1>1 DEF Timeouts
<1>4. ASSUME Head(mailbox).type = "timeout" \/ timer # 0 \/ pending = 0
      PROVE  Timeouts' /\ \A i \in 1..Len(mailbox') : mailbox'[i].type # "timeout"
  <2>1. ASSUME NEW i \in 1..Len(mailbox') PROVE mailbox'[i].type # "timeout"
    <3>1. CASE Head(mailbox).type = "timeout"
      BY <1>1, <3>1 DEF Timeouts
    <3>2. CASE timer # 0 \/ pending = 0
      BY <1>1, <1>2, <3>2, SerialAssumption DEF Timeouts, Request
    <3> QED BY <1>4, <3>1, <3>2
  <2> QED BY <2>1 DEF Timeouts
<1> QED BY <1>3, <1>4

-----------------------------------------------------------------------------
(* One lemma per step.                                                     *)

(* A connection that has ended holds nothing, and a timer is that of the    *)
(* pending request, whatever has crossed.                                  *)
LEMMA QuietStep ==
  ASSUME TypeOK, Quiet, Armed, Next
  PROVE  Quiet' /\ Armed'
<1> USE SerialAssumption DEF Quiet, Armed
<1>1. ASSUME NEW c \in Caller, SendCommand(c) PROVE Quiet' /\ Armed'
  BY <1>1 DEF SendCommand, connection, firmware
<1>2. ASSUME NEW c \in Caller, CallerTimeout(c) PROVE Quiet' /\ Armed'
  BY <1>2 DEF CallerTimeout, connection, firmware
<1>3. ASSUME NEW n \in Request, HandleCall(n) PROVE Quiet' /\ Armed'
  BY <1>3 DEF HandleCall, Receives
<1>4. ASSUME NEW n \in Request, HandleBusyCall(n) PROVE Quiet' /\ Armed'
  BY <1>4 DEF HandleBusyCall, Receives, connection, firmware
<1>5. ASSUME NEW n \in Request, HandleTimeout(n) PROVE Quiet' /\ Armed'
  BY <1>5 DEF HandleTimeout, Receives, firmware
<1>6. ASSUME NEW f \in Frame, HandleHead(f) PROVE Quiet' /\ Armed'
  BY <1>6 DEF HandleHead, Receives, firmware
<1>7. ASSUME NEW f \in Frame, HandleTail(f) PROVE Quiet' /\ Armed'
  <2>1. open /\ open' = open
    BY <1>7 DEF HandleTail, Receives
  <2>2. Armed'
    BY <1>7 DEF HandleTail, Dropped, Reply
  <2> QED BY <2>1, <2>2
<1>8. CASE Stop
  BY <1>8 DEF Stop
<1>9. CASE Open
  BY <1>9 DEF Open, connection
<1>10. CASE TimerFires
  BY <1>10 DEF TimerFires
<1>11. CASE Answer
  BY <1>11 DEF Answer, connection
<1>12. CASE SendEvent
  BY <1>12 DEF SendEvent, connection
<1>13. CASE Deliver
  BY <1>13 DEF Deliver, connection
<1> QED BY <1>1, <1>2, <1>3, <1>4, <1>5, <1>6, <1>7, <1>8, <1>9, <1>10,
           <1>11, <1>12, <1>13 DEF Next, Handle

(* Nothing new is owed when the connection takes a message.                *)
LEMMA TakesOwing ==
  ASSUME TypeOK, mailbox # <<>>, mailbox' = Tail(mailbox), UNCHANGED <<wire, device>>
  PROVE  /\ \A n \in Request : Owing(n)' => Owing(n)
         /\ Commands => Commands'
<1>1. mailbox \in Seq(Message)
  BY DEF TypeOK
<1>2. \A x : Has(mailbox', x) => Has(mailbox, x)
  BY <1>1, TailHas
<1> QED BY <1>2 DEF Owing, Commands

(* Nor when a call or a timeout comes.                                     *)
LEMMA AppendsOwing ==
  ASSUME TypeOK, NEW x \in Message, ~IsData(x), mailbox' = Append(mailbox, x),
         UNCHANGED <<wire, device>>
  PROVE  /\ \A n \in Request : Owing(n)' <=> Owing(n)
         /\ Commands => Commands'
<1>1. mailbox \in Seq(Message)
  BY DEF TypeOK
<1>2. \A y : IsData(y) => (Has(mailbox', y) <=> Has(mailbox, y))
  BY <1>1, AppendHas
<1> QED BY <1>2, PiecesDiffer DEF Owing, Commands

LEMMA SendCommandMatched ==
  ASSUME OwnInv, Matched, NEW c \in Caller, SendCommand(c) PROVE Matched'
<1> DEFINE x == [type |-> "call", req |-> issued + 1]
<1>1. issued + 1 \in Request
  BY SerialAssumption DEF OwnInv, TypeOK, SendCommand, Request
<1>2. x \in Message /\ ~IsData(x) /\ x.type # "timeout"
  BY <1>1, MessageTypes DEF IsData
<1>3. /\ mailbox' = Append(mailbox, x)
      /\ UNCHANGED <<open, pending, timer, buffer, device, wire, answered>>
  BY DEF SendCommand, connection, firmware
<1> HIDE DEF x
<1>4. Stream' /\ Timeouts'
  BY <1>2, <1>3, StreamAppends, TimeoutsAppend DEF OwnInv, Matched
<1>5. Owed' /\ Commands' /\ Own'
  BY <1>2, <1>3, AppendsOwing DEF OwnInv, Matched, Owed, Own
<1> QED BY <1>4, <1>5 DEF Matched

(* A command that is let through finds nothing under way.                   *)
LEMMA HandleCallMatched ==
  ASSUME OwnInv, Matched, NEW n \in Request, HandleCall(n) PROVE Matched'
<1>1. /\ mailbox # <<>> /\ mailbox' = Tail(mailbox)
      /\ Head(mailbox) = [type |-> "call", req |-> n]
      /\ pending = 0 /\ pending' = n /\ timer' = n
      /\ UNCHANGED <<open, buffer, wire, answered>>
      /\ device' = device \/ device' = Append(device, n)
  BY DEF HandleCall, Receives
<1>2. TypeOK /\ open /\ timer = 0
  BY <1>1 DEF OwnInv, Quiet, Armed
<1>3. ~IsData(Head(mailbox))
  BY <1>1 DEF IsData
<1>4. \A k \in Request : ~Owing(k)
  BY <1>2, TimedOutIsNotOwed DEF Matched
<1>5. device \in Seq(Request) /\ device = <<>>
  <2>1. device \in Seq(Request)
    BY <1>2 DEF TypeOK
  <2>2. ASSUME device # <<>> PROVE FALSE
    <3>1. Head(device) \in Request /\ Has(device, Head(device))
      BY <2>1, <2>2, TailHas
    <3> QED BY <1>4, <3>1 DEF Owing
  <2> QED BY <2>1, <2>2
<1>6. mailbox \in Seq(Message) /\ \A x : Has(mailbox', x) => Has(mailbox, x)
  BY <1>1, <1>2, TailHas DEF TypeOK
<1>7. Stream'
  BY <1>1, <1>2, <1>3, StreamTakes DEF Matched
<1>8. Timeouts'
  BY <1>1, <1>2, TimeoutsTail DEF Matched
<1>9. Len(device') <= 1 /\ \A k \in Request : Has(device', k) => k = n
  <2>1. device' = <<>> \/ device' = <<n>>
    BY <1>1, <1>5
  <2>2. CASE device' = <<>>
    BY <2>2 DEF Has
  <2>3. CASE device' = <<n>>
    <3>1. Len(device') = 1 /\ device'[1] = n
      BY <2>3
    <3> QED BY <3>1 DEF Has
  <2> QED BY <2>1, <2>2, <2>3
<1>10. Owed'
  BY <1>1, <1>4, <1>6, <1>9 DEF Owed, Owing
<1>11. Commands' /\ Own'
  BY <1>1, <1>4, <1>6, <1>9 DEF Commands, Owing, Own, Matched
<1> QED BY <1>7, <1>8, <1>10, <1>11 DEF Matched

LEMMA HandleBusyCallMatched ==
  ASSUME OwnInv, Matched, NEW n \in Request, HandleBusyCall(n) PROVE Matched'
<1>1. /\ mailbox # <<>> /\ mailbox' = Tail(mailbox)
      /\ Head(mailbox) = [type |-> "call", req |-> n]
      /\ UNCHANGED <<open, pending, timer, buffer, device, wire, answered>>
  BY DEF HandleBusyCall, Receives, connection, firmware
<1>2. ~IsData(Head(mailbox))
  BY <1>1 DEF IsData
<1>3. Stream' /\ Timeouts'
  BY <1>1, <1>2, StreamTakes, TimeoutsTail DEF OwnInv, Matched
<1>4. Owed' /\ Commands' /\ Own'
  BY <1>1, TakesOwing DEF OwnInv, Matched, Owed, Own
<1> QED BY <1>3, <1>4 DEF Matched

LEMMA HandleTimeoutMatched ==
  ASSUME OwnInv, Matched, NEW n \in Request, HandleTimeout(n), ~Crosses PROVE Matched'
<1>1. /\ mailbox # <<>> /\ mailbox' = Tail(mailbox)
      /\ Head(mailbox) = [type |-> "timeout", req |-> n]
      /\ pending' = 0 /\ timer' = 0 /\ buffer' = Nothing
      /\ UNCHANGED <<open, device, wire, answered>>
  BY DEF HandleTimeout, Receives, firmware
<1>2. ~IsData(Head(mailbox)) /\ Head(mailbox).type = "timeout" /\ buffer = Nothing
  BY <1>1 DEF IsData, Crosses
<1>3. Stream' /\ Timeouts'
  BY <1>1, <1>2, StreamTakes, TimeoutsTail DEF OwnInv, Matched
<1>4. timer = 0
  <2>1. 1 \in 1..Len(mailbox) /\ mailbox[1].type = "timeout"
    BY <1>1, <1>2 DEF OwnInv, TypeOK
  <2> QED BY <2>1 DEF Matched, Timeouts
<1>5. Owed'
  BY <1>1, <1>4, TakesOwing, TimedOutIsNotOwed DEF OwnInv, Matched, Owed
<1>6. Commands' /\ Own'
  BY <1>1, TakesOwing DEF OwnInv, Matched, Own
<1> QED BY <1>3, <1>5, <1>6 DEF Matched

LEMMA HandleHeadMatched ==
  ASSUME OwnInv, Matched, NEW f \in Frame, HandleHead(f) PROVE Matched'
<1>1. /\ mailbox # <<>> /\ mailbox' = Tail(mailbox)
      /\ Head(mailbox) = HeadOf(f) /\ buffer' = f
      /\ UNCHANGED <<open, pending, timer, device, wire, answered>>
  BY PiecesAre DEF HandleHead, Receives, firmware
<1>2. Stream' /\ Timeouts'
  BY <1>1, StreamTakes, TimeoutsTail DEF OwnInv, Matched
<1>3. Owed' /\ Commands' /\ Own'
  BY <1>1, TakesOwing DEF OwnInv, Matched, Owed, Own
<1> QED BY <1>2, <1>3 DEF Matched

(* The head of the frame is in the buffer, the frame answers the pending   *)
(* request, and nothing is owed any more.                                  *)
LEMMA HandleTailMatched ==
  ASSUME OwnInv, Matched, NEW f \in Frame, HandleTail(f) PROVE Matched'
<1>1. /\ mailbox # <<>> /\ mailbox' = Tail(mailbox)
      /\ Head(mailbox) = TailOf(f) /\ buffer' = Nothing
      /\ UNCHANGED <<open, device, wire>>
  BY PiecesAre DEF HandleTail, Receives, firmware
<1>2. /\ TypeOK /\ open /\ mailbox \in Seq(Message)
      /\ 1 \in 1..Len(mailbox) /\ mailbox[1] = TailOf(f)
  BY <1>1 DEF OwnInv, TypeOK, Quiet
<1>3. buffer = f
  <2>1. Begun(mailbox, buffer, f, 1)
    BY <1>2 DEF Matched, Stream, MailboxPaired
  <2> QED BY <2>1 DEF Begun
<1>4. Stream'
  BY <1>1, <1>2, StreamTakes DEF Matched
<1>5. \A k \in Request : Owing(k)' => Owing(k)
  BY <1>1, <1>2, TakesOwing
<1>6. Commands'
  BY <1>1, <1>2, TakesOwing DEF Matched
<1>7. CASE f = Event
  <2>1. UNCHANGED <<pending, timer, answered>>
    BY <1>3, <1>7 DEF HandleTail, Dropped
  <2>2. Timeouts'
    BY <1>1, <1>2, <2>1, TimeoutsTail DEF Matched
  <2>3. Owed' /\ Own'
    BY <1>1, <1>5, <2>1 DEF Owed, Own, Matched
  <2> QED BY <1>4, <1>6, <2>2, <2>3 DEF Matched
<1>8. CASE f # Event
  <2>1. f \in Request
    BY <1>8, SerialAssumption DEF Frame, Request, Event
  <2>2. Has(mailbox, TailOf(f))
    BY <1>2 DEF Has
  <2>3. pending = f /\ timer = f /\ f # 0
    BY <1>2, <2>1, <2>2 DEF Matched, Owed, Owing, Request
  <2>4. /\ pending' = 0 /\ timer' = 0
        /\ answered' = answered \cup {<<f, f>>}
    BY <1>3, <1>8, <2>3 DEF HandleTail, Reply
  <2>5. Timeouts'
    BY <1>1, <1>2, <2>3, TimeoutsTail DEF Matched
  <2>6. ~Has(mailbox', TailOf(f)) /\ ~Has(wire', TailOf(f)) /\ ~Has(device', f)
    BY <1>1, <1>2, <2>1, <2>2, TailHas DEF Matched, Stream, Single, Commands
  <2>7. ~Has(mailbox', HeadOf(f)) /\ ~Has(wire', HeadOf(f))
    <3>1. /\ \A i \in 1..Len(mailbox') : mailbox'[i] # TailOf(f)
          /\ \A i \in 1..Len(wire') : wire'[i] # TailOf(f)
      BY <2>6 DEF Has
    <3>2. Followed(f)'
      BY <1>4, <2>1 DEF Stream
    <3>3. mailbox' \in Seq(Message) /\ wire' \in Seq(Piece)
      BY <1>1, <1>2 DEF TypeOK
    <3>4. ASSUME NEW j \in 1..Len(mailbox'), mailbox'[j] = HeadOf(f) PROVE FALSE
      <4>1. PICK i \in (j + 1)..Len(mailbox') : mailbox'[i] = TailOf(f)
        BY <2>6, <3>2, <3>4 DEF Followed
      <4> QED BY <3>1, <3>3, <4>1
    <3>5. ASSUME NEW j \in 1..Len(wire'), wire'[j] = HeadOf(f) PROVE FALSE
      <4>1. PICK i \in (j + 1)..Len(wire') : wire'[i] = TailOf(f)
        BY <3>2, <3>5 DEF Followed
      <4> QED BY <3>1, <3>3, <4>1
    <3> QED BY <3>4, <3>5 DEF Has
  <2>8. \A k \in Request : ~Owing(k)'
    <3>1. ~Owing(f)'
      BY <2>6, <2>7 DEF Owing
    <3>2. \A k \in Request : Owing(k) => k = f
      BY <1>2, <2>3 DEF Matched, Owed
    <3> QED BY <1>5, <3>1, <3>2
  <2>9. Owed' /\ Own'
    BY <2>4, <2>8 DEF Owed, Own, Matched
  <2> QED BY <1>4, <1>6, <2>5, <2>9 DEF Matched
<1> QED BY <1>7, <1>8

LEMMA StopMatched ==
  ASSUME OwnInv, Matched, Stop PROVE Matched'
<1>1. /\ mailbox' = <<>> /\ wire' = <<>> /\ ~open'
      /\ UNCHANGED <<device, answered>>
  BY DEF Stop
<1>2. Stream'
  BY <1>1 DEF Stream, MailboxPaired, WirePaired, Followed, Single, Once, Has
<1>3. Timeouts' /\ Owed' /\ Own'
  BY <1>1 DEF Timeouts, Owed, Own, Matched
<1>4. Commands'
  BY <1>1 DEF Commands, Has, Matched
<1> QED BY <1>2, <1>3, <1>4 DEF Matched

(* A timer that fires when nothing is under way.                           *)
LEMMA TimerFiresMatched ==
  ASSUME OwnInv, Matched, TimerFires, ~Crosses PROVE Matched'
<1> DEFINE x == [type |-> "timeout", req |-> timer]
<1>1. TypeOK /\ timer \in Request /\ timer # 0 /\ pending = timer /\ open
  BY SerialAssumption DEF OwnInv, TypeOK, TimerFires, Request, Armed, Quiet
<1>2. x \in Message /\ ~IsData(x) /\ x.type = "timeout" /\ x.req = timer
  BY <1>1, MessageTypes DEF IsData
<1>3. /\ mailbox' = Append(mailbox, x) /\ timer' = 0
      /\ UNCHANGED <<open, pending, buffer, device, wire, answered>>
  BY DEF TimerFires, firmware
<1> HIDE DEF x
<1>4. Stream'
  BY <1>1, <1>2, <1>3, StreamAppends DEF Matched
<1>5. ~Owing(timer)
  BY <1>1, OwingIsUnderway DEF Crosses, TimerFires
<1>6. \A n \in Request : ~Owing(n)
  BY <1>1, <1>5 DEF Matched, Owed
<1>7. Owed' /\ Commands' /\ Own'
  BY <1>1, <1>2, <1>3, <1>6, AppendsOwing DEF Matched, Owed, Own
<1>8. Timeouts'
  <2>1. \A i \in 1..Len(mailbox) : mailbox[i].type # "timeout"
    BY <1>1 DEF Matched, Timeouts
  <2>2. /\ mailbox \in Seq(Message) /\ Len(mailbox) \in Nat
        /\ Len(mailbox') = Len(mailbox) + 1 /\ mailbox'[Len(mailbox) + 1] = x
        /\ \A i \in 1..Len(mailbox) : mailbox'[i] = mailbox[i]
    BY <1>1, <1>2, <1>3 DEF TypeOK
  <2>3. \A i \in 1..Len(mailbox') : mailbox'[i].type = "timeout" => i = Len(mailbox) + 1
    BY <2>1, <2>2
  <2> QED BY <1>1, <1>2, <1>3, <2>2, <2>3 DEF Timeouts
<1> QED BY <1>4, <1>7, <1>8 DEF Matched

LEMMA AnswerMatched ==
  ASSUME OwnInv, Matched, Answer PROVE Matched'
<1> DEFINE n == Head(device)
<1>1. /\ TypeOK /\ device # <<>> /\ device' = Tail(device)
      /\ wire' = wire \/ (open /\ wire' = wire \o Pieces(n))
      /\ UNCHANGED <<open, mailbox, pending, timer, buffer, answered>>
  BY DEF OwnInv, Answer, connection
<1>2. device \in Seq(Request) /\ n \in Request /\ n \in Frame /\ Has(device, n)
  BY <1>1, TailHas, FrameTypes DEF TypeOK
<1>3. device' = <<>>
  BY <1>1, <1>2 DEF Matched, Commands
<1>4. \A x : ~Has(device', x)
  BY <1>3 DEF Has
<1>5. ~Has(mailbox, TailOf(n)) /\ ~Has(wire, TailOf(n))
  BY <1>2 DEF Matched, Commands
<1> HIDE DEF n
<1>6. Stream'
  <2>1. CASE wire' = wire
    BY <1>1, <2>1 DEF Matched, Stream, MailboxPaired, WirePaired, Followed, Single
  <2>2. CASE wire' = wire \o Pieces(n)
    BY <1>1, <1>2, <1>5, <2>2, StreamGrows DEF Matched
  <2> QED BY <1>1, <2>1, <2>2
<1>7. Timeouts' /\ Own' /\ Commands'
  BY <1>1, <1>3, <1>4 DEF Matched, Timeouts, Own, Commands
<1>8. Owed'
  <2>1. \A k \in Request : Owing(k)' => Owing(k)
    <3>1. CASE wire' = wire
      BY <1>1, <1>4, <3>1 DEF Owing
    <3>2. CASE wire' = wire \o Pieces(n)
      <4>1. \A x : Has(wire', x) => Has(wire, x) \/ x = HeadOf(n) \/ x = TailOf(n)
        BY <1>1, <1>2, <3>2, ConcatHas
      <4>2. \A k \in Request : Has(wire', HeadOf(k)) => Has(wire, HeadOf(k)) \/ k = n
        BY <4>1, PiecesDiffer
      <4>3. \A k \in Request : Has(wire', TailOf(k)) => Has(wire, TailOf(k)) \/ k = n
        BY <4>1, PiecesDiffer
      <4> QED BY <1>1, <1>2, <1>4, <4>2, <4>3 DEF Owing
    <3> QED BY <1>1, <3>1, <3>2
  <2> QED BY <1>1, <2>1 DEF Matched, Owed
<1> QED BY <1>6, <1>7, <1>8 DEF Matched

LEMMA SendEventMatched ==
  ASSUME OwnInv, Matched, SendEvent PROVE Matched'
<1>1. /\ TypeOK /\ wire' = wire \o Pieces(Event) /\ Event \in Frame
      /\ UNCHANGED <<open, mailbox, pending, timer, buffer, answered, device>>
  BY FrameTypes DEF OwnInv, SendEvent, connection
<1>2. Stream'
  BY <1>1, FrameTypes, StreamGrows DEF Matched
<1>3. \A x : Has(wire', x) => Has(wire, x) \/ x = HeadOf(Event) \/ x = TailOf(Event)
  BY <1>1, ConcatHas
<1>4. \A k \in Request :
        /\ Has(wire', HeadOf(k)) => Has(wire, HeadOf(k))
        /\ Has(wire', TailOf(k)) => Has(wire, TailOf(k))
  BY <1>3, FrameTypes, PiecesDiffer
<1>5. Timeouts' /\ Own' /\ Commands'
  BY <1>1, <1>4 DEF Matched, Timeouts, Own, Commands
<1>6. Owed'
  BY <1>1, <1>4 DEF Matched, Owed, Owing
<1> QED BY <1>2, <1>5, <1>6 DEF Matched

LEMMA DeliverMatched ==
  ASSUME OwnInv, Matched, Deliver PROVE Matched'
<1>1. /\ TypeOK /\ mailbox \in Seq(Message) /\ wire \in Seq(Piece)
      /\ wire # <<>> /\ wire' = Tail(wire) /\ Head(wire) \in Piece
      /\ Head(wire) \in Message /\ mailbox' = Append(mailbox, Head(wire))
      /\ UNCHANGED <<open, pending, timer, buffer, answered, device>>
  BY DEF OwnInv, TypeOK, Deliver, connection, Message
<1>2. Stream'
  BY <1>1, StreamDelivers DEF Matched
<1>3. Head(wire).type # "timeout"
  BY <1>1 DEF Piece
<1>4. Timeouts'
  BY <1>1, <1>3, TimeoutsAppend DEF Matched
<1>5. \A x : Has(wire', x) \/ Has(mailbox', x) => Has(wire, x) \/ Has(mailbox, x)
  BY <1>1, TailHas, AppendHas
<1>6. Owed' /\ Commands' /\ Own'
  BY <1>1, <1>5 DEF Matched, Owed, Owing, Commands, Own
<1> QED BY <1>2, <1>4, <1>6 DEF Matched

(* The remaining steps, and all of them together.                          *)
LEMMA MatchedStep ==
  ASSUME OwnInv, Matched, Next, ~Crosses PROVE Matched'
<1>1. ASSUME NEW c \in Caller, CallerTimeout(c) PROVE Matched'
  <2>1. UNCHANGED <<open, mailbox, pending, timer, buffer, device, wire, answered>>
    BY <1>1 DEF CallerTimeout, connection, firmware
  <2> QED BY <2>1 DEF Matched, Stream, MailboxPaired, WirePaired, Followed, Single,
                      Owed, Owing, Timeouts, Commands, Own
<1>2. CASE Open
  <2>1. /\ open' /\ device = <<>> /\ mailbox = <<>> /\ wire = <<>>
        /\ UNCHANGED <<mailbox, pending, timer, buffer, device, wire, answered>>
    BY <1>2 DEF Open, Crosses, OwnInv, Quiet, connection, firmware
  <2>2. Owed'
    BY <2>1 DEF Owed, Owing, Has
  <2>3. Stream' /\ Timeouts' /\ Commands' /\ Own'
    BY <2>1 DEF Matched, Stream, MailboxPaired, WirePaired, Followed, Single,
                Timeouts, Commands, Own
  <2> QED BY <2>2, <2>3 DEF Matched
<1> QED BY <1>1, <1>2, SendCommandMatched, HandleCallMatched, HandleBusyCallMatched,
           HandleTimeoutMatched, HandleHeadMatched, HandleTailMatched, StopMatched,
           TimerFiresMatched, AnswerMatched, SendEventMatched, DeliverMatched
        DEF Next, Handle

-----------------------------------------------------------------------------
LEMMA OwnInit == MCInit => OwnInv
<1> SUFFICES ASSUME MCInit PROVE OwnInv
  OBVIOUS
<1>1. TypeOK
  BY InitInductive DEF MCInit, IInv
<1>2. /\ open /\ mailbox = <<>> /\ wire = <<>> /\ device = <<>> /\ answered = {}
      /\ pending = 0 /\ timer = 0
  BY DEF MCInit, Init
<1>3. Stream
  BY <1>2 DEF Stream, MailboxPaired, WirePaired, Followed, Single, Once, Has
<1>4. Owed /\ Timeouts /\ Commands /\ Own
  BY <1>2 DEF Owed, Owing, Timeouts, Commands, Own, Has
<1> QED BY <1>1, <1>2, <1>3, <1>4 DEF OwnInv, Quiet, Armed, Matched

LEMMA OwnStep == OwnInv /\ TypeOK' /\ [MCNext]_history => OwnInv'
<1> SUFFICES ASSUME OwnInv, TypeOK', [MCNext]_history PROVE OwnInv'
  OBVIOUS
<1>1. CASE MCNext
  <2>1. Next /\ (~crossed' => ~crossed /\ ~Crosses)
    BY <1>1 DEF MCNext
  <2>2. Quiet' /\ Armed'
    BY <2>1, QuietStep DEF OwnInv
  <2>3. ~crossed' => Matched'
    BY <2>1, MatchedStep DEF OwnInv
  <2> QED BY <2>2, <2>3 DEF OwnInv
<1>2. CASE UNCHANGED history
  BY <1>2 DEF history, vars, connection, firmware, OwnInv, Quiet, Armed, Matched, Stream,
              MailboxPaired, WirePaired, Followed, Single, Owed, Owing, Timeouts,
              Commands, Own, TypeOK
<1> QED BY <1>1, <1>2

(* The reachable states, with the history of what has crossed.             *)
THEOREM OwnInductive == MCSpec => []OwnInv
<1>1. MCInit => IInv /\ OwnInv
  BY InitInductive, OwnInit DEF MCInit
<1>2. IInv /\ OwnInv /\ [MCNext]_history => IInv' /\ OwnInv'
  <2> SUFFICES ASSUME IInv, OwnInv, [MCNext]_history PROVE IInv' /\ OwnInv'
    OBVIOUS
  <2>1. [Next]_vars
    BY DEF MCNext, history
  <2>2. IInv' /\ TypeOK'
    BY <2>1, NextInductive DEF IInv
  <2> QED BY <2>2, OwnStep
<1> QED BY <1>1, <1>2, PTL DEF MCSpec

(* A caller that gets an answer gets the answer to its own command, as     *)
(* long as no timeout crossed an answer or cut a frame, and no new         *)
(* connection met an answer to the last (Connection.handle_response goes   *)
(* by pending_request alone).                                              *)
THEOREM AnswersAreOwn == MCSpec => []OwnAnswer
<1>1. OwnInv => OwnAnswer
  BY DEF OwnInv, Matched, Own, OwnAnswer
<1> QED BY <1>1, OwnInductive, PTL

=============================================================================
