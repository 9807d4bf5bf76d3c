-------------------------- MODULE JoyconLinkProofs --------------------------
(* The write window of joycontrol loses no wakeup and no slot, for every   *)
(* number of writers, slots and messages.                                  *)
EXTENDS JoyconLink, FiniteSetTheorems, TLAPS

-----------------------------------------------------------------------------
(* _check_next leaves no free slot beside sleepers only.                   *)
LEMMA CheckNextWakes ==
  ASSUME NEW v, NEW asleep, NEW awake, CheckNext(v, asleep, awake)
  PROVE  NoSleeper'
BY DEF CheckNext, NoSleeper

LEMMA InitAwake == Init => NoSleeper
BY DEF Init, NoSleeper

(* Every action leaves the window alone or changes it in one of these ways. *)
LEMMA WindowChanges ==
  ASSUME Next
  PROVE  \/ UNCHANGED window
         \/ \E t \in Task : Take(t) \/ Queue(t) \/ Cancel(t)
         \/ \E n \in Nat : Release(n)
<1>1. {"reader", "cli", "hello"} \subseteq Task /\ Writer \subseteq Task
  BY DEF Task
<1>2. ASSUME NEW t \in Task, NEW r, Acquire(t, r)
      PROVE  Take(t) \/ Queue(t)
  BY <1>2 DEF Acquire
<1>3. CASE \E t \in Task : WriteStep(t)
  <2>1. PICK t \in Task : WriteStep(t)
    BY <1>3
  <2> QED BY <2>1, <1>2 DEF WriteStep, AcquireAgain, SendResumed, SendUnblocked
<1>4. CASE \E w \in Writer : WriterStep(w)
  <2>1. PICK w \in Writer : WriterStep(w)
    BY <1>4
  <2> QED BY <2>1, <1>1, <1>2
          DEF WriterStep, WriterBegins, WriterStarts, WriterWrites, WriterDies, Idle
<1>5. CASE HelloWrites
  BY <1>5, <1>1, <1>2 DEF HelloWrites
<1>6. CASE Receive
  BY <1>6, <1>1, <1>2 DEF Receive, ReceiveSilent, ReceiveRequest, ReceiveSetMode,
                          ReceivePlayerLights, Replies, Idle
<1>7. CASE ReadStep
  BY <1>7 DEF ReadStep, ReadNothing, ReadFails, Idle
<1>8. CASE CliStep
  BY <1>8, <1>1, <1>2 DEF CliStep, MainResumes, Connect, Pause, SendWaits, SendPaused,
                          Sent, Exit, CloseBegins, Idle
<1>9. CASE CloseTask \/ CloseEnds
  BY <1>9, <1>1 DEF CloseTask, CloseEnds, CloseBegins
<1>10. CASE \/ \E n \in 1..Room : Completed(n)
            \/ \E k \in 1..MaxForeign, n \in 0..Room : CompletedForeign(k, n)
  BY <1>10 DEF Completed, CompletedForeign
<1>11. CASE (\E l \in Line : Input(l)) \/ PauseWriting \/ ResumeWriting \/ LinkLost
  BY <1>11 DEF Input, PauseWriting, ResumeWriting, LinkLost, Idle
<1> QED BY <1>3, <1>4, <1>5, <1>6, <1>7, <1>8, <1>9, <1>10, <1>11 DEF Next

LEMMA NextAwake == NoSleeper /\ [Next]_vars => NoSleeper'
<1> SUFFICES ASSUME NoSleeper, [Next]_vars PROVE NoSleeper'
  OBVIOUS
<1>1. CASE UNCHANGED window
  BY <1>1 DEF NoSleeper, window
<1>2. CASE UNCHANGED vars
  BY <1>1, <1>2 DEF vars
<1>3. CASE Next
  <2>1. CASE \E t \in Task : Queue(t)
    BY <2>1 DEF Queue, NoSleeper
  <2>2. CASE \E t \in Task : Take(t) \/ Cancel(t)
    BY <2>2, CheckNextWakes DEF Take, Cancel
  <2>3. CASE \E n \in Nat : Release(n)
    BY <2>3, CheckNextWakes DEF Release
  <2> QED BY <1>1, <1>3, <2>1, <2>2, <2>3, WindowChanges
<1> QED BY <1>2, <1>3

(* No wakeup is lost: while slots are free and tasks wait for one, some    *)
(* task has been woken to take it (MySemaphore).                           *)
THEOREM Awakened == Spec => []NoSleeper
BY InitAwake, NextAwake, PTL DEF Spec

-----------------------------------------------------------------------------
(* The slots.  While the link is up and not being closed, a task that      *)
(* waits is in the list or woken, and only once, so it takes one slot; a   *)
(* slot that was taken is held by a task, in flight, or back.              *)

Held == {t \in Task : at[t] \in Holding}
Asleep == {t \in Task : at[t] = "acquire"}

(* Waiters ws and woken tasks wk are different tasks of those asleep, as.  *)
Waiting(ws, wk, as) ==
  /\ ws \in Seq(Task)
  /\ wk \subseteq as
  /\ \A i \in 1..Len(ws) : ws[i] \in as \ wk
  /\ \A i, j \in 1..Len(ws) : ws[i] = ws[j] => i = j

Accounted ==
  /\ value \in Nat /\ inFlight \in Nat /\ foreign \in Nat /\ dropped \in Nat
  /\ at = [t \in Task |-> at[t]]
  /\ Waiting(waiters, woken, Asleep)
  /\ blocked \in Task => at[blocked] = "send"
  /\ Limit <= value + inFlight + Cardinality(Held) + dropped
  /\ value + inFlight + Cardinality(Held) <= Limit + foreign

SlotInv == closing = "no" /\ link => Accounted

LEMMA Numbers ==
  /\ Limit \in Nat /\ Room \in Nat /\ MaxForeign \in Nat /\ IsFiniteSet(Task) /\ "none" \notin Task
  /\ {"reader", "cli", "hello"} \subseteq Task /\ Writer \subseteq Task
  /\ \A w \in Writer : w # "cli" /\ w # "reader" /\ w # "hello"
<1>1. Limit \in Nat /\ Room \in Nat /\ MaxForeign \in Nat /\ IsFiniteSet(Writer)
      /\ Writer \cap {"reader", "cli", "hello", "none"} = {}
  BY JoyconAssumption DEF JoyconAssumption
<1>2. IsFiniteSet({"reader", "cli", "hello"})
  <2>1. {"reader", "cli", "hello"} = {"reader"} \cup ({"cli"} \cup {"hello"})
    OBVIOUS
  <2>2. IsFiniteSet({"reader"}) /\ IsFiniteSet({"cli"}) /\ IsFiniteSet({"hello"})
    BY FS_Singleton
  <2>3. IsFiniteSet({"cli"} \cup {"hello"})
    BY <2>2, FS_Union
  <2>4. IsFiniteSet({"reader"} \cup ({"cli"} \cup {"hello"}))
    BY <2>2, <2>3, FS_Union
  <2> QED BY <2>1, <2>4
<1>3. IsFiniteSet(Task)
  BY <1>1, <1>2, FS_Union DEF Task
<1> QED BY <1>1, <1>3 DEF Task

LEMMA HeldCount == IsFiniteSet(Held) /\ Cardinality(Held) \in Nat
<1>1. IsFiniteSet(Held)
  BY Numbers, FS_Subset DEF Held
<1> QED BY <1>1, FS_CardinalityType

(* The window. *)

LEMMA CheckNextKeeps ==
  ASSUME NEW v, NEW ws, NEW wk, NEW as, as \subseteq Task, Waiting(ws, wk, as),
         CheckNext(v, ws, wk)
  PROVE  Waiting(waiters', woken', as) /\ value' = v
<1>1. CASE v >= 1 /\ ws # <<>>
  <2>1. waiters' = Tail(ws) /\ woken' = wk \cup {Head(ws)} /\ value' = v
    BY <1>1 DEF CheckNext
  <2>2. ws \in Seq(Task)
    BY DEF Waiting
  <2>3. /\ Tail(ws) \in Seq(Task) /\ Head(ws) = ws[1] /\ 1 \in 1..Len(ws)
        /\ \A i \in 1..Len(Tail(ws)) :
             i + 1 \in 1..Len(ws) /\ Tail(ws)[i] = ws[i + 1] /\ i + 1 # 1 /\ i \in Nat
    BY <1>1, <2>2
  <2>4. \A i \in 1..Len(Tail(ws)) : Tail(ws)[i] \in as \ wk /\ Tail(ws)[i] # Head(ws)
    BY <2>3 DEF Waiting
  <2>5. ASSUME NEW i \in 1..Len(Tail(ws)), NEW j \in 1..Len(Tail(ws)), Tail(ws)[i] = Tail(ws)[j]
        PROVE  i = j
    <3>1. i + 1 = j + 1 /\ i \in Nat /\ j \in Nat
      BY <2>3, <2>5 DEF Waiting
    <3> QED BY <3>1
  <2>6. wk \cup {Head(ws)} \subseteq as
    <3>1. ws[1] \in as /\ wk \subseteq as
      BY <2>3 DEF Waiting
    <3> QED BY <2>3, <3>1
  <2> QED BY <2>1, <2>3, <2>4, <2>5, <2>6 DEF Waiting
<1>2. CASE ~(v >= 1 /\ ws # <<>>)
  BY <1>2 DEF CheckNext
<1> QED BY <1>1, <1>2

(* A task that is not in the list takes a slot, or waits for one.          *)
LEMMA TakeKeeps ==
  ASSUME Accounted, NEW t \in Task, t \in woken \/ t \notin Asleep, Take(t)
  PROVE  Waiting(waiters', woken', Asleep \ {t}) /\ value' = value - 1 /\ value' \in Nat
<1>1. \A i \in 1..Len(waiters) : waiters[i] # t
  BY DEF Accounted, Waiting
<1>2. Waiting(waiters, woken \ {t}, Asleep \ {t})
  BY <1>1 DEF Accounted, Waiting
<1>3. Asleep \ {t} \subseteq Task
  BY DEF Asleep
<1>4. CheckNext(value - 1, waiters, woken \ {t}) /\ value >= 1
  BY DEF Take
<1>5. Waiting(waiters', woken', Asleep \ {t}) /\ value' = value - 1
  BY <1>2, <1>3, <1>4, CheckNextKeeps
<1> QED BY <1>4, <1>5 DEF Accounted

LEMMA QueueKeeps ==
  ASSUME Accounted, NEW t \in Task, t \in woken \/ t \notin Asleep, Queue(t)
  PROVE  Waiting(waiters', woken', Asleep \cup {t}) /\ value' = value
<1>1. waiters' = Append(waiters, t) /\ woken' = woken \ {t} /\ value' = value
  BY DEF Queue
<1>2. waiters \in Seq(Task) /\ \A i \in 1..Len(waiters) : waiters[i] # t
  BY DEF Accounted, Waiting
<1>3. /\ waiters' \in Seq(Task)
      /\ \A i \in 1..Len(waiters') :
           \/ i \in 1..Len(waiters) /\ waiters'[i] = waiters[i]
           \/ i = Len(waiters) + 1 /\ waiters'[i] = t
  BY <1>1, <1>2
<1> QED BY <1>1, <1>2, <1>3 DEF Accounted, Waiting

-----------------------------------------------------------------------------
(* The places of the tasks.                                                *)

(* The tasks but t are neither more nor less in a write than before.       *)
OthersStay(t) ==
  /\ at' = [u \in Task |-> at'[u]]
  /\ \A u \in Task \ {t} : at'[u] = at[u] \/ (at[u] \notin Writing /\ at'[u] \notin Writing)

LEMMA ReturnedStays ==
  ASSUME Accounted, NEW t \in Task, at' = Returned(t)
  PROVE  OthersStay(t) /\ at'[t] \notin Writing
<1>1. Rest(t) \notin Writing \cup {"wait"}
  BY DEF Rest, Writing
<1>2. at' = [u \in Task |->
               IF u = "cli"
               THEN LET c == IF t = "cli" THEN Rest(t) ELSE at["cli"]
                    IN  IF c = "wait" /\ t # "hello" THEN "woken" ELSE c
               ELSE IF u = t THEN Rest(t) ELSE at[u]]
  BY Numbers DEF Returned, Accounted
<1>3. at' = [u \in Task |-> at'[u]]
  BY <1>2
<1>4. at'[t] \notin Writing
  BY <1>1, <1>2 DEF Writing
<1>5. \A u \in Task \ {t} : at'[u] = at[u] \/ (at[u] \notin Writing /\ at'[u] \notin Writing)
  BY <1>2 DEF Writing
<1> QED BY <1>3, <1>4, <1>5 DEF OthersStay

LEMMA SuspendedStays ==
  ASSUME Accounted, NEW t \in Task, NEW r, NEW place, Suspended(t, r, place)
  PROVE  OthersStay(t) /\ at'[t] = place /\ UNCHANGED inFlight
<1>1. at' = [u \in Task |-> IF u = t THEN place ELSE at[u]]
  BY DEF Suspended, Accounted
<1> QED BY <1>1 DEF OthersStay, Suspended

(* What follows for the sets of tasks when t leaves, enters or waits.      *)
LEMMA SetsChange ==
  ASSUME Accounted, NEW t \in Task, OthersStay(t)
  PROVE  /\ at'[t] \notin Writing => Held' = Held \ {t} /\ Asleep' = Asleep \ {t}
         /\ at'[t] \in Holding => Held' = Held \cup {t} /\ Asleep' = Asleep \ {t}
         /\ at'[t] = "acquire" => Held' = Held \ {t} /\ Asleep' = Asleep \cup {t}
         /\ \A u \in Task : u # t /\ at[u] = "send" => at'[u] = "send"
<1>1. \A u \in Task \ {t} : /\ u \in Held' <=> u \in Held
                            /\ u \in Asleep' <=> u \in Asleep
                            /\ at[u] = "send" => at'[u] = "send"
  BY DEF OthersStay, Held, Asleep, Holding, Writing
<1>2. /\ at'[t] \notin Writing => t \notin Held' /\ t \notin Asleep'
      /\ at'[t] \in Holding => t \in Held' /\ t \notin Asleep'
      /\ at'[t] = "acquire" => t \notin Held' /\ t \in Asleep'
  BY DEF Held, Asleep, Holding, Writing
<1>3. Held \subseteq Task /\ Asleep \subseteq Task /\ Held' \subseteq Task /\ Asleep' \subseteq Task
  BY DEF Held, Asleep
<1> QED BY <1>1, <1>2, <1>3

(* Steps that leave the window and the socket alone.                       *)
LEMMA QuietKeeps ==
  ASSUME Accounted, UNCHANGED <<window, socket, foreign, dropped>>, at' = [u \in Task |-> at'[u]],
         \A u \in Task : \/ at'[u] = at[u]
                         \/ at[u] \notin Writing /\ at'[u] \notin Writing
                         \/ at[u] = "lock" /\ at'[u] = "resumed"
  PROVE  Accounted'
<1>1. Held' = Held /\ Asleep' = Asleep /\ \A u \in Task : at[u] = "send" => at'[u] = "send"
  BY DEF Held, Asleep, Holding, Writing
<1> QED BY <1>1 DEF Accounted, window, socket

(* A task goes from one place outside of writes to another.                *)
LEMMA MoveKeeps ==
  ASSUME Accounted, UNCHANGED <<window, socket, foreign, dropped>>,
         NEW t \in Task, at[t] \notin Writing, NEW p, p \notin Writing,
         at' = [at EXCEPT ![t] = p]
  PROVE  Accounted'
<1>1. at' = [u \in Task |-> IF u = t THEN p ELSE at[u]]
  BY DEF Accounted
<1> QED BY <1>1, QuietKeeps

-----------------------------------------------------------------------------
(* Writes.                                                                 *)

(* The packet of a task that has its slot is in flight.                    *)
LEMMA AcceptedKeeps ==
  ASSUME Accounted, NEW t \in Held, link, NEW r, Done(t, r),
         UNCHANGED <<window, foreign, dropped>>,
         blocked' = "none" \/ (blocked' = blocked /\ blocked # t)
  PROVE  Accounted'
<1>1. inFlight' = inFlight + 1 /\ at' = Returned(t) /\ t \in Task
  BY DEF Done, Accepted, Held
<1>2. OthersStay(t) /\ at'[t] \notin Writing
  BY <1>1, ReturnedStays
<1>3. /\ Held' = Held \ {t} /\ Asleep' = Asleep \ {t}
      /\ \A u \in Task : u # t /\ at[u] = "send" => at'[u] = "send"
  BY <1>1, <1>2, SetsChange
<1>4. Asleep' = Asleep
  BY <1>3 DEF Asleep, Held, Holding, Writing
<1>5. Cardinality(Held') = Cardinality(Held) - 1
  BY <1>3, HeldCount, FS_RemoveElement
<1>6. /\ value' + inFlight' + Cardinality(Held') = value + inFlight + Cardinality(Held)
      /\ inFlight' \in Nat
  BY <1>1, <1>5, HeldCount DEF Accounted, window
<1>7. at' = [u \in Task |-> at'[u]]
  BY <1>2 DEF OthersStay
<1>8. blocked' \in Task => at'[blocked'] = "send"
  BY <1>3, Numbers DEF Accounted
<1> QED BY <1>4, <1>6, <1>7, <1>8 DEF Accounted, window

(* A task that has its slot waits for the socket.                          *)
LEMMA BlockedKeeps ==
  ASSUME Accounted, NEW t \in Held, NEW r, Suspended(t, r, "send"),
         UNCHANGED <<window, foreign, dropped>>, blocked' = t
  PROVE  Accounted'
<1>1. t \in Task
  BY DEF Held
<1>2. OthersStay(t) /\ at'[t] = "send" /\ UNCHANGED inFlight
  BY <1>1, SuspendedStays
<1>3. Held' = Held \cup {t} /\ Asleep' = Asleep \ {t}
  BY <1>1, <1>2, SetsChange DEF Holding, Writing
<1>4. Held' = Held /\ Asleep' = Asleep
  BY <1>3 DEF Asleep, Held, Holding, Writing
<1> QED BY <1>2, <1>4 DEF Accounted, OthersStay, window

LEMMA AcquireKeeps ==
  ASSUME Accounted, NEW t \in Task, NEW r, Acquire(t, r), link,
         at[t] \notin Holding, t \in woken \/ at[t] # "acquire", UNCHANGED <<foreign, dropped>>
  PROVE  Accounted'
<1>1. t \notin Held /\ (t \in woken \/ t \notin Asleep) /\ blocked # t
  BY DEF Held, Asleep, Accounted, Holding, Writing
<1>2. CASE Queue(t) /\ Suspended(t, r, "acquire") /\ UNCHANGED blocked
  <2>1. Waiting(waiters', woken', Asleep \cup {t}) /\ value' = value
    BY <1>1, <1>2, QueueKeeps
  <2>2. OthersStay(t) /\ at'[t] = "acquire" /\ UNCHANGED inFlight
    BY <1>2, SuspendedStays
  <2>3. /\ Held' = Held \ {t} /\ Asleep' = Asleep \cup {t}
        /\ \A u \in Task : u # t /\ at[u] = "send" => at'[u] = "send"
    BY <2>2, SetsChange
  <2>4. Held' = Held
    BY <1>1, <2>3
  <2>5. blocked' \in Task => at'[blocked'] = "send"
    BY <1>1, <1>2, <2>3 DEF Accounted
  <2> QED BY <2>1, <2>2, <2>3, <2>4, <2>5 DEF Accounted, OthersStay
<1>3. CASE Take(t) /\ Lock(t, r)
  <2>1. Waiting(waiters', woken', Asleep \ {t}) /\ value' = value - 1 /\ value' \in Nat
    BY <1>1, <1>3, TakeKeeps
  <2>2. CASE Done(t, r) /\ UNCHANGED blocked
    <3>1. inFlight' = inFlight + 1 /\ at' = Returned(t)
      BY <2>2 DEF Done, Accepted
    <3>2. OthersStay(t) /\ at'[t] \notin Writing
      BY <3>1, ReturnedStays
    <3>3. /\ Held' = Held \ {t} /\ Asleep' = Asleep \ {t}
          /\ \A u \in Task : u # t /\ at[u] = "send" => at'[u] = "send"
      BY <3>2, SetsChange
    <3>4. Held' = Held
      BY <1>1, <3>3
    <3>5. /\ value' + inFlight' + Cardinality(Held') = value + inFlight + Cardinality(Held)
          /\ inFlight' \in Nat
      BY <2>1, <3>1, <3>4, HeldCount DEF Accounted
    <3>6. blocked' \in Task => at'[blocked'] = "send"
      BY <1>1, <2>2, <3>3 DEF Accounted
    <3> QED BY <2>1, <3>2, <3>3, <3>5, <3>6 DEF Accounted, OthersStay
  <2>3. ASSUME NEW place \in Holding, Suspended(t, r, place),
               blocked' = blocked \/ (blocked' = t /\ place = "send")
        PROVE  Accounted'
    <3>1. OthersStay(t) /\ at'[t] = place /\ UNCHANGED inFlight
      BY <2>3, SuspendedStays
    <3>2. /\ Held' = Held \cup {t} /\ Asleep' = Asleep \ {t}
          /\ \A u \in Task : u # t /\ at[u] = "send" => at'[u] = "send"
      BY <3>1, SetsChange
    <3>3. Cardinality(Held') = Cardinality(Held) + 1
      BY <1>1, <3>2, HeldCount, FS_AddElement
    <3>4. value' + inFlight' + Cardinality(Held') = value + inFlight + Cardinality(Held)
      BY <2>1, <3>1, <3>3, HeldCount DEF Accounted
    <3>5. blocked' \in Task => at'[blocked'] = "send"
      BY <1>1, <2>3, <3>1, <3>2 DEF Accounted
    <3> QED BY <2>1, <3>1, <3>2, <3>4, <3>5 DEF Accounted, OthersStay
  <2>4. \/ Done(t, r) /\ UNCHANGED blocked
        \/ Suspended(t, r, "send") /\ blocked' = t
        \/ Suspended(t, r, "lock") /\ UNCHANGED blocked
    BY <1>3 DEF Lock, SendAll
  <2> QED BY <2>2, <2>3, <2>4 DEF Holding, Writing
<1> QED BY <1>2, <1>3 DEF Acquire

(* Slots come back: not more than Limit are free.  Of m packets that were  *)
(* completed d are dropped, and k of other connections are counted.        *)
LEMMA ReleaseKeeps ==
  ASSUME Accounted, NEW n \in Nat, NEW m \in Nat, NEW k \in Nat, NEW d \in Nat,
         Release(n), m <= inFlight, inFlight' = inFlight - m,
         foreign' = foreign + k, dropped' = dropped + d,
         m <= n + d, n <= m + k, UNCHANGED <<at, blocked>>
  PROVE  Accounted'
<1> DEFINE v == IF value + n > Limit THEN Limit ELSE value + n
<1>1. CheckNext(v, waiters, woken) /\ Asleep \subseteq Task
  BY DEF Release, Asleep
<1>2. Waiting(waiters', woken', Asleep) /\ value' = v
  BY <1>1, CheckNextKeeps DEF Accounted
<1>3. Held' = Held /\ Asleep' = Asleep
  BY DEF Held, Asleep
<1>4. /\ value \in Nat /\ inFlight \in Nat /\ foreign \in Nat /\ dropped \in Nat
      /\ Limit \in Nat /\ Cardinality(Held) \in Nat
      /\ Limit <= value + inFlight + Cardinality(Held) + dropped
      /\ value + inFlight + Cardinality(Held) <= Limit + foreign
  BY Numbers, HeldCount DEF Accounted
<1>5. /\ v \in Nat /\ v <= Limit /\ v <= value + n
      /\ v = Limit \/ v = value + n
  BY <1>4
<1> HIDE DEF v
<1>6. inFlight' \in Nat /\ foreign' \in Nat /\ dropped' \in Nat
  BY <1>4
<1>7. /\ Limit <= v + inFlight' + Cardinality(Held) + dropped'
      /\ v + inFlight' + Cardinality(Held) <= Limit + foreign'
  BY <1>4, <1>5
<1> QED BY <1>2, <1>3, <1>5, <1>6, <1>7 DEF Accounted

-----------------------------------------------------------------------------
LEMMA InitSlots == Init => SlotInv
<1> SUFFICES ASSUME Init PROVE Accounted
  BY DEF SlotInv
<1>1. at = [t \in Task |-> CASE t \in Writer \cup {"cli"} -> "off"
                             [] t = "reader" -> "recv"
                             [] OTHER -> "rest"]
  BY DEF Init
<1>2. at = [t \in Task |-> at[t]] /\ \A t \in Task : at[t] \in {"off", "recv", "rest"}
  BY <1>1
<1>3. Held = {} /\ Asleep = {}
  BY <1>2 DEF Held, Asleep, Holding, Writing
<1>4. Waiting(waiters, woken, Asleep)
  BY <1>3 DEF Init, Waiting
<1>5. value = Limit /\ inFlight = 0 /\ foreign = 0 /\ dropped = 0 /\ blocked = "none"
  BY DEF Init
<1>6. Cardinality(Held) = 0
  BY <1>3, FS_EmptySet
<1> QED BY <1>2, <1>4, <1>5, <1>6, Numbers DEF Accounted

LEMMA WriteStepSlots ==
  ASSUME Accounted, closing = "no", link, NEW t \in Task, WriteStep(t)
  PROVE  Accounted'
<1>1. CASE AcquireAgain(t)
  <2>1. t \in woken /\ Acquire(t, report[t]) /\ UNCHANGED <<foreign, dropped>>
    BY <1>1 DEF AcquireAgain, counters
  <2>2. at[t] \notin Holding
    BY <2>1 DEF Accounted, Waiting, Asleep, Holding, Writing
  <2> QED BY <2>1, <2>2, AcquireKeeps
<1>2. CASE SendResumed(t)
  <2>1. /\ at[t] = "resumed" /\ SendAll(t, report[t])
        /\ UNCHANGED <<window, foreign, dropped>>
    BY <1>2 DEF SendResumed, counters
  <2>2. t \in Held /\ blocked # t
    BY <2>1 DEF Held, Holding, Writing, Accounted
  <2>3. \/ Done(t, report[t]) /\ UNCHANGED blocked
        \/ Suspended(t, report[t], "send") /\ blocked' = t
    BY <2>1 DEF SendAll
  <2> QED BY <2>1, <2>2, <2>3, AcceptedKeeps, BlockedKeeps
<1>3. CASE SendUnblocked(t)
  <2>1. /\ blocked = t /\ Done(t, report[t]) /\ blocked' = "none"
        /\ UNCHANGED <<window, foreign, dropped>>
    BY <1>3 DEF SendUnblocked, counters
  <2>2. t \in Held
    BY <2>1 DEF Held, Holding, Writing, Accounted
  <2> QED BY <2>1, <2>2, AcceptedKeeps
<1> QED BY <1>1, <1>2, <1>3 DEF WriteStep

LEMMA WriterStepSlots ==
  ASSUME Accounted, closing = "no", link, NEW w \in Writer, WriterStep(w)
  PROVE  Accounted'
<1>1. w \in Task
  BY Numbers
<1>2. CASE WriterBegins(w) \/ WriterStarts(w) \/ WriterDies(w)
  <2>1. /\ UNCHANGED <<window, socket, foreign, dropped>> /\ at[w] \notin Writing
        /\ \E p \in {"rest", "paused", "over", "failed"} : at' = [at EXCEPT ![w] = p]
    BY <1>2 DEF WriterBegins, WriterStarts, WriterDies, Live, Idle, counters, Writing
  <2> QED BY <1>1, <2>1, MoveKeeps DEF Writing
<1>3. CASE WriterWrites(w)
  <2>1. at[w] \notin Writing /\ UNCHANGED <<foreign, dropped>>
    BY <1>3 DEF WriterWrites, Live, Writing, counters
  <2>2. CASE Acquire(w, InputReport)
    BY <1>1, <2>1, <2>2, AcquireKeeps DEF Writing, Holding
  <2>3. CASE at' = [at EXCEPT ![w] = "rest"] /\ Idle
    BY <1>1, <2>1, <2>3, MoveKeeps DEF Idle, Writing
  <2> QED BY <1>3, <2>2, <2>3 DEF WriterWrites
<1> QED BY <1>2, <1>3 DEF WriterStep

LEMMA ReceiveSlots ==
  ASSUME Accounted, closing = "no", link, Receive \/ HelloWrites
  PROVE  Accounted'
<1>1. "reader" \in Task /\ "hello" \in Task
  BY Numbers
<1>2. CASE HelloWrites
  <2>1. at["hello"] = "rest" /\ Acquire("hello", 0) /\ UNCHANGED <<foreign, dropped>>
    BY <1>2 DEF HelloWrites
  <2> QED BY <1>1, <2>1, AcquireKeeps DEF Holding, Writing
<1>3. CASE ReceiveSilent
  <2>1. UNCHANGED <<window, socket, foreign, dropped, at>>
    BY <1>3 DEF ReceiveSilent, Receives, Idle
  <2> QED BY <2>1, QuietKeeps DEF Accounted
<1>4. CASE Replies
  <2>1. at["reader"] = "recv" /\ UNCHANGED <<foreign, dropped>>
    BY <1>4 DEF Replies, Receives
  <2>2. CASE Acquire("reader", buttons)
    BY <1>1, <2>1, <2>2, AcquireKeeps DEF Holding, Writing
  <2>3. CASE at' = [at EXCEPT !["reader"] = "failed"] /\ Idle
    BY <1>1, <2>1, <2>3, MoveKeeps DEF Idle, Writing
  <2> QED BY <1>4, <2>2, <2>3 DEF Replies
<1> QED BY <1>2, <1>3, <1>4 DEF Receive, ReceiveRequest, ReceiveSetMode, ReceivePlayerLights

LEMMA CliStepSlots ==
  ASSUME Accounted, closing = "no", link, closing' = "no",
         CliStep \/ \E l \in Line : Input(l)
  PROVE  Accounted'
<1>1. "cli" \in Task
  BY Numbers
<1>2. CASE (\E l \in Line : Input(l)) \/ Connect
  <2>1. UNCHANGED <<window, socket, foreign, dropped, at>>
    BY <1>2 DEF Input, Connect, Idle, counters
  <2> QED BY <2>1, QuietKeeps DEF Accounted
<1>3. CASE MainResumes \/ SendWaits \/ Sent
  <2>1. /\ UNCHANGED <<window, socket, foreign, dropped>> /\ at["cli"] \notin Writing
        /\ \E p \in {"run", "wait"} : at' = [at EXCEPT !["cli"] = p]
    BY <1>3 DEF MainResumes, SendWaits, Sent, Changes, Takes, Idle, counters, Writing
  <2> QED BY <1>1, <2>1, MoveKeeps DEF Writing
<1>4. CASE SendPaused
  <2>1. at["cli"] = "run" /\ UNCHANGED <<foreign, dropped>> /\ Acquire("cli", InputReport')
    BY <1>4 DEF SendPaused, Changes, Takes, counters
  <2> QED BY <1>1, <2>1, AcquireKeeps DEF Holding, Writing
<1>5. ASSUME NEW p \in BOOLEAN, Pause(p) PROVE Accounted'
  <2>1. /\ UNCHANGED <<window, socket, foreign, dropped>>
        /\ at' = [t \in Task |-> IF at[t] = "paused" /\ ~p THEN "unpaused" ELSE at[t]]
    BY <1>5 DEF Pause, Idle, counters
  <2> QED BY <2>1, QuietKeeps DEF Writing
<1>6. CASE Exit
  BY <1>6 DEF Exit, Open, CloseBegins
<1> QED BY <1>2, <1>3, <1>4, <1>5, <1>6 DEF CliStep

LEMMA StepSlots == SlotInv /\ [Next]_vars => SlotInv'
<1> SUFFICES ASSUME SlotInv, [Next]_vars, closing' = "no", link' PROVE Accounted'
  BY DEF SlotInv
<1>1. CASE UNCHANGED vars
  <2>1. UNCHANGED <<window, socket, foreign, dropped, at, closing, link>>
    BY <1>1 DEF vars, counters
  <2> QED BY <2>1, QuietKeeps DEF SlotInv, Accounted
<1>2. CASE Next
  <2>1. CASE \E t \in Task : WriteStep(t)
    <3>1. PICK t \in Task : WriteStep(t)
      BY <2>1
    <3>2. closing = "no" /\ link
      BY <3>1 DEF WriteStep, AcquireAgain, SendResumed, SendUnblocked, Acquire, Lock, SendAll,
                  Done, Accepted, Failed, connection_lost, Suspended
    <3> QED BY <3>1, <3>2, WriteStepSlots DEF SlotInv
  <2>2. CASE \E w \in Writer : WriterStep(w)
    <3>1. PICK w \in Writer : WriterStep(w)
      BY <2>2
    <3>2. closing = "no" /\ link
      BY <3>1 DEF WriterStep, WriterBegins, WriterStarts, WriterDies, WriterWrites, Idle,
                  Acquire, Lock, SendAll, Done, Accepted, Failed, connection_lost, Suspended
    <3> QED BY <3>1, <3>2, WriterStepSlots DEF SlotInv
  <2>3. CASE HelloWrites \/ Receive
    <3>1. closing = "no" /\ link
      BY <2>3 DEF HelloWrites, Receive, ReceiveSilent, ReceiveRequest, ReceiveSetMode,
                  ReceivePlayerLights, Replies, Receives, Idle,
                  Acquire, Lock, SendAll, Done, Accepted, Failed, connection_lost, Suspended
    <3> QED BY <2>3, <3>1, ReceiveSlots DEF SlotInv
  <2>4. CASE CliStep \/ \E l \in Line : Input(l)
    <3>1. closing = "no" /\ link
      BY <2>4 DEF CliStep, MainResumes, Connect, Pause, SendWaits, SendPaused, Sent, Exit,
                  Input, Changes, Idle, Open, CloseBegins,
                  Acquire, Lock, SendAll, Done, Accepted, Failed, connection_lost, Suspended
    <3> QED BY <2>4, <3>1, CliStepSlots DEF SlotInv
  <2>5. CASE ReadStep \/ CloseTask \/ CloseEnds \/ LinkLost
    BY <2>5 DEF ReadStep, ReadNothing, ReadFails, CloseTask, CloseEnds, CloseBegins, LinkLost
  <2>6. ASSUME NEW n \in 1..Room, Completed(n) PROVE Accounted'
    <3>1. /\ Release(n) /\ n <= inFlight /\ inFlight' = inFlight - n
          /\ UNCHANGED <<at, blocked, foreign, dropped, closing, link>>
      BY <2>6 DEF Completed, counters
    <3>2. Accounted /\ n \in Nat /\ foreign' = foreign + 0 /\ dropped' = dropped + 0
          /\ n <= n + 0
      BY <3>1, Numbers DEF SlotInv, Accounted
    <3> QED BY <3>1, <3>2, ReleaseKeeps
  <2>7. ASSUME NEW k \in 1..MaxForeign, NEW n \in 0..Room, CompletedForeign(k, n)
        PROVE  Accounted'
    <3>1. /\ Release(k) /\ n <= inFlight /\ inFlight' = inFlight - n
          /\ foreign' = foreign + k /\ dropped' = dropped + n
          /\ UNCHANGED <<at, blocked, closing, link>>
      BY <2>7 DEF CompletedForeign
    <3>2. Accounted /\ n \in Nat /\ k \in Nat /\ n <= k + n /\ k <= n + k
      BY <3>1, Numbers DEF SlotInv
    <3> QED BY <3>1, <3>2, ReleaseKeeps
  <2>8. CASE PauseWriting \/ ResumeWriting
    <3>1. /\ UNCHANGED <<window, socket, foreign, dropped, closing, link>>
          /\ UNCHANGED at
             \/ at' = [t \in Task |-> IF at[t] = "lock" THEN "resumed" ELSE at[t]]
      BY <2>8 DEF PauseWriting, ResumeWriting, Idle, counters
    <3> QED BY <3>1, QuietKeeps DEF SlotInv, Accounted
  <2> QED BY <1>2, <2>1, <2>2, <2>3, <2>4, <2>5, <2>6, <2>7, <2>8 DEF Next
<1> QED BY <1>1, <1>2

(* Every slot is accounted for while the link is up (L2CAP_Transport.write, *)
(* _write_window_monitor): a report that waits for the window, the lock or *)
(* the socket neither loses a slot nor takes two, however many writers     *)
(* there are and however completions are batched.  As many slots are lost  *)
(* as completions are dropped behind another connection's, and no more     *)
(* are won than were counted for others.                                   *)
THEOREM NoSlotLost == Spec => []SlotsKept
<1>1. SlotInv => SlotsKept
  BY DEF SlotInv, SlotsKept, Accounted, Held
<1> QED BY <1>1, InitSlots, StepSlots, PTL DEF Spec
=============================================================================
