---------------------------- MODULE NfcMcuProofs ----------------------------
(***************************************************************************)
(* Proofs about NfcMcu, for every number of packets, writes, tags and      *)
(* queued responses.  Nothing is overwritten without a backup although     *)
(* writes wait in tasks while tags come and go: the tag of a file always   *)
(* has the contents of that file, so the backup made of the tag before a   *)
(* write is one of what the write replaces.  And what is written is whole. *)
(***************************************************************************)
EXTENDS NfcMcu, SequenceTheorems, TLAPS

(* The tag on the controller, if it is from the file, is what the file is. *)
TagIsFile == tag.source = "file" => tag.contents = file

BackupInv == TagIsFile /\ BackedUp

-----------------------------------------------------------------------------
LEMMA InitInvariant == Init => BackupInv
BY DEF Init, None, BackupInv, TagIsFile, BackedUp

LEMMA UntouchedKeeps ==
  ASSUME BackupInv, UNCHANGED <<tag, file, backups, replaced>>
  PROVE  BackupInv'
BY DEF BackupInv, TagIsFile, BackedUp

(* A write backs the tag up and then replaces the file.                    *)
LEMMA ProcessWriteKeeps == ASSUME BackupInv, ProcessWrite PROVE BackupInv'
<1>1. CASE tag.source # "file"
  BY <1>1, UntouchedKeeps DEF ProcessWrite
<1>2. CASE tag.source = "file"
  <2>1. PICK data : Save(data)
    BY <1>2 DEF ProcessWrite
  <2>2. /\ tag' = [source |-> "file", contents |-> file', mutable |-> TRUE]
        /\ replaced' = replaced \cup {file}
    BY <2>1 DEF Save
  <2>3. backups' = backups \cup {file}
    BY <1>2 DEF ProcessWrite, Backup, BackupInv, TagIsFile
  <2>4. TagIsFile'
    BY <2>2 DEF TagIsFile
  <2>5. BackedUp'
    BY <2>2, <2>3 DEF BackupInv, BackedUp
  <2> QED BY <2>4, <2>5 DEF BackupInv
<1> QED BY <1>1, <1>2

(* A tag that is put on has the contents of the file it is loaded from.    *)
LEMMA SetNfcKeeps ==
  ASSUME BackupInv, NEW s \in {"none", "file", "raw"}, SetNfc(s)
  PROVE  BackupInv'
<1>1. UNCHANGED <<file, backups, replaced>>
  BY DEF SetNfc
<1>2. CASE s = "none"
  BY <1>1, <1>2 DEF SetNfc, None, BackupInv, TagIsFile, BackedUp
<1>3. CASE s # "none"
  <2>1. tag' = [source |-> s, contents |-> IF s = "file" THEN file ELSE 0, mutable |-> FALSE]
    BY <1>3 DEF SetNfc, NewTag
  <2> QED BY <1>1, <2>1 DEF BackupInv, TagIsFile, BackedUp
<1> QED BY <1>2, <1>3

-----------------------------------------------------------------------------
LEMMA StepInvariant == BackupInv /\ [Next]_vars => BackupInv'
<1> SUFFICES ASSUME BackupInv, [Next]_vars PROVE BackupInv'
  OBVIOUS
<1>1. ASSUME NEW p \in {"suspended", "ready"}, SetPower(p) PROVE BackupInv'
  BY <1>1, UntouchedKeeps DEF SetPower, storage
<1>2. ASSUME NEW p \in {"ready", "nfc"}, SetConfig(p) PROVE BackupInv'
  BY <1>2, UntouchedKeeps DEF SetConfig, storage
<1>3. CASE RequestStatus \/ NfcStatus \/ Read
  BY <1>3, UntouchedKeeps DEF RequestStatus, NfcStatus, Read, storage
<1>4. ASSUME NEW start \in BOOLEAN, Polling(start) PROVE BackupInv'
  BY <1>4, UntouchedKeeps DEF Polling, storage
<1>5. CASE WriteSetup \/ WritePacket \/ WriteAtOnce \/ GiveUp
  BY <1>5, UntouchedKeeps DEF WriteSetup, WritePacket, WriteAtOnce, GiveUp, storage
<1>6. CASE ProcessWrite
  BY <1>6, ProcessWriteKeeps
<1>7. CASE InputReport
  BY <1>7, UntouchedKeeps DEF InputReport, storage
<1>8. ASSUME NEW s \in {"none", "file", "raw"}, SetNfc(s) PROVE BackupInv'
  BY <1>8, SetNfcKeeps
<1>9. CASE UNCHANGED vars
  BY <1>9, UntouchedKeeps DEF vars, storage
<1> QED BY <1>1, <1>2, <1>3, <1>4, <1>5, <1>6, <1>7, <1>8, <1>9 DEF Next

(* Nothing is overwritten in an amiibo's file that was not backed up       *)
(* before (process_nfc_write, NFCTag.create_backup, save).                 *)
THEOREM AlwaysBackedUp == Spec => []BackedUp
<1>1. BackupInv => BackedUp
  BY DEF BackupInv
<1> QED BY <1>1, InitInvariant, StepInvariant, PTL DEF Spec

-----------------------------------------------------------------------------
(* Whole writes.  The console and the MCU agree on how far a write has     *)
(* come, and what a task will apply is whole from the packet that ends a   *)
(* write, whatever comes to received_data later.                           *)

NfcState == {"none", "poll", "again", "awaiting", "writing", "processing"}
Resp == [state : NfcState \cup {"setup", "other"}, ack : Nat]
TaskRec == [live : BOOLEAN, data : Seq(Nat \X Nat)]

Types ==
  /\ power \in {"suspended", "ready", "nfc"}
  /\ nfcState \in NfcState
  /\ ackSeq \in Nat
  /\ received \in Seq(Nat \X Nat)
  /\ queue \in Seq(Resp)
  /\ tasks \in Seq(TaskRec)
  /\ phase \in Nat /\ phase <= Packets + 2
  /\ write \in Nat /\ write <= MaxWrites
  /\ unclean \in {"no", "abandoned", "misused"}

(* The first k packets of the write w.                                     *)
Part(w, k) == [n \in 1..k |-> <<w, n>>]

(* What the task x will apply, as far as is known.                         *)
Seen(x, data) == IF x.live THEN data ELSE x.data

Applicable == ~torn /\ \A i \in 1..Len(tasks) : Whole(Seen(tasks[i], received))

Setup(q, i) == q[i].state = "setup"

(* A write is set up by one response, before any acknowledgement of it.    *)
SetUp ==
  /\ (unclean = "no" /\ phase # Asked) \/ power # "nfc" =>
       \A i \in 1..Len(queue) : ~Setup(queue, i)
  /\ phase = Asked =>
       \A i \in 1..Len(queue) : Setup(queue, i) =>
         /\ received = Part(write, 0)
         /\ \A j \in 1..Len(queue) :
              (j > i => queue[j].ack = 0) /\ (Setup(queue, j) => j = i)

(* The packet the console sends is the next one for the MCU, or its last,  *)
(* and the latter if it is acknowledged.                                   *)
InStep ==
  phase \in 1..Packets =>
    /\ \/ received = Part(write, phase - 1) /\ ackSeq = phase - 1
       \/ received = Part(write, phase) /\ ackSeq = IF phase = Packets THEN 0 ELSE phase
    /\ \A i \in 1..Len(queue) : queue[i].state = "writing" =>
         /\ queue[i].ack <= phase
         /\ queue[i].ack = phase => received = Part(write, phase)

Agreed ==
  /\ phase # Idle => unclean = "no" /\ power = "nfc" /\ write # 0
  /\ unclean = "no" /\ phase \notin 1..Packets => ackSeq = 0
  /\ SetUp
  /\ InStep

WriteInv == Types /\ (unclean # "misused" => Applicable /\ Agreed)

-----------------------------------------------------------------------------
(* Sequences.                                                              *)

LEMMA Numbers == Packets \in Nat \ {0, 1} /\ MaxWrites \in Nat
BY McuAssumption DEF McuAssumption

LEMMA PartFacts ==
  ASSUME NEW w \in Nat, NEW k \in Nat
  PROVE  /\ Part(w, k) \in Seq(Nat \X Nat)
         /\ Len(Part(w, k)) = k
         /\ Append(Part(w, k), <<w, k + 1>>) = Part(w, k + 1)
         /\ <<>> = Part(w, 0)
<1> DEFINE p == Part(w, k)
<1>1. p \in Seq(Nat \X Nat) /\ Len(p) = k
  BY DEF Part
<1>2. \A i \in 1..k : p[i] = <<w, i>>
  BY DEF Part
<1> DEFINE q == Append(p, <<w, k + 1>>)
<1>3. /\ q \in Seq(Nat \X Nat) /\ Len(q) = k + 1
      /\ \A i \in 1..k : q[i] = p[i]
      /\ q[k + 1] = <<w, k + 1>>
  BY <1>1
<1>4. Part(w, k + 1) \in Seq(Nat \X Nat) /\ Len(Part(w, k + 1)) = k + 1
      /\ \A i \in 1..k + 1 : Part(w, k + 1)[i] = <<w, i>>
  BY DEF Part
<1>5. ASSUME NEW i \in 1..k + 1 PROVE q[i] = Part(w, k + 1)[i]
  <2>1. i \in 1..k \/ i = k + 1
    OBVIOUS
  <2> QED BY <1>2, <1>3, <1>4, <2>1
<1>6. q = Part(w, k + 1)
  BY <1>3, <1>4, <1>5, SeqEqual
<1>7. <<>> = Part(w, 0)
  BY DEF Part
<1> QED BY <1>1, <1>6, <1>7

LEMMA AppendFacts ==
  ASSUME NEW S, NEW q \in Seq(S), NEW r \in S
  PROVE  /\ Append(q, r) \in Seq(S)
         /\ \A i \in 1..Len(Append(q, r)) :
              \/ i \in 1..Len(q) /\ Append(q, r)[i] = q[i]
              \/ i = Len(q) + 1 /\ Append(q, r)[i] = r
OBVIOUS

LEMMA TailFacts ==
  ASSUME NEW S, NEW q \in Seq(S), q # <<>>
  PROVE  /\ Tail(q) \in Seq(S)
         /\ Head(q) = q[1] /\ 1 \in 1..Len(q)
         /\ \A i \in 1..Len(Tail(q)) : i + 1 \in 1..Len(q) /\ Tail(q)[i] = q[i + 1]
OBVIOUS

(* A whole write has all packets.                                          *)
LEMMA WholeLength == \A data : Whole(data) => Len(data) = Packets
BY Numbers DEF Whole

(* Tasks that were given received_data keep it.                            *)
LEMMA DetachedKeeps ==
  ASSUME Types
  PROVE  /\ Detached \in Seq(TaskRec)
         /\ Len(Detached) = Len(tasks)
         /\ \A i \in 1..Len(tasks) :
              ~Detached[i].live /\ Detached[i].data = Seen(tasks[i], received)
<1>1. \A i \in 1..Len(tasks) : tasks[i] \in TaskRec
  BY DEF Types
<1>2. \A i \in 1..Len(tasks) :
        (IF tasks[i].live THEN [live |-> FALSE, data |-> received] ELSE tasks[i]) \in TaskRec
  BY <1>1 DEF Types, TaskRec
<1>3. Len(tasks) \in Nat
  BY DEF Types
<1>4. Detached \in Seq(TaskRec) /\ Len(Detached) = Len(tasks)
  <2>1. \A i \in 1..Len(tasks) : Detached[i] \in TaskRec
    BY <1>2 DEF Detached
  <2>2. Detached = [i \in 1..Len(tasks) |-> Detached[i]]
    BY DEF Detached
  <2> QED BY <1>3, <2>1, <2>2
<1>5. ASSUME NEW i \in 1..Len(tasks)
      PROVE  ~Detached[i].live /\ Detached[i].data = Seen(tasks[i], received)
  <2>1. Detached[i] = IF tasks[i].live THEN [live |-> FALSE, data |-> received] ELSE tasks[i]
    BY DEF Detached
  <2>2. CASE tasks[i].live
    BY <2>1, <2>2 DEF Seen
  <2>3. CASE ~tasks[i].live
    BY <2>1, <2>3 DEF Seen
  <2> QED BY <2>2, <2>3
<1> QED BY <1>4, <1>5

-----------------------------------------------------------------------------
(* The steps.                                                              *)

LEMMA InitWrites == Init => WriteInv
<1> SUFFICES ASSUME Init PROVE WriteInv
  OBVIOUS
<1>1. Types
  BY Numbers DEF Init, Types, NfcState, Idle
<1>2. Applicable
  BY DEF Init, Applicable
<1>3. Agreed
  BY Numbers DEF Init, Agreed, SetUp, InStep, Setup, Idle, Asked
<1> QED BY <1>1, <1>2, <1>3 DEF WriteInv

(* What a task will apply does not change while the tasks do not and       *)
(* received_data does not.                                                 *)
LEMMA ApplicableFrame ==
  ASSUME Applicable, UNCHANGED <<tasks, received, torn>>
  PROVE  Applicable'
BY DEF Applicable, Seen

(* A response that sets nothing up and acknowledges no more than ackSeq    *)
(* does no harm.                                                           *)
LEMMA ResponseKeeps ==
  ASSUME WriteInv, NEW r \in Resp, r.state # "setup", r.ack \in {0, ackSeq},
         queue' \in {queue, Append(queue, r)}, nfcState' \in NfcState,
         UNCHANGED <<power, ackSeq, received, tasks, phase, write, unclean, torn>>
  PROVE  WriteInv'
<1>1. queue \in Seq(Resp)
  BY DEF WriteInv, Types
<1>2. /\ queue' \in Seq(Resp)
      /\ \A i \in 1..Len(queue') :
           \/ i \in 1..Len(queue) /\ queue'[i] = queue[i]
           \/ queue'[i] = r /\ \A j \in 1..Len(queue) : j < i
  <2>1. CASE queue' = queue
    BY <1>1, <2>1
  <2>2. CASE queue' = Append(queue, r)
    <3>1. Len(queue) \in Nat
      BY <1>1
    <3> QED BY <1>1, <2>2, <3>1, AppendFacts
  <2> QED BY <2>1, <2>2
<1>3. Types'
  BY <1>2 DEF WriteInv, Types
<1>4. SUFFICES ASSUME unclean # "misused" PROVE Applicable' /\ Agreed'
  BY <1>3 DEF WriteInv
<1>5. Applicable'
  BY <1>4, ApplicableFrame DEF WriteInv
<1>6. Agreed
  BY <1>4 DEF WriteInv
<1>7. SetUp'
  <2>1. (unclean' = "no" /\ phase' # Asked) \/ power' # "nfc" =>
          \A i \in 1..Len(queue') : ~Setup(queue', i)
    BY <1>2, <1>6 DEF Agreed, SetUp, Setup
  <2>2. ASSUME phase' = Asked, NEW i \in 1..Len(queue'), Setup(queue', i)
        PROVE  /\ received' = Part(write', 0)
               /\ \A j \in 1..Len(queue') :
                    (j > i => queue'[j].ack = 0) /\ (Setup(queue', j) => j = i)
    <3>1. i \in 1..Len(queue) /\ Setup(queue, i)
      BY <1>2, <2>2 DEF Setup
    <3>2. phase = Asked /\ received = Part(write, 0)
          /\ \A j \in 1..Len(queue) : (j > i => queue[j].ack = 0) /\ (Setup(queue, j) => j = i)
      BY <1>6, <2>2, <3>1 DEF Agreed, SetUp
    <3>3. r.ack = 0
      BY <1>6, <3>2, Numbers DEF Agreed, Asked, Idle
    <3> QED BY <1>2, <3>2, <3>3 DEF Setup, Part
  <2> QED BY <2>1, <2>2 DEF SetUp
<1>8. InStep'
  <2> SUFFICES ASSUME phase \in 1..Packets PROVE InStep'
    BY DEF InStep
  <2>1. /\ \/ received = Part(write, phase - 1) /\ ackSeq = phase - 1
           \/ received = Part(write, phase) /\ ackSeq = IF phase = Packets THEN 0 ELSE phase
        /\ \A i \in 1..Len(queue) : queue[i].state = "writing" =>
             /\ queue[i].ack <= phase
             /\ queue[i].ack = phase => received = Part(write, phase)
    BY <1>6 DEF Agreed, InStep
  <2>2. r.ack <= phase /\ (r.ack = phase => received = Part(write, phase))
    BY <2>1, Numbers
  <2> QED BY <1>2, <2>1, <2>2 DEF InStep, Part
<1>9. Agreed'
  BY <1>6, <1>7, <1>8 DEF Agreed
<1> QED BY <1>5, <1>9

LEMMA QueueResponseIs == \A q, r : QueueResponse(q, r) \in {q, Append(q, r)}
BY DEF QueueResponse

LEMMA OtherIs == Other \in Resp /\ Other.state = "other" /\ Other.ack = 0
BY DEF Other, Response, Resp

LEMMA SetPowerWrites ==
  ASSUME WriteInv, NEW p \in {"suspended", "ready"}, SetPower(p)
  PROVE  WriteInv'
<1>1. /\ power' = p /\ queue' = <<Other>> /\ phase' = 0
      /\ unclean' = IF phase # Idle /\ unclean = "no" THEN "abandoned" ELSE unclean
      /\ UNCHANGED <<nfcState, ackSeq, received, tasks, write, torn>>
  BY DEF SetPower, nfc, storage, Idle
<1>2. queue' \in Seq(Resp) /\ \A i \in 1..Len(queue') : queue'[i] = Other
  BY <1>1, OtherIs
<1>3. Types'
  BY <1>1, <1>2, Numbers DEF WriteInv, Types
<1>4. SUFFICES ASSUME unclean # "misused" PROVE Applicable' /\ Agreed'
  BY <1>1, <1>3 DEF WriteInv
<1>5. Applicable'
  BY <1>1, <1>4, ApplicableFrame DEF WriteInv
<1>6. SetUp' /\ InStep'
  BY <1>1, <1>2, OtherIs, Numbers DEF SetUp, InStep, Setup, Asked
<1>7. unclean' = "no" => ackSeq' = 0
  BY <1>1, <1>4, Numbers DEF WriteInv, Agreed, Idle, Types
<1> QED BY <1>1, <1>5, <1>6, <1>7 DEF Agreed, Idle

LEMMA SetConfigWrites ==
  ASSUME WriteInv, NEW p \in {"ready", "nfc"}, SetConfig(p)
  PROVE  WriteInv'
<1>1. /\ power = "ready" /\ power' = p
      /\ queue' \in {queue, Append(queue, Other)}
      /\ nfcState' \in {nfcState, "none"} /\ ackSeq' \in {ackSeq, 0}
      /\ unclean' = unclean \/ (unclean = "abandoned" /\ unclean' = "no" /\ ackSeq' = 0)
      /\ UNCHANGED <<received, tasks, phase, write, torn>>
  BY QueueResponseIs DEF SetConfig, storage
<1>2. queue' \in Seq(Resp) /\ \A i \in 1..Len(queue') :
        queue'[i] = Other \/ (i \in 1..Len(queue) /\ queue'[i] = queue[i])
  <2>1. queue \in Seq(Resp)
    BY DEF WriteInv, Types
  <2> QED BY <1>1, <2>1, OtherIs, AppendFacts
<1>3. Types'
  BY <1>1, <1>2 DEF WriteInv, Types, NfcState
<1>4. SUFFICES ASSUME unclean # "misused" PROVE Applicable' /\ Agreed'
  BY <1>1, <1>3 DEF WriteInv
<1>5. Applicable'
  BY <1>1, <1>4, ApplicableFrame DEF WriteInv
<1>6. Agreed /\ phase = Idle
  BY <1>1, <1>4 DEF WriteInv, Agreed
<1>7. \A i \in 1..Len(queue') : ~Setup(queue', i)
  BY <1>1, <1>2, <1>6, OtherIs DEF Agreed, SetUp, Setup
<1>8. SetUp' /\ InStep'
  BY <1>1, <1>6, <1>7, Numbers DEF SetUp, InStep, Idle, Asked
<1>9. unclean' = "no" => ackSeq' = 0
  BY <1>1, <1>6, Numbers DEF Agreed, Idle
<1> QED BY <1>1, <1>5, <1>6, <1>8, <1>9 DEF Agreed

LEMMA NfcStatusWrites == ASSUME WriteInv, NfcStatus PROVE WriteInv'
<1> DEFINE r == StatusResponse(NextState)
<1>1. NextState \in NfcState
  BY DEF NextState, WriteInv, Types, NfcState
<1>2. r \in Resp /\ r.state = NextState /\ r.ack \in {0, ackSeq}
  BY <1>1 DEF StatusResponse, Response, Resp, WriteInv, Types
<1>3. r.state # "setup"
  BY <1>1, <1>2 DEF NfcState
<1>4. queue' \in {queue, Append(queue, r)} /\ nfcState' \in NfcState
  BY <1>1, QueueResponseIs DEF NfcStatus, StatusTaken
<1>5. UNCHANGED <<power, ackSeq, received, tasks, phase, write, unclean, torn>>
  BY DEF NfcStatus, storage, console
<1> HIDE DEF r
<1> QED BY <1>2, <1>3, <1>4, <1>5, ResponseKeeps

(* Steps that leave the queue, the console and the write alone.            *)
LEMMA AloneWrites ==
  ASSUME WriteInv, nfcState' \in NfcState,
         UNCHANGED <<power, ackSeq, received, queue, tasks, phase, write, unclean, torn>>
  PROVE  WriteInv'
<1>1. queue' \in {queue, Append(queue, Other)} /\ Other.state # "setup"
      /\ Other.ack \in {0, ackSeq} /\ Other \in Resp
  BY OtherIs
<1> QED BY <1>1, ResponseKeeps

LEMMA ReadWrites == ASSUME WriteInv, Read PROVE WriteInv'
<1>1. /\ phase = 0 /\ queue' \in {queue, <<Other, Other, Other>>}
      /\ UNCHANGED <<power, nfcState, ackSeq, received, tasks, phase, write, unclean, torn>>
  BY DEF Read, nfc, storage, console, Idle
<1>2. CASE queue' = queue
  BY <1>1, <1>2, AloneWrites DEF WriteInv, Types
<1>3. CASE queue' = <<Other, Other, Other>>
  <2>1. queue' \in Seq(Resp) /\ \A i \in 1..Len(queue') : queue'[i] = Other
    BY <1>3, OtherIs
  <2>2. Types'
    BY <1>1, <2>1 DEF WriteInv, Types
  <2>3. SUFFICES ASSUME unclean # "misused" PROVE Applicable' /\ Agreed'
    BY <1>1, <2>2 DEF WriteInv
  <2>4. Applicable'
    BY <1>1, <2>3, ApplicableFrame DEF WriteInv
  <2>5. SetUp' /\ InStep'
    BY <1>1, <2>1, OtherIs, Numbers DEF SetUp, InStep, Setup, Asked
  <2> QED BY <1>1, <2>3, <2>4, <2>5 DEF WriteInv, Agreed
<1> QED BY <1>1, <1>2, <1>3

LEMMA WriteSetupWrites == ASSUME WriteInv, WriteSetup PROVE WriteInv'
<1>1. /\ power = "nfc" /\ phase = 0 /\ write < MaxWrites /\ write' = write + 1
      /\ phase' = Asked
      /\ unclean' = IF unclean = "abandoned" THEN "misused" ELSE unclean
      /\ UNCHANGED <<power, ackSeq, torn>>
  BY DEF WriteSetup, nfc, storage, Idle
<1>2. /\ write' \in Nat \ {0} /\ write' <= MaxWrites
      /\ phase' \in Nat /\ phase' <= Packets + 2
  BY <1>1, Numbers DEF WriteInv, Types, Asked
<1>3. unclean' # "misused" => unclean = "no" /\ unclean' = "no" /\ Applicable /\ Agreed
  BY <1>1 DEF WriteInv, Types
<1>4. unclean' # "misused" => ackSeq = 0 /\ \A i \in 1..Len(queue) : ~Setup(queue, i)
  BY <1>1, <1>3, Numbers DEF Agreed, SetUp, Asked
<1>5. phase' \notin 1..Packets
  BY <1>1, Numbers DEF Asked
<1>6. CASE tag = None
  <2>1. UNCHANGED <<nfcState, received, queue, tasks>>
    BY <1>6 DEF WriteSetup, nfc
  <2>2. Types'
    BY <1>1, <1>2, <2>1 DEF WriteInv, Types
  <2>3. unclean' # "misused" => Applicable'
    BY <1>1, <1>3, <2>1, ApplicableFrame
  <2>4. unclean' # "misused" => Agreed'
    BY <1>1, <1>2, <1>3, <1>4, <1>5, <2>1 DEF Agreed, SetUp, InStep, Setup
  <2> QED BY <2>2, <2>3, <2>4 DEF WriteInv
<1>7. CASE tag # None
  <2>1. /\ queue' = Append(queue, Response("setup", 0)) /\ received' = <<>>
        /\ tasks' = Detached /\ nfcState' = "awaiting"
    BY <1>7 DEF WriteSetup
  <2>2. Response("setup", 0) \in Resp /\ Response("setup", 0).state = "setup"
    BY DEF Response, Resp
  <2>3. queue \in Seq(Resp) /\ Len(queue) \in Nat
    BY DEF WriteInv, Types
  <2>4. /\ queue' \in Seq(Resp)
        /\ \A i \in 1..Len(queue') :
             \/ i \in 1..Len(queue) /\ queue'[i] = queue[i]
             \/ i = Len(queue) + 1 /\ i = Len(queue')
    BY <2>1, <2>2, <2>3, AppendFacts
  <2>5. /\ tasks' \in Seq(TaskRec) /\ Len(tasks') = Len(tasks)
        /\ \A i \in 1..Len(tasks) : ~tasks'[i].live /\ tasks'[i].data = Seen(tasks[i], received)
    BY <2>1, DetachedKeeps DEF WriteInv
  <2>6. received' = Part(write', 0) /\ received' \in Seq(Nat \X Nat)
    <3>1. write' \in Nat /\ 0 \in Nat
      BY <1>2, Numbers
    <3> QED BY <2>1, <3>1, PartFacts
  <2>7. Types'
    BY <1>1, <1>2, <2>1, <2>4, <2>5, <2>6 DEF WriteInv, Types, NfcState
  <2>8. unclean' # "misused" => Applicable'
    BY <1>1, <1>3, <2>5 DEF Applicable, Seen
  <2>9. ASSUME unclean' # "misused" PROVE Agreed'
    <3>1. \A i \in 1..Len(queue') : Setup(queue', i) => i = Len(queue')
      BY <1>4, <2>4, <2>9 DEF Setup
    <3>2. \A i, j \in 1..Len(queue') : Setup(queue', i) => ~(j > i)
      <4>1. Len(queue') \in Nat
        BY <2>4
      <4> QED BY <3>1, <4>1
    <3>3. SetUp'
      BY <1>1, <2>6, <3>1, <3>2 DEF SetUp, Part, Setup
    <3> QED BY <1>1, <1>2, <1>3, <1>4, <1>5, <2>9, <3>3 DEF Agreed, InStep
  <2> QED BY <2>7, <2>8, <2>9 DEF WriteInv
<1> QED BY <1>6, <1>7

(* A packet: received_data grows by the next packet of the write or by     *)
(* nothing; a task is started when it is whole.                            *)
LEMMA WritePacketWrites == ASSUME WriteInv, WritePacket PROVE WriteInv'
<1> DEFINE n == phase
           next == n = ackSeq + 1
           ack == CASE n <= ackSeq -> ackSeq [] next -> n [] OTHER -> 0
           told == Response("writing", IF tag = None THEN 0 ELSE ack)
<1>1. /\ power = "nfc" /\ n \in 1..Packets
      /\ received' = IF next THEN Append(received, <<write, n>>) ELSE received
      /\ queue' = Append(queue, told)
      /\ n = Packets => ackSeq' = 0 /\ nfcState' = "processing" /\ tasks' = Append(tasks, Live)
      /\ n # Packets => ackSeq' = ack /\ nfcState' = "writing" /\ UNCHANGED tasks
      /\ UNCHANGED <<power, phase, write, unclean, torn>>
  BY DEF WritePacket, Packet, storage, console
<1>2. n \in Nat /\ ackSeq \in Nat /\ write \in Nat /\ ack \in Nat /\ Packets \in Nat \ {0, 1}
  BY <1>1, Numbers DEF WriteInv, Types
<1>3. told \in Resp /\ told.state = "writing" /\ told.ack \in {0, ack}
  BY <1>2 DEF Response, Resp, NfcState
<1>4. Live \in TaskRec
  BY DEF Live, TaskRec
<1>5. queue \in Seq(Resp) /\ tasks \in Seq(TaskRec) /\ received \in Seq(Nat \X Nat)
  BY DEF WriteInv, Types
<1>6. /\ queue' \in Seq(Resp)
      /\ \A i \in 1..Len(queue') :
           (i \in 1..Len(queue) /\ queue'[i] = queue[i]) \/ queue'[i] = told
  BY <1>1, <1>3, <1>5, AppendFacts
<1>7. /\ tasks' \in Seq(TaskRec)
      /\ \A i \in 1..Len(tasks') :
           \/ i \in 1..Len(tasks) /\ tasks'[i] = tasks[i]
           \/ n = Packets /\ tasks'[i] = Live
  <2>1. CASE n = Packets
    <3>1. tasks' = Append(tasks, Live)
      BY <1>1, <2>1
    <3> QED BY <1>4, <1>5, <2>1, <3>1, AppendFacts
  <2>2. CASE n # Packets
    BY <1>1, <1>5, <2>2
  <2> QED BY <2>1, <2>2
<1>8. received' \in Seq(Nat \X Nat)
  <2>1. <<write, n>> \in Nat \X Nat
    BY <1>2
  <2> QED BY <1>1, <1>5, <2>1
<1>9. Types'
  <2>1. ackSeq' \in Nat /\ nfcState' \in NfcState
    BY <1>1, <1>2 DEF NfcState
  <2> QED BY <1>1, <1>6, <1>7, <1>8, <2>1 DEF WriteInv, Types
<1>10. SUFFICES ASSUME unclean # "misused" PROVE Applicable' /\ Agreed'
  BY <1>1, <1>9 DEF WriteInv
<1>11. Applicable /\ Agreed
  BY <1>10 DEF WriteInv
<1>12. \/ received = Part(write, n - 1) /\ ackSeq = n - 1
       \/ received = Part(write, n) /\ ackSeq = IF n = Packets THEN 0 ELSE n
  BY <1>1, <1>11 DEF Agreed, InStep
<1>13. unclean = "no" /\ write \in 1..MaxWrites
  BY <1>1, <1>2, <1>11 DEF Agreed, Idle, WriteInv, Types
<1>14. received' = Part(write, n)
  <2>1. CASE received = Part(write, n - 1) /\ ackSeq = n - 1
    <3>1. next /\ n - 1 \in Nat /\ n = (n - 1) + 1
      BY <1>1, <2>1
    <3>2. Append(Part(write, n - 1), <<write, (n - 1) + 1>>) = Part(write, (n - 1) + 1)
      BY <1>2, <3>1, PartFacts
    <3>3. Append(Part(write, n - 1), <<write, n>>) = Part(write, n)
      BY <1>1, <3>2
    <3> QED BY <1>1, <2>1, <3>1, <3>3
  <2>2. CASE received = Part(write, n) /\ ackSeq = IF n = Packets THEN 0 ELSE n
    <3>1. ~next
      BY <1>2, <2>2
    <3> QED BY <1>1, <2>2, <3>1
  <2> QED BY <1>12, <2>1, <2>2
<1>15. ackSeq' = IF n = Packets THEN 0 ELSE n
  BY <1>1, <1>2, <1>12
<1>16. ack \in {0, n}
  BY <1>1, <1>2, <1>12
<1>17. Whole(Part(write, Packets))
  BY <1>13 DEF Whole, Part
<1>18. (\E i \in 1..Len(tasks) : tasks[i].live) => received = Part(write, n)
  <2>1. ASSUME NEW i \in 1..Len(tasks), tasks[i].live PROVE received # Part(write, n - 1)
    <3>1. Len(received) = Packets
      BY <1>11, <2>1, WholeLength DEF Applicable, Seen
    <3>2. n - 1 \in Nat /\ n - 1 # Packets
      BY <1>1, <1>2
    <3>3. Len(Part(write, n - 1)) = n - 1
      BY <1>2, <3>2, PartFacts
    <3> QED BY <3>1, <3>2, <3>3
  <2> QED BY <1>12, <2>1
<1> HIDE DEF n, told, ack, next
<1>19. Applicable'
  <2>1. ~torn'
    BY <1>1, <1>11 DEF Applicable
  <2>2. ASSUME NEW i \in 1..Len(tasks') PROVE Whole(Seen(tasks'[i], received'))
    <3>1. CASE i \in 1..Len(tasks) /\ tasks'[i] = tasks[i]
      <4>1. Seen(tasks[i], received') = Seen(tasks[i], received)
        BY <1>14, <1>18, <3>1 DEF Seen
      <4> QED BY <1>11, <3>1, <4>1 DEF Applicable
    <3>2. CASE n = Packets /\ tasks'[i] = Live
      <4>1. Seen(tasks'[i], received') = Part(write, Packets)
        BY <1>14, <3>2 DEF Seen, Live
      <4> QED BY <1>17, <4>1
    <3> QED BY <1>7, <3>1, <3>2
  <2> QED BY <2>1, <2>2 DEF Applicable
<1>20. SetUp'
  BY <1>1, <1>2, <1>3, <1>6, <1>11 DEF Agreed, SetUp, Setup, Asked, n
<1>21. InStep'
  <2>1. phase' = n /\ write' = write
    BY <1>1 DEF n
  <2>2. \A i \in 1..Len(queue') : queue'[i].state = "writing" =>
          /\ queue'[i].ack <= n
          /\ queue'[i].ack = n => received' = Part(write, n)
    <3>1. \A i \in 1..Len(queue) : queue[i].state = "writing" => queue[i].ack <= n
      BY <1>1, <1>11 DEF Agreed, InStep, n
    <3>2. told.ack <= n
      BY <1>2, <1>3, <1>16
    <3> QED BY <1>6, <1>14, <3>1, <3>2
  <2>3. received' = Part(write', phase') /\ ackSeq' = IF phase' = Packets THEN 0 ELSE phase'
    BY <1>14, <1>15, <2>1
  <2> QED BY <2>1, <2>2, <2>3 DEF InStep, Part
<1>22. Agreed'
  BY <1>1, <1>2, <1>11, <1>13, <1>20, <1>21 DEF Agreed, n
<1> QED BY <1>19, <1>22

LEMMA WriteAtOnceWrites == ASSUME WriteInv, WriteAtOnce PROVE WriteInv'
<1> DEFINE x == [live |-> FALSE, data |-> Part(write + 1, Packets)]
<1>1. /\ phase = 0 /\ write < MaxWrites /\ write' = write + 1 /\ tasks' = Append(tasks, x)
      /\ UNCHANGED <<power, nfcState, ackSeq, received, queue, phase, unclean, torn>>
  BY DEF WriteAtOnce, Idle, nfc, storage, Part
<1>2. write' \in Nat /\ write' <= MaxWrites /\ write + 1 \in Nat /\ write + 1 \in 1..MaxWrites
      /\ Packets \in Nat
  BY <1>1, Numbers DEF WriteInv, Types
<1>3. x \in TaskRec
  BY <1>2, PartFacts DEF TaskRec
<1>4. Whole(Seen(x, received))
  BY <1>2 DEF Whole, Seen, Part
<1>5. tasks \in Seq(TaskRec)
  BY DEF WriteInv, Types
<1> HIDE DEF x
<1>6. /\ tasks' \in Seq(TaskRec)
      /\ \A i \in 1..Len(tasks') :
           (i \in 1..Len(tasks) /\ tasks'[i] = tasks[i]) \/ tasks'[i] = x
  BY <1>1, <1>3, <1>5, AppendFacts
<1>7. Types'
  BY <1>1, <1>2, <1>6 DEF WriteInv, Types
<1>8. SUFFICES ASSUME unclean # "misused" PROVE Applicable' /\ Agreed'
  BY <1>1, <1>7 DEF WriteInv
<1>9. Applicable'
  BY <1>1, <1>4, <1>6, <1>8 DEF WriteInv, Applicable
<1>10. Agreed'
  BY <1>1, <1>8, Numbers DEF WriteInv, Agreed, SetUp, InStep, Setup, Idle, Asked
<1> QED BY <1>9, <1>10

LEMMA ProcessWriteWrites == ASSUME WriteInv, ProcessWrite PROVE WriteInv'
<1>1. /\ tasks # <<>> /\ tasks' = Tail(tasks)
      /\ UNCHANGED <<power, nfcState, ackSeq, received, queue, phase, write, unclean>>
      /\ torn' = torn \/ torn' = (torn \/ ~Whole(Head(Detached).data))
  BY DEF ProcessWrite, Taken, Save, nfc, console
<1>2. tasks \in Seq(TaskRec)
  BY DEF WriteInv, Types
<1>3. /\ tasks' \in Seq(TaskRec) /\ 1 \in 1..Len(tasks)
      /\ \A i \in 1..Len(tasks') : i + 1 \in 1..Len(tasks) /\ tasks'[i] = tasks[i + 1]
  BY <1>1, <1>2, TailFacts
<1>4. Head(Detached).data = Seen(tasks[1], received)
  <2>1. Detached \in Seq(TaskRec) /\ Len(Detached) = Len(tasks)
        /\ Detached[1].data = Seen(tasks[1], received)
    BY <1>3, DetachedKeeps DEF WriteInv
  <2>2. Head(Detached) = Detached[1]
    BY <1>3, <2>1
  <2> QED BY <2>1, <2>2
<1>5. Types'
  BY <1>1, <1>3 DEF WriteInv, Types
<1>6. SUFFICES ASSUME unclean # "misused" PROVE Applicable' /\ Agreed'
  BY <1>1, <1>5 DEF WriteInv
<1>7. Applicable'
  <2>1. ~torn /\ \A i \in 1..Len(tasks) : Whole(Seen(tasks[i], received))
    BY <1>6 DEF WriteInv, Applicable
  <2>2. ~torn'
    BY <1>1, <1>3, <1>4, <2>1
  <2>3. ASSUME NEW i \in 1..Len(tasks') PROVE Whole(Seen(tasks'[i], received'))
    BY <1>1, <1>3, <2>1
  <2> QED BY <2>2, <2>3 DEF Applicable
<1>8. Agreed'
  BY <1>1, <1>6 DEF WriteInv, Agreed, SetUp, InStep, Setup, Part
<1> QED BY <1>7, <1>8

(* A response goes out; the console goes on when it is the right one.      *)
LEMMA InputReportWrites == ASSUME WriteInv, InputReport PROVE WriteInv'
<1> DEFINE r == queue[1]
<1>1. /\ queue # <<>> /\ queue' = Tail(queue) /\ phase' = Told
      /\ UNCHANGED <<power, nfcState, ackSeq, received, tasks, write, unclean, torn>>
  BY DEF InputReport, nfc, storage
<1>2. queue \in Seq(Resp)
  BY DEF WriteInv, Types
<1>3. /\ queue' \in Seq(Resp) /\ 1 \in 1..Len(queue) /\ Head(queue) = r
      /\ \A i \in 1..Len(queue') : i + 1 \in 1..Len(queue) /\ queue'[i] = queue[i + 1]
  BY <1>1, <1>2, TailFacts
<1>4. r \in Resp /\ phase \in Nat /\ phase <= Packets + 2 /\ Packets \in Nat \ {0, 1}
  BY <1>2, <1>3, Numbers DEF WriteInv, Types
<1>5. \/ phase = Asked /\ r.state = "setup" /\ phase' = 1
      \/ phase \in 1..Packets /\ r.state = "writing" /\ r.ack = phase
           /\ phase' = IF phase = Packets THEN Ending ELSE phase + 1
      \/ phase = Ending /\ r.state = "none" /\ phase' = 0
      \/ phase' = phase
  BY <1>1, <1>3 DEF Told, Idle
<1>6. Types'
  BY <1>1, <1>3, <1>4, <1>5 DEF WriteInv, Types, Asked, Ending
<1>7. SUFFICES ASSUME unclean # "misused" PROVE Applicable' /\ Agreed'
  BY <1>1, <1>6 DEF WriteInv
<1>8. Applicable'
  BY <1>1, <1>7, ApplicableFrame DEF WriteInv
<1>9. Agreed
  BY <1>7 DEF WriteInv
<1>10. \A i \in 1..Len(queue') : i + 1 > 1 /\ i + 1 # 1
  BY <1>3
<1>11. CASE phase = Asked /\ r.state = "setup" /\ phase' = 1
  <2>1. /\ received = Part(write, 0)
        /\ \A j \in 1..Len(queue) : (j > 1 => queue[j].ack = 0) /\ (Setup(queue, j) => j = 1)
    BY <1>3, <1>9, <1>11 DEF Agreed, SetUp, Setup
  <2>2. unclean = "no" /\ power = "nfc" /\ write # 0 /\ ackSeq = 0
    BY <1>4, <1>9, <1>11 DEF Agreed, Asked, Idle
  <2>3. \A i \in 1..Len(queue') : queue'[i].ack = 0 /\ ~Setup(queue', i)
    BY <1>3, <1>10, <2>1 DEF Setup
  <2>4. SetUp'
    BY <1>4, <1>11, <2>3 DEF SetUp, Setup, Asked
  <2>5. InStep'
    <3>1. received' = Part(write', phase' - 1) /\ ackSeq' = phase' - 1
      BY <1>1, <1>11, <2>1, <2>2 DEF Part
    <3> QED BY <1>11, <2>3, <3>1 DEF InStep
  <2>6. phase' \in 1..Packets
    BY <1>4, <1>11
  <2> QED BY <1>1, <1>8, <2>2, <2>4, <2>5, <2>6 DEF Agreed
<1>12. CASE phase \in 1..Packets /\ r.state = "writing" /\ r.ack = phase
              /\ phase' = IF phase = Packets THEN Ending ELSE phase + 1
  <2>1. received = Part(write, phase)
        /\ \A i \in 1..Len(queue) : queue[i].state = "writing" => queue[i].ack <= phase
    BY <1>3, <1>9, <1>12 DEF Agreed, InStep
  <2>2. unclean = "no" /\ power = "nfc" /\ write \in Nat \ {0}
    BY <1>9, <1>12, Numbers DEF Agreed, Idle, WriteInv, Types
  <2>3. ackSeq = IF phase = Packets THEN 0 ELSE phase
    <3>1. phase - 1 \in Nat /\ phase \in Nat
      BY <1>12
    <3>2. Part(write, phase) # Part(write, phase - 1)
      <4>1. Len(Part(write, phase)) = phase /\ Len(Part(write, phase - 1)) = phase - 1
        BY <2>2, <3>1, PartFacts
      <4> QED BY <3>1, <4>1
    <3> QED BY <1>9, <1>12, <2>1, <3>2 DEF Agreed, InStep
  <2>4. \A i \in 1..Len(queue) : ~Setup(queue, i)
    BY <1>4, <1>9, <1>12, <2>2 DEF Agreed, SetUp, Asked
  <2>5. SetUp'
    BY <1>3, <1>4, <1>12, <2>4 DEF SetUp, Setup, Asked, Ending
  <2>6. InStep'
    <3>1. CASE phase = Packets
      BY <1>4, <1>12, <3>1 DEF InStep, Ending
    <3>2. CASE phase # Packets
      <4>1. phase' = phase + 1 /\ phase' - 1 = phase
        BY <1>12, <3>2
      <4>2. received' = Part(write', phase' - 1) /\ ackSeq' = phase' - 1
        BY <1>1, <2>1, <2>3, <3>2, <4>1 DEF Part
      <4>3. \A i \in 1..Len(queue') : queue'[i] \in Resp
        BY <1>3
      <4>4. \A i \in 1..Len(queue') : queue'[i].state = "writing" => queue'[i].ack <= phase
        BY <1>3, <2>1
      <4>5. \A a \in Nat : a <= phase => a <= phase + 1 /\ a # phase + 1
        BY <1>12
      <4> QED BY <4>1, <4>2, <4>3, <4>4, <4>5 DEF InStep, Resp
    <3> QED BY <3>1, <3>2
  <2>7. phase' \notin 1..Packets => ackSeq' = 0
    BY <1>1, <1>4, <1>12, <2>3
  <2> QED BY <1>1, <1>8, <2>2, <2>5, <2>6, <2>7 DEF Agreed
<1>13. CASE phase = Ending /\ r.state = "none" /\ phase' = 0
  <2>1. \A i \in 1..Len(queue) : ~Setup(queue, i)
    BY <1>4, <1>9, <1>13 DEF Agreed, SetUp, Asked, Ending, Idle
  <2>2. SetUp' /\ InStep'
    BY <1>3, <1>4, <1>13, <2>1 DEF SetUp, InStep, Setup, Asked
  <2>3. ackSeq' = 0
    BY <1>1, <1>4, <1>9, <1>13 DEF Agreed, Ending, Idle
  <2> QED BY <1>1, <1>8, <1>13, <2>2, <2>3 DEF Agreed, Idle
<1>14. CASE phase' = phase
  <2>1. (unclean' = "no" /\ phase' # Asked) \/ power' # "nfc" =>
          \A i \in 1..Len(queue') : ~Setup(queue', i)
    BY <1>1, <1>3, <1>9, <1>14 DEF Agreed, SetUp, Setup
  <2>2. ASSUME phase' = Asked, NEW i \in 1..Len(queue'), Setup(queue', i)
        PROVE  /\ received' = Part(write', 0)
               /\ \A j \in 1..Len(queue') :
                    (j > i => queue'[j].ack = 0) /\ (Setup(queue', j) => j = i)
    <3>1. i + 1 \in 1..Len(queue) /\ Setup(queue, i + 1) /\ phase = Asked
      BY <1>3, <1>14, <2>2 DEF Setup
    <3>2. /\ received = Part(write, 0)
          /\ \A j \in 1..Len(queue) :
               (j > i + 1 => queue[j].ack = 0) /\ (Setup(queue, j) => j = i + 1)
      BY <1>9, <3>1 DEF Agreed, SetUp
    <3>3. \A j \in 1..Len(queue') :
            (j > i => queue'[j].ack = 0) /\ (Setup(queue', j) => j = i)
      BY SMTT(30), ZenonT(60), <1>3, <3>2 DEF Setup
    <3> QED BY <1>1, <3>2, <3>3 DEF Part
  <2>3. SetUp'
    BY <2>1, <2>2 DEF SetUp
  <2>4. InStep'
    BY <1>1, <1>3, <1>9, <1>14 DEF Agreed, InStep, Part
  <2> QED BY <1>1, <1>8, <1>9, <1>14, <2>3, <2>4 DEF Agreed
<1> QED BY <1>5, <1>11, <1>12, <1>13, <1>14

LEMMA GiveUpWrites == ASSUME WriteInv, GiveUp PROVE WriteInv'
<1>1. /\ phase # Idle /\ phase' = 0
      /\ unclean' = IF unclean = "no" THEN "abandoned" ELSE unclean
      /\ UNCHANGED <<power, nfcState, ackSeq, received, queue, tasks, write, torn>>
  BY DEF GiveUp, Idle, nfc, storage
<1>2. Types'
  BY <1>1, Numbers DEF WriteInv, Types
<1>3. SUFFICES ASSUME unclean # "misused" PROVE Applicable' /\ Agreed'
  BY <1>1, <1>2 DEF WriteInv
<1>4. Applicable'
  BY <1>1, <1>3, ApplicableFrame DEF WriteInv
<1>5. unclean' = "abandoned" /\ power' = "nfc"
  BY <1>1, <1>3 DEF WriteInv, Agreed
<1>6. Agreed'
  BY <1>1, <1>5, Numbers DEF Agreed, SetUp, InStep, Idle, Asked
<1> QED BY <1>4, <1>6

LEMMA StepWrites == WriteInv /\ [Next]_vars => WriteInv'
<1> SUFFICES ASSUME WriteInv, [Next]_vars PROVE WriteInv'
  OBVIOUS
<1>1. ASSUME NEW p \in {"suspended", "ready"}, SetPower(p) PROVE WriteInv'
  BY <1>1, SetPowerWrites
<1>2. ASSUME NEW p \in {"ready", "nfc"}, SetConfig(p) PROVE WriteInv'
  BY <1>2, SetConfigWrites
<1>3. CASE RequestStatus
  <2>1. /\ queue' \in {queue, Append(queue, Other)} /\ nfcState' \in NfcState
        /\ UNCHANGED <<power, ackSeq, received, tasks, phase, write, unclean, torn>>
    BY <1>3, QueueResponseIs DEF RequestStatus, nfc, storage, console, WriteInv, Types
  <2>2. Other \in Resp /\ Other.state # "setup" /\ Other.ack \in {0, ackSeq}
    BY OtherIs
  <2> QED BY <2>1, <2>2, ResponseKeeps
<1>4. ASSUME NEW start \in BOOLEAN, Polling(start) PROVE WriteInv'
  BY <1>4, AloneWrites DEF Polling, NfcState, storage, console
<1>5. CASE NfcStatus \/ Read \/ WriteSetup \/ WritePacket \/ WriteAtOnce \/ GiveUp
  BY <1>5, NfcStatusWrites, ReadWrites, WriteSetupWrites, WritePacketWrites,
     WriteAtOnceWrites, GiveUpWrites
<1>6. CASE ProcessWrite \/ InputReport
  BY <1>6, ProcessWriteWrites, InputReportWrites
<1>7. ASSUME NEW s \in {"none", "file", "raw"}, SetNfc(s) PROVE WriteInv'
  BY <1>7, AloneWrites DEF SetNfc, nfc, WriteInv, Types
<1>8. CASE UNCHANGED vars
  BY <1>8, AloneWrites DEF vars, nfc, storage, console, WriteInv, Types
<1> QED BY <1>1, <1>2, <1>3, <1>4, <1>5, <1>6, <1>7, <1>8 DEF Next

(* What is written to an amiibo is a whole write, its packets once and in  *)
(* order, however often the console repeats them, gives up or switches the *)
(* MCU off, as long as it configures the MCU after giving up               *)
(* (handle_nfc_subcommand, process_nfc_write).                             *)
THEOREM AlwaysWhole == Spec => []WholeWrites
<1>1. WriteInv => WholeWrites
  BY DEF WriteInv, Applicable, WholeWrites
<1> QED BY <1>1, InitWrites, StepWrites, PTL DEF Spec

-----------------------------------------------------------------------------
(* Writes arrive.  Tasks apply writes in the order they were begun in, and *)
(* those that were due when the console saw the last acknowledgement have  *)
(* all run when it sees the next response: the one of its write too.       *)

(* The write that the task i will apply.                                   *)
Number(i) == Seen(tasks[i], received)[1][1]

Ordered ==
  /\ \A i, j \in 1..Len(tasks) : i <= j => Number(i) <= Number(j)
  /\ \A i \in 1..Len(tasks) : file <= Number(i) /\ Number(i) <= write
  /\ file <= write

Pending(k) == \E i \in 1..k : Number(i) = write

(* The console's write is in the file, or a task is about to put it there, *)
(* from its last packet on.                                                *)
Arrived ==
  ~touched /\ tag.source = "file" =>
    /\ phase = Packets /\ received = Part(write, Packets) => file = write \/ Pending(Len(tasks))
    /\ phase = Ending => file = write \/ Pending(due)

Counts == due \in Nat /\ due <= Len(tasks) /\ file \in Nat /\ promised \in Nat

Promises == Ordered /\ Arrived /\ promised <= file

DoneInv == BackupInv /\ WriteInv /\ Counts /\ (unclean # "misused" => Promises)

LEMMA WholeNumber ==
  ASSUME NEW data, Whole(data)
  PROVE  data[1][1] \in 1..MaxWrites
BY Numbers DEF Whole

LEMMA NumberNat ==
  ASSUME WriteInv, unclean # "misused"
  PROVE  \A i \in 1..Len(tasks) : Number(i) \in Nat
BY WholeNumber, Numbers DEF WriteInv, Applicable, Number

(* Steps of the console and the MCU between a write's end and the next     *)
(* one's beginning, and those that drop a write.                           *)
LEMMA DoneFrame ==
  ASSUME DoneInv, WriteInv', BackupInv', phase' \in {phase, 0},
         unclean' # "misused" => unclean # "misused",
         UNCHANGED <<tasks, due, received, file, tag, touched, promised, write>>
  PROVE  DoneInv'
<1>1. \A i : Number(i)' = Number(i)
  BY DEF Number
<1>2. Counts'
  BY DEF DoneInv, Counts
<1>3. ASSUME Ordered PROVE Ordered'
  BY <1>1, <1>3 DEF Ordered
<1>4. ASSUME Arrived PROVE Arrived'
  BY <1>1, <1>4, Numbers DEF Arrived, Pending, Ending, Part
<1> QED BY <1>2, <1>3, <1>4 DEF DoneInv, Promises

(* The tag is changed: nothing is promised for this write any more.        *)
LEMMA SetNfcDone ==
  ASSUME DoneInv, WriteInv', BackupInv', NEW s \in {"none", "file", "raw"}, SetNfc(s)
  PROVE  DoneInv'
<1>1. /\ UNCHANGED <<tasks, due, received, file, promised, write, unclean>>
      /\ touched'
  BY DEF SetNfc, nfc
<1>2. \A i : Number(i)' = Number(i)
  BY <1>1 DEF Number
<1>3. Counts' /\ Arrived' /\ (Ordered => Ordered')
  BY <1>1, <1>2 DEF DoneInv, Counts, Arrived, Ordered
<1> QED BY <1>1, <1>3 DEF DoneInv, Promises

LEMMA WriteSetupDone == ASSUME DoneInv, WriteInv', BackupInv', WriteSetup PROVE DoneInv'
<1>1. /\ phase' = Asked /\ write' = write + 1
      /\ \/ UNCHANGED <<tasks, received>>
         \/ tasks' = Detached /\ received' = <<>>
      /\ UNCHANGED <<due, file, promised>>
      /\ unclean' # "misused" => unclean # "misused"
  BY DEF WriteSetup, storage, nfc
<1>2. /\ Len(tasks') = Len(tasks)
      /\ \A i \in 1..Len(tasks) : Number(i)' = Number(i)
  <2>1. CASE UNCHANGED <<tasks, received>>
    BY <2>1 DEF Number
  <2>2. CASE tasks' = Detached /\ received' = <<>>
    <3>1. \A i \in 1..Len(tasks) : Seen(tasks'[i], received') = Seen(tasks[i], received)
      BY <2>2, DetachedKeeps DEF Seen, DoneInv, WriteInv
    <3> QED BY <2>2, <3>1, DetachedKeeps DEF Number, DoneInv, WriteInv
  <2> QED BY <1>1, <2>1, <2>2
<1>3. Counts' /\ Arrived'
  BY <1>1, <1>2, Numbers DEF DoneInv, Counts, Arrived, Asked, Ending
<1>4. ASSUME unclean # "misused" PROVE Ordered'
  <2>1. Ordered /\ write \in Nat /\ file \in Nat /\ \A i \in 1..Len(tasks) : Number(i) \in Nat
    BY <1>4, NumberNat DEF DoneInv, Promises, WriteInv, Types, Counts
  <2> QED BY <1>1, <1>2, <2>1 DEF Ordered
<1> QED BY <1>1, <1>3, <1>4 DEF DoneInv, Promises

(* A task of the latest write comes after the others.                      *)
LEMMA AppendDone ==
  ASSUME DoneInv, unclean # "misused", NEW x, tasks' = Append(tasks, x),
         Seen(x, received')[1][1] = write', write' \in Nat, write <= write', UNCHANGED file,
         \A i \in 1..Len(tasks) : Seen(tasks[i], received') = Seen(tasks[i], received)
  PROVE  /\ Ordered'
         /\ Len(tasks') = Len(tasks) + 1
         /\ \A k : k = Len(tasks) + 1 => Number(k)' = write'
         /\ \A i \in 1..Len(tasks) : Number(i)' = Number(i)
<1>1. /\ tasks \in Seq(TaskRec) /\ Len(tasks) \in Nat /\ file \in Nat /\ write \in Nat
      /\ Ordered /\ \A i \in 1..Len(tasks) : Number(i) \in Nat
  <2>1. WriteInv /\ Types /\ Counts /\ Ordered
    BY DEF DoneInv, WriteInv, Promises
  <2>2. tasks \in Seq(TaskRec) /\ file \in Nat /\ write \in Nat
    BY <2>1 DEF Types, Counts
  <2>3. \A i \in 1..Len(tasks) : Number(i) \in Nat
    BY <2>1, NumberNat
  <2> QED BY <2>1, <2>2, <2>3
<1>2. /\ Len(tasks') = Len(tasks) + 1
      /\ tasks'[Len(tasks) + 1] = x
      /\ \A i \in 1..Len(tasks) : tasks'[i] = tasks[i]
  BY <1>1
<1>3. /\ \A k : k = Len(tasks) + 1 => Number(k)' = write'
      /\ \A i \in 1..Len(tasks) : Number(i)' = Number(i)
  BY <1>2 DEF Number
<1>4. \A i \in 1..Len(tasks') : i \in 1..Len(tasks) \/ i = Len(tasks) + 1
  BY <1>1, <1>2
<1>5. ASSUME NEW i \in 1..Len(tasks') PROVE file <= Number(i)' /\ Number(i)' <= write'
  <2>1. CASE i \in 1..Len(tasks)
    BY <1>1, <1>3, <2>1 DEF Ordered
  <2>2. CASE i = Len(tasks) + 1
    BY <1>1, <1>3, <2>2 DEF Ordered
  <2> QED BY <1>4, <2>1, <2>2
<1>6. \A i, j \in 1..Len(tasks') : i <= j => Number(i)' <= Number(j)'
  <2> SUFFICES ASSUME NEW i \in 1..Len(tasks'), NEW j \in 1..Len(tasks'), i <= j
               PROVE  Number(i)' <= Number(j)'
    OBVIOUS
  <2>1. CASE j = Len(tasks) + 1
    BY <1>3, <1>5, <2>1
  <2>2. CASE j \in 1..Len(tasks)
    <3>1. i \in 1..Len(tasks)
      BY <1>1, <2>2
    <3> QED BY <1>1, <1>3, <2>2, <3>1 DEF Ordered
  <2> QED BY <1>4, <2>1, <2>2
<1>7. file' <= write'
  BY <1>1 DEF Ordered
<1> QED BY <1>2, <1>3, <1>5, <1>6, <1>7 DEF Ordered

LEMMA WriteAtOnceDone == ASSUME DoneInv, WriteInv', BackupInv', WriteAtOnce PROVE DoneInv'
<1> DEFINE x == [live |-> FALSE, data |-> [n \in 1..Packets |-> <<write', n>>]]
<1>1. /\ phase' = 0 /\ write' = write + 1 /\ tasks' = Append(tasks, x)
      /\ UNCHANGED <<due, received, file, promised, unclean>>
  BY DEF WriteAtOnce, Idle, nfc, storage
<1>2. Seen(x, received')[1][1] = write'
  BY Numbers DEF Seen
<1>3. write \in Nat /\ tasks \in Seq(TaskRec)
  BY DEF DoneInv, WriteInv, Types
<1> HIDE DEF x
<1>4. Len(tasks') = Len(tasks) + 1 /\ Len(tasks) \in Nat
  BY <1>1, <1>3
<1>5. Counts' /\ Arrived'
  BY <1>1, <1>4, Numbers DEF DoneInv, Counts, Arrived, Ending
<1>6. ASSUME unclean # "misused" PROVE Ordered'
  <2>1. write' \in Nat /\ write <= write'
    BY <1>1, <1>3
  <2> QED BY <1>1, <1>2, <1>6, <2>1, AppendDone
<1> QED BY <1>1, <1>5, <1>6 DEF DoneInv, Promises

(* The last packet of a write hands it to a task.                          *)
LEMMA WritePacketDone == ASSUME DoneInv, WriteInv', BackupInv', WritePacket PROVE DoneInv'
<1>1. /\ phase \in 1..Packets /\ Packet(phase)
      /\ UNCHANGED <<due, file, tag, touched, promised, phase, write, unclean>>
  BY DEF WritePacket, storage, console
<1>2. tasks' = IF phase = Packets THEN Append(tasks, Live) ELSE tasks
  BY <1>1 DEF Packet
<1>3. /\ tasks \in Seq(TaskRec) /\ Len(tasks) \in Nat /\ write \in Nat
      /\ Packets \in Nat \ {0, 1} /\ Counts
  BY Numbers DEF DoneInv, WriteInv, Types
<1>4. Len(tasks') = IF phase = Packets THEN Len(tasks) + 1 ELSE Len(tasks)
  BY <1>2, <1>3
<1>5. Counts'
  BY <1>1, <1>3, <1>4 DEF Counts
<1>6. SUFFICES ASSUME unclean # "misused" PROVE Promises'
  BY <1>1, <1>5 DEF DoneInv
<1>7. Promises /\ Applicable /\ Agreed /\ Agreed' /\ Applicable'
  BY <1>1, <1>6 DEF DoneInv, WriteInv
<1>8. received' = Part(write, phase)
  <2> DEFINE n == phase
  <2>1. received' = IF n = ackSeq + 1 THEN Append(received, <<write, n>>) ELSE received
    BY <1>1 DEF Packet
  <2>2. CASE received = Part(write, n - 1) /\ ackSeq = n - 1
    <3>1. n - 1 \in Nat /\ n = (n - 1) + 1
      BY <1>1, <1>3
    <3>2. Append(Part(write, n - 1), <<write, (n - 1) + 1>>) = Part(write, (n - 1) + 1)
      BY <1>3, <3>1, PartFacts
    <3> HIDE DEF n
    <3>3. Append(Part(write, n - 1), <<write, n>>) = Part(write, n)
      BY <3>1, <3>2
    <3> QED BY <2>1, <2>2, <3>1, <3>3 DEF n
  <2>3. CASE received = Part(write, n) /\ ackSeq = IF n = Packets THEN 0 ELSE n
    <3>1. n # ackSeq + 1
      BY <1>1, <1>3, <2>3
    <3> QED BY <2>1, <2>3, <3>1
  <2> QED BY <1>1, <1>7, <2>2, <2>3 DEF Agreed, InStep
<1>9. \A i \in 1..Len(tasks) : Seen(tasks[i], received') = Seen(tasks[i], received)
  <2> SUFFICES ASSUME NEW i \in 1..Len(tasks), tasks[i].live PROVE received' = received
    BY DEF Seen
  <2>1. Len(received) = Packets
    BY <1>7, WholeLength DEF Applicable, Seen
  <2>2. received # Part(write, phase - 1)
    <3>1. phase - 1 \in Nat /\ phase - 1 # Packets
      BY <1>1, <1>3
    <3>2. Len(Part(write, phase - 1)) = phase - 1
      BY <1>3, <3>1, PartFacts
    <3> QED BY <2>1, <3>1, <3>2
  <2> QED BY <1>1, <1>7, <1>8, <2>2 DEF Agreed, InStep
<1>10. CASE phase = Packets
  <2>1. Seen(Live, received')[1][1] = write'
    BY <1>1, <1>3, <1>8, <1>10 DEF Seen, Live, Part
  <2>2. /\ Ordered'
        /\ \A k : k = Len(tasks) + 1 => Number(k)' = write'
    BY <1>1, <1>2, <1>3, <1>6, <1>9, <1>10, <2>1, AppendDone
  <2>3. Pending(Len(tasks))'
    <3>1. PICK k \in 1..Len(tasks') : k = Len(tasks) + 1
      BY <1>3, <1>4, <1>10
    <3> QED BY <2>2, <3>1 DEF Pending
  <2>4. Arrived'
    BY <1>1, <1>3, <1>10, <2>3 DEF Arrived, Ending
  <2> QED BY <1>1, <1>7, <2>2, <2>4 DEF Promises
<1>11. CASE phase # Packets
  <2>1. \A i \in 1..Len(tasks) : Number(i)' = Number(i)
    BY <1>2, <1>9, <1>11 DEF Number
  <2>2. Ordered'
    BY <1>1, <1>2, <1>7, <1>11, <2>1 DEF Promises, Ordered
  <2>3. Arrived'
    BY <1>1, <1>3, <1>11 DEF Arrived, Ending
  <2> QED BY <1>1, <1>7, <2>2, <2>3 DEF Promises
<1> QED BY <1>10, <1>11

(* The first task applies its write, and was one of those due, if any.     *)
LEMMA ProcessWriteDone == ASSUME DoneInv, WriteInv', BackupInv', ProcessWrite PROVE DoneInv'
<1>1. /\ tasks # <<>> /\ tasks' = Tail(tasks) /\ due' = IF due = 0 THEN 0 ELSE due - 1
      /\ UNCHANGED <<received, phase, write, unclean, touched, promised>>
      /\ \/ tag.source = "file" /\ Save(Head(Detached).data)
         \/ tag.source # "file" /\ UNCHANGED <<tag, file>>
  BY DEF ProcessWrite, Taken, nfc, console
<1>2. tasks \in Seq(TaskRec)
  BY DEF DoneInv, WriteInv, Types
<1>3. /\ Len(tasks) \in Nat \ {0} /\ Len(tasks') = Len(tasks) - 1 /\ 1 \in 1..Len(tasks)
      /\ \A i \in 1..Len(tasks') : i + 1 \in 1..Len(tasks) /\ tasks'[i] = tasks[i + 1]
  BY <1>1, <1>2
<1>4. Head(Detached).data = Seen(tasks[1], received)
  <2>1. Detached \in Seq(TaskRec) /\ Len(Detached) = Len(tasks)
        /\ Detached[1].data = Seen(tasks[1], received)
    BY <1>3, DetachedKeeps DEF DoneInv, WriteInv
  <2>2. Head(Detached) = Detached[1]
    BY <1>3, <2>1
  <2> QED BY <2>1, <2>2
<1>5. \/ file' = Number(1) /\ Whole(Seen(tasks[1], received))
      \/ file' = file
  BY <1>1, <1>4 DEF Save, Number, DoneInv, BackupInv, TagIsFile
<1>6. Counts'
  <2>1. file' \in Nat
    BY <1>5, WholeNumber, Numbers DEF Number, DoneInv, Counts
  <2> QED BY <1>1, <1>3, <2>1 DEF DoneInv, Counts
<1>7. SUFFICES ASSUME unclean # "misused" PROVE Promises'
  BY <1>1, <1>6 DEF DoneInv
<1>8. /\ Ordered /\ Arrived /\ promised <= file /\ write \in Nat /\ file \in Nat /\ promised \in Nat
      /\ due \in Nat /\ due <= Len(tasks)
      /\ \A i \in 1..Len(tasks) : Number(i) \in Nat
      /\ Whole(Seen(tasks[1], received))
  BY <1>3, <1>7, NumberNat DEF DoneInv, Promises, WriteInv, Types, Counts, Applicable
<1>9. tag.source = "file" => file' = Number(1)
  BY <1>1, <1>4, <1>8 DEF Save, Number
<1>10. \A i \in 1..Len(tasks') : Number(i)' = Number(i + 1)
  BY <1>1, <1>3 DEF Number
<1>11. file <= file' /\ file' <= Number(1)
  BY <1>3, <1>5, <1>8 DEF Ordered
<1>12. Number(1) <= write /\ \A i \in 1..Len(tasks) : Number(1) <= Number(i)
  BY <1>3, <1>8 DEF Ordered
<1>13. Ordered'
  <2>1. \A i, j \in 1..Len(tasks') : i <= j => Number(i)' <= Number(j)'
    BY <1>3, <1>8, <1>10 DEF Ordered
  <2>2. \A i \in 1..Len(tasks') : file' <= Number(i)' /\ Number(i)' <= write
    <3> SUFFICES ASSUME NEW i \in 1..Len(tasks')
                 PROVE  file' <= Number(i + 1) /\ Number(i + 1) <= write
      BY <1>10
    <3>1. i + 1 \in 1..Len(tasks) /\ Number(i + 1) \in Nat /\ Number(1) \in Nat /\ file' \in Nat
      BY <1>3, <1>6, <1>8 DEF Counts
    <3>2. Number(1) <= Number(i + 1) /\ Number(i + 1) <= write
      BY <1>8, <1>12, <3>1 DEF Ordered
    <3> QED BY <1>11, <3>1, <3>2
  <2>3. file' <= write
    BY <1>3, <1>6, <1>8, <1>11, <1>12 DEF Counts
  <2> QED BY <1>1, <2>1, <2>2, <2>3 DEF Ordered
<1>14. promised' <= file'
  BY <1>1, <1>6, <1>8, <1>11 DEF Counts
<1>15. tag'.source = "file" => tag.source = "file"
  BY <1>1
<1>16. ASSUME tag.source = "file", file = write PROVE file' = write
  BY <1>3, <1>6, <1>8, <1>11, <1>12, <1>16 DEF Counts
<1>17. ASSUME tag.source = "file", NEW k \in Nat, k <= Len(tasks), Pending(k)
       PROVE  file' = write \/ \E i \in 1..(k - 1) : Number(i)' = write
  <2>1. PICK i \in 1..k : Number(i) = write
    BY <1>17 DEF Pending
  <2>2. CASE i = 1
    BY <1>9, <1>17, <2>1, <2>2
  <2>3. CASE i # 1
    <3>1. i - 1 \in 1..(k - 1) /\ i - 1 \in 1..Len(tasks') /\ (i - 1) + 1 = i
      BY <1>3, <1>17, <2>3
    <3>2. Number(i - 1)' = write
      BY <1>10, <2>1, <3>1
    <3> QED BY <3>1, <3>2
  <2> QED BY <2>2, <2>3
<1>18. ~Pending(0)
  BY DEF Pending
<1>19. Arrived'
  <2> SUFFICES ASSUME ~touched, tag.source = "file"
               PROVE  /\ phase = Packets /\ received = Part(write, Packets) =>
                           file' = write \/ Pending(Len(tasks))'
                      /\ phase = Ending => file' = write \/ Pending(due)'
    BY <1>1, <1>15 DEF Arrived, Part
  <2>1. CASE phase = Packets /\ received = Part(write, Packets)
    <3>1. file = write \/ Pending(Len(tasks))
      BY <1>8, <2>1 DEF Arrived
    <3>2. file' = write \/ \E i \in 1..(Len(tasks) - 1) : Number(i)' = write
      BY <1>3, <1>16, <1>17, <3>1
    <3>3. phase # Ending
      BY <2>1, Numbers DEF Ending
    <3> QED BY <1>1, <1>3, <3>2, <3>3 DEF Pending
  <2>2. CASE phase = Ending
    <3>1. file = write \/ Pending(due)
      BY <1>8, <2>2 DEF Arrived
    <3>2. file' = write \/ \E i \in 1..(due - 1) : Number(i)' = write
      BY <1>8, <1>16, <1>17, <3>1
    <3>3. file' = write \/ Pending(due)'
      <4>1. CASE due = 0
        BY <1>16, <1>18, <3>1, <4>1
      <4>2. CASE due # 0
        BY <1>1, <3>2, <4>2 DEF Pending
      <4> QED BY <4>1, <4>2
    <3>4. phase # Packets
      BY <2>2, Numbers DEF Ending
    <3> QED BY <3>3, <3>4
  <2> QED BY <2>1, <2>2
<1> QED BY <1>13, <1>14, <1>19 DEF Promises

(* A response is seen when nothing is due, and finds the write done if it  *)
(* comes after the last acknowledgement.                                   *)
LEMMA InputReportDone == ASSUME DoneInv, WriteInv', BackupInv', InputReport PROVE DoneInv'
<1>1. /\ queue # <<>> /\ phase' = Told /\ due = 0 /\ due' = Len(tasks)
      /\ promised' = IF phase = Ending /\ Told = Idle /\ ~touched /\ tag.source = "file"
                     THEN write ELSE promised
      /\ UNCHANGED <<tasks, received, file, tag, touched, write, unclean>>
  BY DEF InputReport, nfc, storage
<1>2. /\ tasks \in Seq(TaskRec) /\ write \in Nat /\ Counts /\ Len(tasks) \in Nat
      /\ Packets \in Nat \ {0, 1} /\ phase \in Nat
  BY Numbers DEF DoneInv, WriteInv, Types
<1>3. \A i : Number(i)' = Number(i)
  BY <1>1 DEF Number
<1>4. Counts'
  BY <1>1, <1>2 DEF Counts
<1>5. SUFFICES ASSUME unclean # "misused" PROVE Promises'
  BY <1>1, <1>4 DEF DoneInv
<1>6. Promises /\ Agreed
  BY <1>5 DEF DoneInv, WriteInv
<1>7. Ordered'
  BY <1>1, <1>3, <1>6 DEF Promises, Ordered
<1>8. phase = Ending /\ ~touched /\ tag.source = "file" => file = write
  BY <1>1, <1>6 DEF Promises, Arrived, Pending
<1>9. promised' <= file'
  BY <1>1, <1>2, <1>6, <1>8 DEF Promises
<1>10. Arrived'
  <2> SUFFICES ASSUME ~touched, tag.source = "file"
               PROVE  /\ phase' = Packets /\ received = Part(write, Packets) =>
                           file = write \/ Pending(Len(tasks))
                      /\ phase' = Ending => file = write \/ Pending(Len(tasks))
    BY <1>1, <1>3 DEF Arrived, Pending, Part
  <2>1. \/ phase = Asked /\ phase' = 1
        \/ /\ phase \in 1..Packets /\ queue[1].state = "writing" /\ queue[1].ack = phase
           /\ phase' = IF phase = Packets THEN Ending ELSE phase + 1
        \/ phase' = 0
        \/ phase' = phase
    BY <1>1 DEF Told, Idle
  <2>2. CASE phase = Asked /\ phase' = 1
    BY <1>2, <2>2 DEF Ending
  <2>3. CASE /\ phase \in 1..Packets /\ queue[1].state = "writing" /\ queue[1].ack = phase
             /\ phase' = IF phase = Packets THEN Ending ELSE phase + 1
    <3>1. 1 \in 1..Len(queue)
      BY <1>1 DEF DoneInv, WriteInv, Types
    <3>2. received = Part(write, phase)
      BY <1>6, <2>3, <3>1 DEF Agreed, InStep
    <3>3. CASE phase = Packets
      BY <1>2, <1>6, <2>3, <3>2, <3>3 DEF Promises, Arrived, Ending
    <3>4. CASE phase # Packets
      <4>1. Len(received) = phase /\ Len(Part(write, Packets)) = Packets
        BY <1>2, <3>2, PartFacts
      <4>2. received # Part(write, Packets) /\ phase' # Ending
        BY <1>2, <2>3, <3>4, <4>1 DEF Ending
      <4> QED BY <4>2
    <3> QED BY <3>3, <3>4
  <2>4. CASE phase' = 0
    BY <1>2, <2>4 DEF Ending
  <2>5. CASE phase' = phase
    BY <1>2, <1>6, <1>8, <2>5 DEF Promises, Arrived, Ending
  <2> QED BY <2>1, <2>2, <2>3, <2>4, <2>5
<1> QED BY <1>7, <1>9, <1>10 DEF Promises

LEMMA InitDone == Init => DoneInv
<1> SUFFICES ASSUME Init PROVE DoneInv
  OBVIOUS
<1>1. BackupInv /\ WriteInv
  BY InitInvariant, InitWrites
<1>2. Counts
  BY DEF Init, Counts
<1>3. Ordered /\ Arrived
  BY DEF Init, Ordered, Arrived, None
<1> QED BY <1>1, <1>2, <1>3 DEF DoneInv, Promises, Init

LEMMA StepDone == DoneInv /\ [Next]_vars => DoneInv'
<1> SUFFICES ASSUME DoneInv, [Next]_vars PROVE DoneInv'
  OBVIOUS
<1>1. WriteInv' /\ BackupInv'
  BY StepWrites, StepInvariant DEF DoneInv
<1>2. ASSUME NEW p \in {"suspended", "ready"}, SetPower(p) PROVE DoneInv'
  BY <1>1, <1>2, DoneFrame DEF SetPower, nfc, storage, Idle
<1>3. ASSUME NEW p \in {"ready", "nfc"}, SetConfig(p) PROVE DoneInv'
  BY <1>1, <1>3, DoneFrame DEF SetConfig, storage
<1>4. CASE RequestStatus \/ NfcStatus \/ Read
  BY <1>1, <1>4, DoneFrame DEF RequestStatus, NfcStatus, Read, StatusTaken, nfc, storage, console
<1>5. ASSUME NEW start \in BOOLEAN, Polling(start) PROVE DoneInv'
  BY <1>1, <1>5, DoneFrame DEF Polling, storage, console
<1>6. CASE GiveUp
  BY <1>1, <1>6, DoneFrame DEF GiveUp, nfc, storage, Idle
<1>7. ASSUME NEW s \in {"none", "file", "raw"}, SetNfc(s) PROVE DoneInv'
  BY <1>1, <1>7, SetNfcDone
<1>8. CASE UNCHANGED vars
  BY <1>1, <1>8, DoneFrame DEF vars, nfc, storage, console
<1> QED BY <1>1, <1>2, <1>3, <1>4, <1>5, <1>6, <1>7, <1>8, WriteSetupDone, WriteAtOnceDone,
          WritePacketDone, ProcessWriteDone, InputReportDone DEF Next

(* A write that the console has seen the end of is in the amiibo's file,   *)
(* if the tag was loaded from it and stayed: whichever status responses    *)
(* were dropped, whatever else the tasks had to write before, and although *)
(* the end is told by a count of status requests and not by the task       *)
(* (_get_nfc_status_data, process_nfc_write).                              *)
THEOREM AlwaysWritten == Spec => []DoneIsWritten
<1>1. ASSUME DoneInv PROVE DoneIsWritten
  BY <1>1 DEF DoneInv, Counts, Promises, DoneIsWritten
<1> QED BY <1>1, InitDone, StepDone, PTL DEF Spec
=============================================================================
