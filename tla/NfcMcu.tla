------------------------------- MODULE NfcMcu -------------------------------
(***************************************************************************)
(* joycontrol: the microcontroller (MCU) of the emulated controller and    *)
(* its amiibo.  The console's requests (0x11 reports and subcommands)      *)
(* cannot be answered directly: responses wait in a queue, and each input  *)
(* report of the writer carries one.  A write comes in packets that the    *)
(* console repeats until they are acknowledged, and is applied to the tag  *)
(* by a task of its own.  The command line puts tags on the controller and *)
(* takes them away, at any time.                                           *)
(*                                                                         *)
(* The contents of a tag are the number of the last write applied to it.   *)
(***************************************************************************)
EXTENDS Naturals, Sequences

CONSTANTS
  Packets,     \* packets of a write
  MaxWrites,   \* writes the console begins
  MaxTags,     \* tags the command line puts on the controller
  MaxTasks,    \* write tasks waiting to run
  QueueLimit,  \* max_response_queue_len
  MaxQueue     \* the console sends nothing that is always answered beyond

ASSUME McuAssumption ==
  /\ {MaxWrites, MaxTags, MaxTasks, QueueLimit, MaxQueue} \subseteq Nat
  /\ Packets \in Nat \ {0, 1}   \* the whole of a tag's area is written

VARIABLES
  power,      \* power_state
  nfcState,   \* nfc_state
  counter,    \* nfc_counter; below 0 is as 0
  lastUid,    \* _last_poll_uid
  removes,    \* _pending_active_remove
  ackSeq,     \* ack_seq_no
  received,   \* received_data: packets, by their write and number
  queue,      \* response_queue: the state and ack_seq_no each response tells
  tag,        \* the controller's tag: where it is from, contents, mutable
  tags,       \* tags put on so far
  file,       \* contents of the file behind the tag
  torn,       \* something but a whole write was applied
  backups,    \* contents that were backed up
  replaced,   \* contents of the file that were overwritten
  tasks,      \* process_nfc_write tasks to run
  due,        \* how many of them were due when the last report was made
  phase,      \* what the console is at: its write's packet, or not writing
  write,      \* its current write, or last
  unclean,    \* it gave a write up and has not configured the MCU since, or
              \* has even begun the next one
  touched,    \* the tag was changed since it began to write
  promised    \* the last write it saw the end of

nfc == <<nfcState, counter, lastUid, removes, ackSeq, received>>
storage == <<tag, tags, file, torn, backups, replaced>>
console == <<phase, write, unclean, touched, promised>>
vars == <<power, nfc, queue, storage, tasks, due, console>>

None == [source |-> "none"]
NewTag(s) == [source |-> s, contents |-> IF s = "file" THEN file ELSE 0, mutable |-> FALSE]

Idle == 0                  \* phases of the console; 1..Packets: it sends that packet
Asked == Packets + 1
Ending == Packets + 2

Init ==
  /\ power = "suspended"
  /\ nfcState = "none" /\ counter = 0 /\ lastUid = "none" /\ removes = 0
  /\ ackSeq = 0 /\ received = <<>> /\ queue = <<>>
  /\ tag = None /\ tags = 0
  /\ file = 0 /\ torn = FALSE /\ backups = {} /\ replaced = {}
  /\ tasks = <<>> /\ due = 0
  /\ phase = Idle /\ write = 0 /\ promised = 0
  /\ unclean = "no" /\ touched = FALSE

-----------------------------------------------------------------------------
(* Responses.                                                              *)

Response(s, a) == [state |-> s, ack |-> a]
Other == Response("other", 0)   \* about the power state, and data read

QueueResponse(q, r) == IF Len(q) < QueueLimit THEN Append(q, r) ELSE q

(* _get_nfc_status_data: the uid it tells, the state after it and the      *)
(* response.  After a write, polls find a tag of zeros a few times, which  *)
(* the console takes for the removal of the tag it wrote.                  *)
Removing == nfcState \in {"poll", "again"} /\ removes > 0

Uid == IF Removing THEN "zeros" ELSE tag.source

NextState ==
  CASE nfcState = "processing" /\ counter <= 1 -> "none"
    [] nfcState = "poll" /\ Uid # "none" /\ Uid = lastUid -> "again"
    [] nfcState = "again" /\ (Uid = "none" \/ Uid # lastUid) -> "poll"
    [] OTHER -> nfcState

StatusResponse(s) ==
  Response(s, IF Uid # "none" /\ s # "none" THEN ackSeq ELSE 0)

StatusTaken ==
  /\ nfcState' = NextState
  /\ counter' = IF counter = 0 THEN 0 ELSE counter - 1
  /\ removes' = IF Removing THEN removes - 1 ELSE removes
  /\ lastUid' = IF nfcState \in {"poll", "again"} /\ NextState = "poll" THEN Uid ELSE lastUid

-----------------------------------------------------------------------------
(* Subcommands.                                                            *)

(* set_power_state_cmd; a state it does not know counts as ready.          *)
SetPower(p) ==
  /\ power' = p
  /\ queue' = <<Other>>
  /\ unclean' = IF phase # Idle /\ unclean = "no" THEN "abandoned" ELSE unclean
  /\ phase' = Idle
  /\ UNCHANGED <<nfc, storage, tasks, due, write, touched, promised>>

(* set_config_cmd: ignored unless the MCU is ready.  The uid of the last   *)
(* poll is not reset.                                                      *)
SetConfig(p) ==
  /\ power = "ready"
  /\ power' = p
  /\ queue' = QueueResponse(queue, Other)
  /\ IF p = "nfc" THEN /\ nfcState' = "none" /\ counter' = 0 /\ ackSeq' = 0
                       /\ unclean' = IF unclean = "abandoned" THEN "no" ELSE unclean
     ELSE UNCHANGED <<nfcState, counter, ackSeq, unclean>>
  /\ UNCHANGED <<lastUid, removes, received, storage, tasks, due, phase, write, touched,
                 promised>>

(* received_11, 0x01                                                       *)
RequestStatus ==
  /\ queue' = QueueResponse(queue, Other)
  /\ UNCHANGED <<power, nfc, storage, tasks, due, console>>

-----------------------------------------------------------------------------
(* handle_nfc_subcommand, when configured.  A definition whose name ends   *)
(* in Bug is a wrong version of the one that follows it, with which a      *)
(* property fails.                                                         *)

(* 0x04: the state advances even when the response is dropped.             *)
NfcStatus ==
  /\ power = "nfc"
  /\ StatusTaken
  /\ queue' = QueueResponse(queue, StatusResponse(NextState))
  /\ UNCHANGED <<power, ackSeq, received, storage, tasks, due, console>>

(* 0x01, 0x02                                                              *)
Polling(start) ==
  /\ power = "nfc" /\ phase = Idle
  /\ nfcState' = IF start THEN "poll" ELSE "none"
  /\ lastUid' = IF start THEN lastUid ELSE "none"
  /\ UNCHANGED <<power, counter, removes, ackSeq, received, queue, storage, tasks, due,
                 console>>

(* 0x06 without a uid: the tag in two responses and a trailer.             *)
Read ==
  /\ power = "nfc" /\ phase = Idle
  /\ queue' = IF tag = None THEN queue ELSE <<Other, Other, Other>>
  /\ UNCHANGED <<power, nfc, storage, tasks, due, console>>

(* A task that was given received_data sees what is added to it, until it  *)
(* is replaced.                                                            *)
Live == [live |-> TRUE, data |-> <<>>]
Detached == [i \in 1..Len(tasks) |->
               IF tasks[i].live THEN [live |-> FALSE, data |-> received] ELSE tasks[i]]

(* 0x06 with a uid: a write is set up, wherever the last one was left.     *)
WriteSetup ==
  /\ power = "nfc" /\ phase = Idle
  /\ write < MaxWrites /\ Len(queue) < MaxQueue
  /\ write' = write + 1
  /\ phase' = Asked
  /\ touched' = FALSE
  /\ unclean' = IF unclean = "abandoned" THEN "misused" ELSE unclean
  /\ IF tag = None THEN UNCHANGED <<nfc, queue, tasks>>
     ELSE /\ queue' = Append(queue, Response("setup", 0))
          /\ received' = <<>>
          /\ tasks' = Detached
          /\ nfcState' = "awaiting"
          /\ UNCHANGED <<counter, lastUid, removes, ackSeq>>
  /\ UNCHANGED <<power, storage, due, promised>>

Packet_Bug(n) ==
  LET ack == IF n <= ackSeq THEN ackSeq ELSE n
      told == Response("writing", IF tag = None THEN 0 ELSE ack)
  IN /\ received' = Append(received, <<write, n>>)
     /\ queue' = Append(queue, told)
     /\ IF n = Packets
        THEN /\ ackSeq' = 0
             /\ nfcState' = "processing" /\ counter' = 4 /\ removes' = 4
             /\ tasks' = Append(tasks, Live)
        ELSE /\ ackSeq' = ack
             /\ nfcState' = "writing" /\ counter' = IF counter = 0 THEN 0 ELSE counter - 1
             /\ UNCHANGED <<removes, tasks>>

(* 0x08 with packet n, the last of which ends the write: the response      *)
(* tells of the state before that.                                         *)
Packet(n) ==
  LET next == n = ackSeq + 1
      ack == CASE n <= ackSeq -> ackSeq [] next -> n [] OTHER -> 0
      told == Response("writing", IF tag = None THEN 0 ELSE ack)
  IN /\ received' = IF next THEN Append(received, <<write, n>>) ELSE received
     /\ queue' = Append(queue, told)
     /\ IF n = Packets
        THEN /\ ackSeq' = 0
             /\ nfcState' = "processing" /\ counter' = 4 /\ removes' = 4
             /\ tasks' = Append(tasks, Live)
        ELSE /\ ackSeq' = ack
             /\ nfcState' = "writing" /\ counter' = IF counter = 0 THEN 0 ELSE counter - 1
             /\ UNCHANGED <<removes, tasks>>

(* The console sends its packet, or sends it again.                        *)
WritePacket ==
  /\ power = "nfc" /\ phase \in 1..Packets
  /\ Len(queue) < MaxQueue /\ Len(tasks) < MaxTasks
  /\ Packet(phase)
  /\ UNCHANGED <<power, lastUid, storage, due, console>>
(* 0x08 with a write in one packet, "never seen".                          *)
WriteAtOnce ==
  /\ power = "nfc" /\ phase = Idle
  /\ write < MaxWrites /\ Len(tasks) < MaxTasks
  /\ write' = write + 1
  /\ tasks' = Append(tasks, [live |-> FALSE, data |-> [n \in 1..Packets |-> <<write', n>>]])
  /\ UNCHANGED <<power, nfc, queue, storage, due, phase, unclean, touched, promised>>

-----------------------------------------------------------------------------
(* process_nfc_write.  A tag without a file cannot be backed up: the task  *)
(* dies there.                                                             *)

Whole(data) == \E w \in 1..MaxWrites : data = [n \in 1..Packets |-> <<w, n>>]

Backup == backups' = backups \cup {tag.contents}

Save(data) ==
  /\ file' = IF Whole(data) THEN data[1][1] ELSE tag.contents
  /\ tag' = [source |-> "file", contents |-> file', mutable |-> TRUE]
  /\ torn' = (torn \/ ~Whole(data))
  /\ replaced' = replaced \cup {file}

Taken ==
  /\ tasks # <<>>
  /\ tasks' = Tail(tasks)
  /\ due' = IF due = 0 THEN 0 ELSE due - 1
  /\ UNCHANGED <<power, nfc, queue, tags, console>>

ProcessWrite_BackupBug ==
  /\ Taken
  /\ IF tag.source = "file"
     THEN /\ IF tag.mutable THEN UNCHANGED backups ELSE Backup
          /\ Save(Head(Detached).data)
     ELSE UNCHANGED <<tag, torn, file, backups, replaced>>

ProcessWrite_SaveBug ==
  /\ Taken
  /\ IF tag.source = "file"
     THEN /\ Backup
          /\ tag' = [tag EXCEPT !.contents = write]
          /\ UNCHANGED <<torn, file, replaced>>
     ELSE UNCHANGED <<tag, torn, file, backups, replaced>>

ProcessWrite ==
  /\ Taken
  /\ IF tag.source = "file"
     THEN /\ Backup
          /\ Save(Head(Detached).data)
     ELSE UNCHANGED <<tag, torn, file, backups, replaced>>

-----------------------------------------------------------------------------
(* The command line: nfc <file>, nfc_raw, nfc remove.                      *)
SetNfc(s) ==
  /\ IF s = "none" THEN tag' = None /\ UNCHANGED tags
     ELSE tags < MaxTags /\ tags' = tags + 1 /\ tag' = NewTag(s)
  /\ touched' = TRUE
  /\ UNCHANGED <<power, nfc, queue, file, torn, backups, replaced, tasks, due, phase, write,
                 unclean, promised>>

(* get_data: an input report of mode 0x31 carries the first response.      *)
(* Tasks that are due run before the second report from then, because the  *)
(* event loop serves all that is ready in turn.  The console goes on with  *)
(* its write when it is told that its packet has come.                     *)
Told ==
  LET r == Head(queue)
  IN CASE phase = Asked /\ r.state = "setup" -> 1
       [] phase \in 1..Packets /\ r.state = "writing" /\ r.ack = phase ->
            IF phase = Packets THEN Ending ELSE phase + 1
       [] phase = Ending /\ r.state = "none" -> Idle
       [] OTHER -> phase

InputReport ==
  /\ queue # <<>>
  /\ due = 0
  /\ due' = Len(tasks)
  /\ queue' = Tail(queue)
  /\ phase' = Told
  /\ promised' = IF phase = Ending /\ Told = Idle /\ ~touched /\ tag.source = "file"
                 THEN write ELSE promised
  /\ UNCHANGED <<power, nfc, storage, tasks, write, unclean, touched>>

(* The console shows an error and drops its write.                         *)
GiveUp ==
  /\ phase # Idle
  /\ phase' = Idle
  /\ unclean' = IF unclean = "no" THEN "abandoned" ELSE unclean
  /\ UNCHANGED <<power, nfc, queue, storage, tasks, due, write, touched, promised>>

Next ==
  \/ (\E p \in {"suspended", "ready"} : SetPower(p))
  \/ (\E p \in {"ready", "nfc"} : SetConfig(p))
  \/ RequestStatus \/ NfcStatus \/ (\E start \in BOOLEAN : Polling(start)) \/ Read
  \/ WriteSetup \/ WritePacket \/ WriteAtOnce \/ GiveUp
  \/ ProcessWrite \/ InputReport
  \/ (\E s \in {"none", "file", "raw"} : SetNfc(s))

Spec == Init /\ [][Next]_vars

-----------------------------------------------------------------------------
(* What is applied to a tag is a whole write, its packets once and in      *)
(* order, however often the console repeats a packet, as long as it        *)
(* configures the MCU anew after a write it gave up: setting up the next   *)
(* write does not reset ack_seq_no (handle_nfc_subcommand).                *)
WholeWrites == torn => unclean = "misused"

(* A write the console saw the end of is in the amiibo's file, for a tag   *)
(* that was loaded from one and stayed on the controller.                  *)
DoneIsWritten == unclean = "misused" \/ file >= promised

(* Nothing is overwritten in the file that was not backed up before.       *)
BackedUp == replaced \subseteq backups
=============================================================================
