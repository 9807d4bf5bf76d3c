-------------------------- MODULE HidReportsProofs --------------------------
(***************************************************************************)
(* Proofs about HidReports, for every set of figures and callers and every *)
(* number of sessions and requests.  A read that is not disturbed is whole *)
(* because the buffer and the UID belong to one figure when it begins and  *)
(* every change of either disturbs it (ReadInv); the figure is one that    *)
(* was uploaded because LOAD_FINISH takes a complete upload (UploadInv);   *)
(* POLL_AGAIN is said of the tag last reported because last_poll_uid is    *)
(* the UID in the last status unless that was refused (StatusInv).         *)
(***************************************************************************)
EXTENDS HidReports, FiniteSetTheorems, TLAPS

Types ==
  /\ proto \in Proto
  /\ host \in Host
  /\ buffer \in [1..Blocks -> SUBSET Tag]
  /\ front \in Tag
  /\ caller \in [Caller -> Call]
  /\ view \in View

(* What was received was written, from the front; a caller in the middle   *)
(* of an upload has a figure to send.                                      *)
UploadInv ==
  /\ host.received <= host.total
  /\ \A b \in 1..Blocks : Offset(b) < host.received => b \in written
  /\ host.received > 0 => front \in Figure
  /\ \A c \in Caller : caller[c].next # 0 => caller[c].fig \in Figure

StatusInv == view.sameAgain /\ (view.missed \/ view.status = proto.lastUid)

ReadInv ==
  /\ proto.size >= 9 => proto.uid \in Figure
  /\ ~view.disturbed =>
       /\ \A b \in 1..Blocks : buffer[b] = {proto.uid}
       /\ Reading \/ view.done => proto.size = Image
       /\ Reading => ~view.done
       /\ proto.nfc = "PENDING_READ" => view.figures = {}
       /\ proto.nfc = "READING" =>
            /\ view.first /\ view.figures = {proto.uid}
            /\ proto.stage # 1 => view.second
       /\ view.done =>
            /\ view.first /\ view.second /\ view.figures = {proto.uid}

IInv == Types /\ UploadInv /\ StatusInv /\ ReadInv

-----------------------------------------------------------------------------
(* What a report makes of the NFC state.                                   *)

Polling(p) == p.nfc \in {"POLL", "POLL_AGAIN"}

(* A status report keeps the tag and remembers the UID it reports.         *)
LEMMA NfcStatusOf ==
  ASSUME NEW p \in Proto, Polling(p)
  PROVE  /\ NfcStatus(p) \in Proto
         /\ NfcStatus(p).loaded = p.loaded /\ NfcStatus(p).uid = p.uid
         /\ NfcStatus(p).size = p.size
         /\ Polling(NfcStatus(p))
         /\ p.loaded => NfcStatus(p).lastUid = p.uid
         /\ ~p.loaded => NfcStatus(p).lastUid = p.lastUid
         /\ p.loaded /\ NfcStatus(p).nfc = "POLL_AGAIN" => p.uid = p.lastUid
<1>1. CASE p.nfc = "POLL" /\ p.loaded /\ p.lastValid /\ p.uid = p.lastUid
  <2>1. NfcStatus(p) = [p EXCEPT !.nfc = "POLL_AGAIN"]
    BY <1>1 DEF NfcStatus
  <2> QED BY <1>1, <2>1 DEF Proto, Nfc, Polling
<1>2. CASE p.nfc = "POLL" /\ p.loaded /\ ~(p.lastValid /\ p.uid = p.lastUid)
  <2>1. NfcStatus(p) = [p EXCEPT !.lastUid = p.uid, !.lastValid = TRUE]
    BY <1>2 DEF NfcStatus
  <2> QED BY <1>2, <2>1 DEF Proto, Nfc, Polling
<1>3. CASE p.nfc = "POLL_AGAIN" /\ ~p.loaded
  <2>1. NfcStatus(p) = [p EXCEPT !.nfc = "POLL", !.lastValid = FALSE]
    BY <1>3 DEF NfcStatus
  <2> QED BY <1>3, <2>1 DEF Proto, Nfc, Polling
<1>4. CASE p.nfc = "POLL_AGAIN" /\ p.loaded /\ p.uid # p.lastUid
  <2>1. NfcStatus(p) = [p EXCEPT !.nfc = "POLL", !.lastUid = p.uid, !.lastValid = TRUE]
    BY <1>4 DEF NfcStatus
  <2>2. NfcStatus(p) \in Proto
    BY <2>1 DEF Proto, Nfc
  <2>3. /\ NfcStatus(p).loaded = p.loaded /\ NfcStatus(p).uid = p.uid
        /\ NfcStatus(p).size = p.size
        /\ NfcStatus(p).nfc = "POLL" /\ NfcStatus(p).lastUid = p.uid
    BY <2>1 DEF Proto
  <2> QED BY <1>4, <2>2, <2>3 DEF Polling
<1>5. CASE \/ p.nfc = "POLL" /\ ~p.loaded
           \/ p.nfc = "POLL_AGAIN" /\ p.loaded /\ p.uid = p.lastUid
  <2>1. NfcStatus(p) = p
    BY <1>5 DEF NfcStatus
  <2> QED BY <1>5, <2>1 DEF Polling
<1> QED BY <1>1, <1>2, <1>3, <1>4, <1>5 DEF Polling

(* The steps of a report that is built, by the state it meets.             *)

Polled(p, v) ==
  /\ p.mode = "MCU" /\ Polling(p) /\ Built(p) = NfcStatus(p)
  /\ IF p.loaded
     THEN Shown(p, v) = [v EXCEPT !.status = Built(p).uid, !.missed = FALSE,
                                  !.sameAgain = Built(p).nfc = "POLL_AGAIN"
                                    => Built(p).uid = v.status \/ v.missed]
     ELSE Shown(p, v) = v

FirstPacket(p, v) ==
  /\ p.mode = "MCU" /\ p.nfc = "PENDING_READ"
  /\ Built(p) = [p EXCEPT !.nfc = "READING", !.stage = 1]
  /\ Shown(p, v) = [v EXCEPT !.first = TRUE,
                             !.figures = v.figures \cup {p.uid} \cup FirstData(p)]

SecondPacket(p, v) ==
  /\ p.mode = "MCU" /\ p.nfc = "READING" /\ p.stage = 1
  /\ Built(p) = [p EXCEPT !.stage = 2]
  /\ Shown(p, v) = [v EXCEPT !.second = TRUE, !.figures = v.figures \cup SecondData(p)]

LastPacket(p, v) ==
  /\ p.mode = "MCU" /\ p.nfc = "READING" /\ p.stage # 1
  /\ Built(p) = [p EXCEPT !.nfc = "POLL_AGAIN"]
  /\ Shown(p, v) = [v EXCEPT !.done = TRUE, !.figures = v.figures \cup {p.uid}]

NothingNew(p, v) == Built(p) = p /\ Shown(p, v) = v

LEMMA ReportCases ==
  ASSUME NEW p \in Proto, NEW v \in View
  PROVE  \/ Polled(p, v) \/ FirstPacket(p, v) \/ SecondPacket(p, v)
         \/ LastPacket(p, v) \/ NothingNew(p, v)
<1>1. CASE p.mode = "MCU" /\ Polling(p)
  BY <1>1 DEF Built, Shown, Polling, Polled, NamesTag
<1>2. CASE p.mode = "MCU" /\ p.nfc = "PENDING_READ"
  BY <1>2 DEF Built, Shown, NamesTag, FirstPacket
<1>3. CASE p.mode = "MCU" /\ p.nfc = "READING"
  BY <1>3 DEF Built, Shown, NamesTag, SecondPacket, LastPacket
<1>4. CASE p.mode # "MCU"
  BY <1>4 DEF Built, Shown, NamesTag, NothingNew
<1>5. CASE p.nfc = "NONE"
  BY <1>5 DEF Built, Shown, NamesTag, NothingNew
<1> QED BY <1>1, <1>2, <1>3, <1>4, <1>5 DEF Polling, Proto, Nfc

-----------------------------------------------------------------------------
LEMMA InitInvariant == Init => IInv
<1> SUFFICES ASSUME Init PROVE IInv
  OBVIOUS
<1>1. Blank \in Tag
  BY DEF Tag
<1>2. proto \in Proto /\ host \in Host
  <2>1. 0 \in 0..Image /\ 0 \in 0..2
    BY DEF Image
  <2> QED BY <1>1, <2>1 DEF Init, Proto, Nfc, Host
<1>7. buffer \in [1..Blocks -> SUBSET Tag] /\ front \in Tag /\ view \in View
  BY <1>1 DEF Init, View
<1>3. caller \in [Caller -> Call]
  BY <1>1 DEF Init, Call, Idle, Blocks
<1>4. Types
  BY <1>2, <1>3, <1>7 DEF Types
<1>5. UploadInv
  BY DEF Init, UploadInv, Idle, Offset, Chunk, Blocks
<1>6. StatusInv /\ ReadInv
  BY DEF Init, StatusInv, ReadInv, Reading
<1> QED BY <1>4, <1>5, <1>6 DEF IInv

(* A report keeps the invariant: a read goes through PENDING_READ and the  *)
(* two stages of READING, and each packet adds the one figure there is.    *)
LEMMA ReportKeeps ==
  ASSUME IInv, NEW v, v = view, proto' = Built(proto), view' = Shown(proto, v),
         UNCHANGED <<buffer, front, host, caller, written>>
  PROVE  IInv'
<1> USE DEF IInv
<1>1. /\ proto \in Proto /\ view \in View /\ v \in View
      /\ v.disturbed = view.disturbed /\ v.missed = view.missed /\ v.status = view.status /\ v.sameAgain = view.sameAgain /\ v.first = view.first
      /\ v.second = view.second /\ v.done = view.done /\ v.figures = view.figures
  BY DEF Types, View
<1>2. UploadInv'
  BY DEF UploadInv
<1>3. StatusInv /\ ReadInv /\ Types
  OBVIOUS
<1>4. ASSUME proto' \in Proto, view' \in View, proto'.loaded = proto.loaded,
             proto'.uid = proto.uid, StatusInv', ReadInv'
      PROVE  IInv'
  BY <1>2, <1>3, <1>4 DEF Types
<1>5. CASE Polled(proto, v)
  <2>1. /\ proto' \in Proto /\ proto'.loaded = proto.loaded /\ proto'.uid = proto.uid
        /\ proto'.size = proto.size
        /\ proto'.nfc \in {"POLL", "POLL_AGAIN"}
        /\ proto.loaded => proto'.lastUid = proto.uid
        /\ ~proto.loaded => proto'.lastUid = proto.lastUid
        /\ proto.loaded /\ proto'.nfc = "POLL_AGAIN" => proto.uid = proto.lastUid
    BY <1>1, <1>5, NfcStatusOf DEF Polling, Polled
  <2>2. CASE proto.loaded
    <3>1. view' = [v EXCEPT !.status = proto.uid, !.missed = FALSE,
                            !.sameAgain = proto'.nfc = "POLL_AGAIN"
                                            => proto.uid = v.status \/ v.missed]
      BY <1>5, <2>1, <2>2 DEF Polled
    <3>2. /\ view' \in View /\ view'.status = proto.uid
          /\ ~view'.missed
          /\ view'.sameAgain = (proto'.nfc = "POLL_AGAIN"
                                  => proto.uid = v.status \/ v.missed)
          /\ view'.first = v.first /\ view'.second = v.second /\ view'.done = v.done
          /\ view'.figures = v.figures /\ view'.disturbed = v.disturbed
      BY <1>1, <3>1 DEF View, Proto
    <3>3. StatusInv'
      BY <1>1, <1>3, <2>1, <2>2, <3>2 DEF StatusInv
    <3>4. ReadInv'
      BY <1>1, <1>3, <2>1, <3>2 DEF ReadInv, Reading
    <3> QED BY <1>4, <2>1, <3>2, <3>3, <3>4
  <2>3. CASE ~proto.loaded
    <3>1. view' = v
      BY <1>5, <2>3 DEF Polled
    <3>2. StatusInv' /\ ReadInv'
      BY <1>1, <1>3, <2>1, <2>3, <3>1 DEF StatusInv, ReadInv, Reading
    <3> QED BY <1>1, <1>4, <2>1, <3>1, <3>2
  <2> QED BY <2>2, <2>3
<1>6. CASE FirstPacket(proto, v)
  <2>1. /\ proto' \in Proto /\ proto'.loaded = proto.loaded /\ proto'.uid = proto.uid
        /\ proto'.size = proto.size
        /\ proto'.nfc = "READING" /\ proto'.stage = 1 /\ proto'.lastUid = proto.lastUid
    <3> DEFINE r == [proto EXCEPT !.nfc = "READING"]
    <3>1. /\ r \in Proto /\ r.loaded = proto.loaded /\ r.uid = proto.uid
          /\ r.size = proto.size
          /\ r.nfc = "READING" /\ r.lastUid = proto.lastUid
      BY <1>1 DEF Proto, Nfc
    <3>2. proto' = [r EXCEPT !.stage = 1]
      BY <1>6 DEF FirstPacket
    <3> HIDE DEF r
    <3>3. proto' \in Proto
      BY <3>1, <3>2 DEF Proto
    <3> QED BY <3>1, <3>2, <3>3 DEF Proto
  <2>2. FirstData(proto) \subseteq Tag /\ proto.uid \in Tag
    BY <1>3 DEF FirstData, Types, Blocks, Proto, Tag
  <2>3. /\ view' \in View /\ view'.status = v.status /\ view'.sameAgain = v.sameAgain
        /\ view'.missed = v.missed
        /\ view'.first /\ view'.second = v.second /\ view'.done = v.done
        /\ view'.figures = v.figures \cup {proto.uid} \cup FirstData(proto)
        /\ view'.disturbed = v.disturbed
    BY ZenonT(60), <1>1, <1>6, <2>2 DEF View, FirstPacket
  <2>4. ~v.disturbed => FirstData(proto) = {proto.uid}
    BY <1>1, <1>3, <1>6 DEF ReadInv, Reading, FirstData, Blocks, Image, FirstPacket
  <2>5. StatusInv'
    BY <1>1, <1>3, <2>1, <2>3 DEF StatusInv
  <2>6. ReadInv'
    BY <1>1, <1>3, <1>6, <2>1, <2>3, <2>4 DEF ReadInv, Reading, FirstPacket
  <2> QED BY <1>4, <2>1, <2>3, <2>5, <2>6
<1>7. CASE SecondPacket(proto, v)
  <2>1. /\ proto' \in Proto /\ proto'.loaded = proto.loaded /\ proto'.uid = proto.uid
        /\ proto'.size = proto.size
        /\ proto'.nfc = "READING" /\ proto'.lastUid = proto.lastUid
    BY <1>1, <1>7 DEF Proto, Nfc, SecondPacket
  <2>2. SecondData(proto) \subseteq Tag
    BY <1>3 DEF SecondData, Types, Blocks, Tag
  <2>3. /\ view' \in View /\ view'.status = v.status /\ view'.sameAgain = v.sameAgain
        /\ view'.missed = v.missed
        /\ view'.first = v.first /\ view'.second /\ view'.done = v.done
        /\ view'.figures = v.figures \cup SecondData(proto)
        /\ view'.disturbed = v.disturbed
    BY SMTT(30), ZenonT(60), <1>1, <1>7, <2>2 DEF View, SecondPacket
  <2>4. ~v.disturbed => SecondData(proto) = {proto.uid}
    BY <1>1, <1>3, <1>7 DEF ReadInv, Reading, SecondData, Blocks, Image, SecondPacket
  <2>5. StatusInv'
    BY <1>1, <1>3, <2>1, <2>3 DEF StatusInv
  <2>6. ReadInv'
    BY <1>1, <1>3, <1>7, <2>1, <2>3, <2>4 DEF ReadInv, Reading, SecondPacket
  <2> QED BY <1>4, <2>1, <2>3, <2>5, <2>6
<1>8. CASE LastPacket(proto, v)
  <2>1. /\ proto' \in Proto /\ proto'.loaded = proto.loaded /\ proto'.uid = proto.uid
        /\ proto'.size = proto.size
        /\ proto'.nfc = "POLL_AGAIN" /\ proto'.lastUid = proto.lastUid
    BY <1>1, <1>8 DEF Proto, Nfc, LastPacket
  <2>2. proto.uid \in Tag
    BY <1>1 DEF Proto
  <2>3. /\ view' \in View /\ view'.status = v.status /\ view'.sameAgain = v.sameAgain
        /\ view'.missed = v.missed
        /\ view'.first = v.first /\ view'.second = v.second /\ view'.done
        /\ view'.figures = v.figures \cup {proto.uid} /\ view'.disturbed = v.disturbed
    <3>1. view' = [v EXCEPT !.done = TRUE, !.figures = v.figures \cup {proto.uid}]
      BY <1>8 DEF LastPacket
    <3>2. v.figures \cup {proto.uid} \in SUBSET Tag
      BY <1>1, <2>2 DEF View
    <3>3. view' \in View
      BY <1>1, <3>1, <3>2 DEF View
    <3> QED BY <1>1, <3>1, <3>3 DEF View
  <2>4. StatusInv'
    BY <1>1, <1>3, <2>1, <2>3 DEF StatusInv
  <2>5. ReadInv'
    BY <1>1, <1>3, <1>8, <2>1, <2>3 DEF ReadInv, Reading, LastPacket
  <2> QED BY <1>4, <2>1, <2>3, <2>4, <2>5
<1>9. CASE NothingNew(proto, v)
  <2>1. StatusInv' /\ ReadInv'
    BY <1>1, <1>3, <1>9 DEF StatusInv, ReadInv, Reading, NothingNew
  <2> QED BY <1>1, <1>4, <1>9, <2>1 DEF NothingNew
<1> QED BY <1>1, <1>5, <1>6, <1>7, <1>8, <1>9, ReportCases

(* A report that is refused moves the NFC state and is not seen: the read  *)
(* is disturbed, and a status that named a tag is missed.                  *)
LEMMA RefusedKeeps ==
  ASSUME IInv, proto' = Built(proto),
         view' = [view EXCEPT !.disturbed = TRUE, !.missed = @ \/ NamesTag(proto)],
         UNCHANGED <<buffer, front, host, caller, written>>
  PROVE  IInv'
<1>1. proto \in Proto /\ view \in View
  BY DEF IInv, Types
<1>2. /\ proto' \in Proto /\ proto'.uid = proto.uid /\ proto'.size = proto.size
      /\ ~NamesTag(proto) => proto'.lastUid = proto.lastUid
  <2>1. CASE Polled(proto, view)
    BY <1>1, <2>1, NfcStatusOf DEF Polled, Polling, NamesTag
  <2>2. CASE FirstPacket(proto, view)
    <3> DEFINE q == [proto EXCEPT !.nfc = "READING"]
    <3>1. /\ q \in Proto /\ q.uid = proto.uid /\ q.size = proto.size
          /\ q.lastUid = proto.lastUid
      BY <1>1 DEF Proto, Nfc
    <3>2. proto' = [q EXCEPT !.stage = 1]
      BY <2>2 DEF FirstPacket
    <3> HIDE DEF q
    <3> QED BY <3>1, <3>2 DEF Proto
  <2>3. CASE SecondPacket(proto, view) \/ LastPacket(proto, view)
    <3>1. proto' \in {[proto EXCEPT !.stage = 2], [proto EXCEPT !.nfc = "POLL_AGAIN"]}
      BY <2>3 DEF SecondPacket, LastPacket
    <3> QED BY <1>1, <3>1 DEF Proto, Nfc
  <2>4. CASE NothingNew(proto, view)
    BY <1>1, <2>4 DEF NothingNew
  <2> QED BY <1>1, <2>1, <2>2, <2>3, <2>4, ReportCases
<1>3. /\ view' \in View /\ view'.disturbed /\ view'.sameAgain = view.sameAgain
      /\ view'.status = view.status /\ view'.missed = (view.missed \/ NamesTag(proto))
  <2> DEFINE m == view.missed \/ NamesTag(proto)
  <2>1. m \in BOOLEAN /\ view' = [view EXCEPT !.disturbed = TRUE, !.missed = m]
    BY <1>1 DEF View
  <2> HIDE DEF m
  <2>2. /\ view' \in View /\ view'.disturbed /\ view'.sameAgain = view.sameAgain
        /\ view'.status = view.status /\ view'.missed = m
    BY <1>1, <2>1 DEF View
  <2> QED BY <2>2 DEF m
<1>4. Types' /\ UploadInv' /\ StatusInv' /\ ReadInv'
  BY <1>2, <1>3 DEF IInv, Types, UploadInv, StatusInv, ReadInv
<1> QED BY <1>4 DEF IInv

LEMMA SendReportKeeps == ASSUME IInv, SendReport PROVE IInv'
<1> USE DEF IInv
<1>1. proto \in Proto /\ view \in View /\ UNCHANGED <<buffer, front, host, caller, written>>
  BY DEF Types, SendReport
<1>2. CASE UNCHANGED <<proto, view>>
  BY <1>1, <1>2 DEF Types, UploadInv, StatusInv, ReadInv, Reading
<1>3. CASE proto' = Built(proto) /\ view' = Shown(proto, view)
  BY <1>1, <1>3, ReportKeeps
<1>4. CASE /\ proto' = Built(proto)
           /\ view' = [view EXCEPT !.disturbed = TRUE, !.missed = @ \/ NamesTag(proto)]
  BY <1>1, <1>4, RefusedKeeps
<1> QED BY <1>2, <1>3, <1>4 DEF SendReport

(* Requests of the console other than a read change neither the tag nor    *)
(* what was shown, and interrupt a read or leave it alone.                 *)
LEMMA RequestKeeps ==
  ASSUME IInv, proto' \in Proto, proto'.loaded = proto.loaded, proto'.uid = proto.uid,
         proto'.size = proto.size,
         proto'.lastUid = proto.lastUid,
         \/ proto'.nfc = proto.nfc /\ proto'.stage = proto.stage
         \/ proto'.nfc \in {"NONE", "POLL"},
         UNCHANGED <<buffer, front, host, caller, view, written>>
  PROVE  IInv'
<1>1. Types' /\ UploadInv' /\ StatusInv'
  BY DEF IInv, Types, UploadInv, StatusInv
<1>2. ReadInv'
  BY DEF IInv, ReadInv, Reading
<1> QED BY <1>1, <1>2 DEF IInv

LEMMA SetInputReportModeKeeps == ASSUME IInv, SetInputReportMode PROVE IInv'
<1>1. proto \in Proto /\ UNCHANGED <<buffer, front, host, caller, view, written>>
  BY DEF IInv, Types, SetInputReportMode, OutputReport
<1>2. PICK m \in {"SIMPLE", "MCU", "OTHER"} : proto' = [proto EXCEPT !.mode = m]
  BY DEF SetInputReportMode
<1>3. /\ proto' \in Proto /\ proto'.loaded = proto.loaded /\ proto'.uid = proto.uid
      /\ proto'.size = proto.size
      /\ proto'.lastUid = proto.lastUid /\ proto'.nfc = proto.nfc
      /\ proto'.stage = proto.stage
  BY <1>1, <1>2 DEF Proto
<1> QED BY <1>1, <1>3, RequestKeeps

LEMMA McuRequestKeeps == ASSUME IInv, McuRequest PROVE IInv'
<1>1. proto \in Proto /\ UNCHANGED <<buffer, front, host, caller, view, written>>
  BY DEF IInv, Types, McuRequest, OutputReport
<1>2. \/ proto' = [proto EXCEPT !.nfc = "POLL"]
      \/ proto' = proto
      \/ proto' = [proto EXCEPT !.nfc = "NONE", !.lastValid = FALSE]
  BY DEF McuRequest, StartPoll, StopPoll, McuReset
<1>3. /\ proto' \in Proto /\ proto'.loaded = proto.loaded /\ proto'.uid = proto.uid
      /\ proto'.size = proto.size
      /\ proto'.lastUid = proto.lastUid
      /\ \/ proto'.nfc = proto.nfc /\ proto'.stage = proto.stage
         \/ proto'.nfc \in {"NONE", "POLL"}
  BY <1>1, <1>2 DEF Proto, Nfc
<1> QED BY <1>1, <1>3, RequestKeeps

(* A read begins with nothing shown, and undisturbed only if the buffer    *)
(* belongs to the tag.                                                     *)
LEMMA ReadWriteKeeps == ASSUME IInv, ReadWrite PROVE IInv'
<1>1. /\ proto \in Proto /\ view \in View /\ UNCHANGED <<buffer, front, host, caller, written>>
  BY DEF IInv, Types, ReadWrite, OutputReport
<1>2. CASE ~proto.loaded
  <2>1. UNCHANGED <<proto, view>>
    BY <1>2 DEF ReadWrite
  <2> QED BY <1>1, <2>1 DEF IInv, Types, UploadInv, StatusInv, ReadInv, Reading
<1>3. CASE proto.loaded
  <2>1. /\ proto' = [proto EXCEPT !.nfc = "PENDING_READ", !.stage = 0]
        /\ view' = [view EXCEPT !.first = FALSE, !.second = FALSE, !.done = FALSE,
                                !.figures = {}, !.disturbed = Torn]
    BY <1>3 DEF ReadWrite
  <2>2. /\ proto' \in Proto /\ proto'.loaded = proto.loaded /\ proto'.uid = proto.uid
      /\ proto'.size = proto.size
        /\ proto'.nfc = "PENDING_READ" /\ proto'.lastUid = proto.lastUid
    <3> DEFINE r == [proto EXCEPT !.nfc = "PENDING_READ"]
    <3>1. /\ r \in Proto /\ r.loaded = proto.loaded /\ r.uid = proto.uid
          /\ r.size = proto.size
          /\ r.nfc = "PENDING_READ" /\ r.lastUid = proto.lastUid
      BY <1>1 DEF Proto, Nfc
    <3>2. proto' = [r EXCEPT !.stage = 0]
      BY <2>1
    <3> HIDE DEF r
    <3>3. proto' \in Proto
      BY <3>1, <3>2 DEF Proto
    <3> QED BY <3>1, <3>2, <3>3 DEF Proto
  <2>3. /\ view' \in View /\ view'.status = view.status /\ view'.sameAgain = view.sameAgain
        /\ view'.missed = view.missed
        /\ view'.figures = {} /\ view'.done = FALSE /\ view'.disturbed = Torn
    <3>1. Torn \in BOOLEAN
      BY DEF Torn
    <3>2. view' \in View
      BY <1>1, <2>1, <3>1 DEF View
    <3> QED BY <1>1, <2>1, <3>1, <3>2 DEF View
  <2>4. Types' /\ UploadInv' /\ StatusInv'
    BY <1>1, <2>2, <2>3 DEF IInv, Types, UploadInv, StatusInv
  <2>5. ReadInv'
    BY <1>1, <1>3, <2>2, <2>3 DEF IInv, ReadInv, Reading, Torn
  <2> QED BY <2>4, <2>5 DEF IInv
<1> QED BY <1>2, <1>3

-----------------------------------------------------------------------------
(* What the host changes disturbs the read in progress.                    *)

LEMMA Disturbed ==
  ASSUME NEW v \in View, NEW w, w = [v EXCEPT !.disturbed = TRUE]
  PROVE  /\ w \in View /\ w.disturbed
         /\ w.status = v.status /\ w.missed = v.missed /\ w.sameAgain = v.sameAgain
BY DEF View

LEMMA IdleIsCall == Idle \in Call
BY DEF Idle, Call, Tag, Blocks

(* A caller that stops leaves everything else as it is.                    *)
LEMMA CallerStops ==
  ASSUME IInv, NEW c \in Caller, caller' = [caller EXCEPT ![c] = Idle],
         UNCHANGED <<proto, buffer, front, host, view, written>>
  PROVE  IInv'
<1>1. /\ caller' \in [Caller -> Call]
      /\ \A d \in Caller : caller'[d] = IF d = c THEN Idle ELSE caller[d]
  BY IdleIsCall DEF IInv, Types
<1>2. Types' /\ StatusInv' /\ ReadInv'
  BY <1>1 DEF IInv, Types, StatusInv, ReadInv, Reading
<1>3. UploadInv'
  BY <1>1 DEF IInv, UploadInv, Idle
<1> QED BY <1>2, <1>3 DEF IInv

LEMMA SessionUpKeeps == ASSUME IInv, SessionUp PROVE IInv'
<1>1. view \in View /\ UNCHANGED <<proto, buffer, front, host, caller, written>>
  BY DEF IInv, Types, SessionUp
<1>2. /\ view' \in View /\ view'.status = view.status
      /\ view'.missed = view.missed /\ view'.sameAgain = view.sameAgain /\ view'.disturbed
  BY <1>1, Disturbed DEF SessionUp
<1>3. Types' /\ UploadInv' /\ StatusInv' /\ ReadInv'
  BY <1>1, <1>2 DEF IInv, Types, UploadInv, StatusInv, ReadInv
<1> QED BY <1>3 DEF IInv

LEMMA CallLoadStartKeeps == ASSUME IInv, NEW c \in Caller, CallLoadStart(c) PROVE IInv'
<1>1. PICK f \in Figure :
        /\ host' = [host EXCEPT !.total = Size[f], !.received = 0]
        /\ caller' = [caller EXCEPT ![c] = [fig |-> f, next |-> 1]]
  BY DEF CallLoadStart, LoadStart
<1>2. /\ UNCHANGED <<proto, buffer, front, view>> /\ host \in Host
      /\ caller \in [Caller -> Call] /\ Size[f] \in 0..Image
  BY HidReportsAssumption DEF CallLoadStart, IInv, Types, Image
<1>3. host' \in Host /\ host'.total = Size[f] /\ host'.received = 0
  <2> DEFINE h == [host EXCEPT !.total = Size[f]]
  <2>1. h \in Host /\ h.total = Size[f]
    BY <1>2 DEF Host
  <2>2. host' = [h EXCEPT !.received = 0] /\ 0 \in 0..Image
    BY <1>1 DEF Image
  <2> HIDE DEF h
  <2> QED BY <2>1, <2>2 DEF Host
<1>4. [fig |-> f, next |-> 1] \in Call
  BY DEF Call, Blocks, Tag
<1>5. /\ caller' \in [Caller -> Call]
      /\ \A d \in Caller : caller'[d] = IF d = c THEN [fig |-> f, next |-> 1] ELSE caller[d]
  BY <1>1, <1>2, <1>4
<1>6. Types' /\ StatusInv' /\ ReadInv'
  BY <1>2, <1>3, <1>5 DEF IInv, Types, StatusInv, ReadInv, Reading
<1>7. UploadInv'
  BY <1>2, <1>3, <1>5 DEF IInv, UploadInv, Offset, Chunk, Blocks, Image
<1> QED BY <1>6, <1>7 DEF IInv

(* A chunk of a figure begins inside it, so there is one of the blocks for *)
(* it, and some of it to send; no more is taken than the upload lacks.     *)
LEMMA ChunkTaken ==
  ASSUME NEW h \in Host, NEW f \in Figure, NEW n \in 1..(Blocks + 1),
         Offset(n) < Size[f], h.received <= h.total
  PROVE  /\ n \in 1..Blocks
         /\ Taken(h, f, n) \in 0..Chunk
         /\ h.received + Taken(h, f, n) <= h.total
<1> DEFINE s == Size[f]
           o == Offset(n)
           r == h.received
           t == h.total
           a == Smaller(180, s - o)
           b == Smaller(a, t - r)
<1>1. s \in 0..540 /\ r \in 0..540 /\ t \in 0..540 /\ o < s /\ r <= t
  BY HidReportsAssumption DEF Host, Image
<1>2. n \in 1..4 /\ o = (n - 1) * 180
  BY DEF Offset, Chunk, Blocks
<1>3. Taken(h, f, n) = b
  BY DEF Taken, Chunk
<1> HIDE DEF o, s, r, t
<1>4. n \in 1..3
  BY <1>1, <1>2
<1>5. a \in 0..180
  BY <1>1, <1>2, <1>4 DEF Smaller
<1> HIDE DEF a
<1>6. b \in 0..180 /\ b <= t - r
  BY <1>1, <1>5 DEF Smaller
<1> HIDE DEF b
<1>7. r + b <= t
  BY <1>1, <1>6
<1> QED BY <1>3, <1>4, <1>6, <1>7 DEF Chunk, Blocks, r, t

(* A chunk in turn goes on from what was received.                         *)
LEMMA CallLoadChunkKeeps == ASSUME IInv, NEW c \in Caller, CallLoadChunk(c) PROVE IInv'
<1> DEFINE n == caller[c].next
           f == caller[c].fig
           taken == Taken(host, f, n)
<1>1. /\ UNCHANGED proto /\ host \in Host /\ view \in View
      /\ caller \in [Caller -> Call] /\ buffer \in [1..Blocks -> SUBSET Tag]
      /\ front \in Tag /\ f \in Figure /\ host.received <= host.total
      /\ n \in 1..(Blocks + 1) /\ Offset(n) < Size[f]
  BY DEF CallLoadChunk, IInv, Types, UploadInv, Call, Blocks
<1>2. /\ n \in 1..Blocks /\ taken \in 0..Chunk
      /\ host.received + taken <= host.total
  BY <1>1, ChunkTaken
<1>3. CASE host.received = Offset(n)
  <2>1. /\ buffer' \in {[buffer EXCEPT ![n] = {f}], [buffer EXCEPT ![n] = @ \cup {f}],
                        buffer}
        /\ front' = IF n = 1 /\ taken > 0 THEN f ELSE front
        /\ host' = [host EXCEPT !.received = host.received + taken]
        /\ caller' = [caller EXCEPT ![c].next = n + 1]
        /\ view' = [view EXCEPT !.disturbed = TRUE]
        /\ written' = IF taken > 0 THEN written \cup {n} ELSE written
    <3>1. CASE taken = Chunk
      BY <1>1, <1>3, <3>1 DEF CallLoadChunk
    <3>2. CASE taken # Chunk /\ taken \in 1..(Chunk - 1)
      BY <1>1, <1>3, <3>2 DEF CallLoadChunk
    <3>3. CASE taken # Chunk /\ taken \notin 1..(Chunk - 1)
      BY <1>1, <1>3, <3>3 DEF CallLoadChunk
    <3> QED BY <3>1, <3>2, <3>3
  <2> HIDE DEF taken, f
  <2>2. /\ host' \in Host /\ host'.total = host.total
        /\ host'.received = host.received + taken
    <3> DEFINE r == host.received
               t == host.total
    <3>1. r \in 0..540 /\ t \in 0..540
      BY <1>1 DEF Host, Image
    <3>2. taken \in 0..180 /\ r + taken <= t
      BY <1>2 DEF Chunk
    <3>3. host' = [host EXCEPT !.received = r + taken]
      BY <2>1
    <3> HIDE DEF n, r, t
    <3>4. r + taken \in 0..540
      BY <3>1, <3>2
    <3> QED BY <1>1, <3>3, <3>4 DEF Host, Image, r
  <2>3. buffer' \in [1..Blocks -> SUBSET Tag] /\ front' \in Tag
    <3>1. f \in Tag
      BY <1>1 DEF Tag
    <3> QED BY <1>1, <1>2, <2>1, <3>1
  <2>4. /\ caller' \in [Caller -> Call]
        /\ \A d \in Caller : /\ caller'[d].fig = caller[d].fig
                             /\ caller'[d].next = IF d = c THEN n + 1 ELSE caller[d].next
    BY <1>1, <1>2, <2>1 DEF Call, Blocks
  <2>5. /\ view' \in View /\ view'.status = view.status /\ view'.missed = view.missed
        /\ view'.sameAgain = view.sameAgain /\ view'.disturbed
    BY <1>1, <2>1, Disturbed
  <2>6. Types' /\ StatusInv' /\ ReadInv'
    BY <1>1, <2>2, <2>3, <2>4, <2>5 DEF IInv, Types, StatusInv, ReadInv
  <2>7. \A b \in 1..Blocks : Offset(b) < host'.received => b \in written'
    <3> SUFFICES ASSUME NEW b \in 1..Blocks, Offset(b) < host.received + taken
                 PROVE  b \in written'
      BY <2>2
    <3>1. CASE Offset(b) < host.received
      BY <2>1, <3>1 DEF IInv, UploadInv
    <3>2. CASE ~(Offset(b) < host.received)
      <4>1. b = n /\ taken > 0
        BY <1>2, <1>3, <3>2 DEF Offset, Chunk, Blocks
      <4> QED BY <2>1, <4>1
    <3> QED BY <3>1, <3>2
  <2>8. host'.received > 0 => front' \in Figure
    <3>1. CASE host.received > 0
      BY <1>1, <2>1, <3>1 DEF IInv, UploadInv
    <3>2. CASE ~(host.received > 0)
      <4>1. n = 1
        BY <1>2, <1>3, <3>2 DEF Offset, Chunk, Blocks
      <4>2. host'.received > 0 => taken > 0
        BY <1>1, <1>2, <1>3, <2>2, <3>2, <4>1 DEF Offset, Chunk
      <4> QED BY <1>1, <2>1, <4>1, <4>2
    <3> QED BY <3>1, <3>2
  <2>9. UploadInv'
    BY <1>1, <1>2, <2>2, <2>4, <2>7, <2>8 DEF IInv, UploadInv, f
  <2> QED BY <2>6, <2>9 DEF IInv
<1>4. CASE host.received # Offset(n)
  <2>1. /\ caller' = [caller EXCEPT ![c] = Idle]
        /\ UNCHANGED <<buffer, front, host, view, written>>
    BY <1>4 DEF CallLoadChunk
  <2> QED BY <1>1, <2>1, CallerStops
<1> QED BY <1>3, <1>4

LEMMA CallLoadFinishKeeps == ASSUME IInv, NEW c \in Caller, CallLoadFinish(c) PROVE IInv'
<1>1. /\ caller' = [caller EXCEPT ![c] = Idle]
      /\ UNCHANGED <<buffer, front, written>> /\ host \in Host /\ proto \in Proto
      /\ view \in View /\ front \in Tag
  BY DEF CallLoadFinish, IInv, Types
<1>2. CASE ~LoadFinish(host)
  <2>1. UNCHANGED <<host, proto, view>>
    BY <1>2 DEF CallLoadFinish
  <2> QED BY <1>1, <2>1, CallerStops
<1>3. CASE LoadFinish(host)
  <2> DEFINE u == IF host.total >= 8 THEN front ELSE Blank
             w == IF host.total >= 9 THEN front ELSE proto.uid
  <2>1. /\ host' = [host EXCEPT !.loaded = TRUE, !.uid = u]
        /\ proto' = [proto EXCEPT !.loaded = TRUE, !.size = host.total, !.uid = w]
        /\ view' = [view EXCEPT !.disturbed = TRUE]
    BY <1>1, <1>3 DEF CallLoadFinish, SetAmiibo
  <2>2. host.total \in 0..Image /\ u \in Tag /\ w \in Tag
    BY <1>1 DEF Host, Proto, Tag
  <2>3. host.total >= 9 => w \in Figure
    BY <1>1, <1>3, <2>2 DEF LoadFinish, IInv, UploadInv, Image
  <2> HIDE DEF u, w
  <2>4. host' \in Host /\ host'.total = host.total /\ host'.received = host.received
    BY <1>1, <2>1, <2>2 DEF Host
  <2>5. /\ proto' \in Proto /\ proto'.uid = w /\ proto'.size = host.total
        /\ proto'.lastUid = proto.lastUid
    BY <1>1, <2>1, <2>2 DEF Proto
  <2>6. /\ view' \in View /\ view'.status = view.status /\ view'.missed = view.missed
        /\ view'.sameAgain = view.sameAgain /\ view'.disturbed
    BY <1>1, <2>1, Disturbed
  <2>7. /\ caller' \in [Caller -> Call]
        /\ \A d \in Caller : caller'[d] = IF d = c THEN Idle ELSE caller[d]
    BY <1>1, IdleIsCall DEF IInv, Types
  <2>8. Types' /\ StatusInv' /\ ReadInv'
    BY <1>1, <2>3, <2>4, <2>5, <2>6, <2>7 DEF IInv, Types, StatusInv, ReadInv
  <2>9. UploadInv'
    BY <1>1, <2>4, <2>7 DEF IInv, UploadInv, Idle
  <2> QED BY <2>8, <2>9 DEF IInv
<1> QED BY <1>2, <1>3

LEMMA ClearAmiiboKeeps == ASSUME IInv, ClearAmiibo PROVE IInv'
<1>1. /\ host' = [host EXCEPT !.loaded = FALSE, !.uid = Blank]
      /\ proto' = [proto EXCEPT !.loaded = FALSE, !.size = 0, !.uid = Blank]
      /\ view' = [view EXCEPT !.disturbed = TRUE]
      /\ UNCHANGED <<buffer, front, caller, written>>
      /\ host \in Host /\ proto \in Proto /\ view \in View
  BY DEF ClearAmiibo, IInv, Types
<1>2. /\ host' \in Host /\ ~host'.loaded
      /\ host'.total = host.total /\ host'.received = host.received
  BY <1>1 DEF Host, Tag
<1>3. /\ proto' \in Proto /\ ~proto'.loaded /\ proto'.size = 0 /\ proto'.uid = Blank
      /\ proto'.lastUid = proto.lastUid
  <2> DEFINE q == [proto EXCEPT !.loaded = FALSE, !.uid = Blank]
  <2>1. q \in Proto /\ ~q.loaded /\ q.uid = Blank /\ q.lastUid = proto.lastUid
    BY <1>1 DEF Proto, Tag
  <2>2. proto' = [q EXCEPT !.size = 0]
    BY <1>1
  <2>3. 0 \in 0..Image
    BY DEF Image
  <2> HIDE DEF q
  <2> QED BY <2>1, <2>2, <2>3 DEF Proto
<1>4. /\ view' \in View /\ view'.status = view.status
      /\ view'.missed = view.missed /\ view'.sameAgain = view.sameAgain /\ view'.disturbed
  BY <1>1, Disturbed
<1>5. Types' /\ UploadInv' /\ StatusInv' /\ ReadInv'
  BY <1>1, <1>2, <1>3, <1>4 DEF IInv, Types, UploadInv, StatusInv, ReadInv
<1> QED BY <1>5 DEF IInv

-----------------------------------------------------------------------------
LEMMA StepInvariant == IInv /\ [Next]_vars => IInv'
<1> SUFFICES ASSUME IInv, [Next]_vars PROVE IInv'
  OBVIOUS
<1>1. CASE UNCHANGED <<proto, buffer, front, host, caller, view, written>>
  BY <1>1 DEF IInv, Types, UploadInv, StatusInv, ReadInv, Reading
<1>2. CASE InterruptClosed \/ SessionDown \/ CanSendNow \/ TimerBlocked \/ TimerEarly
  BY <1>1, <1>2 DEF InterruptClosed, SessionDown, CanSendNow, TimerBlocked, TimerEarly
<1>3. CASE UNCHANGED vars
  BY <1>1, <1>3 DEF vars
<1>4. CASE SessionUp
  BY <1>4, SessionUpKeeps
<1>5. CASE SendReport
  BY <1>5, SendReportKeeps
<1>6. CASE SetInputReportMode
  BY <1>6, SetInputReportModeKeeps
<1>7. CASE ReadWrite
  BY <1>7, ReadWriteKeeps
<1>8. CASE McuRequest
  BY <1>8, McuRequestKeeps
<1>9. CASE ClearAmiibo
  BY <1>9, ClearAmiiboKeeps
<1>10. ASSUME NEW c \in Caller, CallLoadStart(c) PROVE IInv'
  BY <1>10, CallLoadStartKeeps
<1>11. ASSUME NEW c \in Caller, CallLoadChunk(c) PROVE IInv'
  BY <1>11, CallLoadChunkKeeps
<1>12. ASSUME NEW c \in Caller, CallLoadFinish(c) PROVE IInv'
  BY <1>12, CallLoadFinishKeeps
<1>13. ASSUME NEW c \in Caller, GiveUp(c) PROVE IInv'
  BY <1>13, CallerStops DEF GiveUp
<1> QED BY <1>2, <1>3, <1>4, <1>5, <1>6, <1>7, <1>8, <1>9, <1>10, <1>11, <1>12, <1>13 DEF Next

(* The invariant holds in every reachable state of HidReports.             *)
THEOREM Inductive == Spec => []IInv
BY InitInvariant, StepInvariant, PTL DEF Spec

(* No block of an earlier upload gets into a new tag (host_protocol.c).    *)
THEOREM UploadsAreNew == Spec => []UploadIsNew
<1>1. IInv => UploadIsNew
  BY DEF IInv, UploadInv, UploadIsNew, LoadFinish
<1> QED BY <1>1, Inductive, PTL

(* POLL_AGAIN is only said of the tag of the last status the console got,  *)
(* or after a refused one (switch_protocol.c, bt_hid_send_report).         *)
THEOREM AgainIsNoSwap == Spec => []AgainIsTheSame
<1>1. IInv => AgainIsTheSame
  BY DEF IInv, StatusInv, AgainIsTheSame
<1> QED BY <1>1, Inductive, PTL

(* A read nobody interfered with shows one figure, in both packets         *)
(* (switch_protocol.c, build_nfc_read_response).                           *)
THEOREM ReadsAreWhole == Spec => []ReadIsWhole
<1>1. ASSUME IInv, view.done, ~view.disturbed
      PROVE  /\ view.first /\ view.second
             /\ Cardinality(view.figures) = 1 /\ Blank \notin view.figures
  <2>1. /\ view.first /\ view.second /\ view.figures = {proto.uid}
        /\ proto.uid \in Figure
    BY <1>1 DEF IInv, ReadInv, Image
  <2>2. Cardinality(view.figures) = 1
    BY <2>1, FS_Singleton
  <2> QED BY <2>1, <2>2, HidReportsAssumption
<1>2. IInv => ReadIsWhole
  BY <1>1 DEF ReadIsWhole
<1> QED BY <1>2, Inductive, PTL
=============================================================================
