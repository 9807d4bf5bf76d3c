----------------------------- MODULE HidReports -----------------------------
(***************************************************************************)
(* What a connected Picopad sends: the report loop of bt_hid.c, the NFC    *)
(* part of switch_protocol.c that answers a console's amiibo requests, and *)
(* the amiibo buffer that host_protocol.c fills chunk by chunk while       *)
(* reports are built from it.  Handlers run on one run loop, so each is    *)
(* one step; the console, the host programs and BTstack are external.      *)
(***************************************************************************)
EXTENDS Naturals, FiniteSets

CONSTANTS
  Figure,       \* amiibo images
  Size,         \* how many bytes each has
  Blank,        \* no figure: a zeroed buffer, a zeroed UID
  Caller,       \* host processes that may call Picopad.load_amiibo
  MaxSessions,  \* HID sessions in a behaviour
  MaxRequests,  \* output reports of the console in a behaviour
  MaxLoads      \* uploads begun in a behaviour

ASSUME HidReportsAssumption ==
  /\ Blank \notin Figure
  /\ Size \in [Figure -> 0..540]
  /\ MaxSessions \in Nat
  /\ MaxRequests \in Nat
  /\ MaxLoads \in Nat

(* A whole image is 540 bytes, uploaded in chunks of Chunk bytes, one to a *)
(* block.  The first block holds the UID and goes into the first read      *)
(* packet, the second is split between the packets (their border, byte     *)
(* 245, is inside a chunk), the third goes into the second.  The code's    *)
(* chunk of 128 bytes makes five blocks of which the same can be said.     *)
(* Files longer than an image only differ in bytes no packet carries.      *)
Image == 540
Chunk == 180
Blocks == 3

Offset(n) == (n - 1) * Chunk

VARIABLES
  session,    \* "DOWN", "READY", or "CLOSING": READY, interrupt channel gone
  sessions,   \* sessions there have been
  canSend,    \* can_send
  requested,  \* BTstack owes L2CAP_EVENT_CAN_SEND_NOW
  sendTimer,  \* send_timer: "off", "short" (less than an interval) or "full"
  proto,      \* switch_protocol_t
  requests,   \* mcu_request_count, counting every output report
  buffer,     \* amiibo_buffer: the figures each block comes from
  front,      \* the figure whose UID is in the buffer
  host,       \* the amiibo part of host_protocol_t
  caller,     \* what each caller of load_amiibo is doing
  view,       \* what the console has been sent for its current read
  written,    \* blocks written since the last HOST_CMD_AMIIBO_LOAD_START
  loads       \* uploads begun

vars == <<session, sessions, canSend, requested, sendTimer, proto, requests,
          buffer, front, host, caller, view, written, loads>>

Tag == Figure \cup {Blank}
Nfc == {"NONE", "POLL", "PENDING_READ", "READING", "POLL_AGAIN"}

Proto == [ mode : {"SIMPLE", "MCU", "OTHER"},   \* input_report_mode
           nfc : Nfc,
           stage : 0..2,                        \* nfc_read_stage
           loaded : BOOLEAN,                    \* amiibo_loaded
           size : 0..Image,                     \* amiibo_size
           uid : Tag,                           \* amiibo_uid
           lastUid : Tag,                       \* last_poll_uid
           lastValid : BOOLEAN ]                \* last_poll_uid_valid

Host == [ loaded : BOOLEAN,                     \* amiibo_state
          uid : Tag,
          total : 0..Image,                     \* amiibo_upload_size
          received : 0..Image ]                 \* amiibo_upload_received

Idle == [fig |-> Blank, next |-> 0]
Call == [fig : Tag, next : 0..(Blocks + 1)]     \* next chunk to send; 0: idle

(* first, second, done: which packets of the read were sent.  figures: the *)
(* figures their data and UID come from.  disturbed: something other than  *)
(* the console interfered, a report was refused, or the tag was not one    *)
(* whole image.  status: the UID in the last poll status the console got.  *)
(* missed: a status that named a tag was refused since.  sameAgain: the    *)
(* last status named the tag of the one before if it said POLL_AGAIN,      *)
(* unless one was missed between them.                                     *)
View == [ first : BOOLEAN, second : BOOLEAN, done : BOOLEAN,
          figures : SUBSET Tag, disturbed : BOOLEAN,
          status : Tag, missed : BOOLEAN, sameAgain : BOOLEAN ]

Reading == proto.nfc \in {"PENDING_READ", "READING"}

(* The tag is not one whole image: a short image was loaded, or an upload  *)
(* was begun and not finished, or abandoned.                               *)
Torn == proto.size # Image \/ \E b \in 1..Blocks : buffer[b] # {proto.uid}

-----------------------------------------------------------------------------
(* switch_protocol.c.                                                      *)

NfcStatus_Bug(p) ==
  CASE p.nfc = "POLL" /\ p.loaded ->
         IF p.lastValid /\ p.uid = p.lastUid
         THEN [p EXCEPT !.nfc = "POLL_AGAIN"]
         ELSE [p EXCEPT !.lastUid = p.uid, !.lastValid = TRUE]
    [] p.nfc = "POLL_AGAIN" /\ ~p.loaded ->
         [p EXCEPT !.nfc = "POLL", !.lastValid = FALSE]
    [] OTHER -> p

(* build_nfc_status_response: the state it moves to before it reports it.  *)
NfcStatus(p) ==
  CASE p.nfc = "POLL" /\ p.loaded ->
         IF p.lastValid /\ p.uid = p.lastUid
         THEN [p EXCEPT !.nfc = "POLL_AGAIN"]
         ELSE [p EXCEPT !.lastUid = p.uid, !.lastValid = TRUE]
    [] p.nfc = "POLL_AGAIN" /\ ~p.loaded ->
         [p EXCEPT !.nfc = "POLL", !.lastValid = FALSE]
    [] p.nfc = "POLL_AGAIN" /\ p.loaded /\ p.uid # p.lastUid ->
         [p EXCEPT !.nfc = "POLL", !.lastUid = p.uid, !.lastValid = TRUE]
    [] OTHER -> p

Built_Bug(p) ==
  CASE p.mode = "MCU" /\ p.nfc \in {"POLL", "POLL_AGAIN"} -> NfcStatus(p)
    [] p.mode = "MCU" /\ p.nfc = "PENDING_READ" ->
         [p EXCEPT !.nfc = "READING", !.stage = 2]
    [] p.mode = "MCU" /\ p.nfc = "READING" ->
         IF p.stage = 1 THEN [p EXCEPT !.stage = 2]
         ELSE [p EXCEPT !.nfc = "POLL_AGAIN"]
    [] OTHER -> p

Built_StuckBug(p) ==
  CASE p.mode = "MCU" /\ p.nfc \in {"POLL", "POLL_AGAIN"} -> NfcStatus(p)
    [] p.mode = "MCU" /\ p.nfc = "PENDING_READ" ->
         [p EXCEPT !.nfc = "READING", !.stage = 1]
    [] OTHER -> p

(* build_mcu_response_for_state, called for every report in MCU mode.      *)
Built(p) ==
  CASE p.mode = "MCU" /\ p.nfc \in {"POLL", "POLL_AGAIN"} -> NfcStatus(p)
    [] p.mode = "MCU" /\ p.nfc = "PENDING_READ" ->
         [p EXCEPT !.nfc = "READING", !.stage = 1]
    [] p.mode = "MCU" /\ p.nfc = "READING" ->
         IF p.stage = 1 THEN [p EXCEPT !.stage = 2]
         ELSE [p EXCEPT !.nfc = "POLL_AGAIN"]
    [] OTHER -> p

(* The data of the read packets: bytes 0 to 244, and 245 to 539.  Zeros    *)
(* when the image is too short for them.                                   *)
FirstData(p) == IF p.size >= 245 THEN buffer[1] \cup buffer[2] ELSE {Blank}

SecondData(p) == IF p.size > 245 THEN buffer[2] \cup buffer[3] ELSE {Blank}

(* The report is a poll status that names a tag.                           *)
NamesTag(p) == p.mode = "MCU" /\ p.nfc \in {"POLL", "POLL_AGAIN"} /\ p.loaded

(* What the console makes of a report built from p, with v its view.       *)
Shown(p, v) ==
  LET q == Built(p)
  IN  CASE p.mode = "MCU" /\ p.nfc = "PENDING_READ" ->
             [v EXCEPT !.first = TRUE,
                       !.figures = @ \cup {p.uid} \cup FirstData(p)]
        [] p.mode = "MCU" /\ p.nfc = "READING" /\ p.stage = 1 ->
             [v EXCEPT !.second = TRUE, !.figures = @ \cup SecondData(p)]
        [] p.mode = "MCU" /\ p.nfc = "READING" /\ p.stage # 1 ->
             [v EXCEPT !.done = TRUE, !.figures = @ \cup {p.uid}]
        [] NamesTag(p) ->
             [v EXCEPT !.status = q.uid, !.missed = FALSE,
                       !.sameAgain = q.nfc = "POLL_AGAIN"
                                       => q.uid = v.status \/ v.missed]
        [] OTHER -> v

-----------------------------------------------------------------------------
(* The session, as bt_hid.c sees it (BtHid has the rest).                  *)

(* Both channels are open: switch_protocol_set_connected, start_send_timer *)
SessionUp ==
  /\ session = "DOWN"
  /\ sessions < MaxSessions
  /\ session' = "READY"
  /\ sessions' = sessions + 1
  /\ sendTimer' = "full"
  /\ view' = [view EXCEPT !.disturbed = TRUE]
  /\ UNCHANGED <<canSend, requested, proto, requests, buffer, front, host,
                 caller, written, loads>>

(* The console closes the interrupt channel before the control channel.    *)
(* What BTstack owes for a channel goes with it.                           *)
InterruptClosed ==
  /\ session = "READY"
  /\ session' = "CLOSING"
  /\ requested' = FALSE
  /\ UNCHANGED <<sessions, canSend, sendTimer, proto, requests, buffer, front,
                 host, caller, view, written, loads>>

(* The last channel or the link goes: switch_protocol_set_disconnected,    *)
(* stop_send_timer.                                                        *)
SessionDown ==
  /\ session # "DOWN"
  /\ session' = "DOWN"
  /\ requested' = FALSE
  /\ sendTimer' = "off"
  /\ UNCHANGED <<sessions, canSend, proto, requests, buffer, front, host,
                 caller, view, written, loads>>

CanSendNow ==
  /\ requested
  /\ canSend' = TRUE
  /\ requested' = FALSE
  /\ UNCHANGED <<session, sessions, sendTimer, proto, requests, buffer, front,
                 host, caller, view, written, loads>>

-----------------------------------------------------------------------------
(* The report loop: send_timer_handler and bt_hid_send_report.             *)

(* can_send is FALSE: look again in 5 ms.                                  *)
TimerBlocked ==
  /\ session # "DOWN" /\ sendTimer # "off"
  /\ ~canSend
  /\ sendTimer' = "short"
  /\ UNCHANGED <<session, sessions, canSend, requested, proto, requests,
                 buffer, front, host, caller, view, written, loads>>

(* The interval since the last report is not over.                         *)
TimerEarly ==
  /\ session # "DOWN" /\ sendTimer = "short"
  /\ canSend
  /\ sendTimer' = "full"
  /\ UNCHANGED <<session, sessions, canSend, requested, proto, requests,
                 buffer, front, host, caller, view, written, loads>>

SendFailed == requested' = TRUE /\ canSend' = FALSE

(* A report is built and handed to l2cap_send, which may refuse it.  The   *)
(* read, the poll and the last UID have then advanced all the same, but    *)
(* the console has seen nothing of it.  Without an interrupt channel the   *)
(* report is not even built.                                               *)
SendReport ==
  /\ session # "DOWN" /\ sendTimer # "off"
  /\ canSend
  /\ sendTimer' = "full"
  /\ IF session = "CLOSING"
     THEN UNCHANGED <<canSend, requested, proto, view>>
     ELSE /\ proto' = Built(proto)
          /\ \/ /\ view' = Shown(proto, view)
                /\ UNCHANGED <<canSend, requested>>
             \/ /\ view' = [view EXCEPT !.disturbed = TRUE,
                                         !.missed = @ \/ NamesTag(proto)]
                /\ SendFailed
  /\ UNCHANGED <<session, sessions, requests, buffer, front, host, caller,
                 written, loads>>

-----------------------------------------------------------------------------
(* Output reports of the console: switch_protocol_handle_output_report.    *)

StartPoll(p) == [p EXCEPT !.nfc = "POLL"]

StopPoll(p) == IF p.nfc \in {"PENDING_READ", "READING"} THEN p
               ELSE [p EXCEPT !.nfc = "NONE", !.lastValid = FALSE]

(* SET_NFC_IR_MCU_CONFIG for NFC, SET_NFC_IR_MCU_STATE suspended.          *)
McuReset(p) == [p EXCEPT !.nfc = "NONE", !.lastValid = FALSE]

OutputReport ==
  /\ session = "READY"
  /\ requests < MaxRequests
  /\ requests' = requests + 1
  /\ UNCHANGED <<session, sessions, canSend, requested, buffer, front, host,
                 caller, written, loads>>

(* SET_INPUT_REPORT_MODE.  While pairing, the interval of simple mode is   *)
(* longer than the one the timer was armed with.                           *)
SetInputReportMode ==
  /\ OutputReport
  /\ \E m \in {"SIMPLE", "MCU", "OTHER"} :
       /\ proto' = [proto EXCEPT !.mode = m]
       /\ sendTimer' = IF m = "SIMPLE" THEN "short" ELSE sendTimer
  /\ UNCHANGED view

(* NFC_CMD_READ_WRITE begins a read, if there is a figure.                 *)
ReadWrite ==
  /\ OutputReport
  /\ UNCHANGED sendTimer
  /\ IF proto.loaded
     THEN /\ proto' = [proto EXCEPT !.nfc = "PENDING_READ", !.stage = 0]
          /\ view' = [view EXCEPT !.first = FALSE, !.second = FALSE,
                                  !.done = FALSE, !.figures = {},
                                  !.disturbed = Torn]
     ELSE UNCHANGED <<proto, view>>

McuRequest ==
  /\ OutputReport
  /\ proto' \in {StartPoll(proto), StopPoll(proto), McuReset(proto)}
  /\ UNCHANGED <<sendTimer, view>>

-----------------------------------------------------------------------------
(* The host: Picopad.load_amiibo and Picopad.clear_amiibo, and the         *)
(* handlers of host_protocol.c that serve them.  Commands of a load may    *)
(* interleave with those of another caller.  A caller gives up when a      *)
(* response is an error or does not arrive.                                *)

HostStep ==
  UNCHANGED <<session, sessions, canSend, requested, sendTimer, requests>>

LoadStart_Bug(h, size) == [h EXCEPT !.total = size]

LoadStart(h, size) == [h EXCEPT !.total = size, !.received = 0]

CallLoadStart(c) ==
  /\ HostStep
  /\ caller[c] = Idle
  /\ \E f \in Figure :
       /\ host' = LoadStart(host, Size[f])
       /\ caller' = [caller EXCEPT ![c] = [fig |-> f, next |-> 1]]
  /\ written' = {}
  /\ loads < MaxLoads
  /\ loads' = loads + 1
  /\ UNCHANGED <<proto, buffer, front, view>>

Smaller(a, b) == IF a <= b THEN a ELSE b

(* What is taken of chunk n of f, of which there may be less than Chunk:   *)
(* no more than the upload under way lacks.                                *)
Taken(h, f, n) ==
  Smaller(Smaller(Chunk, Size[f] - Offset(n)), h.total - h.received)

(* HOST_CMD_AMIIBO_LOAD_CHUNK goes to the buffer the reports are built     *)
(* from.  A chunk out of turn is refused.                                  *)
CallLoadChunk(c) ==
  LET n == caller[c].next
      f == caller[c].fig
      taken == Taken(host, f, n)
  IN  /\ HostStep
      /\ n # 0 /\ Offset(n) < Size[f]
      /\ IF host.received = Offset(n)
         THEN /\ buffer' = [buffer EXCEPT ![n] =
                              CASE taken = Chunk -> {f}
                                [] taken \in 1..(Chunk - 1) -> @ \cup {f}
                                [] OTHER -> @]
              /\ front' = IF n = 1 /\ taken > 0 THEN f ELSE front
              /\ host' = [host EXCEPT !.received = @ + taken]
              /\ caller' = [caller EXCEPT ![c].next = n + 1]
              /\ view' = [view EXCEPT !.disturbed = TRUE]
              /\ written' = IF taken > 0 THEN written \cup {n} ELSE written
         ELSE /\ caller' = [caller EXCEPT ![c] = Idle]
              /\ UNCHANGED <<buffer, front, host, view, written>>
      /\ UNCHANGED <<proto, loads>>

(* A UID takes the first eight bytes; this copy is only made of nine.      *)
SetAmiibo(p, size, u) ==
  [p EXCEPT !.loaded = TRUE, !.size = size, !.uid = IF size >= 9 THEN u ELSE @]

LoadFinish(h) == h.received = h.total

(* HOST_CMD_AMIIBO_LOAD_FINISH and switch_protocol_set_amiibo.             *)
CallLoadFinish(c) ==
  /\ HostStep
  /\ caller[c].next # 0 /\ Offset(caller[c].next) >= Size[caller[c].fig]
  /\ IF LoadFinish(host)
     THEN /\ host' = [host EXCEPT !.loaded = TRUE,
                                  !.uid = IF host.total >= 8 THEN front
                                          ELSE Blank]
          /\ proto' = SetAmiibo(proto, host.total, front)
          /\ view' = [view EXCEPT !.disturbed = TRUE]
     ELSE UNCHANGED <<host, proto, view>>
  /\ caller' = [caller EXCEPT ![c] = Idle]
  /\ UNCHANGED <<buffer, front, written, loads>>

(* The command or its response was lost, or the caller died.               *)
GiveUp(c) ==
  /\ HostStep
  /\ caller[c] # Idle
  /\ caller' = [caller EXCEPT ![c] = Idle]
  /\ UNCHANGED <<proto, buffer, front, host, view, written, loads>>

(* HOST_CMD_AMIIBO_CLEAR and switch_protocol_clear_amiibo.                 *)
ClearAmiibo ==
  /\ HostStep
  /\ host' = [host EXCEPT !.loaded = FALSE, !.uid = Blank]
  /\ proto' = [proto EXCEPT !.loaded = FALSE, !.size = 0, !.uid = Blank]
  /\ view' = [view EXCEPT !.disturbed = TRUE]
  /\ UNCHANGED <<buffer, front, caller, written, loads>>

-----------------------------------------------------------------------------
Init ==
  /\ session = "DOWN"
  /\ sessions = 0
  /\ canSend = TRUE
  /\ requested = FALSE
  /\ sendTimer = "off"
  /\ proto = [mode |-> "SIMPLE", nfc |-> "NONE", stage |-> 0,
              loaded |-> FALSE, size |-> 0, uid |-> Blank, lastUid |-> Blank,
              lastValid |-> FALSE]
  /\ requests = 0
  /\ buffer = [b \in 1..Blocks |-> {Blank}]
  /\ front = Blank
  /\ host = [loaded |-> FALSE, uid |-> Blank, total |-> 0, received |-> 0]
  /\ caller = [c \in Caller |-> Idle]
  /\ view = [first |-> FALSE, second |-> FALSE, done |-> FALSE, figures |-> {},
             disturbed |-> FALSE, status |-> Blank, missed |-> FALSE,
             sameAgain |-> TRUE]
  /\ written = {}
  /\ loads = 0

Next ==
  \/ SessionUp \/ InterruptClosed \/ SessionDown
  \/ CanSendNow \/ TimerBlocked \/ TimerEarly \/ SendReport
  \/ SetInputReportMode \/ ReadWrite \/ McuRequest
  \/ \E c \in Caller : \/ CallLoadStart(c) \/ CallLoadChunk(c)
                       \/ CallLoadFinish(c) \/ GiveUp(c)
  \/ ClearAmiibo

Spec == Init /\ [][Next]_vars

(* The run loop serves its timers, and BTstack keeps its word.             *)
FairSpec == /\ Spec
            /\ WF_vars(CanSendNow)
            /\ WF_vars(TimerBlocked)
            /\ WF_vars(SendReport)

-----------------------------------------------------------------------------
(* Properties.                                                             *)

(* A read of one whole image that nobody interfered with shows the console *)
(* both packets, with the data and the UID of that image, whatever polls,  *)
(* mode changes and further requests of the console surround it.           *)
ReadIsWhole ==
  view.done /\ ~view.disturbed =>
    /\ view.first /\ view.second
    /\ Cardinality(view.figures) = 1
    /\ Blank \notin view.figures

(* POLL_AGAIN means the tag of the last status the console got: swapping   *)
(* figures, or removing one and putting another, is always reported anew.  *)
(* The state moves while a report is built, so a refused one may have been *)
(* that report; the next status that gets through ends the excuse.         *)
AgainIsTheSame == view.sameAgain

(* When LOAD_FINISH would be acknowledged, the whole image was written     *)
(* since the last LOAD_START.  Uploads of two callers may mix their        *)
(* figures, but no block of an earlier or abandoned upload survives into   *)
(* a new tag.                                                              *)
UploadIsNew ==
  LoadFinish(host) =>
    \A b \in 1..Blocks : Offset(b) < host.total => b \in written

(* "60Hz input report rate after pairing" (firmware/picopad/README.md): a  *)
(* session whose reports are held back may send again, or ends.  Violated  *)
(* in a second session: can_send survives the one before, and what BTstack *)
(* owed for its channel went with it.                                      *)
ReportsResume == session = "READY" ~> canSend \/ session # "READY"

(* Reports are held back and nothing will change that.                     *)
Starved == ~canSend /\ ~requested

(* A requested read is completed, unless the console or the session ends   *)
(* it, or the reports have stopped (ReportsResume).                        *)
ReadCompletes ==
  Reading /\ session = "READY" /\ proto.mode = "MCU"
    ~> ~Reading \/ session # "READY" \/ proto.mode # "MCU" \/ Starved

=============================================================================
