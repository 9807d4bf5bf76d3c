----------------------------- MODULE JoyconLink -----------------------------
(***************************************************************************)
(* joycontrol: the link of an emulated controller to the console.  The     *)
(* tasks of one asyncio event loop share it: ControllerProtocol's writers, *)
(* the transport's reader with its replies, the command line, and the task *)
(* that sends empty reports until the console talks.  Every report passes  *)
(* the transport's write window (MyBoundedSemaphore), its write lock, and  *)
(* sock_sendall.  A step of a task runs from one await that suspends to    *)
(* the next.  The Bluetooth controller says when packets are completed.    *)
(* A report is the version of the controller state it was made from; 0 is  *)
(* a report that says nothing of it.                                       *)
(***************************************************************************)
EXTENDS Naturals, Sequences, FiniteSets

CONSTANTS
  Writer,       \* tasks that run _writer; SET_PLAYER_LIGHTS starts one
  Limit,        \* flow_control: slots of the write window
  Room,         \* packets the socket takes before send() would block
  MaxMessages,  \* messages of the console that have an effect
  MaxLines,     \* lines typed
  MaxEmpty,     \* empty reports of _send_empty_input_reports
  MaxForeign    \* packets of other connections counted as this one's

ASSUME JoyconAssumption ==
  /\ {Limit, Room} \subseteq Nat \ {0}
  /\ {MaxMessages, MaxLines, MaxEmpty, MaxForeign} \subseteq Nat
  /\ IsFiniteSet(Writer) /\ Writer \cap {"reader", "cli", "hello", "none"} = {}

Task == Writer \cup {"reader", "cli", "hello"}

VARIABLES
  at,          \* where each task is suspended
  value,       \* _write_window: the free slots
  waiters,     \* its _waiters
  woken,       \* waiters it has woken since
  writeLock,   \* _write_lock is set: writing is allowed
  inFlight,    \* packets of this link not completed
  blocked,     \* the task whose callback waits for room in the socket
  link,        \* the console is there
  transport,   \* ControllerProtocol.transport is not None
  closing,     \* how far L2CAP_Transport.close has come
  hung,        \* the reader keeps the event loop to itself
  mode,        \* _input_report_mode: none, simple (0x3F) or full
  paused,      \* _not_paused is cleared
  lights,      \* how often SET_PLAYER_LIGHTS came: writers asked for
  buttons,     \* version of the controller state
  report,      \* the version in the report each task is writing
  shown,       \* the version the console was last sent
  todo,        \* what is left of the command line's line
  messages, lines, empties,   \* counters
  foreign,     \* packets of other connections that were counted
  dropped      \* packets of this one that were completed and not counted

window == <<value, waiters, woken>>
socket == <<inFlight, blocked>>
state == <<mode, paused, lights, buttons>>
counters == <<messages, lines, empties, foreign, dropped>>
vars == <<at, window, writeLock, socket, link, transport, closing, hung, state,
          report, shown, todo, counters>>

Writing == {"acquire", "lock", "resumed", "send"}  \* in L2CAP_Transport.write
Holding == Writing \ {"acquire"}                   \* ... with a slot
Ended == {"off", "over", "failed"}

(* What a line does: a command or buttons, or several joined by "&&".      *)
Line == {<<"press", "sleep", "press", "send">>,
         <<"pause", "ready", "press", "unpause", "send">>, <<"exit">>}

Running == ~hung /\ at["cli"] # "over"
Open == closing \in {"no", "asked"}
Waited == at["cli"] \in {"wait", "woken"}   \* _controller_state_sender is set

Init ==
  /\ at = [t \in Task |-> CASE t \in Writer \cup {"cli"} -> "off"
                            [] t = "reader" -> "recv"
                            [] OTHER -> "rest"]
  /\ value = Limit /\ waiters = <<>> /\ woken = {}
  /\ writeLock = TRUE /\ link = TRUE /\ transport = TRUE
  /\ hung = FALSE /\ paused = FALSE
  /\ inFlight = 0 /\ blocked = "none"
  /\ closing = "no" /\ mode = "none"
  /\ buttons = 1 /\ shown = 1
  /\ report = [t \in Task |-> 0]
  /\ todo = <<>>
  /\ lights = 0 /\ messages = 0 /\ lines = 0 /\ empties = 0
  /\ foreign = 0 /\ dropped = 0

-----------------------------------------------------------------------------
(* The window.  A definition whose name ends in Bug is a wrong version of  *)
(* the one that follows it, with which a property fails.                   *)

(* A waiter stays in the list until it is woken; the one that is asks      *)
(* again, and another task may have been faster.                           *)
CheckNext(v, asleep, awake) ==
  /\ value' = v
  /\ IF v >= 1 /\ asleep # <<>>
     THEN waiters' = Tail(asleep) /\ woken' = awake \cup {Head(asleep)}
     ELSE waiters' = asleep /\ woken' = awake

Take_Bug(t) ==
  /\ value' = value - 1
  /\ woken' = woken \ {t}
  /\ UNCHANGED waiters

Take(t) == value >= 1 /\ CheckNext(value - 1, waiters, woken \ {t})

Queue(t) ==
  /\ value = 0
  /\ waiters' = Append(waiters, t)
  /\ woken' = woken \ {t}
  /\ UNCHANGED value

Cancel(t) == CheckNext(value, SelectSeq(waiters, LAMBDA u : u # t), woken \ {t})

Release(n) ==
  CheckNext(IF value + n > Limit THEN Limit ELSE value + n, waiters, woken)

-----------------------------------------------------------------------------
(* Writing a report.                                                       *)

(* What a task does after its write: the writer and the empty reports      *)
(* sleep, the reader reads on, the command line takes its next step.       *)
Rest(t) == CASE t \in Writer -> "rest"
             [] t = "reader" -> "recv"
             [] t = "cli" -> "run"
             [] OTHER -> "rest"

(* The write returned: _write sets sig_is_send.  The empty reports do not  *)
(* pass _write.                                                            *)
Returned_Bug(t) == [at EXCEPT ![t] = Rest(t)]

Returned(t) ==
  [at EXCEPT ![t] = Rest(t),
             !["cli"] = IF @ = "wait" /\ t # "hello" THEN "woken" ELSE @]

(* connection_lost: the first time it asks for close, and fails when a     *)
(* send waits, because a Task has no set_exception.                        *)
connection_lost ==
  /\ transport' = FALSE
  /\ closing' = IF transport /\ closing = "no" THEN "asked" ELSE closing

Raises == transport /\ Waited

Died(t) == CASE t \in Writer -> "rest"       \* _writer goes on after anything
             [] t = "reader" -> "failed"
             [] OTHER -> "over"

Accepted(t, r) ==
  /\ inFlight' = inFlight + 1
  /\ shown' = IF r = 0 THEN shown ELSE r
  /\ at' = Returned(t)
  /\ UNCHANGED <<transport, closing>>

Failed(t) ==
  /\ connection_lost
  /\ at' = IF Raises THEN [at EXCEPT ![t] = Died(t)] ELSE Returned(t)
  /\ UNCHANGED <<inFlight, shown>>

Done(t, r) ==
  /\ IF link THEN Accepted(t, r) ELSE Failed(t)
  /\ report' = [report EXCEPT ![t] = 0]

Suspended(t, r, place) ==
  /\ at' = [at EXCEPT ![t] = place]
  /\ report' = [report EXCEPT ![t] = r]
  /\ UNCHANGED <<inFlight, shown, transport, closing>>

(* sock_sendall waits in a callback when the socket is full; the callback  *)
(* of a second task replaces that of the first.                            *)
SendAll(t, r) ==
  \/ /\ inFlight < Room \/ ~link
     /\ Done(t, r)
     /\ UNCHANGED blocked
  \/ /\ inFlight >= Room /\ link
     /\ Suspended(t, r, "send")
     /\ blocked' = t

Lock(t, r) ==
  IF writeLock THEN SendAll(t, r) ELSE Suspended(t, r, "lock") /\ UNCHANGED blocked

Acquire(t, r) ==
  \/ /\ Take(t)
     /\ Lock(t, r)
  \/ /\ Queue(t)
     /\ Suspended(t, r, "acquire")
     /\ UNCHANGED blocked

Idle == UNCHANGED <<window, socket, report, shown, transport, closing>>

(* The later steps of a write.                                             *)

AcquireAgain(t) ==
  /\ Running /\ t \in woken
  /\ Acquire(t, report[t])
  /\ UNCHANGED <<writeLock, link, hung, state, todo, counters>>

SendResumed(t) ==
  /\ Running /\ at[t] = "resumed"
  /\ SendAll(t, report[t])
  /\ UNCHANGED <<window, writeLock, link, hung, state, todo, counters>>

SendUnblocked(t) ==
  /\ Running /\ blocked = t /\ closing # "closed"
  /\ inFlight < Room \/ ~link
  /\ Done(t, report[t])
  /\ blocked' = "none"
  /\ UNCHANGED <<window, writeLock, link, hung, state, todo, counters>>

(* _generate_input_report in the report mode; 0x3F has fixed contents.     *)
InputReport == IF mode = "simple" THEN 0 ELSE buttons

-----------------------------------------------------------------------------
(* The writer.                                                             *)

Live(w) == at[w] \in {"rest", "unpaused"}

WriterBegins(w) ==
  /\ Running /\ at[w] = "off"
  /\ Cardinality({u \in Writer : at[u] # "off"}) < lights
  /\ at' = [at EXCEPT ![w] = "rest"]
  /\ Idle
  /\ UNCHANGED <<writeLock, link, hung, state, todo, counters>>

(* Its loop from the end of the delay to the next await.  A report without *)
(* a mode ends it; NotConnectedError does not.                             *)
WriterStarts(w) ==
  /\ Running /\ at[w] = "rest"
  /\ ~transport \/ paused
  /\ at' = [at EXCEPT ![w] = IF transport THEN "paused" ELSE "over"]
  /\ Idle
  /\ UNCHANGED <<writeLock, link, hung, state, todo, counters>>

WriterWrites_Bug(w) ==
  /\ Running /\ Live(w) /\ at["cli"] = "wait"
  /\ at[w] = "rest" => transport /\ ~paused
  /\ mode # "none"
  /\ IF transport THEN Acquire(w, InputReport)
     ELSE /\ at' = [at EXCEPT ![w] = "rest"]
          /\ Idle
  /\ UNCHANGED <<writeLock, link, hung, state, todo, counters>>

WriterWrites(w) ==
  /\ Running /\ Live(w)
  /\ at[w] = "rest" => transport /\ ~paused
  /\ mode # "none"
  /\ IF transport THEN Acquire(w, InputReport)
     ELSE /\ at' = [at EXCEPT ![w] = "rest"]
          /\ Idle
  /\ UNCHANGED <<writeLock, link, hung, state, todo, counters>>

WriterDies(w) ==
  /\ Running /\ Live(w)
  /\ at[w] = "rest" => transport /\ ~paused
  /\ mode = "none"
  /\ at' = [at EXCEPT ![w] = "failed"]
  /\ Idle
  /\ UNCHANGED <<writeLock, link, hung, state, todo, counters>>

(* _send_empty_input_reports                                               *)
HelloWrites ==
  /\ Running /\ at["hello"] = "rest" /\ empties < MaxEmpty
  /\ empties' = empties + 1
  /\ Acquire("hello", 0)
  /\ UNCHANGED <<writeLock, link, hung, state, todo, messages, lines, foreign, dropped>>

-----------------------------------------------------------------------------
(* The reader: report_received runs to its end before the next read.       *)

Receives ==
  /\ Running /\ link /\ Open /\ at["reader"] = "recv"
  /\ messages < MaxMessages
  /\ messages' = messages + 1
  /\ UNCHANGED <<writeLock, link, hung, buttons, paused, todo, lines, empties, foreign, dropped>>

(* Rumble and NFC requests, and messages that cannot be parsed.            *)
ReceiveSilent ==
  /\ Receives
  /\ Idle
  /\ UNCHANGED <<at, mode, lights>>

(* _reply_to_sub_command: the reply is made before the subcommand takes    *)
(* effect; without a transport the reader dies of NotConnectedError.       *)
Replies ==
  /\ Receives
  /\ IF transport THEN Acquire("reader", buttons)
     ELSE /\ at' = [at EXCEPT !["reader"] = "failed"]
          /\ Idle

ReceiveRequest ==
  /\ Replies
  /\ UNCHANGED <<mode, lights>>

ReceiveSetMode ==
  /\ Replies
  /\ mode' \in {"simple", "full"}
  /\ UNCHANGED lights

ReceivePlayerLights ==
  /\ lights < Cardinality(Writer)
  /\ Replies
  /\ lights' = lights + 1
  /\ UNCHANGED mode

(* The console went away.  A read that returns nothing calls               *)
(* connection_lost, is ignored as a report, and is tried again without     *)
(* ever suspending: close never runs.  A read can also fail.               *)
ReadNothing ==
  /\ Running /\ ~link /\ Open /\ at["reader"] = "recv"
  /\ connection_lost
  /\ IF Raises THEN at' = [at EXCEPT !["reader"] = "failed"] /\ UNCHANGED hung
     ELSE hung' = TRUE /\ UNCHANGED at
  /\ UNCHANGED <<window, writeLock, socket, link, state, report, shown, todo, counters>>

ReadFails ==
  /\ Running /\ ~link /\ Open /\ at["reader"] = "recv"
  /\ at' = [at EXCEPT !["reader"] = "failed"]
  /\ Idle
  /\ UNCHANGED <<writeLock, link, hung, state, todo, counters>>

-----------------------------------------------------------------------------
(* The command line: ControllerCLI.run, one line at a time.                *)

(* create_hid_server returns when the console has said something.          *)
MainResumes ==
  /\ Running /\ at["cli"] = "off" /\ messages > 0
  /\ at' = [at EXCEPT !["cli"] = "run"]
  /\ Idle
  /\ UNCHANGED <<writeLock, link, hung, state, todo, counters>>

Input(l) ==
  /\ Running /\ at["cli"] = "run" /\ todo = <<>>
  /\ lines < MaxLines
  /\ lines' = lines + 1
  /\ todo' = l
  /\ Idle
  /\ UNCHANGED <<at, writeLock, link, hung, state, messages, empties, foreign, dropped>>

Takes(step) ==
  /\ Running /\ at["cli"] = "run"
  /\ todo # <<>> /\ Head(todo) = step
  /\ todo' = Tail(todo)

(* ControllerState.connect, and the sleep of button_push.                  *)
Connect ==
  /\ Takes("ready") \/ Takes("sleep")
  /\ Head(todo) = "ready" => lights > 0
  /\ Idle
  /\ UNCHANGED <<at, writeLock, link, hung, state, counters>>

Pause(p) ==
  /\ Takes(IF p THEN "pause" ELSE "unpause")
  /\ paused' = p
  /\ at' = [t \in Task |-> IF at[t] = "paused" /\ ~p THEN "unpaused" ELSE at[t]]
  /\ Idle
  /\ UNCHANGED <<writeLock, link, hung, mode, lights, buttons, counters>>

Changes ==
  /\ \/ Takes("press") /\ buttons' = buttons + 1
     \/ Takes("send") /\ UNCHANGED buttons
  /\ UNCHANGED <<writeLock, link, hung, mode, paused, lights, counters>>

(* send_controller_state waits for any report that goes through _write.    *)
SendWaits ==
  /\ Changes
  /\ transport /\ ~paused
  /\ at' = [at EXCEPT !["cli"] = "wait"]
  /\ Idle

(* While the writers are paused, it writes a report of its own.            *)
SendPaused ==
  /\ Changes
  /\ transport /\ paused /\ mode # "none"
  /\ Acquire("cli", InputReport')

Sent ==
  /\ Running /\ at["cli"] = "woken"
  /\ at' = [at EXCEPT !["cli"] = "run"]
  /\ Idle
  /\ UNCHANGED <<writeLock, link, hung, state, todo, counters>>

-----------------------------------------------------------------------------
(* Closing: L2CAP_Transport.close, by the task connection_lost asked for   *)
(* or at the end of the program, whichever comes first.                    *)

CloseBegins ==
  /\ closing' = "cancelling"
  /\ writeLock' = FALSE
  /\ IF at["reader"] = "acquire" THEN Cancel("reader") ELSE UNCHANGED window
  /\ blocked' = IF blocked = "reader" THEN "none" ELSE blocked

ReaderCancelled ==
  [at EXCEPT !["reader"] = IF @ = "failed" THEN "failed" ELSE "over"]

CloseTask ==
  /\ Running /\ closing = "asked"
  /\ CloseBegins
  /\ at' = ReaderCancelled
  /\ UNCHANGED <<inFlight, link, transport, hung, state, report, shown, todo, counters>>

(* The command line ends: it was told to, the connection is gone, or a     *)
(* report without a mode was to be made.                                   *)
Exit ==
  /\ \/ Takes("exit")
     \/ /\ Takes("press") \/ Takes("send")
        /\ ~transport \/ (paused /\ mode = "none")
  /\ IF Open THEN /\ CloseBegins
                  /\ at' = [ReaderCancelled EXCEPT !["cli"] = "closing"]
     ELSE /\ at' = [at EXCEPT !["cli"] = "over"]
          /\ UNCHANGED <<window, writeLock, blocked, closing>>
  /\ UNCHANGED <<inFlight, link, transport, hung, state, report, shown, counters>>

(* close waits for the reader; what the reader died of ends close as well, *)
(* before the sockets are closed.                                          *)
CloseEnds ==
  /\ Running /\ closing = "cancelling"
  /\ closing' = IF at["reader"] = "failed" THEN "failed" ELSE "closed"
  /\ transport' = (transport /\ at["reader"] = "failed")
  /\ at' = [at EXCEPT !["cli"] = IF @ = "closing" THEN "over" ELSE @]
  /\ UNCHANGED <<window, writeLock, socket, link, hung, state, report, shown, todo, counters>>

-----------------------------------------------------------------------------
(* The Bluetooth controller, as _write_window_monitor and                  *)
(* _write_lock_monitor see it.  An event has a count for every connection  *)
(* it is about; the first one is taken for this one's, and the others are  *)
(* dropped.                                                                *)

Completed_Bug(n) ==
  /\ Running /\ Open /\ link /\ n <= inFlight
  /\ inFlight' = inFlight - n
  /\ Release(1)
  /\ UNCHANGED <<at, writeLock, blocked, link, transport, closing, hung, state, report,
                 shown, todo, counters>>

Completed(n) ==
  /\ Running /\ Open /\ link /\ n <= inFlight
  /\ inFlight' = inFlight - n
  /\ Release(n)
  /\ UNCHANGED <<at, writeLock, blocked, link, transport, closing, hung, state, report,
                 shown, todo, counters>>

(* The event counts k packets of another connection first, and n of this   *)
(* one, if it counts any.                                                  *)
CompletedForeign(k, n) ==
  /\ Running /\ Open /\ foreign + k <= MaxForeign
  /\ n <= inFlight
  /\ foreign' = foreign + k
  /\ dropped' = dropped + n
  /\ inFlight' = inFlight - n
  /\ Release(k)
  /\ UNCHANGED <<at, writeLock, blocked, link, transport, closing, hung, state, report,
                 shown, todo, messages, lines, empties>>

(* Fewer than five slots: no writing for a second.                         *)
PauseWriting ==
  /\ Running /\ Open /\ writeLock
  /\ writeLock' = FALSE
  /\ Idle
  /\ UNCHANGED <<at, link, hung, state, todo, counters>>

ResumeWriting ==
  /\ Running /\ Open /\ ~writeLock
  /\ writeLock' = TRUE
  /\ at' = [t \in Task |-> IF at[t] = "lock" THEN "resumed" ELSE at[t]]
  /\ Idle
  /\ UNCHANGED <<link, hung, state, todo, counters>>

(* What was on its way is gone with the console.                           *)
LinkLost ==
  /\ link
  /\ link' = FALSE
  /\ inFlight' = 0
  /\ UNCHANGED <<at, window, writeLock, blocked, transport, closing, hung, state, report,
                 shown, todo, counters>>

-----------------------------------------------------------------------------
WriteStep(t) == AcquireAgain(t) \/ SendResumed(t) \/ SendUnblocked(t)

WriterStep(w) == WriterBegins(w) \/ WriterStarts(w) \/ WriterWrites(w) \/ WriterDies(w)

ReadStep == ReadNothing \/ ReadFails

CliStep == \/ MainResumes \/ Connect \/ (\E p \in BOOLEAN : Pause(p))
           \/ SendWaits \/ SendPaused \/ Sent \/ Exit

Receive == ReceiveSilent \/ ReceiveRequest \/ ReceiveSetMode \/ ReceivePlayerLights

Next ==
  \/ \E t \in Task : WriteStep(t)
  \/ \E w \in Writer : WriterStep(w)
  \/ HelloWrites \/ Receive \/ ReadStep
  \/ CliStep \/ (\E l \in Line : Input(l))
  \/ CloseTask \/ CloseEnds
  \/ \E n \in 1..Room : Completed(n)
  \/ \E k \in 1..MaxForeign, n \in 0..Room : CompletedForeign(k, n)
  \/ PauseWriting \/ ResumeWriting \/ LinkLost

Spec == Init /\ [][Next]_vars

(* The event loop serves every task that writes, and the line that waits   *)
(* for a report; the controller completes what it took.  Nobody has to     *)
(* type, to send or to go away, and what is over needs no end.             *)
Fairness ==
  /\ \A t \in Task : WF_vars(WriteStep(t))
  /\ \A w \in Writer : WF_vars(WriterStep(w))
  /\ WF_vars(Sent)
  /\ WF_vars(\E n \in 1..Room : Completed(n))
  /\ WF_vars(ResumeWriting)

FairSpec == Spec /\ Fairness

-----------------------------------------------------------------------------
(* No lost wakeup (MySemaphore): while slots are free and tasks wait for   *)
(* one, some task has been woken to take it, whatever was cancelled or     *)
(* released in a batch, and whoever was faster.                            *)
NoSleeper ==
  value >= 1 /\ waiters # <<>> => woken # {}

(* Every slot of the window is accounted for while the link is up: a slot  *)
(* is lost for good only with an own completion dropped behind another     *)
(* connection's, and there are more packets on their way than flow_control *)
(* allows only by what was counted of other connections                    *)
(* (L2CAP_Transport.write, _write_window_monitor).                         *)
SlotsKept ==
  closing = "no" /\ link =>
    LET slots == value + inFlight + Cardinality({t \in Task : at[t] \in Holding})
    IN  Limit <= slots + dropped /\ slots <= Limit + foreign

(* Reports can reach the console: it is there, the program runs, a writer  *)
(* is alive, no blocked task has lost its callback to another, and not     *)
(* every slot may have been lost.                                          *)
Serving ==
  /\ Running /\ link /\ transport /\ closing = "no" /\ mode # "none"
  /\ \E w \in Writer : at[w] \notin Ended
  /\ \A t \in Task : at[t] = "send" => blocked = t
  /\ dropped < Limit

(* The command line is not left waiting in send_controller_state: a report *)
(* passes _write and wakes it, as long as reports can be sent.             *)
SendReturns == []<>(~Waited \/ ~Serving)

(* What the command line pressed last is what the console is shown in the  *)
(* end, as long as reports can be sent and are not paused: a report that   *)
(* was made earlier and overtaken in the window does not stay.             *)
StateArrives ==
  []<>(shown = buttons \/ ~(Serving /\ mode = "full" /\ ~paused))
=============================================================================
