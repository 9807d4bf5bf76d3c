----------------------------- MODULE GamepadPort -----------------------------
(***************************************************************************)
(* gamepad: the GenServer Proxy and the program gamepad.py behind its      *)
(* port.  A reader thread serves commands, an input thread reads the       *)
(* connected controller, and a printer thread prints what both put in      *)
(* print_mailbox: answers, pushed events, and an error when the controller *)
(* is pulled out, which looks like an answer.  Proxy gives answers to its  *)
(* first caller and events to the mapping of the controller connected.     *)
(* Events and mappings carry the number of the connection they belong to.  *)
(***************************************************************************)
EXTENDS Naturals, Sequences, FiniteSets

CONSTANTS
  Client,         \* processes that call Proxy
  MaxCalls,       \* calls
  MaxConnections, \* connections the program makes
  MaxEvents,      \* input events of controllers
  MaxStops        \* the supervisor gives up after as many

VARIABLES
  waiting,      \* the call each client waits for; 0 is none
  clients,      \* state.callers: the calls
  mapping,      \* state.mapping: of which connection; 0 is the empty one
  input,        \* commands on their way to the program
  mailbox,      \* print_mailbox and what was printed and not received
  reader,       \* reader thread: the connect it is about to answer; 0 is none
  thread,       \* input thread: none, starting, reading
  connection,   \* of the input thread: the last one begun
  connected,    \* the program's variable of that name
  program,      \* gamepad.py: running, failed, exited, or down with the server
  behind,       \* errors that answered nobody and were given to a caller, less
                \* the answers that found no caller since
  calls, events, stops   \* counters

server == <<waiting, clients, mapping, behind>>
threads == <<reader, thread, connection, connected>>
vars == <<server, input, mailbox, threads, program, calls, events, stops>>

Call == {"list", "connect", "capabilities"}

Answer(n, t, k) == [type |-> t, call |-> n, connection |-> k]
Event(k) == [type |-> "event", call |-> 0, connection |-> k]
IsAnswer(m) == m.call > 0
ForCaller(m) == m.type # "event"

Init ==
  /\ waiting = [c \in Client |-> 0]
  /\ clients = <<>> /\ mapping = 0 /\ behind = 0
  /\ input = <<>> /\ mailbox = <<>>
  /\ reader = 0 /\ thread = "none" /\ connection = 0 /\ connected = FALSE
  /\ program = "running"
  /\ calls = 0 /\ events = 0 /\ stops = 0

-----------------------------------------------------------------------------
(* Proxy's clients.  A definition whose name ends in Bug is a wrong        *)
(* version of the one that follows it, with which a property fails.        *)

Commanded(command) ==
  input' = IF program = "running" THEN Append(input, command) ELSE input

handle_call(c, kind) ==
  /\ waiting[c] = 0 /\ program # "down" /\ calls < MaxCalls
  /\ calls' = calls + 1
  /\ waiting' = [waiting EXCEPT ![c] = calls']
  /\ clients' = Append(clients, calls')
  /\ Commanded([kind |-> kind, call |-> calls'])
  /\ UNCHANGED <<mapping, behind, mailbox, threads, program, events, stops>>

ClientTimeout_Bug(c) ==
  /\ waiting[c] # 0
  /\ waiting' = [waiting EXCEPT ![c] = 0]
  /\ clients' = SelectSeq(clients, LAMBDA n : n # waiting[c])
  /\ UNCHANGED <<mapping, behind, input, mailbox, threads, program, calls, events, stops>>

(* GenServer.call gives up; the server keeps the caller in its queue.      *)
ClientTimeout(c) ==
  /\ waiting[c] # 0
  /\ waiting' = [waiting EXCEPT ![c] = 0]
  /\ UNCHANGED <<clients, mapping, behind, input, mailbox, threads, program, calls,
                 events, stops>>

handle_disconnect ==
  /\ program = "running"
  /\ \A i \in DOMAIN input : input[i].kind # "disconnect"   \* bounds input
  /\ Commanded([kind |-> "disconnect", call |-> 0])
  /\ UNCHANGED <<server, mailbox, threads, program, calls, events, stops>>

-----------------------------------------------------------------------------
(* The reader thread.                                                      *)

Reads(kind) ==
  /\ program = "running" /\ reader = 0
  /\ input # <<>> /\ Head(input).kind = kind
  /\ input' = Tail(input)
  /\ UNCHANGED <<server, calls, events, stops>>

send_msg(m) == mailbox' = Append(mailbox, m)

(* A device that is gone when it is opened raises, which ends the thread   *)
(* and the program with it.                                                *)
Raises ==
  /\ program' = "failed"
  /\ UNCHANGED <<mailbox, threads>>

list_devices ==
  /\ Reads("list")
  /\ \/ /\ send_msg(Answer(Head(input).call, "answer", 0))
        /\ UNCHANGED <<threads, program>>
     \/ Raises

capabilities ==
  /\ Reads("capabilities")
  /\ \/ /\ send_msg(Answer(Head(input).call, "answer", 0))
        /\ UNCHANGED <<threads, program>>
     \/ Raises

StartsThread ==
  /\ connection < MaxConnections
  /\ connection' = connection + 1
  /\ thread' = "starting"
  /\ reader' = Head(input).call
  /\ UNCHANGED <<connected, mailbox, program>>

connect ==
  /\ Reads("connect")
  /\ \/ thread = "none" /\ StartsThread
     \/ /\ send_msg(Answer(Head(input).call, "error", 0))   \* or not a device
        /\ UNCHANGED <<threads, program>>
     \/ thread = "none" /\ Raises

connect_answers ==
  /\ program = "running" /\ reader # 0
  /\ reader' = 0
  /\ send_msg(Answer(reader, "Connected", connection))
  /\ UNCHANGED <<server, input, thread, connection, connected, program, calls, events, stops>>

disconnect ==
  /\ Reads("disconnect")
  /\ connected' = FALSE
  /\ UNCHANGED <<mailbox, reader, thread, connection, program>>

-----------------------------------------------------------------------------
(* The input thread.                                                       *)

InputStep ==
  /\ program = "running"
  /\ UNCHANGED <<server, input, reader, connection, program, calls, stops>>

(* A disconnect that came before it has begun is forgotten.                *)
input_job ==
  /\ InputStep /\ thread = "starting"
  /\ thread' = "reading" /\ connected' = TRUE
  /\ UNCHANGED <<mailbox, events>>

(* Its last push says that it was asked to disconnect.                     *)
input_event ==
  /\ InputStep /\ thread = "reading" /\ events < MaxEvents
  /\ events' = events + 1
  /\ send_msg(Event(connection))
  /\ thread' = IF connected THEN "reading" ELSE "none"
  /\ UNCHANGED connected

input_raises ==
  /\ InputStep /\ thread = "reading"
  /\ send_msg(Answer(0, "error", 0))
  /\ thread' = "none" /\ connected' = FALSE
  /\ UNCHANGED events

-----------------------------------------------------------------------------
(* Proxy's handling of what was printed.                                   *)

Receives ==
  /\ program # "down" /\ mailbox # <<>>
  /\ mailbox' = Tail(mailbox)
  /\ UNCHANGED <<input, threads, program, calls, events, stops>>

(* EventProcessor.process                                                  *)
handle_push ==
  /\ Receives /\ ~ForCaller(Head(mailbox))
  /\ UNCHANGED server

reply_Bug ==
  /\ Receives /\ ForCaller(Head(mailbox))
  /\ mapping' = IF Head(mailbox).type = "Connected" /\ clients # <<>>
                THEN Head(mailbox).connection ELSE mapping
  /\ IF clients = <<>> THEN UNCHANGED <<waiting, clients>>
     ELSE /\ waiting' = [c \in Client |-> IF waiting[c] = Head(clients) THEN 0 ELSE waiting[c]]
          /\ clients' = Tail(clients)
  /\ behind' = CASE clients # <<>> /\ ~IsAnswer(Head(mailbox)) -> behind + 1
                 [] clients = <<>> /\ IsAnswer(Head(mailbox)) -> behind - 1
                 [] OTHER -> behind

(* A connection is news, also when nobody waits for it.                    *)
reply ==
  /\ Receives /\ ForCaller(Head(mailbox))
  /\ mapping' = IF Head(mailbox).type = "Connected" THEN Head(mailbox).connection ELSE mapping
  /\ IF clients = <<>> THEN UNCHANGED <<waiting, clients>>
     ELSE /\ waiting' = [c \in Client |-> IF waiting[c] = Head(clients) THEN 0 ELSE waiting[c]]
          /\ clients' = Tail(clients)
  /\ behind' = CASE clients # <<>> /\ ~IsAnswer(Head(mailbox)) -> behind + 1
                 [] clients = <<>> /\ IsAnswer(Head(mailbox)) -> behind - 1
                 [] OTHER -> behind

Stops ==
  /\ waiting' = [c \in Client |->
                  IF waiting[c] \in {clients[i] : i \in DOMAIN clients} THEN 0 ELSE waiting[c]]
  /\ clients' = <<>> /\ mapping' = 0 /\ behind' = 0
  /\ input' = <<>> /\ mailbox' = <<>>
  /\ reader' = 0 /\ thread' = "none" /\ connected' = FALSE
  /\ program' = "down"
  /\ stops' = stops + 1
  /\ UNCHANGED <<connection, calls, events>>

(* The traceback of the reader thread comes in place of an answer, and     *)
(* RespParser raises on it; or the end of the program comes first.         *)
handle_failure == program = "failed" /\ Stops

Restart ==
  /\ program = "down" /\ stops < MaxStops
  /\ program' = "running"
  /\ UNCHANGED <<server, input, mailbox, threads, calls, events, stops>>

-----------------------------------------------------------------------------
Reader == list_devices \/ capabilities \/ connect \/ connect_answers \/ disconnect

InputThread == input_job \/ input_event \/ input_raises

handle_info == handle_push \/ reply \/ handle_failure

Next ==
  \/ \E c \in Client, kind \in Call : handle_call(c, kind)
  \/ \E c \in Client : ClientTimeout(c)
  \/ handle_disconnect
  \/ Reader \/ InputThread \/ handle_info \/ Restart

Spec == Init /\ [][Next]_vars

-----------------------------------------------------------------------------
(* The calls of a sequence of commands or messages, which 0 is none of.    *)
Calls(s) == {s[i].call : i \in DOMAIN s} \ {0}
Below(S, T) == \A m \in S, n \in T : m < n
InOrder(s) ==
  \A i, j \in DOMAIN s : i < j /\ s[i].call > 0 /\ s[j].call > 0 => s[i].call < s[j].call

(* The calls the program has still to answer come in the order in which    *)
(* they were made: those printed, that of the reader, those it has to read. *)
Answering == {reader} \ {0}
Pending == Calls(mailbox) \cup Answering \cup Calls(input)
AnsweredInOrder ==
  /\ InOrder(mailbox) /\ InOrder(input)
  /\ Below(Calls(mailbox), Answering \cup Calls(input))
  /\ Below(Answering, Calls(input))

(* An answer reaches the client that asked (Proxy.reply), whichever thread *)
(* printed first and whoever gave up: the answers still to come belong to  *)
(* the queued callers, in order.  When a controller is pulled out while    *)
(* somebody waits, the queue is behind by that one error, and no more than *)
(* by such errors, until as many answers have found nobody.                *)
OwnAnswer ==
  program = "running" =>
    LET queued == {clients[i] : i \in DOMAIN clients}
    IN  /\ AnsweredInOrder
        /\ \A i, j \in DOMAIN clients : i < j => clients[i] < clients[j]
        /\ queued \subseteq Pending
        /\ Cardinality(Pending \ queued) = behind
        /\ Below(Pending \ queued, queued)

(* The connection whose mapping Proxy has when it comes to a message.      *)
MappingAt(i) ==
  LET told == {j \in 1..(i - 1) : mailbox[j].type = "Connected"}
  IN  IF told = {} THEN {mapping}
      ELSE {mailbox[j].connection : j \in {k \in told : \A l \in told : l <= k}}

(* Events are read with the mapping of the controller they come from       *)
(* (Proxy.handle_response), or with an older one while the news of the     *)
(* connection is on its way, but never with that of a later controller.    *)
EventsMapped ==
  \A i \in DOMAIN mailbox : mailbox[i].type = "event" =>
    LET k == mailbox[i].connection
    IN  \A current \in MappingAt(i) :
          \/ current = k
          \/ current < k /\ (\/ reader # 0 /\ connection = k
                             \/ \E j \in DOMAIN mailbox : j > i /\ mailbox[j].connection = k
                                                          /\ mailbox[j].type = "Connected")
=============================================================================
