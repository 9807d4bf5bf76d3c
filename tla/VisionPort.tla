----------------------------- MODULE VisionPort -----------------------------
(***************************************************************************)
(* vision: the GenServer Vision and the program vision.py behind its port. *)
(* A call writes a command and queues its caller; capture and quit are     *)
(* casts that queue nobody.  The program answers each command with a line; *)
(* the server gives what the port reads to the first caller, and has       *)
(* nothing else to tell answers by.  The port may read several lines at    *)
(* once.  Lines are told apart as far as process_data does.                *)
(***************************************************************************)
EXTENDS Naturals, Sequences

CONSTANTS
  Caller,       \* processes that call Vision
  MaxCommands,  \* commands, calls and casts
  MaxStops      \* the supervisor gives up after as many

VARIABLES
  asking,    \* the command each caller waits for; 0 is none
  patient,   \* callers with timeout: :infinity
  callers,   \* state.callers: the command each of them called
  program,   \* vision.py: running, exited, or down with the server
  stdin,     \* commands it has not read
  stdout,    \* lines it has printed that the server has not received
  astray,    \* an answer went to another caller than its own
  commands, stops   \* counters

vars == <<asking, patient, callers, program, stdin, stdout, astray, commands, stops>>

Search == {"visible", "count", "find"}    \* find stands for gone as well
Call == Search \cup {"pixels"}
Cast == {"capture", "quit"}

Line(c, t) == [number |-> c.number, kind |-> c.kind, text |-> t]
IsAnswer(line) == line.kind \in Call

Init ==
  /\ asking = [c \in Caller |-> 0] /\ patient = {}
  /\ callers = <<>>
  /\ program = "running"
  /\ stdin = <<>> /\ stdout = <<>>
  /\ astray = FALSE
  /\ commands = 0 /\ stops = 0

-----------------------------------------------------------------------------
(* Commands.  A definition whose name ends in Bug is a wrong version of    *)
(* the one that follows it, with which a property fails.                   *)

Commands(kind) ==
  /\ program # "down" /\ commands < MaxCommands
  /\ commands' = commands + 1
  /\ stdin' = IF program = "running"
              THEN Append(stdin, [number |-> commands', kind |-> kind]) ELSE stdin
  /\ UNCHANGED <<program, stdout, astray, stops>>

handle_call_Bug(c, kind) ==
  /\ asking[c] = 0
  /\ Commands(kind)
  /\ callers' = <<[number |-> commands', caller |-> c]>> \o callers
  /\ asking' = [asking EXCEPT ![c] = commands']
  /\ patient' = IF kind = "find" THEN patient \cup {c} ELSE patient \ {c}

handle_call(c, kind) ==
  /\ asking[c] = 0
  /\ Commands(kind)
  /\ callers' = Append(callers, [number |-> commands', caller |-> c])
  /\ asking' = [asking EXCEPT ![c] = commands']
  /\ patient' = IF kind = "find" THEN patient \cup {c} ELSE patient \ {c}

handle_cast(kind) ==
  /\ Commands(kind)
  /\ UNCHANGED <<asking, patient, callers>>

(* The caller goes on without the server's knowing.                        *)
CallerTimeout(c) ==
  /\ asking[c] # 0 /\ c \notin patient
  /\ asking' = [asking EXCEPT ![c] = 0]
  /\ UNCHANGED <<patient, callers, program, stdin, stdout, astray, commands, stops>>

-----------------------------------------------------------------------------
(* The program.  It takes one command at a time, however long it takes.    *)

Reads(kind) ==
  /\ program = "running" /\ stdin # <<>> /\ Head(stdin).kind = kind
  /\ UNCHANGED <<asking, patient, callers, astray, commands, stops>>

Prints(text) ==
  /\ stdout' = Append(stdout, Line(Head(stdin), text))
  /\ stdin' = Tail(stdin)
  /\ UNCHANGED program

Exits ==
  /\ program' = "exited"
  /\ stdin' = <<>>
  /\ UNCHANGED stdout

(* The template cannot be read; no camera, and OpenCV raises or the loop   *)
(* calls sys.exit; the search has a result, with or without data.          *)
search_command(kind) ==
  /\ Reads(kind)
  /\ Prints("Error") \/ Prints("None") \/ Prints("Data") \/ Exits

find_command == search_command("visible")
on_appear_command == search_command("find")

count_command ==
  /\ Reads("count")
  /\ Prints("Error") \/ Prints("Data") \/ Exits

(* Without a camera it says so, and fails on the image it has not got.     *)
pixel_command ==
  /\ Reads("pixels")
  /\ \/ Prints("Data")
     \/ Exits                                  \* no such pixel
     \/ /\ stdout' = Append(stdout, Line(Head(stdin), "Error"))
        /\ stdin' = <<>>
        /\ program' = "exited"

capture_command ==
  /\ Reads("capture")
  /\ Prints("Success") \/ Prints("Error") \/ Exits

quit_command == Reads("quit") /\ Exits

-----------------------------------------------------------------------------
(* What the port reads: the first n lines.                                 *)

(* process_data makes sense of them: one line, or an error and words.      *)
Parses(lines) ==
  \/ Len(lines) = 1
  \/ /\ lines[1].text = "Error"
     /\ \A i \in 2..Len(lines) : lines[i].text \in {"None", "Success"}

Received(n) ==
  /\ program # "down"
  /\ stdout' = SubSeq(stdout, n + 1, Len(stdout))

Lost(lines) == \E i \in DOMAIN lines : IsAnswer(lines[i])

handle_success(n) ==
  /\ Received(n) /\ stdout[1].text = "Success"
  /\ astray' = (astray \/ Lost(SubSeq(stdout, 2, n)))
  /\ UNCHANGED <<asking, patient, callers, program, stdin, commands, stops>>

handle_data_Bug(n) ==
  /\ Received(n) /\ stdout[1].text # "Success"
  /\ callers # <<>> /\ Parses(SubSeq(stdout, 1, n))
  /\ asking' = [c \in Caller |-> IF asking[c] = Head(callers).number THEN 0 ELSE asking[c]]
  /\ astray' = (astray \/ ~IsAnswer(stdout[1]) \/ Lost(SubSeq(stdout, 2, n)))
  /\ UNCHANGED <<patient, callers, program, stdin, commands, stops>>

handle_data(n) ==
  /\ Received(n) /\ stdout[1].text # "Success"
  /\ callers # <<>> /\ Parses(SubSeq(stdout, 1, n))
  /\ asking' = [c \in Caller |-> IF asking[c] = Head(callers).number THEN 0 ELSE asking[c]]
  /\ callers' = Tail(callers)
  /\ astray' = (astray \/ ~IsAnswer(stdout[1]) \/ Lost(SubSeq(stdout, 2, n)))
  /\ UNCHANGED <<patient, program, stdin, commands, stops>>

(* The server ends; the callers it has exit, and the program with its port. *)
Stops ==
  /\ asking' = [c \in Caller |->
                 IF \E i \in DOMAIN callers : callers[i].number = asking[c]
                 THEN 0 ELSE asking[c]]
  /\ callers' = <<>> /\ stdin' = <<>> /\ stdout' = <<>>
  /\ program' = "down"
  /\ astray' = FALSE
  /\ stops' = stops + 1
  /\ UNCHANGED <<patient, commands>>

(* No clause of handle_info or of process_data matches.                    *)
handle_data_raises(n) ==
  /\ program # "down" /\ n <= Len(stdout)
  /\ stdout[1].text # "Success"
  /\ callers = <<>> \/ ~Parses(SubSeq(stdout, 1, n))
  /\ Stops

handle_exit_status == program = "exited" /\ Stops

(* The supervisor starts the server, and it the program, which needs the   *)
(* camera: another one may still have it.                                  *)
Restart ==
  /\ program = "down" /\ stops < MaxStops
  /\ program' \in {"running", "exited"}
  /\ UNCHANGED <<asking, patient, callers, stdin, stdout, astray, commands, stops>>

-----------------------------------------------------------------------------
Program ==
  \/ find_command \/ on_appear_command \/ count_command
  \/ pixel_command \/ capture_command \/ quit_command

handle_info ==
  \/ \E n \in DOMAIN stdout : handle_success(n) \/ handle_data(n) \/ handle_data_raises(n)
  \/ handle_exit_status

Next ==
  \/ \E c \in Caller, kind \in Call : handle_call(c, kind)
  \/ \E kind \in Cast : handle_cast(kind)
  \/ \E c \in Caller : CallerTimeout(c)
  \/ Program \/ handle_info \/ Restart

Spec == Init /\ [][Next]_vars

(* Every search of the program ends, and the server handles its mailbox.   *)
(* Nobody has to call, and no caller's patience has to end.                *)
FairSpec == Spec /\ WF_vars(Program) /\ WF_vars(handle_info) /\ WF_vars(Restart)

-----------------------------------------------------------------------------
(* The calls of a sequence of commands or lines.                           *)
Numbers(s) == {s[i].number : i \in {j \in DOMAIN s : IsAnswer(s[j])}}
Increasing(s) == \A i, j \in DOMAIN s : i < j => s[i].number < s[j].number

(* An answer reaches the caller that asked (Vision.handle_info): whatever  *)
(* was given up, dropped or restarted, the answers that are still to come  *)
(* belong to the callers of the queue, in its order.  A capture that fails *)
(* or a second line read with a first one can break this until the server  *)
(* starts again.                                                           *)
OwnAnswer ==
  ~astray /\ program = "running" =>
    /\ {callers[i].number : i \in DOMAIN callers} = Numbers(stdout) \cup Numbers(stdin)
    /\ Increasing(callers)
    /\ Increasing(stdout \o stdin)

(* A call ends, also one with timeout: :infinity (wait_until_found): with  *)
(* an answer, or the exit of the server, unless an answer went astray.     *)
CallsEnd == \A c \in Caller : asking[c] # 0 ~> asking[c] = 0 \/ astray
=============================================================================
