-------------------------- MODULE TournamentRunner --------------------------
(***************************************************************************)
(* apps/tournament_runner: CommandQueue, a GenServer that runs one command *)
(* at a time (an automation in a Task, a function in the server itself),   *)
(* and the driver Match1v1 (SquadStrike does the same), which plays the    *)
(* next match, keeps scores in a file and synchronises it with Challonge.  *)
(* Challonge, the game and the user at the notebook are external.          *)
(***************************************************************************)
EXTENDS Naturals, Sequences, FiniteSets, FiniteSetsExt

CONSTANTS
  Match,        \* matches, numbered as sync sorts them
  Needs,        \* for each match, those whose winners play it
  Commands,     \* what the user may do: "RESUME", "PAUSE", "RESTART"
  MaxCommands,  \* and how often
  Faults        \* what may fail: "http", "skip" (a match), "death" (of a task)

ASSUME TournamentAssumption ==
  /\ Match \subseteq Nat
  /\ IsFiniteSet(Match)
  /\ Needs \in [Match -> SUBSET Match]
  /\ MaxCommands \in Nat

VARIABLES
  mailbox,   \* messages to CommandQueue
  queue,     \* its queue
  running,   \* its running?
  resume,    \* how far each caller of Match1v1.resume is
  task,      \* the tasks that were started
  file,      \* state.bin
  winner,    \* Challonge: the winners
  commands,  \* commands of the user so far
  paused,    \* the user has not resumed since a pause or a restart
  won,       \* the scores saved so far
  trouble    \* "pause": there was one, or a restart; "death": of a task;
             \* "sync": the last synchronisation failed

vars == <<mailbox, queue, running, resume, task, file, winner, commands, paused, won,
          trouble>>
server == <<mailbox, queue, running, resume>>
user == <<commands, paused>>

Command == {"automation", "resume"}
Message == Command \cup {"clear", "process_command"}
Resumer == {"user", "queue"}     \* Match1v1.resume runs in a process of either
Slot == 1..2                     \* room for two tasks
Score == {"p1", "p2", "skip"}
Result == Match \X Score

Task ==
  [phase : {"none", "start", "upload", "download", "done"}]
  \cup [phase : {"play"}, match : Match]
  \cup [phase : {"report"}, match : Match, score : Score]
  \cup [phase : {"save"}, posted : SUBSET Result]

NoTask == [phase |-> "none"]
Active == {t \in Slot : task[t].phase # "none"}
Decided(m) == winner[m] # "none"
AllDecided == \A m \in Match : Decided(m)


-----------------------------------------------------------------------------
(* CommandQueue.  A definition whose name ends in Bug is a wrong version   *)
(* of the one that follows it, with which a property fails.                *)

(* handle_continue(:process_command): run the head of the queue q.  An     *)
(* automation runs in a Task; a function runs in the server, which is busy *)
(* until it returns.                                                       *)
ProcessCommand(q) ==
  \/ /\ q = <<>>
     /\ queue' = <<>>
     /\ running' = FALSE
     /\ resume' = [resume EXCEPT !["queue"] = "idle"]
     /\ UNCHANGED task
  \/ /\ q # <<>> /\ Head(q) = "automation"
     /\ \E t \in Slot \ Active : task' = [task EXCEPT ![t] = [phase |-> "start"]]
     /\ queue' = Tail(q)
     /\ running' = TRUE
     /\ resume' = [resume EXCEPT !["queue"] = "idle"]
  \/ /\ q # <<>> /\ Head(q) = "resume"
     /\ queue' = Tail(q)
     /\ running' = TRUE
     /\ resume' = [resume EXCEPT !["queue"] = "start"]
     /\ UNCHANGED task

Enqueue_Bug(c) == ProcessCommand(Append(queue, c))

(* handle_cast({:enqueue, command}).                                       *)
Enqueue(c) ==
  IF running
  THEN queue' = Append(queue, c) /\ UNCHANGED <<running, resume, task>>
  ELSE ProcessCommand(Append(queue, c))

HandleCast ==
  /\ mailbox # <<>>
  /\ resume["queue"] = "idle"
  /\ mailbox' = Tail(mailbox)
  /\ LET m == Head(mailbox)
     IN  \/ m \in Command /\ Enqueue(m)
         \/ m = "clear" /\ queue' = <<>> /\ UNCHANGED <<running, resume, task>>
         \/ m = "process_command" /\ ProcessCommand(queue)
  /\ UNCHANGED <<file, winner, user, won, trouble>>

(* The function has returned :run_next.                                    *)
RunNext ==
  /\ resume["queue"] = "returned"
  /\ ProcessCommand(queue)
  /\ UNCHANGED <<mailbox, file, winner, user, won, trouble>>

-----------------------------------------------------------------------------
(* Match1v1.resume, by p: queue the next match, and a resume behind it.    *)

Returned(p) == IF p = "user" THEN "idle" ELSE "returned"

ResumeStart(p) ==
  /\ resume[p] = "start"
  /\ IF file.remaining = {}
     THEN /\ resume' = [resume EXCEPT ![p] = Returned(p)]
          /\ UNCHANGED mailbox
     ELSE /\ resume' = [resume EXCEPT ![p] = "half"]
          /\ mailbox' = Append(mailbox, "automation")
  /\ UNCHANGED <<queue, running, task, file, winner, user, won, trouble>>

ResumeEnd(p) ==
  /\ resume[p] = "half"
  /\ resume' = [resume EXCEPT ![p] = Returned(p)]
  /\ mailbox' = Append(mailbox, "resume")
  /\ UNCHANGED <<queue, running, task, file, winner, user, won, trouble>>

-----------------------------------------------------------------------------
(* Match1v1.run in task t.                                                 *)

Goes(t, to) == task' = [task EXCEPT ![t] = to]

TaskDone_Bug(t) ==
  /\ task[t].phase = "done"
  /\ Goes(t, NoTask)
  /\ UNCHANGED <<server, file, winner, user, won, trouble>>

(* The task ends, and tells the queue.                                     *)
TaskDone(t) ==
  /\ task[t].phase = "done"
  /\ Goes(t, NoTask)
  /\ mailbox' = Append(mailbox, "process_command")
  /\ UNCHANGED <<queue, running, resume, file, winner, user, won, trouble>>

(* An exception that no catch clause takes ends the task: an image that    *)
(* cannot be searched while the match is on, a score that cannot be read   *)
(* back while it is reported.                                              *)
TaskDies(t) ==
  /\ \/ "death" \in Faults /\ task[t].phase = "play"
     \/ task[t].phase = "upload" /\ \E r \in file.completed : r[2] = "skip"
  /\ Goes(t, NoTask)
  /\ trouble' = trouble \cup {"death"}
  /\ UNCHANGED <<server, file, winner, user, won>>

Run(t) ==
  /\ task[t].phase = "start"
  /\ Goes(t, IF file.remaining = {} THEN [phase |-> "done"]
             ELSE [phase |-> "play", match |-> Min(file.remaining)])
  /\ UNCHANGED <<server, file, winner, user, won, trouble>>

(* The match is played; it is skipped when it fails three times.           *)
Play(t) ==
  /\ task[t].phase = "play"
  /\ \E s \in {"p1", "p2"} \cup (Faults \cap {"skip"}) :
       Goes(t, [phase |-> "report", match |-> task[t].match, score |-> s])
  /\ UNCHANGED <<server, file, winner, user, won, trouble>>

ReportScores_Bug(t) ==
  /\ task[t].phase = "report"
  /\ file' = [file EXCEPT !.completed = @ \cup {<<task[t].match, task[t].score>>}]
  /\ won' = [won EXCEPT ![task[t].match] = task[t].score]
  /\ Goes(t, [phase |-> "upload"])
  /\ UNCHANGED <<server, winner, user, trouble>>

(* report_scores, up to the synchronisation.                               *)
ReportScores(t) ==
  /\ task[t].phase = "report"
  /\ file' = [remaining |-> file.remaining \ {task[t].match},
              completed |-> file.completed \cup {<<task[t].match, task[t].score>>}]
  /\ won' = [won EXCEPT ![task[t].match] = task[t].score]
  /\ Goes(t, [phase |-> "upload"])
  /\ UNCHANGED <<server, winner, user, trouble>>

(* upload_completed_matches, with its retries: some results arrive, and of *)
(* some of those that arrive the answer does.  A skipped match has no      *)
(* winner to post.                                                         *)
Upload(t) ==
  /\ task[t].phase = "upload"
  /\ LET results == {r \in file.completed : r[2] # "skip"}
     IN  \E arrived \in IF "http" \in Faults THEN SUBSET results ELSE {results} :
           /\ winner' = [m \in Match |->
                          IF \E r \in arrived : r[1] = m
                          THEN (CHOOSE r \in arrived : r[1] = m)[2] ELSE winner[m]]
           /\ \E posted \in IF "http" \in Faults THEN SUBSET arrived ELSE {arrived} :
                Goes(t, [phase |-> "save", posted |-> posted])
  /\ UNCHANGED <<server, file, user, won, trouble>>

SaveUploaded_Bug(t) ==
  /\ task[t].phase = "save"
  /\ file' = [file EXCEPT !.completed = {}]
  /\ Goes(t, [phase |-> "download"])
  /\ UNCHANGED <<server, winner, user, won, trouble>>

(* What was posted is forgotten; the rest waits for another time, and so   *)
(* does the download.                                                      *)
SaveUploaded(t) ==
  /\ task[t].phase = "save"
  /\ file' = [file EXCEPT !.completed = @ \ task[t].posted]
  /\ \/ file'.completed = {} /\ Goes(t, [phase |-> "download"]) /\ UNCHANGED trouble
     \/ /\ file'.completed # {}
        /\ Goes(t, [phase |-> "done"])
        /\ trouble' = trouble \cup {"sync"}
  /\ UNCHANGED <<server, winner, user, won>>

Playable_Bug == {m \in Match : ~Decided(m) /\ Needs[m] = {}}

(* The matches whose players are known and that have no winner.            *)
Playable == {m \in Match : ~Decided(m) /\ \A n \in Needs[m] : Decided(n)}

(* download_remaining_matches.                                             *)
Download(t) ==
  /\ task[t].phase = "download"
  /\ \/ /\ file' = [file EXCEPT !.remaining = Playable]
        /\ trouble' = trouble \ {"sync"}
     \/ /\ "http" \in Faults
        /\ trouble' = trouble \cup {"sync"}
        /\ UNCHANGED file
  /\ Goes(t, [phase |-> "done"])
  /\ UNCHANGED <<server, winner, user, won>>

-----------------------------------------------------------------------------
(* The user: cells of the notebook, and the power switch.                  *)

UserMay(c) ==
  /\ c \in Commands
  /\ commands < MaxCommands
  /\ commands' = commands + 1

UserResumes ==
  /\ UserMay("RESUME")
  /\ resume["user"] = "idle"
  /\ resume' = [resume EXCEPT !["user"] = "start"]
  /\ paused' = FALSE
  /\ UNCHANGED <<mailbox, queue, running, task, file, winner, won, trouble>>

UserPauses ==
  /\ UserMay("PAUSE")
  /\ resume["user"] = "idle"
  /\ mailbox' = Append(mailbox, "clear")
  /\ paused' = TRUE
  /\ trouble' = trouble \cup {"pause"}
  /\ UNCHANGED <<queue, running, resume, task, file, winner, won>>

Restart ==
  /\ UserMay("RESTART")
  /\ mailbox' = <<>>
  /\ queue' = <<>>
  /\ running' = FALSE
  /\ resume' = [p \in Resumer |-> "idle"]
  /\ task' = [t \in Slot |-> NoTask]
  /\ paused' = TRUE
  /\ trouble' = trouble \cup {"pause"}
  /\ UNCHANGED <<file, winner, won>>

-----------------------------------------------------------------------------
(* The tournament has been started and synchronised.                       *)
Init ==
  /\ mailbox = <<>>
  /\ queue = <<>>
  /\ running = FALSE
  /\ resume = [p \in Resumer |-> "idle"]
  /\ task = [t \in Slot |-> NoTask]
  /\ winner = [m \in Match |-> "none"]
  /\ file = [remaining |-> {m \in Match : Needs[m] = {}}, completed |-> {}]
  /\ commands = 0
  /\ paused = FALSE
  /\ won = [m \in Match |-> "none"]
  /\ trouble = {}

TaskStep(t) ==
  \/ Run(t) \/ Play(t) \/ ReportScores(t) \/ Upload(t) \/ SaveUploaded(t)
  \/ Download(t) \/ TaskDone(t)

Progress ==
  \/ HandleCast \/ RunNext
  \/ \E p \in Resumer : ResumeStart(p) \/ ResumeEnd(p)
  \/ \E t \in Slot : TaskStep(t)

Next ==
  \/ Progress
  \/ \E t \in Slot : TaskDies(t)
  \/ UserResumes \/ UserPauses \/ Restart

Spec == Init /\ [][Next]_vars

(* The runtime runs its processes, matches end and requests return.  The   *)
(* user owes nothing.                                                      *)
FairSpec ==
  /\ Spec
  /\ WF_vars(HandleCast) /\ WF_vars(RunNext)
  /\ \A p \in Resumer : WF_vars(ResumeStart(p) \/ ResumeEnd(p))
  /\ \A t \in Slot : WF_vars(TaskStep(t))

-----------------------------------------------------------------------------
(* Properties.                                                             *)

(* There is one Switch and one state.bin: a second task never starts while *)
(* another plays or synchronises, and the queue runs no function then.     *)
OneAtATime ==
  /\ Cardinality(Active) <= 1
  /\ Active # {} => running /\ resume["queue"] = "idle"

(* A match that has a result, here or on Challonge, is not played again,   *)
(* whatever was lost on the way to Challonge and back.                     *)
NotReplayed ==
  \A t \in Active :
    task[t].phase = "play" =>
      /\ ~Decided(task[t].match)
      /\ \A r \in file.completed : r[1] # task[t].match

(* A score once saved is kept until Challonge has it, and Challonge has    *)
(* the score of the match that was played.                                 *)
ResultKept ==
  \A m \in Match :
    /\ won[m] # "none" => <<m, won[m]>> \in file.completed \/ winner[m] = won[m]
    /\ Decided(m) => winner[m] = won[m]

(* "No more matches" is true when the queue's own resume says so: it never *)
(* looks at the list while a task synchronises it, whatever was paused,    *)
(* restarted or died, and only a synchronisation that failed leaves it     *)
(* empty too early.                                                        *)
NoMoreMatches ==
  resume["queue"] = "start" /\ file.remaining = {} => AllDecided \/ "sync" \in trouble

(* A tournament that is resumed, again and again at any time, is played to *)
(* the end, unless it was paused or restarted, a task died or a            *)
(* synchronisation failed.                                                 *)
TournamentEnds == resume["user"] = "start" ~> trouble # {} \/ AllDecided

(* "You may pause the tournament and resume it again later": resumed after *)
(* its last pause it is played to the end.                                 *)
PausedResumes == resume["user"] = "start" ~> paused \/ AllDecided

=============================================================================
