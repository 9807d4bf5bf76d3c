-------------------------- MODULE TournamentProofs --------------------------
(* One match at a time, for every tournament, number of user commands and  *)
(* set of faults.  What makes the queue run the next command - a task, its *)
(* :process_command, or a function call - exists at most once, and only    *)
(* while running? is true; a clear, a death or a restart only takes it     *)
(* away.  From this follows that no score is lost and no match replayed.   *)
EXTENDS TournamentRunner, FiniteSetTheorems, WellFoundedInduction, TLAPS

(* What the argument needs of the types.                                   *)
Shape ==
  /\ mailbox \in Seq(Message)
  /\ queue \in Seq(Command)
  /\ running \in BOOLEAN
  /\ resume \in [Resumer -> {"idle", "start", "half", "returned"}]
  /\ task = [t \in Slot |-> task[t]]

Told(m) == {i \in 1..Len(m) : m[i] = "process_command"}

(* At most one of the three, and none while the queue is not running.      *)
Token(tasks, told, call, run) ==
  /\ \A t, u \in tasks : t = u
  /\ \A i, j \in told : i = j
  /\ tasks # {} => told = {} /\ call = "idle" /\ run
  /\ told # {} => call = "idle" /\ run
  /\ call # "idle" => run

IInv == Shape /\ Token(Active, Told(mailbox), resume["queue"], running)

-----------------------------------------------------------------------------
(* Mailboxes.                                                              *)

LEMMA ToldAppend ==
  ASSUME NEW m \in Seq(Message), NEW x \in Message
  PROVE  /\ Append(m, x) \in Seq(Message)
         /\ x # "process_command" => Told(Append(m, x)) = Told(m)
         /\ Told(m) = {} => \A i, j \in Told(Append(m, x)) : i = j
<1>1. /\ Append(m, x) \in Seq(Message)
      /\ Len(Append(m, x)) = Len(m) + 1
      /\ \A i \in 1..Len(m) : Append(m, x)[i] = m[i]
      /\ Append(m, x)[Len(m) + 1] = x
      /\ Len(m) \in Nat
  OBVIOUS
<1> QED BY <1>1 DEF Told

LEMMA ToldTail ==
  ASSUME NEW m \in Seq(Message), m # <<>>
  PROVE  /\ Tail(m) \in Seq(Message)
         /\ Head(m) \in Message
         /\ Head(m) # "process_command" => (Told(Tail(m)) # {} => Told(m) # {})
         /\ (\A i, j \in Told(m) : i = j) =>
              /\ \A i, j \in Told(Tail(m)) : i = j
              /\ Head(m) = "process_command" => Told(m) # {} /\ Told(Tail(m)) = {}
<1>1. /\ Tail(m) \in Seq(Message)
      /\ Head(m) = m[1] /\ m[1] \in Message
      /\ Len(m) \in Nat \ {0}
      /\ Len(Tail(m)) = Len(m) - 1
      /\ \A i \in 1..Len(Tail(m)) : Tail(m)[i] = m[i + 1]
  OBVIOUS
<1>2. \A i \in Told(Tail(m)) : i \in Nat \ {0} /\ i + 1 \in Told(m)
  BY <1>1 DEF Told
<1>3. Head(m) = "process_command" => 1 \in Told(m)
  BY <1>1 DEF Told
<1>4. \A i \in Told(Tail(m)) : i + 1 # 1
  BY <1>2
<1>5. ASSUME \A i, j \in Told(m) : i = j
      PROVE  \A i, j \in Told(Tail(m)) : i = j
  <2>1. SUFFICES ASSUME NEW i \in Told(Tail(m)), NEW j \in Told(Tail(m)) PROVE i = j
    OBVIOUS
  <2>2. i + 1 = j + 1 /\ i \in Nat /\ j \in Nat
    BY <1>2, <1>5
  <2> QED BY <2>2
<1>6. ASSUME \A i, j \in Told(m) : i = j, Head(m) = "process_command"
      PROVE  Told(Tail(m)) = {}
  BY <1>2, <1>3, <1>4, <1>6
<1> QED BY <1>1, <1>2, <1>3, <1>5, <1>6

-----------------------------------------------------------------------------
(* The queue.                                                              *)

(* Running the head of the queue when nothing else will: it hands the      *)
(* token on, or stops running.                                             *)
LEMMA ProcessCommandToken ==
  ASSUME Shape, NEW q \in Seq(Command), ProcessCommand(q),
         Active = {}, NEW m \in Seq(Message), Told(m) = {}
  PROVE  /\ queue' \in Seq(Command)
         /\ running' \in BOOLEAN
         /\ resume' \in [Resumer -> {"idle", "start", "half", "returned"}]
         /\ task' = [t \in Slot |-> task'[t]]
         /\ Token(Active', Told(m), resume'["queue"], running')
<1> USE DEF Shape, Resumer
<1>1. CASE q = <<>>
  <2>1. queue' = <<>> /\ running' = FALSE /\ UNCHANGED task
        /\ resume' = [resume EXCEPT !["queue"] = "idle"]
    BY <1>1 DEF ProcessCommand
  <2>2. queue' \in Seq(Command)
    BY <2>1
  <2>3. Active' = {}
    BY <2>1 DEF Active
  <2> QED BY <2>1, <2>2, <2>3 DEF Token
<1>2. CASE q # <<>> /\ Head(q) = "automation"
  <2>1. PICK t \in Slot : task' = [task EXCEPT ![t] = [phase |-> "start"]]
    BY <1>2 DEF ProcessCommand
  <2>2. queue' = Tail(q) /\ running' = TRUE
        /\ resume' = [resume EXCEPT !["queue"] = "idle"]
    BY <1>2 DEF ProcessCommand
  <2>3. task' = [u \in Slot |-> IF u = t THEN [phase |-> "start"] ELSE task[u]]
    BY <2>1
  <2>4. \A u \in Active' : u = t
    BY <2>3 DEF Active
  <2>5. queue' \in Seq(Command)
    BY <1>2, <2>2
  <2>6. task' = [u \in Slot |-> task'[u]]
    BY <2>3
  <2> QED BY <2>2, <2>4, <2>5, <2>6 DEF Token
<1>3. CASE q # <<>> /\ Head(q) = "resume"
  <2>1. queue' = Tail(q) /\ running' = TRUE /\ UNCHANGED task
        /\ resume' = [resume EXCEPT !["queue"] = "start"]
    BY <1>3 DEF ProcessCommand
  <2>2. queue' \in Seq(Command)
    BY <1>3, <2>1
  <2>3. Active' = {}
    BY <2>1 DEF Active
  <2> QED BY <2>1, <2>2, <2>3 DEF Token
<1> QED BY <1>1, <1>2, <1>3 DEF ProcessCommand

-----------------------------------------------------------------------------
(* The tasks and the callers of resume.                                    *)

(* A step of task t to a further phase leaves the set of tasks alone.      *)
LEMMA GoesOn ==
  ASSUME Shape, NEW t \in Active, NEW x, x.phase # "none", Goes(t, x)
  PROVE  Active' = Active /\ task' = [u \in Slot |-> task'[u]]
<1>1. task' = [u \in Slot |-> IF u = t THEN x ELSE task[u]]
  BY DEF Shape, Goes, Active
<1> QED BY <1>1 DEF Active

(* The end of task t.                                                      *)
LEMMA GoesOut ==
  ASSUME Shape, NEW t \in Active, Goes(t, NoTask)
  PROVE  Active' = Active \ {t} /\ task' = [u \in Slot |-> task'[u]]
<1>1. task' = [u \in Slot |-> IF u = t THEN NoTask ELSE task[u]]
  BY DEF Shape, Goes, Active
<1> QED BY <1>1 DEF Active, NoTask

LEMMA InitInductive == Init => IInv
<1> SUFFICES ASSUME Init PROVE IInv
  OBVIOUS
<1>1. task = [t \in Slot |-> NoTask]
  BY DEF Init
<1>2. Active = {} /\ task = [t \in Slot |-> task[t]]
  BY <1>1 DEF Active, NoTask
<1>3. mailbox \in Seq(Message) /\ queue \in Seq(Command)
  BY DEF Init
<1>4. resume \in [Resumer -> {"idle", "start", "half", "returned"}]
  BY DEF Init
<1>5. Shape
  BY <1>2, <1>3, <1>4 DEF Init, Shape
<1>6. Told(mailbox) = {}
  BY DEF Init, Told
<1>7. resume["queue"] = "idle"
  BY DEF Init, Resumer
<1> QED BY <1>2, <1>5, <1>6, <1>7 DEF IInv, Token

(* A step of a task that stays alive and leaves the server alone.          *)
LEMMA TaskStepKeeps ==
  ASSUME IInv, NEW t \in Active, NEW x, x.phase # "none", Goes(t, x), UNCHANGED server
  PROVE  IInv'
<1>1. Active' = Active /\ task' = [u \in Slot |-> task'[u]]
  BY GoesOn DEF IInv
<1> QED BY <1>1 DEF IInv, Shape, server, Told, Token

(* Every step preserves the invariant.                                     *)
LEMMA NextInductive == IInv /\ [Next]_vars => IInv'
<1> SUFFICES ASSUME IInv, [Next]_vars PROVE IInv'
  OBVIOUS
<1> USE DEF IInv
<1>0. \A t \in Slot : task[t].phase # "none" => t \in Active
  BY DEF Active
<1>1. CASE HandleCast
  <2> DEFINE m == Head(mailbox)
  <2>1. /\ mailbox # <<>> /\ mailbox' = Tail(mailbox) /\ mailbox \in Seq(Message)
        /\ resume["queue"] = "idle" /\ queue \in Seq(Command)
    BY <1>1 DEF HandleCast, Shape
  <2>2. /\ mailbox' \in Seq(Message) /\ m \in Message
        /\ \A i, j \in Told(mailbox') : i = j
        /\ m # "process_command" => (Told(mailbox') # {} => Told(mailbox) # {})
        /\ m = "process_command" => Told(mailbox) # {} /\ Told(mailbox') = {}
    BY <2>1, ToldTail DEF Token
  <2>3. CASE m \in Command /\ Enqueue(m)
    <3>1. Append(queue, m) \in Seq(Command) /\ m # "process_command"
      BY <2>1, <2>3 DEF Command
    <3>2. CASE running
      <4>1. queue' \in Seq(Command) /\ UNCHANGED <<running, resume, task>>
        BY <2>3, <3>1, <3>2 DEF Enqueue
      <4>2. UNCHANGED Active
        BY <4>1 DEF Active
      <4> QED BY <2>2, <3>1, <4>1, <4>2 DEF Shape, Token
    <3>3. CASE ~running
      <4>1. Active = {} /\ Told(mailbox) = {}
        BY <3>3 DEF Token
      <4>2. Told(mailbox') = {} /\ ProcessCommand(Append(queue, m))
        BY <2>2, <2>3, <3>1, <3>3, <4>1 DEF Enqueue
      <4> QED BY <2>2, <3>1, <4>1, <4>2, ProcessCommandToken DEF Shape
    <3> QED BY <3>2, <3>3
  <2>4. CASE m = "clear" /\ queue' = <<>> /\ UNCHANGED <<running, resume, task>>
    <3>1. UNCHANGED Active
      BY <2>4 DEF Active
    <3> QED BY <2>2, <2>4, <3>1 DEF Shape, Token
  <2>5. CASE m = "process_command" /\ ProcessCommand(queue)
    <3>1. Active = {}
      BY <2>2, <2>5 DEF Token
    <3> QED BY <2>1, <2>2, <2>5, <3>1, ProcessCommandToken DEF Shape
  <2> QED BY <1>1, <2>3, <2>4, <2>5 DEF HandleCast
<1>2. CASE RunNext
  <2>1. Active = {} /\ Told(mailbox) = {} /\ ProcessCommand(queue) /\ UNCHANGED mailbox
    BY <1>2 DEF RunNext, Token
  <2> QED BY <2>1, ProcessCommandToken DEF Shape
<1>3. ASSUME NEW p \in Resumer, ResumeStart(p) \/ ResumeEnd(p) PROVE IInv'
  <2>1. PICK to \in {"idle", "half", "returned"} :
          /\ resume' = [resume EXCEPT ![p] = to]
          /\ p = "queue" => to # "idle"
    BY <1>3 DEF ResumeStart, ResumeEnd, Returned
  <2>2. resume[p] # "idle" /\ UNCHANGED <<queue, running, task>>
    BY <1>3 DEF ResumeStart, ResumeEnd
  <2>3. PICK x \in Command : mailbox' = mailbox \/ mailbox' = Append(mailbox, x)
    BY <1>3 DEF ResumeStart, ResumeEnd, Command
  <2>4. mailbox' \in Seq(Message) /\ Told(mailbox') = Told(mailbox)
    <3>1. x \in Message /\ x # "process_command" /\ mailbox \in Seq(Message)
      BY DEF Command, Message, Shape
    <3> QED BY ZenonT(60), <2>3, <3>1, ToldAppend
  <2>5. /\ resume' \in [Resumer -> {"idle", "start", "half", "returned"}]
        /\ resume'["queue"] # "idle" <=> resume["queue"] # "idle"
    BY <2>1, <2>2 DEF Shape, Resumer
  <2>6. UNCHANGED Active
    BY <2>2 DEF Active
  <2> QED BY <2>2, <2>4, <2>5, <2>6 DEF Shape, Token
<1>4. ASSUME NEW t \in Slot, TaskStep(t) PROVE IInv'
  <2>1. CASE Run(t)
    BY <1>0, <2>1, TaskStepKeeps DEF Run
  <2>2. CASE Play(t)
    BY <1>0, <2>2, TaskStepKeeps DEF Play
  <2>3. CASE ReportScores(t)
    BY <1>0, <2>3, TaskStepKeeps DEF ReportScores
  <2>4. CASE Upload(t)
    BY <1>0, <2>4, TaskStepKeeps DEF Upload
  <2>5. CASE SaveUploaded(t)
    BY <1>0, <2>5, TaskStepKeeps DEF SaveUploaded
  <2>6. CASE Download(t)
    BY <1>0, <2>6, TaskStepKeeps DEF Download
  <2>7. CASE TaskDone(t)
    <3>1. t \in Active /\ UNCHANGED <<queue, running, resume>>
          /\ mailbox' = Append(mailbox, "process_command")
      BY <1>0, <2>7 DEF TaskDone
    <3>2. Active' = Active \ {t} /\ task' = [u \in Slot |-> task'[u]]
      BY <2>7, <3>1, GoesOut DEF TaskDone
    <3>3. Active' = {} /\ Told(mailbox) = {} /\ running /\ resume["queue"] = "idle"
      BY <3>1, <3>2 DEF Token
    <3>4. mailbox' \in Seq(Message) /\ \A i, j \in Told(mailbox') : i = j
      BY <3>1, <3>3, ToldAppend DEF Shape, Message
    <3> QED BY <3>1, <3>2, <3>3, <3>4 DEF Shape, Token
  <2> QED BY <1>4, <2>1, <2>2, <2>3, <2>4, <2>5, <2>6, <2>7 DEF TaskStep
<1>5. ASSUME NEW t \in Slot, TaskDies(t) PROVE IInv'
  <2>1. t \in Active /\ UNCHANGED server
    BY <1>0, <1>5 DEF TaskDies
  <2>2. Active' = Active \ {t} /\ task' = [u \in Slot |-> task'[u]]
    BY <1>5, <2>1, GoesOut DEF TaskDies
  <2> QED BY <2>1, <2>2 DEF Shape, Token, server, Told
<1>6. CASE UserResumes
  <2>1. /\ resume' \in [Resumer -> {"idle", "start", "half", "returned"}]
        /\ resume'["queue"] = resume["queue"]
    BY <1>6 DEF UserResumes, Shape, Resumer
  <2> QED BY <1>6, <2>1 DEF UserResumes, Shape, Token, Active, Told
<1>7. CASE UserPauses
  <2>1. mailbox' \in Seq(Message) /\ Told(mailbox') = Told(mailbox)
    BY <1>7, ToldAppend DEF UserPauses, Shape, Message
  <2> QED BY <1>7, <2>1 DEF UserPauses, Shape, Token, Active
<1>8. CASE Restart
  <2>1. task' = [t \in Slot |-> NoTask] /\ mailbox' = <<>> /\ queue' = <<>>
        /\ running' = FALSE /\ resume' = [p \in Resumer |-> "idle"]
    BY <1>8 DEF Restart
  <2>2. Active' = {} /\ task' = [t \in Slot |-> task'[t]]
    BY <2>1 DEF Active, NoTask
  <2>3. Told(mailbox') = {} /\ resume'["queue"] = "idle"
    BY <2>1 DEF Told, Resumer
  <2>4. mailbox' \in Seq(Message) /\ queue' \in Seq(Command)
    BY <2>1
  <2>5. Shape'
    BY <2>1, <2>2, <2>4 DEF Shape
  <2> QED BY <2>2, <2>3, <2>5 DEF Token
<1>9. CASE UNCHANGED vars
  BY <1>9 DEF vars, Shape, Token, Active, Told
<1> QED BY <1>1, <1>2, <1>3, <1>4, <1>5, <1>6, <1>7, <1>8, <1>9 DEF Next, Progress

-----------------------------------------------------------------------------
(* Every reachable state satisfies the invariant.                          *)
THEOREM Inductive == Spec => []IInv
<1>1. Init => IInv
  BY InitInductive
<1>2. IInv /\ [Next]_vars => IInv'
  BY NextInductive
<1> QED BY <1>1, <1>2, PTL DEF Spec

(* command_queue.ex never runs two commands at once, whatever the user     *)
(* does, however many matches there are and whichever tasks die: there is  *)
(* one task at most, and the server calls no function beside it.           *)
THEOREM Exclusive == Spec => []OneAtATime
<1>1. IInv => OneAtATime
  <2> SUFFICES ASSUME IInv PROVE OneAtATime
    OBVIOUS
  <2>1. CASE Active = {}
    BY <2>1, FS_EmptySet DEF OneAtATime
  <2>2. CASE Active # {}
    <3> PICK t \in Active : TRUE
      BY <2>2
    <3>1. Active = {t}
      BY DEF IInv, Token
    <3>2. Cardinality(Active) = 1
      BY <3>1, FS_Singleton
    <3> QED BY <2>2, <3>2 DEF IInv, Token, OneAtATime
  <2> QED BY <2>1, <2>2
<1> QED BY <1>1, Inductive, PTL

-----------------------------------------------------------------------------
(* The scores.  What a result rests on is the score that was saved: it is  *)
(* on file, on Challonge, or both, and the match has left the file's       *)
(* remaining ones for good.                                                *)

Scores ==
  /\ file \in [remaining : SUBSET Match, completed : SUBSET Result]
  /\ winner \in [Match -> Score \cup {"none"}]
  /\ won \in [Match -> Score \cup {"none"}]
  /\ \A r \in file.completed : r[2] = won[r[1]]
  /\ \A m \in file.remaining : won[m] = "none"
  /\ ResultKept

(* What a task x has in hand agrees with the file f and the winners w.     *)
Fits(x, f, w) ==
  /\ x.phase \in {"play", "report"} => x.match \in f.remaining
  /\ x.phase = "report" => x.score \in Score
  /\ x.phase = "save" => \A r \in x.posted : r \in Result /\ w[r[1]] = r[2]
  /\ x.phase = "download" => f.completed = {}

AllFit == \A t \in Slot : Fits(task[t], file, winner)

ScoresInv == IInv /\ Scores /\ AllFit

(* The least match of a non-empty set is one of the set.                   *)
LEMMA MinIn ==
  ASSUME NEW S, S \subseteq Nat, S # {}
  PROVE  Min(S) \in S
<1>1. \A x, y \in Nat : <<x, y>> \in OpToRel(<, Nat) <=> x < y
  BY Zenon DEF OpToRel
<1>2. \E x \in S : \A y \in S : ~ (<<y, x>> \in OpToRel(<, Nat))
  BY NatLessThanWellFounded, WFMin
<1>3. \E x \in S : \A y \in S : ~ (y < x)
  BY <1>1, <1>2
<1>4. \E x \in S : \A y \in S : x =< y
  BY <1>3
<1> QED BY <1>4 DEF Min

(* The scores depend on the file, the winners and the saved scores alone.  *)
LEMMA ScoresFrame ==
  ASSUME Scores, UNCHANGED <<file, winner, won>>
  PROVE  Scores'
BY DEF Scores, ResultKept, Decided

(* There is one task: if what it goes on to fits, everything does.         *)
LEMMA GoesFits ==
  ASSUME IInv, NEW t \in Active, NEW x, Goes(t, x), Fits(x, file', winner')
  PROVE  AllFit'
<1>1. task' = [u \in Slot |-> IF u = t THEN x ELSE task[u]]
  BY DEF IInv, Shape, Goes, Active
<1>2. \A u \in Slot : u # t => task[u].phase = "none"
  BY DEF IInv, Token, Active
<1> QED BY <1>1, <1>2 DEF AllFit, Fits

(* A step that moves no task but may start one.                            *)
LEMMA StartFits ==
  ASSUME AllFit, UNCHANGED <<file, winner>>,
         \A t \in Slot : task'[t] = task[t] \/ task'[t].phase \in {"none", "start"}
  PROVE  AllFit'
BY DEF AllFit, Fits

(* The queue moves no task but may start one.                              *)
LEMMA ProcessCommandFits ==
  ASSUME Shape, AllFit, NEW q, ProcessCommand(q), UNCHANGED <<file, winner>>
  PROVE  AllFit'
<1>1. \A t \in Slot : task'[t] = task[t] \/ task'[t].phase \in {"none", "start"}
  <2>1. CASE UNCHANGED task
    BY <2>1
  <2>2. ASSUME NEW t \in Slot, task' = [task EXCEPT ![t] = [phase |-> "start"]]
        PROVE  <1>1
    <3>1. task' = [u \in Slot |-> IF u = t THEN [phase |-> "start"] ELSE task[u]]
      BY <2>2 DEF Shape
    <3> QED BY <3>1
  <2> QED BY <2>1, <2>2 DEF ProcessCommand
<1> QED BY <1>1, StartFits

-----------------------------------------------------------------------------
(* The steps of a task.                                                    *)

LEMMA RunScores ==
  ASSUME ScoresInv, NEW t \in Slot, Run(t), TournamentAssumption
  PROVE  Scores' /\ AllFit'
<1>1. Scores'
  BY ScoresFrame DEF ScoresInv, Run
<1>2. t \in Active
  BY DEF Run, Active
<1>3. CASE file.remaining = {}
  <2>1. Goes(t, [phase |-> "done"]) /\ Fits([phase |-> "done"], file', winner')
    BY <1>3 DEF Run, Fits
  <2> QED BY <1>1, <1>2, <2>1, GoesFits DEF ScoresInv
<1>4. CASE file.remaining # {}
  <2> DEFINE x == [phase |-> "play", match |-> Min(file.remaining)]
  <2>1. file.remaining \subseteq Nat
    BY DEF ScoresInv, Scores, TournamentAssumption
  <2>2. Min(file.remaining) \in file.remaining
    BY <1>4, <2>1, MinIn
  <2>3. Goes(t, x) /\ UNCHANGED <<file, winner>>
    BY <1>4 DEF Run
  <2>4. Fits(x, file', winner')
    BY <2>2, <2>3 DEF Fits
  <2> QED BY <1>1, <1>2, <2>3, <2>4, GoesFits DEF ScoresInv
<1> QED BY <1>3, <1>4

LEMMA PlayScores ==
  ASSUME ScoresInv, NEW t \in Slot, Play(t)
  PROVE  Scores' /\ AllFit'
<1>1. Scores' /\ UNCHANGED <<file, winner>>
  BY ScoresFrame DEF ScoresInv, Play
<1>2. t \in Active
  BY DEF Play, Active
<1>3. PICK s \in Score : Goes(t, [phase |-> "report", match |-> task[t].match, score |-> s])
  BY DEF Play, Score
<1>4. task[t].match \in file.remaining
  BY DEF ScoresInv, AllFit, Fits, Play
<1>5. Fits([phase |-> "report", match |-> task[t].match, score |-> s], file', winner')
  BY <1>1, <1>4 DEF Fits
<1> QED BY <1>1, <1>2, <1>3, <1>5, GoesFits DEF ScoresInv

LEMMA ReportScoresScores ==
  ASSUME ScoresInv, NEW t \in Slot, ReportScores(t)
  PROVE  Scores' /\ AllFit'
<1> DEFINE m == task[t].match
           s == task[t].score
<1>1. /\ file' = [remaining |-> file.remaining \ {m},
                  completed |-> file.completed \cup {<<m, s>>}]
      /\ won' = [won EXCEPT ![m] = s]
      /\ Goes(t, [phase |-> "upload"])
      /\ UNCHANGED winner
  BY DEF ReportScores
<1>2. t \in Active
  BY DEF ReportScores, Active
<1>3. m \in file.remaining /\ s \in Score
  BY DEF ScoresInv, AllFit, Fits, ReportScores
<1>4. m \in Match /\ won[m] = "none" /\ winner[m] = "none"
  BY <1>3 DEF ScoresInv, Scores, ResultKept, Decided
<1>5. \A r \in file.completed : r[1] # m
  BY <1>3, <1>4 DEF ScoresInv, Scores, Result, Score
<1> HIDE DEF m, s
<1>6. /\ file' \in [remaining : SUBSET Match, completed : SUBSET Result]
      /\ won' \in [Match -> Score \cup {"none"}]
      /\ won' = [n \in Match |-> IF n = m THEN s ELSE won[n]]
  <2>1. file.remaining \in SUBSET Match /\ file.completed \in SUBSET Result
    BY DEF ScoresInv, Scores
  <2>2. <<m, s>> \in Result
    BY <1>3, <1>4 DEF Result
  <2>3. file' \in [remaining : SUBSET Match, completed : SUBSET Result]
    BY <1>1, <2>1, <2>2
  <2>4. won \in [Match -> Score \cup {"none"}]
    BY DEF ScoresInv, Scores
  <2> QED BY <1>1, <1>3, <1>4, <2>3, <2>4
<1>7. \A r \in file'.completed : r[2] = won'[r[1]]
  BY <1>1, <1>4, <1>5, <1>6 DEF ScoresInv, Scores, Result
<1>8. \A n \in file'.remaining : won'[n] = "none"
  BY <1>1, <1>6 DEF ScoresInv, Scores
<1>9. ResultKept'
  BY <1>1, <1>4, <1>6 DEF ScoresInv, Scores, ResultKept, Decided
<1>10. Scores'
  BY <1>1, <1>6, <1>7, <1>8, <1>9 DEF ScoresInv, Scores
<1>11. Fits([phase |-> "upload"], file', winner')
  BY DEF Fits
<1> QED BY <1>1, <1>2, <1>10, <1>11, GoesFits DEF ScoresInv

LEMMA UploadScores ==
  ASSUME ScoresInv, NEW t \in Slot, Upload(t)
  PROVE  Scores' /\ AllFit'
<1> DEFINE results == {r \in file.completed : r[2] # "skip"}
<1>1. PICK arrived \in SUBSET results :
        /\ winner' = [m \in Match |->
                       IF \E r \in arrived : r[1] = m
                       THEN (CHOOSE r \in arrived : r[1] = m)[2] ELSE winner[m]]
        /\ \E posted \in SUBSET arrived : Goes(t, [phase |-> "save", posted |-> posted])
  BY DEF Upload
<1>2. PICK posted \in SUBSET arrived : Goes(t, [phase |-> "save", posted |-> posted])
  BY <1>1
<1>3. t \in Active /\ UNCHANGED <<file, won>>
  BY DEF Upload, Active
<1>4. \A r \in arrived : r \in Result /\ r[2] = won[r[1]] /\ r[2] \in Score /\ r[1] \in Match
  BY DEF ScoresInv, Scores, Result
<1>5. ASSUME NEW m \in Match
      PROVE  winner'[m] = IF \E r \in arrived : r[1] = m THEN won[m] ELSE winner[m]
  <2>1. CASE \E r \in arrived : r[1] = m
    <3> DEFINE c == CHOOSE r \in arrived : r[1] = m
    <3>1. c \in arrived /\ c[1] = m
      BY <2>1
    <3>2. winner'[m] = c[2]
      BY <1>1, <2>1
    <3>3. c[2] = won[m]
      BY <1>4, <3>1
    <3> QED BY <2>1, <3>2, <3>3
  <2>2. CASE ~ \E r \in arrived : r[1] = m
    BY <1>1, <2>2
  <2> QED BY <2>1, <2>2
<1>6. winner' \in [Match -> Score \cup {"none"}]
  <2>1. winner' = [m \in Match |-> winner'[m]]
    BY <1>1
  <2>2. \A m \in Match : winner'[m] \in Score \cup {"none"}
    BY <1>5 DEF ScoresInv, Scores
  <2> QED BY <2>1, <2>2
<1>7. ResultKept'
  BY <1>3, <1>5 DEF ScoresInv, Scores, ResultKept, Decided
<1>8. Scores'
  BY <1>3, <1>6, <1>7 DEF ScoresInv, Scores
<1>9. Fits([phase |-> "save", posted |-> posted], file', winner')
  <2>1. \A r \in posted : r \in Result /\ winner'[r[1]] = r[2]
    BY <1>4, <1>5
  <2> QED BY <2>1 DEF Fits
<1> QED BY <1>2, <1>3, <1>8, <1>9, GoesFits DEF ScoresInv

LEMMA SaveUploadedScores ==
  ASSUME ScoresInv, NEW t \in Slot, SaveUploaded(t)
  PROVE  Scores' /\ AllFit'
<1> DEFINE posted == task[t].posted
           x == [phase |-> IF file'.completed = {} THEN "download" ELSE "done"]
<1>1. /\ file' = [file EXCEPT !.completed = @ \ posted]
      /\ \/ file'.completed = {} /\ Goes(t, [phase |-> "download"])
         \/ file'.completed # {} /\ Goes(t, [phase |-> "done"])
      /\ UNCHANGED <<winner, won>>
  BY DEF SaveUploaded
<1>2. t \in Active
  BY DEF SaveUploaded, Active
<1>3. \A r \in posted : r \in Result /\ winner[r[1]] = r[2]
  BY DEF ScoresInv, AllFit, Fits, SaveUploaded
<1> HIDE DEF posted
<1>4. /\ file' \in [remaining : SUBSET Match, completed : SUBSET Result]
      /\ file'.remaining = file.remaining
      /\ file'.completed = file.completed \ posted
  BY <1>1 DEF ScoresInv, Scores
<1>5. ResultKept'
  BY <1>1, <1>3, <1>4 DEF ScoresInv, Scores, ResultKept, Decided
<1>6. Scores'
  BY <1>1, <1>4, <1>5 DEF ScoresInv, Scores
<1>7. Goes(t, x)
  BY <1>1
<1>8. Fits(x, file', winner')
  BY DEF Fits
<1> QED BY <1>2, <1>6, <1>7, <1>8, GoesFits DEF ScoresInv

LEMMA DownloadScores ==
  ASSUME ScoresInv, NEW t \in Slot, Download(t)
  PROVE  Scores' /\ AllFit'
<1>1. /\ file' = [file EXCEPT !.remaining = Playable] \/ UNCHANGED file
      /\ Goes(t, [phase |-> "done"])
      /\ UNCHANGED <<winner, won>>
  BY DEF Download
<1>2. t \in Active /\ file.completed = {}
  BY DEF Download, Active, ScoresInv, AllFit, Fits
<1>3. /\ file' \in [remaining : SUBSET Match, completed : SUBSET Result]
      /\ file'.completed = file.completed
      /\ \A m \in file'.remaining : m \in file.remaining \/ m \in Playable
  BY <1>1 DEF ScoresInv, Scores, Playable
<1>4. \A m \in Playable : won[m] = "none"
  BY <1>2 DEF ScoresInv, Scores, ResultKept, Decided, Playable
<1>5. Scores'
  BY <1>1, <1>3, <1>4 DEF ScoresInv, Scores, ResultKept, Decided
<1>6. Fits([phase |-> "done"], file', winner')
  BY DEF Fits
<1> QED BY <1>1, <1>2, <1>5, <1>6, GoesFits DEF ScoresInv

-----------------------------------------------------------------------------
(* A started tournament has no scores.                                     *)
LEMMA InitScores == TournamentAssumption /\ Init => ScoresInv
<1> SUFFICES ASSUME TournamentAssumption, Init PROVE ScoresInv
  OBVIOUS
<1>1. Scores
  BY DEF Init, Scores, ResultKept, Decided, TournamentAssumption
<1>2. AllFit
  BY DEF Init, AllFit, Fits, NoTask
<1> QED BY <1>1, <1>2, InitInductive DEF ScoresInv

(* Every step keeps the scores.                                            *)
LEMMA NextScores == TournamentAssumption /\ ScoresInv /\ [Next]_vars => ScoresInv'
<1> SUFFICES ASSUME TournamentAssumption, ScoresInv, [Next]_vars PROVE ScoresInv'
  OBVIOUS
<1>0. IInv'
  BY NextInductive DEF ScoresInv
<1>a. ASSUME UNCHANGED <<file, winner, won>>,
             \A t \in Slot : task'[t] = task[t] \/ task'[t].phase \in {"none", "start"}
      PROVE  Scores' /\ AllFit'
  BY <1>a, ScoresFrame, StartFits DEF ScoresInv
<1>1. CASE HandleCast
  <2>1. UNCHANGED <<file, winner, won>>
    BY <1>1 DEF HandleCast
  <2>2. UNCHANGED task \/ \E q : ProcessCommand(q)
    BY <1>1 DEF HandleCast, Enqueue
  <2>3. AllFit'
    BY <1>a, <2>1, <2>2, ProcessCommandFits DEF ScoresInv, IInv
  <2> QED BY <1>0, <2>1, <2>3, ScoresFrame DEF ScoresInv
<1>2. CASE RunNext
  <2>1. UNCHANGED <<file, winner, won>> /\ ProcessCommand(queue)
    BY <1>2 DEF RunNext
  <2> QED BY <1>0, <2>1, ScoresFrame, ProcessCommandFits DEF ScoresInv, IInv
<1>3. ASSUME NEW p \in Resumer, ResumeStart(p) \/ ResumeEnd(p) PROVE ScoresInv'
  BY <1>0, <1>3, <1>a DEF ResumeStart, ResumeEnd, ScoresInv
<1>4. ASSUME NEW t \in Slot, TaskStep(t) PROVE ScoresInv'
  <2>1. CASE TaskDone(t)
    <3>1. t \in Active /\ Goes(t, NoTask) /\ UNCHANGED <<file, winner, won>>
      BY <2>1 DEF TaskDone, Active
    <3>2. Fits(NoTask, file', winner')
      BY DEF Fits, NoTask
    <3> QED BY <1>0, <3>1, <3>2, GoesFits, ScoresFrame DEF ScoresInv
  <2> QED BY <1>0, <1>4, <2>1, RunScores, PlayScores, ReportScoresScores, UploadScores,
             SaveUploadedScores, DownloadScores DEF TaskStep, ScoresInv
<1>5. ASSUME NEW t \in Slot, TaskDies(t) PROVE ScoresInv'
  <2>1. t \in Active /\ Goes(t, NoTask) /\ UNCHANGED <<file, winner, won>>
    BY <1>5 DEF TaskDies, Active
  <2>2. Fits(NoTask, file', winner')
    BY DEF Fits, NoTask
  <2> QED BY <1>0, <2>1, <2>2, GoesFits, ScoresFrame DEF ScoresInv
<1>6. CASE UserResumes \/ UserPauses
  BY <1>0, <1>6, <1>a DEF UserResumes, UserPauses, ScoresInv
<1>7. CASE Restart
  <2>1. UNCHANGED <<file, winner, won>> /\ \A t \in Slot : task'[t].phase = "none"
    BY <1>7 DEF Restart, NoTask
  <2> QED BY <1>0, <2>1, <1>a DEF ScoresInv
<1>8. CASE UNCHANGED vars
  BY <1>0, <1>8, <1>a DEF vars, ScoresInv
<1> QED BY <1>1, <1>2, <1>3, <1>4, <1>5, <1>6, <1>7, <1>8 DEF Next, Progress

(* Every reachable state has the scores right.                             *)
LEMMA ScoresInductive == Spec => []ScoresInv
<1>1. TournamentAssumption /\ Init => ScoresInv
  BY InitScores
<1>2. TournamentAssumption /\ ScoresInv /\ [Next]_vars => ScoresInv'
  BY NextScores
<1> QED BY <1>1, <1>2, TournamentAssumption, PTL DEF Spec

(* No score that report_scores has saved is lost, whichever posts or       *)
(* answers are, whenever the task dies or the application restarts; and    *)
(* Challonge never has another score than the one of the match played.     *)
THEOREM Kept == Spec => []ResultKept
<1>1. ScoresInv => ResultKept
  BY DEF ScoresInv, Scores
<1> QED BY <1>1, ScoresInductive, PTL

(* run plays no match that has a result in state.bin or on Challonge.      *)
THEOREM PlayedOnce == Spec => []NotReplayed
<1>1. ScoresInv => NotReplayed
  <2> SUFFICES ASSUME ScoresInv, NEW t \in Active, task[t].phase = "play"
               PROVE  /\ ~Decided(task[t].match)
                      /\ \A r \in file.completed : r[1] # task[t].match
    BY DEF NotReplayed
  <2>1. task[t].match \in file.remaining
    BY DEF ScoresInv, AllFit, Fits, Active
  <2>2. task[t].match \in Match /\ won[task[t].match] = "none"
    BY <2>1 DEF ScoresInv, Scores
  <2>3. ~Decided(task[t].match)
    BY <2>2 DEF ScoresInv, Scores, ResultKept, Decided
  <2>4. \A r \in file.completed : r[2] \in Score /\ r[2] = won[r[1]]
    BY DEF ScoresInv, Scores, Result
  <2> QED BY <2>2, <2>3, <2>4 DEF Score
<1> QED BY <1>1, ScoresInductive, PTL

-----------------------------------------------------------------------------
(* "No more matches".  While the last synchronisation did not fail, a file *)
(* without remaining matches before the last one is decided is that of a   *)
(* task about to synchronise it, or of a queue that a restart or the       *)
(* task's death has halted just then: it never plays on, and never says so *)
(* either.                                                                 *)

Syncing == \E t \in Slot : task[t].phase \in {"upload", "save", "download"}

(* Nothing will run the queue.                                             *)
Dead == running /\ Active = {} /\ Told(mailbox) = {} /\ resume["queue"] = "idle"

(* Nothing is queued, and nothing to queue it is on its way.               *)
Stopped ==
  /\ Active = {} /\ ~running /\ queue = <<>>
  /\ resume["queue"] = "idle" /\ resume["user"] \in {"idle", "start"}
  /\ \A i \in 1..Len(mailbox) : mailbox[i] = "clear"

Halted == Dead \/ Stopped

Remains == file.remaining # {} \/ AllDecided \/ Syncing \/ Halted \/ "sync" \in trouble

RemainsInv == ScoresInv /\ Remains

(* A match with the least number of those to be decided can be played.     *)
LEMMA SomePlayable ==
  ASSUME TournamentAssumption, \A m \in Match : \A n \in Needs[m] : n < m, ~AllDecided
  PROVE  Playable # {}
<1> DEFINE S == {m \in Match : ~Decided(m)}
<1>1. S \subseteq Nat /\ S # {}
  BY DEF TournamentAssumption, AllDecided
<1>2. \A x, y \in Nat : <<x, y>> \in OpToRel(<, Nat) <=> x < y
  BY Zenon DEF OpToRel
<1>3. PICK m \in S : \A n \in S : ~ (<<n, m>> \in OpToRel(<, Nat))
  BY <1>1, NatLessThanWellFounded, WFMin
<1>4. \A n \in Needs[m] : n \in Match /\ n < m
  BY DEF TournamentAssumption
<1>5. \A n \in Needs[m] : Decided(n)
  BY <1>1, <1>2, <1>3, <1>4
<1> QED BY <1>5 DEF Playable

(* A step of the only task t.                                              *)
LEMMA OnlyTask ==
  ASSUME IInv, NEW t \in Active
  PROVE  /\ \A u \in Slot : u # t => task[u].phase = "none"
         /\ ~Halted
         /\ Syncing => task[t].phase \in {"upload", "save", "download"}
         /\ \A x : Goes(t, x) => task' = [u \in Slot |-> IF u = t THEN x ELSE task[u]]
<1>1. \A u \in Slot : u # t => task[u].phase = "none"
  BY DEF IInv, Token, Active
<1>2. ~Halted
  BY DEF Halted, Dead, Stopped
<1>3. ASSUME NEW x, Goes(t, x)
      PROVE  task' = [u \in Slot |-> IF u = t THEN x ELSE task[u]]
  BY <1>3 DEF IInv, Shape, Goes, Active
<1>4. Syncing => task[t].phase \in {"upload", "save", "download"}
  BY <1>1 DEF Syncing
<1> QED BY <1>1, <1>2, <1>3, <1>4

LEMMA RemainsFrame ==
  ASSUME Remains, UNCHANGED <<file, winner>>, trouble \subseteq trouble',
         Syncing => Syncing', Halted => Halted'
  PROVE  Remains'
<1>1. AllDecided => AllDecided'
  BY DEF AllDecided, Decided
<1> QED BY <1>1 DEF Remains

(* Messages to the queue.                                                  *)
LEMMA HandleCastRemains == ASSUME RemainsInv, HandleCast PROVE Remains'
<1> DEFINE m == Head(mailbox)
<1>1. /\ mailbox # <<>> /\ mailbox' = Tail(mailbox) /\ mailbox \in Seq(Message)
      /\ resume["queue"] = "idle" /\ UNCHANGED <<file, winner, trouble>> /\ IInv
  BY DEF HandleCast, RemainsInv, ScoresInv, IInv, Shape
<1>2. /\ 1 \in 1..Len(mailbox) /\ m = mailbox[1]
      /\ \A i \in 1..Len(Tail(mailbox)) : i + 1 \in 1..Len(mailbox) /\ Tail(mailbox)[i] = mailbox[i + 1]
  BY <1>1
<1>3. ASSUME running, Told(mailbox) = {}
      PROVE  UNCHANGED <<task, running, resume>> /\ Told(mailbox') = {}
  <2>1. m # "process_command"
    BY <1>2, <1>3 DEF Told
  <2> QED BY <1>1, <1>3, <2>1, ToldTail DEF HandleCast, Enqueue
<1>4. ASSUME Syncing PROVE Syncing'
  <2>1. Active # {} /\ running /\ Told(mailbox) = {}
    BY <1>1, <1>4 DEF Syncing, Active, IInv, Token
  <2> QED BY <1>3, <1>4, <2>1 DEF Syncing
<1>5. ASSUME Dead PROVE Dead'
  BY <1>3, <1>5 DEF Dead, Active
<1>6. ASSUME Stopped PROVE Stopped'
  <2>1. m = "clear"
    BY <1>2, <1>6 DEF Stopped
  <2>2. queue' = <<>> /\ UNCHANGED <<running, resume, task>>
    BY <2>1 DEF HandleCast, Command
  <2>3. \A i \in 1..Len(mailbox') : mailbox'[i] = "clear"
    BY <1>1, <1>2, <1>6 DEF Stopped
  <2> QED BY <1>6, <2>2, <2>3 DEF Stopped, Active
<1> QED BY <1>1, <1>4, <1>5, <1>6, RemainsFrame DEF RemainsInv, Halted

(* Match1v1.resume: a user's, when nothing runs the queue, finds no match, *)
(* or queues it in vain.                                                   *)
LEMMA ResumeRemains ==
  ASSUME RemainsInv, NEW p \in Resumer, ResumeStart(p) \/ ResumeEnd(p)
  PROVE  Remains'
<1>1. UNCHANGED <<queue, running, task, file, winner, trouble>> /\ Shape
  BY DEF ResumeStart, ResumeEnd, RemainsInv, ScoresInv, IInv
<1>2. Syncing => Syncing'
  BY <1>1 DEF Syncing
<1>3. ASSUME Dead PROVE Dead'
  <2>1. p = "user" /\ \E to : resume' = [resume EXCEPT !["user"] = to]
    BY <1>3 DEF ResumeStart, ResumeEnd, Dead, Resumer
  <2>2. resume'["queue"] = resume["queue"]
    BY <1>1, <2>1 DEF Shape, Resumer
  <2>3. PICK x \in Command : mailbox' = mailbox \/ mailbox' = Append(mailbox, x)
    BY DEF ResumeStart, ResumeEnd, Command
  <2>4. x \in Message /\ x # "process_command" /\ mailbox \in Seq(Message)
    BY <1>1 DEF Command, Message, Shape
  <2>5. Told(mailbox') = Told(mailbox)
    BY <2>3, <2>4, ToldAppend
  <2> QED BY <1>1, <1>3, <2>2, <2>5 DEF Dead, Active
<1>4. CASE Stopped /\ file.remaining = {}
  <2>1. p = "user" /\ ResumeStart(p)
    BY <1>4 DEF ResumeStart, ResumeEnd, Stopped, Resumer
  <2>2. resume' = [resume EXCEPT !["user"] = "idle"] /\ UNCHANGED mailbox
    BY <1>4, <2>1 DEF ResumeStart, Returned
  <2>3. resume'["user"] = "idle" /\ resume'["queue"] = resume["queue"]
    BY <1>1, <2>2 DEF Shape, Resumer
  <2>4. Stopped'
    BY <1>1, <1>4, <2>2, <2>3 DEF Stopped, Active
  <2> QED BY <2>4 DEF Remains, Halted
<1>5. CASE ~Stopped
  BY <1>1, <1>2, <1>3, <1>5, RemainsFrame DEF RemainsInv, Halted
<1>6. CASE file.remaining # {}
  BY <1>1, <1>6 DEF Remains
<1> QED BY <1>4, <1>5, <1>6

(* Steps of the task.                                                      *)
LEMMA TaskRemains ==
  ASSUME RemainsInv, TournamentAssumption,
         \A m \in Match : \A n \in Needs[m] : n < m, NEW t \in Slot, TaskStep(t) \/ TaskDies(t)
  PROVE  Remains'
<1>1. IInv /\ Remains /\ t \in Active
  BY DEF RemainsInv, ScoresInv, TaskStep, TaskDies, Run, Play, ReportScores, Upload,
         SaveUploaded, Download, TaskDone, Active
<1>2. \A x : Goes(t, x) => task'[t] = x
  BY <1>1, OnlyTask
<1>3. ASSUME NEW x, Goes(t, x), x.phase \in {"upload", "save", "download"} PROVE Remains'
  BY <1>2, <1>3 DEF Remains, Syncing
<1>4. ASSUME task[t].phase \in {"start", "play", "done"}, UNCHANGED <<file, winner>>,
             trouble \subseteq trouble'
      PROVE  Remains'
  <2>1. ~Syncing /\ ~Halted
    BY <1>1, <1>4, OnlyTask
  <2> QED BY <1>1, <1>4, <2>1, RemainsFrame
<1>5. CASE Run(t) \/ Play(t) \/ TaskDone(t)
  BY <1>4, <1>5 DEF Run, Play, TaskDone
<1>6. CASE ReportScores(t) \/ Upload(t)
  BY <1>3, <1>6 DEF ReportScores, Upload
<1>7. CASE SaveUploaded(t)
  BY <1>3, <1>7 DEF SaveUploaded, Remains
<1>8. CASE Download(t)
  <2>1. CASE "sync" \in trouble'
    BY <2>1 DEF Remains
  <2>2. CASE file' = [file EXCEPT !.remaining = Playable] /\ UNCHANGED winner
    <3>1. file \in [remaining : SUBSET Match, completed : SUBSET Result]
      BY DEF RemainsInv, ScoresInv, Scores
    <3>2. file'.remaining = Playable
      BY <2>2, <3>1
    <3>3. Playable # {} \/ AllDecided'
      BY <2>2, SomePlayable DEF AllDecided, Decided
    <3> QED BY <3>2, <3>3 DEF Remains
  <2> QED BY <1>8, <2>1, <2>2 DEF Download
<1>9. CASE TaskDies(t)
  <2>1. Goes(t, NoTask) /\ UNCHANGED server
    BY <1>9 DEF TaskDies
  <2>2. Active' = {}
    BY <1>1, <2>1, GoesOut DEF IInv, Token
  <2>3. Dead'
    BY <1>1, <2>1, <2>2 DEF Dead, IInv, Token, server, Told
  <2> QED BY <2>3 DEF Remains, Halted
<1> QED BY <1>5, <1>6, <1>7, <1>8, <1>9 DEF TaskStep

(* The user and the power switch.                                          *)
LEMMA UserRemains ==
  ASSUME RemainsInv, UserResumes \/ UserPauses \/ Restart
  PROVE  Remains'
<1>0. Shape /\ Remains
  BY DEF RemainsInv, ScoresInv, IInv
<1>1. CASE UserResumes
  <2>1. resume'["user"] = "start" /\ resume'["queue"] = resume["queue"]
    BY <1>0, <1>1 DEF UserResumes, Shape, Resumer
  <2>2. UNCHANGED <<mailbox, queue, running, task, file, winner, trouble>>
    BY <1>1 DEF UserResumes
  <2>3. (Halted => Halted') /\ (Syncing => Syncing')
    BY <2>1, <2>2 DEF Halted, Dead, Stopped, Syncing, Active, Told
  <2> QED BY <1>0, <2>2, <2>3, RemainsFrame
<1>2. CASE UserPauses
  <2>1. /\ mailbox' = Append(mailbox, "clear") /\ mailbox \in Seq(Message)
        /\ UNCHANGED <<queue, running, resume, task, file, winner>>
        /\ trouble \subseteq trouble'
    BY <1>0, <1>2 DEF UserPauses, Shape
  <2>2. \A i \in 1..Len(mailbox') :
          \/ i \in 1..Len(mailbox) /\ mailbox'[i] = mailbox[i]
          \/ mailbox'[i] = "clear"
    BY <2>1
  <2>3. Told(mailbox') = Told(mailbox)
    BY <2>1, ToldAppend DEF Message
  <2>4. (Halted => Halted') /\ (Syncing => Syncing')
    BY <2>1, <2>2, <2>3 DEF Halted, Dead, Stopped, Syncing, Active
  <2> QED BY <1>0, <2>1, <2>4, RemainsFrame
<1>3. CASE Restart
  <2>1. /\ mailbox' = <<>> /\ queue' = <<>> /\ running' = FALSE
        /\ resume' = [p \in Resumer |-> "idle"] /\ task' = [t \in Slot |-> NoTask]
    BY <1>3 DEF Restart
  <2>2. Active' = {}
    BY <2>1 DEF Active, NoTask
  <2>3. resume'["queue"] = "idle" /\ resume'["user"] = "idle"
    BY <2>1 DEF Resumer
  <2>4. Stopped'
    BY <2>1, <2>2, <2>3 DEF Stopped
  <2> QED BY <2>4 DEF Remains, Halted
<1> QED BY <1>1, <1>2, <1>3

LEMMA InitRemains ==
  ASSUME TournamentAssumption, Init
  PROVE  RemainsInv
<1>1. Active = {} /\ resume["queue"] = "idle" /\ resume["user"] = "idle"
  BY DEF Init, Active, NoTask, Resumer
<1>2. Stopped
  BY <1>1 DEF Init, Stopped
<1> QED BY <1>2, InitScores DEF RemainsInv, Remains, Halted

(* When the queue's own resume finds no match to play next and says that   *)
(* there are no more (match_1v1.ex), every match is decided, or the last   *)
(* synchronisation failed, whatever requests fail, matches are skipped,    *)
(* tasks die and the user pauses or restarts - as long as the matches are  *)
(* numbered in an order they can be played in.                             *)
THEOREM EndIsTheEnd ==
  ASSUME \A m \in Match : \A n \in Needs[m] : n < m
  PROVE  Spec => []NoMoreMatches
<1>1. TournamentAssumption /\ Init => RemainsInv
  BY InitRemains
<1>2. ASSUME TournamentAssumption, RemainsInv, [Next]_vars PROVE RemainsInv'
  <2>1. ScoresInv'
    BY <1>2, NextScores DEF RemainsInv
  <2>2. CASE RunNext
    <3>1. UNCHANGED <<file, winner, trouble>> /\ resume["queue"] = "returned"
      BY <2>2 DEF RunNext
    <3>2. ~Syncing /\ ~Halted
      BY <1>2, <3>1 DEF Syncing, Halted, Dead, Stopped, RemainsInv, ScoresInv, IInv, Token, Active
    <3> QED BY <1>2, <2>1, <3>1, <3>2, RemainsFrame DEF RemainsInv
  <2>3. CASE UNCHANGED vars
    <3>1. (Syncing => Syncing') /\ (Halted => Halted')
      BY <2>3 DEF vars, Syncing, Halted, Dead, Stopped, Active, Told
    <3> QED BY <1>2, <2>1, <2>3, <3>1, RemainsFrame DEF vars, RemainsInv
  <2> QED BY <1>2, <2>1, <2>2, <2>3, HandleCastRemains, ResumeRemains, TaskRemains,
             UserRemains DEF Next, Progress, RemainsInv
<1>3. ASSUME RemainsInv PROVE NoMoreMatches
  <2> SUFFICES ASSUME resume["queue"] = "start", file.remaining = {}, "sync" \notin trouble
               PROVE  AllDecided
    BY DEF NoMoreMatches
  <2>1. ~Syncing /\ ~Halted
    BY <1>3 DEF Syncing, Halted, Dead, Stopped, RemainsInv, ScoresInv, IInv, Token, Active
  <2> QED BY <1>3, <2>1 DEF RemainsInv, Remains
<1> QED BY <1>1, <1>2, <1>3, TournamentAssumption, PTL DEF Spec

=============================================================================
