-------------------------- MODULE ReconnectBudget --------------------------
(***************************************************************************)
(* What reconnect_manager.c promises its user: a reconnection session has  *)
(* a budget of attempts and counts them one by one, a further attempt is   *)
(* only made after a wait, and a failure ends the session when the budget  *)
(* is spent.  BtHid implements this specification (see BtHid!Budget).      *)
(***************************************************************************)
EXTENDS Naturals

CONSTANT Budgets    \* the max_attempts values of the policies in use

VARIABLES
  phase,     \* "off", "trying" or "waiting" for the retry timer
  tries,     \* attempts made by the session
  budget     \* attempts the session may make

vars == <<phase, tries, budget>>

(* What one failed attempt leads to: the wait for the next one, or the end *)
(* of the session when the budget is spent.                                *)
AfterFailure(n, max) == IF n >= max THEN "off" ELSE "waiting"

(* The board is idle after a restart, or begins a session at once.         *)
Init == \/ /\ phase = "off"
           /\ tries = 0
           /\ budget = 0
        \/ /\ budget \in Budgets
           /\ tries = 1
           /\ phase \in {"trying", AfterFailure(1, budget)}

(* A new session replaces whatever session there was.  Its first attempt   *)
(* may fail on the spot.                                                   *)
Start == /\ budget' \in Budgets
         /\ tries' = 1
         /\ phase' \in {"trying", AfterFailure(1, budget')}

(* The attempt under way fails.  An attempt consists of two channels, so   *)
(* a second failure may be reported when the session already waits.        *)
Fail == /\ phase \in {"trying", "waiting"}
        /\ phase' = AfterFailure(tries, budget)
        /\ UNCHANGED <<tries, budget>>

(* The retry timer fires: the next attempt, which may fail on the spot.    *)
Retry == /\ phase = "waiting"
         /\ tries' = tries + 1
         /\ phase' \in {"trying", AfterFailure(tries + 1, budget)}
         /\ UNCHANGED budget

(* The session ends because it succeeded or because it was called off.     *)
End == /\ phase # "off"
       /\ phase' = "off"
       /\ UNCHANGED <<tries, budget>>

(* The board restarts.                                                     *)
Restart == Init'

Next == Start \/ Fail \/ Retry \/ End \/ Restart

Spec == Init /\ [][Next]_vars

=============================================================================
