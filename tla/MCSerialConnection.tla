------------------------- MODULE MCSerialConnection -------------------------
(* Model checking of SerialConnection, with a history of what its matching *)
(* of answers to requests cannot cope with.                                *)
EXTENDS SerialConnection, SequencesExt

CONSTANTS c1, c2    \* callers

VARIABLE
  crossed    \* a timeout has met an answer or a frame that was under way

history == <<vars, crossed>>

(* The answer to request n has not reached the connection yet.             *)
Underway(n) ==
  \/ n \in Range(device)
  \/ \E i \in 1..2 : Pieces(n)[i] \in Range(wire) \cup Range(mailbox)

(* A timer runs out before the answer is there, a timeout cuts a frame in  *)
(* two, or a new connection meets an answer to the last.                   *)
Crosses ==
  \/ TimerFires /\ Underway(timer)
  \/ buffer # Nothing /\ \E n \in Request : HandleTimeout(n)
  \/ Open /\ device # <<>>

MCInit == Init /\ crossed = FALSE

MCNext == Next /\ crossed' = (crossed \/ Crosses)

MCSpec == MCInit /\ [][MCNext]_history /\ Fairness

(* A caller that gets an answer gets the answer to its own command.        *)
(* Responses are matched by there being one request pending at a time, so  *)
(* this needs a firmware that answers before the timeout or not at all,    *)
(* and no frame that the timeout's emptying of rx_buffer cuts in two.      *)
OwnAnswer == ~crossed => \A a \in answered : a[1] = a[2]

=============================================================================
