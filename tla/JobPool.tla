------------------------------- MODULE JobPool -------------------------------
(***************************************************************************)
(* What a client of the job queue may rely on, whatever the order, the     *)
(* prices and the number of workers: an accepted job waits, is run once    *)
(* and by nobody else meanwhile, and ends; none is lost.                   *)
(***************************************************************************)
CONSTANT Jobs

VARIABLES waiting, running, done

vars == <<waiting, running, done>>

Init == waiting = {} /\ running = {} /\ done = {}

Submit(j) ==
  /\ j \notin waiting \cup running \cup done
  /\ waiting' = waiting \cup {j}
  /\ UNCHANGED <<running, done>>

Start(j) ==
  /\ j \in waiting
  /\ waiting' = waiting \ {j}
  /\ running' = running \cup {j}
  /\ UNCHANGED done

End(j) ==
  /\ j \in running
  /\ running' = running \ {j}
  /\ done' = done \cup {j}
  /\ UNCHANGED waiting

Next == \E j \in Jobs : Submit(j) \/ Start(j) \/ End(j)

(* A waiting job is not passed over for ever, and a running one ends. *)
Fairness == \A j \in Jobs : SF_vars(Start(j)) /\ WF_vars(End(j))

Safety == Init /\ [][Next]_vars

Spec == Safety /\ Fairness
=============================================================================
