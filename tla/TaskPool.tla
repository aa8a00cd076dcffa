------------------------------ MODULE TaskPool ------------------------------
(***************************************************************************)
(* What a pool of worker threads promises to the code that hands it tasks, *)
(* with nothing of how it keeps the promise: a bounded queue of pending    *)
(* tasks, started in the order they were submitted and by at most          *)
(* MaxRunning threads at a time, each of them started once and finished    *)
(* once, and none of them lost as long as the pool is open.                *)
(***************************************************************************)
EXTENDS Naturals, Sequences, FiniteSets

CONSTANTS Tasks,        \* what can be submitted
          Capacity,     \* the most tasks that wait at a time
          MaxRunning    \* the most tasks that run at a time

VARIABLES pending,      \* submitted and not started, oldest first
          running,      \* started and not finished
          finished,     \* finished
          open          \* nobody has asked the pool to stop

vars == <<pending, running, finished, open>>

InPending == {pending[i] : i \in 1..Len(pending)}

Init ==
    /\ pending = << >>
    /\ running = {}
    /\ finished = {}
    /\ open = TRUE

Submit(t) ==
    /\ open
    /\ t \notin InPending \union running \union finished
    /\ Len(pending) < Capacity
    /\ pending' = Append(pending, t)
    /\ UNCHANGED <<running, finished, open>>

Start ==
    /\ open
    /\ pending # << >>
    /\ Cardinality(running) < MaxRunning
    /\ running' = running \union {Head(pending)}
    /\ pending' = Tail(pending)
    /\ UNCHANGED <<finished, open>>

Finish(t) ==
    /\ t \in running
    /\ running' = running \ {t}
    /\ finished' = finished \union {t}
    /\ UNCHANGED <<pending, open>>

Close ==
    /\ open
    /\ open' = FALSE
    /\ UNCHANGED <<pending, running, finished>>

Next ==
    \/ Start
    \/ Close
    \/ \E t \in Tasks : Submit(t) \/ Finish(t)

Spec == Init /\ [][Next]_vars
=============================================================================
