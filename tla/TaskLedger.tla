----------------------------- MODULE TaskLedger -----------------------------
(* What the task queue promises for one key, without its rows, messages and  *)
(* processes: a change is announced, then queued, and in the end settled,    *)
(* and goes back to none of these before the next change.  Imports may be    *)
(* of an earlier state of the data, but not of one before the last import.   *)
EXTENDS Naturals

VARIABLES
    changes,    \* changes so far
    imported,   \* the last one that was imported
    dropped,    \* the last one whose task was dropped
    stage       \* where the last one is

vars == <<changes, imported, dropped, stage>>

Stages == {"announced", "queued", "settled"}

Init ==
    /\ changes = 0 /\ imported = 0 /\ dropped = 0
    /\ stage = "settled"

\* A task that is queued already will do for the change, too.
Announce ==
    /\ changes' = changes + 1
    /\ stage' \in {"announced", "queued"}
    /\ UNCHANGED <<imported, dropped>>

Queue ==
    /\ stage = "announced"
    /\ stage' = "queued"
    /\ UNCHANGED <<changes, imported, dropped>>

\* An import that has not seen the last change settles nothing, but may leave a task
\* for later.
Import ==
    /\ imported' \in imported + 1 .. changes
    /\ IF imported' = changes THEN stage' = "settled"
       ELSE stage' = stage \/ (stage = "announced" /\ stage' = "queued")
    /\ UNCHANGED <<changes, dropped>>

\* A crash, or the operator.
Drop ==
    /\ dropped' = changes
    /\ stage' = "settled"
    /\ UNCHANGED <<changes, imported>>

Next == Announce \/ Queue \/ Import \/ Drop

Spec == Init /\ [][Next]_vars
=============================================================================
