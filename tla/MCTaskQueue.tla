---------------------------- MODULE MCTaskQueue ----------------------------
(* Instances of TaskQueue for TLC.                                           *)
EXTENDS TaskQueue, TLC

\* Messages for regular tasks, as of greg and the hr-import.
NowOnly == {<<"", "due">>}

\* Employees may have a start date: a message about a change to come gets a task
\* in the sub-queue "nbf".  Assignments put their employees in "", also for later.
NowOrLater == {<<"", "due">>, <<"", "later">>}
NowAndDelayed == {<<"", "due">>, <<"nbf", "later">>}

Symmetry == Permutations(Consumers)
=============================================================================
