----------------------------- MODULE MCScheduler -----------------------------
(***************************************************************************)
(* Instances of Scheduler for TLC.                                         *)
(***************************************************************************)
EXTENDS SchedulerRefinement

CONSTANTS t1, t2, t3

MCTask == {t1, t2, t3}

\* An empty array, an array that leaves a task for single pushes, all tasks.
MCBatch == {<< >>, <<t1, t2>>, <<t1, t2, t3>>}

KindAny      == [strict : BOOLEAN, paused : BOOLEAN]
KindTolerant == [strict : {FALSE}, paused : BOOLEAN]
KindStrict   == [strict : {TRUE}, paused : BOOLEAN]
KindUnpaused == [strict : BOOLEAN, paused : {FALSE}]
=============================================================================
