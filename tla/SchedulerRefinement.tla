------------------------- MODULE SchedulerRefinement -------------------------
(***************************************************************************)
(* The scheduler implements TaskQueue, but for the calls whose purpose is  *)
(* to break the order of arrival (CutsIn), and for clients that reject     *)
(* with a reason.  A task that was shifted off the stack and whose handler *)
(* has not been called yet is still first in the queue: Ahead.             *)
(***************************************************************************)
EXTENDS Scheduler

resultBar ==
  [t \in Task |->
     CASE sched.task[t] = "fulfilled"            -> "success"
       [] sched.task[t] \in {"failed", "dropped"} -> "failure"
       [] sched.task[t] \notin Settled            -> "none"]

Q == INSTANCE TaskQueue WITH
       Arrival <- Batch \cup {<<t>> : t \in Task},
       strict  <- sched.strict,
       waiting <- Ahead(sched),
       active  <- {t \in Task : sched.task[t] = "executing"},
       result  <- resultBar

\* `unshift` and `end` are not calls of a queue: they put tasks in front of
\* those that wait, or reject them all.
CutsIn ==
  \/ \E t \in Task : CallUnshift(t)
  \/ \E ts \in Batch : CallUnshiftAll(ts)
  \/ CallEnd

(* First in, first out, one at a time: between the calls that cut in, and  *)
(* whatever the interleaving of the others with the deferred callbacks,    *)
(* handlers start in the order of the queue, one after the other.          *)
ImplementsTaskQueue == Q!Init /\ [][Q!Next \/ CutsIn]_Q!qvars
=============================================================================
