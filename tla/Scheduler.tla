------------------------------ MODULE Scheduler ------------------------------
(***************************************************************************)
(* One scheduler, its clients and the event loop.                          *)
(*                                                                         *)
(* A client (user code, a handler that is running, session.js) calls       *)
(* a method at any time between two callbacks of the event loop; Node runs *)
(* each of them, and each callback, to completion.  The callbacks that     *)
(* setImmediate defers are called in the order they were registered.       *)
(***************************************************************************)
EXTENDS SchedulerOps

CONSTANTS
  Batch,     \* the arrays of handlers clients may push, unshift or start with
  Method,    \* the methods the clients of this instance call
  Falsy,     \* BOOLEAN: may a handler reject with a falsy reason?
  Kind       \* the options {strict, paused} the scheduler is created with

AllMethods == {"push", "unshift", "pause", "resume", "end"}

ASSUME SchedulerAssumption ==
  /\ \A ts \in Batch : ts \in Seq(Task) /\ IsSimple(ts)
  /\ Method \subseteq AllMethods
  /\ Falsy \in BOOLEAN
  /\ Kind \subseteq [strict : BOOLEAN, paused : BOOLEAN]

VARIABLES
  sched,     \* the scheduler
  started    \* history: the tasks whose handler was called, in that order

vars == <<sched, started>>

TypeOK ==
  /\ sched \in Scheduler
  /\ started \in Seq(Task)

Init ==
  /\ \E kind \in Kind :
       \/ sched = Create(kind.strict, kind.paused)
       \/ \E ts \in Batch : sched = CreateWith(ts, kind.strict, kind.paused)
  /\ started = << >>

-----------------------------------------------------------------------------
(* Calls of the clients.  A handler is a fresh closure: it is given once.  *)

Fresh(ts) == \A t \in Range(ts) : sched.task[t] = "idle"

CallPush(t, out) ==
  /\ "push" \in Method
  /\ Fresh(<<t>>)
  /\ sched' = Push(sched, t, out)
  /\ UNCHANGED started

CallPushAll(ts, out) ==
  /\ "push" \in Method
  /\ Fresh(ts)
  /\ sched' = PushAll(sched, ts, out)
  /\ UNCHANGED started

CallUnshift(t) ==
  /\ "unshift" \in Method
  /\ Fresh(<<t>>)
  /\ sched' = Unshift(sched, t)
  /\ UNCHANGED started

CallUnshiftAll(ts) ==
  /\ "unshift" \in Method
  /\ Fresh(ts)
  /\ sched' = UnshiftAll(sched, ts)
  /\ UNCHANGED started

CallPause ==
  /\ "pause" \in Method
  /\ sched' = Pause(sched)
  /\ UNCHANGED started

CallResume ==
  /\ "resume" \in Method
  /\ sched' = Resume(sched)
  /\ UNCHANGED started

\* session.js ends a scheduler itself when its action fails.
CallEnd ==
  /\ "end" \in Method
  /\ sched' = EndError(sched)
  /\ UNCHANGED started

-----------------------------------------------------------------------------
(* Callbacks of the event loop.                                            *)

NextCallback(kind) == sched.loop # << >> /\ Head(sched.loop) = kind

RunTask(t) ==
  /\ NextCallback("run")
  /\ sched.task[t] = "taken"
  /\ sched' = CallHandler(sched, t)
  /\ started' = Append(started, t)

RunPump ==
  /\ NextCallback("pump")
  /\ sched' = PumpCallback(sched)
  /\ UNCHANGED started

Fulfil(t) ==
  /\ sched.task[t] = "executing"
  /\ sched' = HandlerFulfilled(sched, t)
  /\ UNCHANGED started

Fail(t, falsy) ==
  /\ sched.task[t] = "executing"
  /\ falsy => Falsy
  /\ sched' = HandlerRejected(sched, t, falsy)
  /\ UNCHANGED started

ClientCall ==
  \/ \E t \in Task, out \in BOOLEAN : CallPush(t, out)
  \/ \E ts \in Batch, out \in BOOLEAN : CallPushAll(ts, out)
  \/ \E t \in Task : CallUnshift(t)
  \/ \E ts \in Batch : CallUnshiftAll(ts)
  \/ CallPause
  \/ CallResume
  \/ CallEnd

Immediate == (\E t \in Task : RunTask(t)) \/ RunPump

HandlerOver == \E t \in Task : Fulfil(t) \/ \E falsy \in BOOLEAN : Fail(t, falsy)

Next == ClientCall \/ Immediate \/ HandlerOver

Spec == Init /\ [][Next]_vars

(***************************************************************************)
(* Node calls every deferred callback.  That handlers end is an assumption *)
(* on the clients, and so is a paused scheduler being resumed.             *)
(***************************************************************************)
FairSpec == Spec /\ WF_vars(Immediate) /\ WF_vars(HandlerOver)

ResumingSpec == FairSpec /\ WF_vars(sched.paused /\ CallResume)

-----------------------------------------------------------------------------
(***************************************************************************)
(* Properties.                                                             *)
(***************************************************************************)

(* One handler at a time: the tasks that were shifted and are not over are *)
(* at most one, and `running` tells exactly whether there is one.  Every   *)
(* guard against concurrent actions in Nikita is this flag.                *)
OneAtATime == Serial(sched)

(* No task is lost or run twice: the stack holds exactly the tasks whose   *)
(* promise awaits their turn, each once.                                   *)
StackIsWaiting == StackHoldsWaiting(sched)

(* A callback is deferred iff the flags call for it: `run` after a task    *)
(* was taken, none while a handler executes (its completion is what defers *)
(* the next pump), and pumps never pile up.                                *)
LoopAgrees == LoopFollows(sched)

(* No lost wake-up: when a task waits in a scheduler that is neither       *)
(* paused nor busy, a pump is deferred.  `push` pumps only once and        *)
(* a completed task hands over to the next one with setImmediate, with     *)
(* client calls in between.                                                *)
NoLostWakeup == Awake(sched)

(* The promise of the scheduler is fulfilled by a pump that finds nothing  *)
(* left: at that instant every task handed over so far is settled.         *)
FulfilledWhenDrained ==
  [][(sched.outcome = "pending" /\ sched'.outcome = "fulfilled")
       => \A t \in Task : sched.task[t] \in {"idle"} \cup Settled]_vars

(* What a strict scheduler does on a failure: whatever was waiting is      *)
(* rejected in the same step, so that it will never start.                 *)
StrictFailureDrops ==
  [][(sched.strict
        /\ \E t \in Task : sched.task[t] = "executing" /\ sched'.task[t] = "failed")
       => /\ \A t \in Waiting(sched) : sched'.task[t] = "dropped"
          /\ sched'.stack = << >>]_vars

Listed == {t \in sched.collect : sched.task[t] = "fulfilled"}

(* The output of a scheduler lists the results of the tasks that asked for *)
(* it and succeeded, each once, in the order their handlers were called.   *)
OutputInOrder ==
  /\ IsSimple(sched.output)
  /\ Range(sched.output) = Listed
  /\ \A i, j \in 1..Len(sched.output), k, l \in 1..Len(started) :
       (i < j /\ sched.output[i] = started[k] /\ sched.output[j] = started[l]) => k < l

(* Every task given to a scheduler is settled in the end.                  *)
EveryTaskSettles ==
  \A t \in Task : sched.task[t] = "queued" ~> sched.task[t] \in Settled

(* Once a scheduler had anything to do or was resumed, its promise         *)
(* settles.  session.js awaits it after every handler.                     *)
PromiseSettles ==
  (sched.loop # << >> \/ sched.running) ~> sched.outcome # "pending"
=============================================================================
