---------------------------- MODULE SchedulerOps ----------------------------
(***************************************************************************)
(* The task scheduler of packages/core/lib/schedulers/index.js, one        *)
(* operator per method.  An operator maps a scheduler (a record) to the    *)
(* scheduler the synchronous part of the method leaves behind.  The module *)
(* has no variables: Scheduler runs one of these machines alone, Session   *)
(* runs two of them for every action.                                      *)
(*                                                                         *)
(* A task stands for the entry {handler, resolve, reject, options} put on  *)
(* the stack, for the promise `push` or `unshift` returned for it, and for *)
(* the value the handler returns.                                          *)
(***************************************************************************)
EXTENDS Integers, Sequences, Functions, SequencesExt

CONSTANT Task       \* every handler that may be given to a scheduler

(***************************************************************************)
(* Life of a task.  "idle": not given to the scheduler yet.  "queued": in  *)
(* the stack.  "taken": shifted off the stack, its setImmediate callback   *)
(* not called yet.  "executing": its handler was called, the promise it    *)
(* returned is pending.  "fulfilled" and "failed": the handler is over.    *)
(* "dropped": rejected by `end` while it was in the stack.                 *)
(***************************************************************************)
Status == {"idle", "queued", "taken", "executing",
           "fulfilled", "failed", "dropped"}
Settled == {"fulfilled", "failed", "dropped"}

Callback == {"run", "pump"}      \* what setImmediate was called with

Scheduler == [strict   : BOOLEAN,
              paused   : BOOLEAN,
              resolved : BOOLEAN,
              running  : BOOLEAN,
              stack    : Seq(Task),
              task     : [Task -> Status],
              collect  : SUBSET Task,        \* options.output is true
              output   : Seq(Task),
              outcome  : {"pending", "fulfilled", "rejected"},
              loop     : Seq(Callback)]      \* FIFO of pending immediates

(***************************************************************************)
(* end(err, output).  A promise settles once: a later resolve or reject    *)
(* has no effect on the outcome, whereas the stack is emptied on every     *)
(* error.                                                                  *)
(***************************************************************************)
EndOk(s) ==
  [s EXCEPT !.resolved = TRUE,
            !.outcome  = IF @ = "pending" THEN "fulfilled" ELSE @]

\* Faulty: rejects the first task of the stack only (`if` for `while`).
EndErrorDropsFirst(s) ==
  [s EXCEPT !.resolved = TRUE,
            !.outcome  = IF @ = "pending" THEN "rejected" ELSE @,
            !.stack    = IF @ = << >> THEN @ ELSE Tail(@),
            !.task     = [t \in Task |->
                            IF s.stack # << >> /\ t = Head(s.stack)
                            THEN "dropped" ELSE @[t]]]

EndError(s) ==
  [s EXCEPT !.resolved = TRUE,
            !.outcome  = IF @ = "pending" THEN "rejected" ELSE @,
            !.stack    = << >>,
            !.task     = [t \in Task |->
                            IF t \in Range(s.stack) THEN "dropped" ELSE @[t]]]

\* Last part of pump: shift the next item and defer the call of its handler.
Take(s) ==
  [s EXCEPT !.running = TRUE,
            !.stack   = Tail(@),
            !.task    = [@ EXCEPT ![Head(s.stack)] = "taken"],
            !.loop    = Append(@, "run")]

\* Faulty: does not return when the scheduler is running.
PumpWhileRunning(s) ==
  CASE s.stack # << >>                 -> Take(s)
    [] s.stack = << >> /\ ~s.resolved  -> EndOk(s)
    [] s.stack = << >> /\ s.resolved   -> s

\* Faulty: looks at the stack before it looks at `running`.
PumpEndsEarly(s) ==
  CASE s.stack = << >> /\ ~s.resolved  -> EndOk(s)
    [] s.stack = << >> /\ s.resolved   -> s
    [] s.stack # << >> /\ s.running    -> s
    [] s.stack # << >> /\ ~s.running   -> Take(s)

Pump(s) ==
  CASE s.running                                        -> s
    [] ~s.running /\ s.stack # << >>                    -> Take(s)
    [] ~s.running /\ s.stack = << >> /\ ~s.resolved     -> EndOk(s)
    [] ~s.running /\ s.stack = << >> /\ s.resolved      -> s

PumpUnlessPaused(s) == IF s.paused THEN s ELSE Pump(s)

Pause(s)  == [s EXCEPT !.paused = TRUE]
Resume(s) == Pump([s EXCEPT !.paused = FALSE])

(***************************************************************************)
(* push(handlers, options).  An array pushes its members one by one, with  *)
(* the same options; only the first of the pumps it makes can find the     *)
(* scheduler idle, so appending them all and pumping once is the same.  An *)
(* empty array does not pump.                                              *)
(***************************************************************************)
Enqueue(s, ts, out) ==
  [s EXCEPT !.task    = [t \in Task |->
                           IF t \in Range(ts) THEN "queued" ELSE @[t]],
            !.collect = IF out THEN @ \cup Range(ts) ELSE @]

\* Faulty: an array goes in front of what waits already.
PushAllInFront(s, ts, out) ==
  IF ts = << >>
  THEN s
  ELSE PumpUnlessPaused([Enqueue(s, ts, out) EXCEPT !.stack = ts \o @])

PushAll(s, ts, out) ==
  IF ts = << >>
  THEN s
  ELSE PumpUnlessPaused([Enqueue(s, ts, out) EXCEPT !.stack = @ \o ts])

Push(s, t, out) == PushAll(s, <<t>>, out)

(***************************************************************************)
(* unshift(handlers, options).  An array is walked from its last member to *)
(* its first, and each member is unshifted and followed by a pump (the     *)
(* option `pump: false` is passed but never read): when the scheduler is   *)
(* idle, the first pump takes the last member off the stack.               *)
(***************************************************************************)
Unshift(s, t) ==
  PumpUnlessPaused([Enqueue(s, <<t>>, FALSE) EXCEPT !.stack = <<t>> \o @])

UnshiftAll(s, ts) ==
  IF ts = << >>
  THEN s
  ELSE LET last == Unshift(s, Last(ts))
       IN  [Enqueue(last, Front(ts), FALSE)
              EXCEPT !.stack = Front(ts) \o @]

(***************************************************************************)
(* The callbacks given to setImmediate.  CallHandler is `item.handler`     *)
(* being called; the rest of that callback, after its `await`, is          *)
(* HandlerFulfilled or HandlerRejected.  A rejection with a falsy reason   *)
(* (Promise.reject() without argument) reaches `end` as a success.         *)
(***************************************************************************)
CallHandler(s, t) ==
  [s EXCEPT !.loop = Tail(@),
            !.task = [@ EXCEPT ![t] = "executing"]]

PumpCallback(s) == Pump([s EXCEPT !.loop = Tail(@)])

\* Faulty: does not hand over to the next task.
HandlerFulfilledNoPump(s, t) ==
  [s EXCEPT !.running = FALSE,
            !.task    = [@ EXCEPT ![t] = "fulfilled"],
            !.output  = IF t \in s.collect THEN Append(@, t) ELSE @]

\* Faulty: ignores the option `output` of the task.
HandlerFulfilledKeepsAll(s, t) ==
  [s EXCEPT !.running = FALSE,
            !.task    = [@ EXCEPT ![t] = "fulfilled"],
            !.output  = Append(@, t),
            !.loop    = Append(@, "pump")]

HandlerFulfilled(s, t) ==
  [s EXCEPT !.running = FALSE,
            !.task    = [@ EXCEPT ![t] = "fulfilled"],
            !.output  = IF t \in s.collect THEN Append(@, t) ELSE @,
            !.loop    = Append(@, "pump")]

\* Faulty: a failure in a tolerant scheduler does not hand over.
HandlerRejectedNoPump(s, t, falsy) ==
  LET failed == [s EXCEPT !.running = FALSE,
                          !.task    = [@ EXCEPT ![t] = "failed"]]
  IN  IF s.strict /\ ~falsy THEN EndError(failed) ELSE failed

\* Faulty: a status nobody knows.
HandlerRejectedUnknown(s, t, falsy) ==
  [s EXCEPT !.running = FALSE,
            !.task    = [@ EXCEPT ![t] = "rejected"],
            !.loop    = Append(@, "pump")]

\* Faulty: goes on after a failure although the scheduler is strict.
HandlerRejectedTolerant(s, t, falsy) ==
  [s EXCEPT !.running = FALSE,
            !.task    = [@ EXCEPT ![t] = "failed"],
            !.loop    = Append(@, "pump")]

HandlerRejected(s, t, falsy) ==
  LET failed == [s EXCEPT !.running = FALSE,
                          !.task    = [@ EXCEPT ![t] = "failed"]]
  IN  CASE s.strict /\ falsy  -> EndOk(failed)
        [] s.strict /\ ~falsy -> EndError(failed)
        [] ~s.strict          -> [failed EXCEPT !.loop = Append(@, "pump")]

(***************************************************************************)
(* schedule(handlers, options).  Without handlers nothing happens; an      *)
(* empty array fulfils the promise and leaves `resolved` false; otherwise  *)
(* the handlers are pushed with `output: true` and the scheduler is pumped *)
(* even when it is created paused.                                         *)
(***************************************************************************)
Blank(strict, paused) ==
  [strict   |-> strict,
   paused   |-> paused,
   resolved |-> FALSE,
   running  |-> FALSE,
   stack    |-> << >>,
   task     |-> [t \in Task |-> "idle"],
   collect  |-> {},
   output   |-> << >>,
   outcome  |-> "pending",
   loop     |-> << >>]

Create(strict, paused) == Blank(strict, paused)

CreateWith(ts, strict, paused) ==
  IF ts = << >>
  THEN [Blank(strict, paused) EXCEPT !.outcome = "fulfilled"]
  ELSE Pump(PushAll(Blank(strict, paused), ts, TRUE))

-----------------------------------------------------------------------------
(***************************************************************************)
(* What the modules that run schedulers say of each of them.               *)
(***************************************************************************)
InFlight(s) == {t \in Task : s.task[t] \in {"taken", "executing"}}

Waiting(s)  == {t \in Task : s.task[t] = "queued"}

IsSimple(ts) == \A i, j \in 1..Len(ts) : ts[i] = ts[j] => i = j

\* The tasks not started yet in the order they will be: the one taken off
\* the stack, if any, then the stack.
Ahead(s) ==
  (IF \E t \in Task : s.task[t] = "taken"
   THEN <<CHOOSE t \in Task : s.task[t] = "taken">>
   ELSE << >>) \o s.stack

\* `running` tells whether a task was shifted and is not over; there is at
\* most one.
Serial(s) ==
  /\ s.running <=> InFlight(s) # {}
  /\ \A t, u \in InFlight(s) : t = u

\* The stack holds the tasks whose promise awaits their turn, each once.
StackHoldsWaiting(s) ==
  /\ IsSimple(s.stack)
  /\ Waiting(s) = Range(s.stack)

\* The callbacks deferred agree with the flags and never pile up.
LoopFollows(s) ==
  /\ ~s.running => s.loop \in {<< >>, <<"pump">>}
  /\ \A t \in Task :
       /\ s.task[t] = "taken" => s.loop \in {<<"run">>, <<"pump", "run">>}
       /\ s.task[t] = "executing" => s.loop = << >>

\* Inductive: every operator of this module preserves it.
Sound(s) ==
  /\ s \in Scheduler
  /\ Serial(s)
  /\ StackHoldsWaiting(s)
  /\ LoopFollows(s)

\* A task waits, nothing prevents it from running: a pump is on its way.
Awake(s) ==
  (s.stack # << >> /\ ~s.paused /\ ~s.running) => s.loop = <<"pump">>
=============================================================================
