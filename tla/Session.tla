------------------------------- MODULE Session -------------------------------
(***************************************************************************)
(* A Nikita session: the tree of actions that packages/core/lib/session.js *)
(* builds while it runs, and the order in which the actions run.           *)
(*                                                                         *)
(* Every action owns two schedulers: `in` for the children its handler     *)
(* calls, and `out` (strict, paused) for those that are called on it from  *)
(* outside before it is normalized.  A child called with arrays of         *)
(* arguments becomes a group: its handler starts a third scheduler, strict *)
(* as well, with one session per combination of the arguments.             *)
(*                                                                         *)
(* Handlers are user code.  A handler that has control calls children,     *)
(* awaits one of them, awaits something else (Sleep), returns or throws.   *)
(*                                                                         *)
(* Promise reactions (microtasks) run before Node calls the next callback  *)
(* of a timer, of an I/O or of setImmediate: Quiet guards the latter.      *)
(***************************************************************************)
EXTENDS SchedulerOps, FiniteSets

CONSTANTS
  Action,      \* the actions that may be called: the tasks that are sessions
  Root,        \* the action `nikita(...)` creates
  Parent,      \* [Task \ {Root} -> Action]: who calls it
  Members,     \* [Group -> Seq(Action)]: the sessions of a call with arrays
  Unknown,     \* the actions whose namespace is not in the registry
  Failing,     \* the actions whose handler or hooks may fail
  Sleeping,    \* the actions whose handler may await something else
  Late,        \* BOOLEAN: are actions called on the root after its creation?
  None

Group == Task \ Action

InGroup == UNION {Range(Members[g]) : g \in Group}

SchedId == ({"in", "out"} \X Action) \cup ({"args"} \X Group)

In(a)   == <<"in", a>>
Out(a)  == <<"out", a>>
Args(g) == <<"args", g>>

Called(a) == {x \in Task \ ({Root} \cup InGroup) : Parent[x] = a}

ASSUME SessionAssumption ==
  /\ Action \subseteq Task
  /\ Root \in Action
  /\ Parent \in [Task \ {Root} -> Action]
  /\ \A g \in Group :
       /\ Members[g] \in Seq(Action \ {Root})
       /\ IsSimple(Members[g])
       /\ \A x \in Range(Members[g]) : Parent[x] = Parent[g]
       /\ \A h \in Group \ {g} : Range(Members[g]) \cap Range(Members[h]) = {}
  /\ Unknown \subseteq Action \ ({Root} \cup InGroup)
  /\ Failing \subseteq Action
  /\ Sleeping \subseteq Action
  /\ Late \in BOOLEAN
  /\ None \notin Task \cup SchedId

VARIABLES
  phase,     \* where the promise of an action stands
  hand,      \* where its handler stands
  awaits,    \* the child its handler awaits
  output,    \* result of the handler, then of the action
  current,   \* which of its schedulers `action.scheduler` is
  scheds,    \* the schedulers
  host       \* the scheduler a call was pushed to

vars == <<phase, hand, awaits, output, current, scheds, host>>

Phase == {"none", "normalizing", "handling", "flushing", "reporting",
          "fulfilled", "rejected"}

TypeOK ==
  /\ phase \in [Action -> Phase]
  /\ hand \in [Action -> {"none", "hooks", "control", "await", "sleep", "over"}]
  /\ awaits \in [Action -> Task \cup {None}]
  /\ output \in [Action -> {"pending", "ok", "error"}]
  /\ current \in [Action -> {"in", "out"}]
  /\ scheds \in [SchedId -> Scheduler]
  /\ host \in [Task -> SchedId \cup {None}]

\* Faulty: `out` is not paused.
NewSchedulersUnpaused ==
  [id \in SchedId |-> CASE id[1] = "in"   -> Create(FALSE, FALSE)
                        [] id[1] = "out"  -> Create(TRUE, FALSE)
                        [] id[1] = "args" -> Create(TRUE, TRUE)]

\* schedule() for `in`, schedule(null, strict: true, paused: true) for `out`.
NewSchedulers ==
  [id \in SchedId |-> CASE id[1] = "in"   -> Create(FALSE, FALSE)
                        [] id[1] = "out"  -> Create(TRUE, TRUE)
                        [] id[1] = "args" -> Create(TRUE, TRUE)]

Init ==
  /\ phase = [a \in Action |-> IF a = Root THEN "normalizing" ELSE "none"]
  /\ hand = [a \in Action |-> "none"]
  /\ awaits = [a \in Action |-> None]
  /\ output = [a \in Action |-> "pending"]
  /\ current = [a \in Action |-> "out"]
  /\ scheds = NewSchedulers
  /\ host = [x \in Task |-> None]

-----------------------------------------------------------------------------
(* The promise `push` returned for a call, and the one its handler returns *)

CallStatus(x) == IF host[x] = None THEN "idle" ELSE scheds[host[x]].task[x]

CallSettled(x) == CallStatus(x) \in Settled

Over(x) == IF x \in Action THEN phase[x] \in {"fulfilled", "rejected"}
                           ELSE scheds[Args(x)].outcome # "pending"

WentWell(x) == IF x \in Action THEN phase[x] = "fulfilled"
                               ELSE scheds[Args(x)].outcome = "fulfilled"

\* An action exists and its promise is pending.
Live == {a \in Action : phase[a] \notin {"none", "fulfilled", "rejected"}}

-----------------------------------------------------------------------------
(* Promise reactions that are due.                                         *)

WakeDue(a)  == hand[a] = "await" /\ CallSettled(awaits[a])
\* Faulty: waits for the output alone.
DrainDueEarly(a) == phase[a] = "handling" /\ output[a] = "ok"

DrainDue(a) == /\ phase[a] = "handling"
               /\ output[a] = "ok"
               /\ scheds[In(a)].outcome = "fulfilled"
AbortDue(a) == phase[a] = "handling" /\ output[a] = "error"
FlushDue(a) == phase[a] = "flushing" /\ scheds[Out(a)].outcome # "pending"
\* Faulty: the handler of the call does not return the promise of the session.
SettleDueEarly(x) == CallStatus(x) = "executing"

SettleDue(x) == CallStatus(x) = "executing" /\ Over(x)

Quiet ==
  /\ \A a \in Action : /\ hand[a] # "control"
                       /\ ~WakeDue(a)
                       /\ ~DrainDue(a)
                       /\ ~AbortDue(a)
                       /\ ~FlushDue(a)
  /\ \A x \in Task : ~SettleDue(x)

-----------------------------------------------------------------------------
(* on_call: the action is pushed to the scheduler of the moment.           *)

PushCall(x) ==
  LET p  == Parent[x]
      id == <<current[p], p>>
  IN  /\ host[x] = None
      /\ host' = [host EXCEPT ![x] = id]
      /\ scheds' = [scheds EXCEPT ![id] = Push(@, x, FALSE)]

\* A handler that has control calls a child.
Call(x) ==
  /\ hand[Parent[x]] = "control"
  /\ PushCall(x)
  /\ UNCHANGED <<phase, hand, awaits, output, current>>

\* A call on what `nikita(...)` returned: chained to it, or later if Late.
ChainedCall(x) ==
  /\ Parent[x] = Root
  /\ Late \/ phase[Root] = "normalizing"
  /\ PushCall(x)
  /\ UNCHANGED <<phase, hand, awaits, output, current>>

(***************************************************************************)
(* The handler pushed by on_call is called.  It rejects when the namespace *)
(* is not registered, starts the session of the action, or starts the      *)
(* scheduler of the group.                                                 *)
(***************************************************************************)
RunCall(id, x) ==
  /\ Quiet
  /\ scheds[id].loop # << >>
  /\ Head(scheds[id].loop) = "run"
  /\ scheds[id].task[x] = "taken"
  /\ \/ /\ x \in Unknown
        /\ phase' = [phase EXCEPT ![x] = "rejected"]
        /\ scheds' = [scheds EXCEPT ![id] = CallHandler(@, x)]
        /\ UNCHANGED host
     \/ /\ x \in Action \ Unknown
        /\ phase' = [phase EXCEPT ![x] = "normalizing"]
        /\ scheds' = [scheds EXCEPT ![id] = CallHandler(@, x)]
        /\ UNCHANGED host
     \/ /\ x \in Group
        /\ scheds' = [scheds EXCEPT
                        ![id]      = CallHandler(@, x),
                        ![Args(x)] = CreateWith(Members[x], TRUE, TRUE)]
        /\ host' = [y \in Task |-> IF y \in Range(Members[x]) THEN Args(x)
                                                              ELSE host[y]]
        /\ UNCHANGED phase
  /\ UNCHANGED <<hand, awaits, output, current>>

RunPump(id) ==
  /\ Quiet
  /\ scheds[id].loop # << >>
  /\ Head(scheds[id].loop) = "pump"
  /\ scheds' = [scheds EXCEPT ![id] = PumpCallback(@)]
  /\ UNCHANGED <<phase, hand, awaits, output, current, host>>

\* The promise returned by the handler of a call settles: the scheduler
\* goes on, the promise of the call settles.
SettleCall(x) ==
  /\ SettleDue(x)
  /\ scheds' = [scheds EXCEPT ![host[x]] =
                  IF WentWell(x) THEN HandlerFulfilled(@, x)
                                 ELSE HandlerRejected(@, x, FALSE)]
  /\ UNCHANGED <<phase, hand, awaits, output, current, host>>

-----------------------------------------------------------------------------
(* The life of an action.                                                  *)

\* nikita:normalize succeeded: from now on calls go to the other scheduler.
Normalize(a) ==
  /\ Quiet
  /\ phase[a] = "normalizing"
  /\ phase' = [phase EXCEPT ![a] = "handling"]
  /\ hand' = [hand EXCEPT ![a] = "hooks"]
  /\ current' = [current EXCEPT ![a] = "in"]
  /\ UNCHANGED <<awaits, output, scheds, host>>

NormalizeFails(a) ==
  /\ Quiet
  /\ phase[a] = "normalizing"
  /\ a \in Failing
  /\ phase' = [phase EXCEPT ![a] = "rejected"]
  /\ scheds' = [scheds EXCEPT ![Out(a)] = EndError(@)]
  /\ UNCHANGED <<hand, awaits, output, current, host>>

\* The hooks of nikita:action let the handler run.
BeginHandler(a) ==
  /\ Quiet
  /\ hand[a] = "hooks"
  /\ hand' = [hand EXCEPT ![a] = "control"]
  /\ UNCHANGED <<phase, awaits, output, current, scheds, host>>

Results(a) == IF a \in Failing THEN {"ok", "error"} ELSE {"ok"}

\* The promise `output` settles, and its first reaction resumes `in`.
OutputSettles(a, result) ==
  /\ hand' = [hand EXCEPT ![a] = "over"]
  /\ awaits' = [awaits EXCEPT ![a] = None]
  /\ output' = [output EXCEPT ![a] = result]
  /\ scheds' = [scheds EXCEPT ![In(a)] = Resume(@)]
  /\ UNCHANGED <<phase, current, host>>

\* The hooks answer for the handler (disabled, a condition), or fail.
SkipHandler(a, result) ==
  /\ Quiet
  /\ hand[a] = "hooks"
  /\ result \in Results(a)
  /\ OutputSettles(a, result)

\* The handler returns or throws.
EndHandler(a, result) ==
  /\ hand[a] = "control"
  /\ result \in Results(a)
  /\ OutputSettles(a, result)

\* It awaits a call it made: those chained to the action would deadlock.
Await(a, x) ==
  /\ hand[a] = "control"
  /\ x \in Called(a)
  /\ host[x] = In(a)
  /\ hand' = [hand EXCEPT ![a] = "await"]
  /\ awaits' = [awaits EXCEPT ![a] = x]
  /\ UNCHANGED <<phase, output, current, scheds, host>>

\* The awaited child is settled: the handler goes on, having caught the
\* error if there is one.
Wake(a) ==
  /\ WakeDue(a)
  /\ hand' = [hand EXCEPT ![a] = "control"]
  /\ awaits' = [awaits EXCEPT ![a] = None]
  /\ UNCHANGED <<phase, output, current, scheds, host>>

\* The error of the awaited child is that of the handler.
WakeThrowing(a) ==
  /\ WakeDue(a)
  /\ CallStatus(awaits[a]) # "fulfilled"
  /\ OutputSettles(a, "error")

Sleep(a) ==
  /\ hand[a] = "control"
  /\ a \in Sleeping
  /\ hand' = [hand EXCEPT ![a] = "sleep"]
  /\ UNCHANGED <<phase, awaits, output, current, scheds, host>>

WakeUp(a) ==
  /\ Quiet
  /\ hand[a] = "sleep"
  /\ hand' = [hand EXCEPT ![a] = "control"]
  /\ UNCHANGED <<phase, awaits, output, current, scheds, host>>

\* Faulty: nobody resumes `out`.
DrainNoResume(a) ==
  /\ DrainDue(a)
  /\ phase' = [phase EXCEPT ![a] = "flushing"]
  /\ UNCHANGED <<hand, awaits, output, current, scheds, host>>

\* Promise.all [output, in] is fulfilled: `out` may run.
Drain(a) ==
  /\ DrainDue(a)
  /\ phase' = [phase EXCEPT ![a] = "flushing"]
  /\ scheds' = [scheds EXCEPT ![Out(a)] = Resume(@)]
  /\ UNCHANGED <<hand, awaits, output, current, host>>

\* Faulty: the chained calls are left in `out`.
AbortNoEnd(a) ==
  /\ AbortDue(a)
  /\ phase' = [phase EXCEPT ![a] = "reporting"]
  /\ UNCHANGED <<hand, awaits, output, current, scheds, host>>

\* It is rejected as soon as `output` is.
Abort(a) ==
  /\ AbortDue(a)
  /\ phase' = [phase EXCEPT ![a] = "reporting"]
  /\ scheds' = [scheds EXCEPT ![Out(a)] = EndError(@)]
  /\ UNCHANGED <<hand, awaits, output, current, host>>

\* `out` is settled: on_result is called with the output, or the error of
\* the first call of `out` that failed.
Flush(a) ==
  /\ FlushDue(a)
  /\ phase' = [phase EXCEPT ![a] = "reporting"]
  /\ IF scheds[Out(a)].outcome = "fulfilled"
     THEN UNCHANGED <<output, scheds>>
     ELSE /\ output' = [output EXCEPT ![a] = "error"]
          /\ scheds' = [scheds EXCEPT ![Out(a)] = EndError(@)]
  /\ UNCHANGED <<hand, awaits, current, host>>

\* The hooks of nikita:result are over.  They may fail (assertions).
Report(a) ==
  /\ Quiet
  /\ phase[a] = "reporting"
  /\ \E result \in Results(a) :
       phase' = [phase EXCEPT ![a] =
                   IF output[a] = "ok" /\ result = "ok" THEN "fulfilled"
                                                       ELSE "rejected"]
  /\ UNCHANGED <<hand, awaits, output, current, scheds, host>>

-----------------------------------------------------------------------------
HandlerStep(a) ==
  \/ \E x \in Called(a) : Call(x) \/ Await(a, x)
  \/ \E result \in {"ok", "error"} : EndHandler(a, result)
  \/ Wake(a) \/ WakeThrowing(a) \/ Sleep(a)

Reaction ==
  \/ \E a \in Action : Drain(a) \/ Abort(a) \/ Flush(a)
  \/ \E x \in Task : SettleCall(x)

EventLoop ==
  \/ \E id \in SchedId : RunPump(id) \/ \E x \in Task : RunCall(id, x)
  \/ \E a \in Action :
       \/ Normalize(a) \/ NormalizeFails(a) \/ BeginHandler(a)
       \/ \E result \in {"ok", "error"} : SkipHandler(a, result)
       \/ WakeUp(a) \/ Report(a)

Next ==
  \/ \E x \in Called(Root) : ChainedCall(x)
  \/ \E a \in Action : HandlerStep(a)
  \/ Reaction
  \/ EventLoop

Spec == Init /\ [][Next]_vars

(***************************************************************************)
(* Node runs reactions and events, and the handlers end: a handler that    *)
(* gets control again and again returns at last.                           *)
(***************************************************************************)
FairSpec ==
  /\ Spec
  /\ WF_vars(Reaction)
  /\ WF_vars(EventLoop)
  /\ \A a \in Action :
       /\ WF_vars(Wake(a) \/ WakeThrowing(a))
       /\ SF_vars(EndHandler(a, "ok"))

-----------------------------------------------------------------------------
(***************************************************************************)
(* Properties.                                                             *)
(***************************************************************************)

(* The schedulers keep the invariant of SchedulerOps, although a pump, a   *)
(* resume, an end and the completion of a task reach each of them from     *)
(* different promise chains.                                               *)
SchedulersSound ==
  \A id \in SchedId : Serial(scheds[id]) /\ StackHoldsWaiting(scheds[id])
                                        /\ LoopFollows(scheds[id])

\* The action of a call is in progress, or one of those of a group.
Busy(x) == (IF x \in Group THEN Range(Members[x]) ELSE {x}) \cap Live # {}

(* Two calls made one after the other on the same action, or two members   *)
(* of a group, never run at the same time, whether they are actions or     *)
(* groups, whether their parent waits for them or not, and whether it or a *)
(* member failed.                                                          *)
SiblingsInTurn ==
  \A x, y \in Task \ {Root} : (Busy(x) /\ Busy(y) /\ host[x] = host[y]) => x = y

(* "Make sure the promise is resolved after the scheduler and its          *)
(* children" (session.js:186): when the hooks of nikita:result of an       *)
(* action that went well start, and when its promise is fulfilled, every   *)
(* action called on it is settled.                                         *)
ChildrenFirst ==
  \A a \in Action :
    (phase[a] \in {"reporting", "fulfilled"} /\ output[a] = "ok")
      => \A x \in Called(a) : host[x] # None => CallSettled(x)

(* The actions chained to an action start after its handler and after the  *)
(* children of its handler; they never start when it fails before.         *)
ChainedLast ==
  \A a \in Action, x \in Task :
    (host[x] = Out(a) /\ CallStatus(x) \in {"taken", "executing", "fulfilled", "failed"})
      => /\ phase[a] \in {"flushing", "reporting", "fulfilled", "rejected"}
         /\ hand[a] = "over"
         /\ \A y \in Task : host[y] = In(a) => CallSettled(y)

(* Nothing called on an action stays behind once its promise is settled:   *)
(* what was not run is rejected, or is about to be run by `in`.            *)
NothingForgotten ==
  \A a \in Action, x \in Task :
    (phase[a] \in {"fulfilled", "rejected"} /\ host[x] = Out(a))
      => CallStatus(x) # "queued"

(* A call with arrays of arguments is fulfilled after all its sessions;    *)
(* when one of them fails, those that did not start never do.              *)
GroupStopsAtFailure ==
  \A x \in Group :
    /\ CallStatus(x) = "fulfilled" =>
         \A y \in Range(Members[x]) : CallStatus(y) = "fulfilled"
    /\ (\E y \in Range(Members[x]) : CallStatus(y) = "failed") =>
         \A y \in Range(Members[x]) : CallStatus(y) \in Settled

(* Every call settles, awaited or not, whatever fails; so does the session *)
EveryCallSettles ==
  \A x \in Task : host[x] # None ~> CallSettled(x)

SessionSettles == <>(phase[Root] \in {"fulfilled", "rejected"})
=============================================================================
