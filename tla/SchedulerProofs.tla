--------------------------- MODULE SchedulerProofs ---------------------------
(***************************************************************************)
(* Theorems about Scheduler, for any set of tasks, any arrays of handlers, *)
(* any methods the clients call and any kind of scheduler; and the proof   *)
(* that it implements TaskQueue, when the clients push, pause and resume.  *)
(***************************************************************************)
EXTENDS SchedulerRefinement, SchedulerOpsProofs

Inv == Sound(sched) /\ started \in Seq(Task)

LEMMA InvInit == Init => Inv
<1> SUFFICES ASSUME Init PROVE Inv
  OBVIOUS
<1>1. started \in Seq(Task)
  BY DEF Init
<1>2. PICK kind \in Kind :
        \/ sched = Create(kind.strict, kind.paused)
        \/ \E ts \in Batch : sched = CreateWith(ts, kind.strict, kind.paused)
  BY DEF Init
<1>3. kind.strict \in BOOLEAN /\ kind.paused \in BOOLEAN
  BY SchedulerAssumption
<1>4. CASE sched = Create(kind.strict, kind.paused)
  BY <1>1, <1>3, <1>4, SoundCreate DEF Inv
<1>5. ASSUME NEW ts \in Batch,
             sched = CreateWith(ts, kind.strict, kind.paused)
      PROVE  Sound(sched)
  <2>1. ts \in Seq(Task) /\ IsSimple(ts)
    BY SchedulerAssumption
  <2> QED  BY <1>3, <1>5, <2>1, SoundCreateWith
<1> QED  BY <1>1, <1>2, <1>4, <1>5 DEF Inv

LEMMA InvNext == Inv /\ [Next]_vars => Inv'
<1> SUFFICES ASSUME Inv, [Next]_vars PROVE Inv'
  OBVIOUS
<1> USE DEF Inv
<1>1. ASSUME NEW t \in Task, NEW out \in BOOLEAN, CallPush(t, out)
      PROVE  Inv'
  <2>1. sched.task[t] = "idle"
    BY <1>1, RangeOfOne DEF CallPush, Fresh
  <2> QED  BY <1>1, <2>1, SoundPush DEF CallPush
<1>2. ASSUME NEW ts \in Batch, NEW out \in BOOLEAN, CallPushAll(ts, out)
      PROVE  Inv'
  <2>1. ts \in Seq(Task) /\ IsSimple(ts)
    BY SchedulerAssumption
  <2> QED  BY <1>2, <2>1, SoundPushAll DEF CallPushAll, Fresh
<1>3. ASSUME NEW t \in Task, CallUnshift(t)
      PROVE  Inv'
  <2>1. sched.task[t] = "idle"
    BY <1>3, RangeOfOne DEF CallUnshift, Fresh
  <2> QED  BY <1>3, <2>1, SoundUnshift DEF CallUnshift
<1>4. ASSUME NEW ts \in Batch, CallUnshiftAll(ts)
      PROVE  Inv'
  <2>1. ts \in Seq(Task) /\ IsSimple(ts)
    BY SchedulerAssumption
  <2> QED  BY <1>4, <2>1, SoundUnshiftAll DEF CallUnshiftAll, Fresh
<1>5. CASE CallPause
  BY <1>5, SoundPause DEF CallPause
<1>6. CASE CallResume
  BY <1>6, SoundResume DEF CallResume
<1>7. CASE CallEnd
  BY <1>7, SoundEndError DEF CallEnd
<1>8. ASSUME NEW t \in Task, RunTask(t)
      PROVE  Inv'
  <2>1. started' \in Seq(Task)
    BY <1>8 DEF RunTask
  <2> QED  BY <1>8, <2>1, SoundCallHandler DEF RunTask, NextCallback
<1>9. CASE RunPump
  BY <1>9, SoundPumpCallback DEF RunPump, NextCallback
<1>10. ASSUME NEW t \in Task, Fulfil(t)
       PROVE  Inv'
  BY <1>10, SoundHandlerFulfilled DEF Fulfil
<1>11. ASSUME NEW t \in Task, NEW falsy \in BOOLEAN, Fail(t, falsy)
       PROVE  Inv'
  BY <1>11, SoundHandlerRejected DEF Fail
<1>12. CASE UNCHANGED vars
  BY <1>12 DEF vars
<1> QED
  BY <1>1, <1>2, <1>3, <1>4, <1>5, <1>6, <1>7, <1>8, <1>9, <1>10, <1>11, <1>12
  DEF Next, ClientCall, Immediate, HandlerOver

(* Every reachable scheduler is sound: the inductive invariant.            *)
THEOREM SoundAlways == Spec => []Inv
BY InvInit, InvNext, PTL DEF Spec

(* The scheduler always has the fields and the types of its code.          *)
THEOREM TypeCorrect == Spec => []TypeOK
<1>1. Inv => TypeOK
  BY DEF Inv, Sound, TypeOK
<1> QED  BY <1>1, SoundAlways, PTL

(* Handlers never overlap, whatever clients call and whenever: the tasks   *)
(* shifted and not over are at most one, and `running` says so.            *)
THEOREM MutualExclusion == Spec => []OneAtATime
<1>1. Inv => OneAtATime
  BY DEF Inv, Sound, OneAtATime
<1> QED  BY <1>1, SoundAlways, PTL

(* A task whose promise awaits its turn is in the stack, once, and nothing *)
(* else is: none is lost, none runs twice.                                 *)
THEOREM NothingLost == Spec => []StackIsWaiting
<1>1. Inv => StackIsWaiting
  BY DEF Inv, Sound, StackIsWaiting
<1> QED  BY <1>1, SoundAlways, PTL

(* setImmediate was called exactly when the flags say so.                  *)
THEOREM CallbacksAgree == Spec => []LoopAgrees
<1>1. Inv => LoopAgrees
  BY DEF Inv, Sound, LoopAgrees
<1> QED  BY <1>1, SoundAlways, PTL

-----------------------------------------------------------------------------
(***************************************************************************)
(* Every step starts a handler, ends one, or does neither (Moves).         *)
(***************************************************************************)
Neither ==
  /\ Moves(sched, sched')
  /\ Awake(sched) => Awake(sched')
  /\ started' = started

LEMMA CallsMove ==
  ASSUME Inv, ClientCall
  PROVE  Neither
<1>0. Sound(sched)
  BY DEF Inv
<1>1. ASSUME NEW t \in Task, NEW out \in BOOLEAN, CallPush(t, out)
      PROVE  Neither
  <2>1. /\ <<t>> \in Seq(Task) /\ IsSimple(<<t>>)
        /\ \A u \in Range(<<t>>) : sched.task[u] = "idle"
    BY <1>1, RangeOfOne DEF CallPush, Fresh
  <2>2. sched' = PushAll(sched, <<t>>, out) /\ started' = started
    BY <1>1 DEF CallPush, Push
  <2> QED  BY <1>0, <2>1, <2>2, PushAllMoves DEF Neither
<1>2. ASSUME NEW ts \in Batch, NEW out \in BOOLEAN, CallPushAll(ts, out)
      PROVE  Neither
  <2>1. ts \in Seq(Task) /\ IsSimple(ts)
    BY SchedulerAssumption
  <2> QED  BY <1>0, <1>2, <2>1, PushAllMoves DEF CallPushAll, Fresh, Neither
<1>3. ASSUME NEW t \in Task, CallUnshift(t)
      PROVE  Neither
  <2>1. sched.task[t] = "idle" /\ started' = started
    BY <1>3, RangeOfOne DEF CallUnshift, Fresh
  <2>2. Moves(sched, sched') /\ (sched'.paused \/ sched'.running)
    BY <1>0, <1>3, <2>1, UnshiftMoves DEF CallUnshift
  <2> QED  BY <2>1, <2>2 DEF Neither, Awake
<1>4. ASSUME NEW ts \in Batch, CallUnshiftAll(ts)
      PROVE  Neither
  <2>1. ts \in Seq(Task) /\ IsSimple(ts)
    BY SchedulerAssumption
  <2> QED  BY <1>0, <1>4, <2>1, UnshiftAllMoves DEF CallUnshiftAll, Fresh, Neither
<1>5. CASE CallPause
  <2>1. /\ sched'.strict = sched.strict /\ sched'.outcome = sched.outcome
        /\ sched'.output = sched.output /\ sched'.collect = sched.collect
        /\ sched'.task = sched.task /\ sched'.paused = TRUE
        /\ started' = started
    BY <1>0, <1>5 DEF CallPause, Pause, Sound, Scheduler
  <2> QED  BY <2>1 DEF Neither, Moves, Started, Awake
<1>6. CASE CallResume
  BY <1>0, <1>6, ResumeMoves DEF CallResume, Neither
<1>7. CASE CallEnd
  <2>1. /\ sched'.strict = sched.strict /\ sched'.stack = << >>
        /\ sched'.output = sched.output /\ sched'.collect = sched.collect
        /\ sched'.outcome # "fulfilled" \/ sched.outcome # "pending"
        /\ sched'.task = [t \in Task |-> IF t \in Range(sched.stack) THEN "dropped"
                                         ELSE sched.task[t]]
        /\ started' = started
    BY <1>0, <1>7 DEF CallEnd, EndError, Sound, Scheduler
  <2>2. \A t \in Task : /\ t \in Range(sched.stack) <=> sched.task[t] = "queued"
                        /\ t \notin Range(sched.stack) => sched'.task[t] = sched.task[t]
                        /\ t \in Range(sched.stack) => sched'.task[t] = "dropped"
    BY <1>0, <2>1 DEF Sound, StackHoldsWaiting, Waiting
  <2> QED  BY <2>1, <2>2 DEF Neither, Moves, Started, Awake
<1> QED  BY <1>1, <1>2, <1>3, <1>4, <1>5, <1>6, <1>7 DEF ClientCall

LEMMA Steps ==
  ASSUME Inv, [Next]_vars
  PROVE  \/ Neither
         \/ \E t \in Task : RunTask(t)
         \/ \E t \in Task : Fulfil(t)
         \/ \E t \in Task, falsy \in BOOLEAN : Fail(t, falsy)
<1>1. CASE ClientCall
  BY <1>1, CallsMove
<1>2. CASE RunPump
  BY <1>2, PumpCallbackMoves DEF Inv, RunPump, NextCallback, Neither
<1>3. CASE UNCHANGED vars
  BY <1>3 DEF vars, Neither, Moves
<1> QED  BY <1>1, <1>2, <1>3 DEF Next, Immediate, HandlerOver

\* A scheduler at its creation, with or without handlers.
LEMMA Created ==
  ASSUME Init
  PROVE  /\ \E kind \in Kind : sched.strict = kind.strict
         /\ Awake(sched)
         /\ sched.output = << >>
         /\ started = << >>
         /\ \A t \in Task : sched.task[t] \notin Started
<1>1. PICK kind \in Kind :
        \/ sched = Create(kind.strict, kind.paused)
        \/ \E ts \in Batch : sched = CreateWith(ts, kind.strict, kind.paused)
  BY DEF Init
<1>2. kind.strict \in BOOLEAN /\ kind.paused \in BOOLEAN /\ started = << >>
  BY SchedulerAssumption DEF Init
<1> DEFINE b == Blank(kind.strict, kind.paused)
<1>3. /\ Sound(b)
      /\ b.strict = kind.strict
      /\ b.output = << >>
      /\ b.stack = << >>
      /\ \A t \in Task : b.task[t] = "idle"
  BY <1>2, SoundBlank DEF Blank
<1>4. CASE sched = b
  BY <1>2, <1>3, <1>4 DEF Awake, Started
<1>5. ASSUME NEW ts \in Batch, sched = CreateWith(ts, kind.strict, kind.paused)
      PROVE  /\ sched.strict = kind.strict
             /\ Awake(sched)
             /\ sched.output = << >>
             /\ \A t \in Task : sched.task[t] \notin Started
  <2>1. CASE ts = << >>
    <3>1. /\ sched.strict = kind.strict /\ sched.stack = << >> /\ sched.output = << >>
          /\ \A t \in Task : sched.task[t] = "idle"
      BY <1>5, <2>1 DEF CreateWith, Blank
    <3> QED  BY <3>1 DEF Awake, Started
  <2>2. CASE ts # << >>
    <3> HIDE DEF b
    <3> DEFINE p == PushAll(b, ts, TRUE)
    <3>1. /\ ts \in Seq(Task) /\ IsSimple(ts)
          /\ \A t \in Range(ts) : b.task[t] = "idle"
      BY <1>3, SchedulerAssumption, RangeOfSeq
    <3>2. Sound(p) /\ Moves(b, p)
      BY <1>3, <3>1, SoundPushAll, PushAllMoves
    <3>3. sched = Pump(p)
      BY <1>5, <2>2 DEF CreateWith, b
    <3> HIDE DEF p
    <3>4. Moves(p, sched) /\ Awake(sched)
      BY <3>2, <3>3, PumpMoves
    <3> QED  BY <1>3, <3>2, <3>4 DEF Moves, Started
  <2> QED  BY <2>1, <2>2
<1> QED  BY <1>1, <1>2, <1>4, <1>5 DEF Create

-----------------------------------------------------------------------------
(***************************************************************************)
(* The properties that fail if a strict scheduler meets a rejection        *)
(* without a reason, which `end` takes for a success.  Where handlers      *)
(* reject with a reason, or no scheduler is strict, they always hold.      *)
(***************************************************************************)
Reasoned == Falsy => \A kind \in Kind : ~kind.strict

AwakeInv == Awake(sched) /\ (sched.strict => ~Falsy)

FulfilledStep ==
  sched.outcome = "pending" /\ sched'.outcome = "fulfilled"
    => \A t \in Task : sched.task[t] \in {"idle"} \cup Settled

StrictStep ==
  (sched.strict
     /\ \E t \in Task : sched.task[t] = "executing" /\ sched'.task[t] = "failed")
    => /\ \A t \in Waiting(sched) : sched'.task[t] = "dropped"
       /\ sched'.stack = << >>

LEMMA ReasonedNext ==
  Inv /\ AwakeInv /\ [Next]_vars => AwakeInv' /\ FulfilledStep /\ StrictStep
<1> DEFINE Goal == AwakeInv' /\ FulfilledStep /\ StrictStep
<1> SUFFICES ASSUME Inv, AwakeInv, [Next]_vars PROVE Goal
  OBVIOUS
<1>0. Sound(sched) /\ Awake(sched) /\ (sched.strict => ~Falsy)
  BY DEF Inv, AwakeInv
<1>1. CASE Neither
  <2>1. Moves(sched, sched') /\ Awake(sched')
    BY <1>0, <1>1 DEF Neither
  <2>2. AwakeInv'
    BY <1>0, <2>1 DEF AwakeInv, Moves
  <2>3. FulfilledStep
    BY <2>1 DEF FulfilledStep, Moves, Emptied
  <2>4. StrictStep
    BY <2>1 DEF StrictStep, Moves, Started
  <2> QED  BY <2>2, <2>3, <2>4
<1>2. ASSUME NEW t \in Task, RunTask(t)
      PROVE  Goal
  <2>1. /\ sched'.strict = sched.strict /\ sched'.outcome = sched.outcome
        /\ sched'.running = sched.running
        /\ sched'.task = [sched.task EXCEPT ![t] = "executing"]
        /\ sched.task \in [Task -> Status]
    BY <1>0, <1>2 DEF RunTask, CallHandler, Sound, Scheduler
  <2>2. sched.running
    BY <1>0, <1>2 DEF RunTask, Sound, Serial, InFlight
  <2> QED  BY <1>0, <2>1, <2>2 DEF AwakeInv, Awake, FulfilledStep, StrictStep
<1>3. ASSUME NEW t \in Task, Fulfil(t)
      PROVE  Goal
  <2>1. /\ Awake(sched')
        /\ sched'.strict = sched.strict
        /\ sched'.outcome = sched.outcome
        /\ \A u \in Task : sched.task[u] = "executing" => sched'.task[u] # "failed"
    BY <1>0, <1>3, FulfilledIsAwake DEF Fulfil
  <2> QED  BY <1>0, <2>1 DEF AwakeInv, FulfilledStep, StrictStep
<1>4. ASSUME NEW t \in Task, NEW falsy \in BOOLEAN, Fail(t, falsy)
      PROVE  Goal
  <2>1. CASE sched.strict
    <3>1. falsy = FALSE
      BY <1>0, <1>4, <2>1 DEF Fail
    <3>2. /\ Awake(sched')
          /\ sched'.strict = sched.strict
          /\ sched'.outcome # "fulfilled" \/ sched'.outcome = sched.outcome
          /\ sched'.stack = << >>
          /\ \A u \in Waiting(sched) : sched'.task[u] = "dropped"
      BY <1>0, <1>4, <2>1, <3>1, RejectedStrict DEF Fail
    <3> QED  BY <1>0, <3>2 DEF AwakeInv, FulfilledStep, StrictStep
  <2>2. CASE ~sched.strict
    <3>1. /\ Awake(sched')
          /\ sched'.strict = sched.strict
          /\ sched'.outcome = sched.outcome
      BY <1>0, <1>4, <2>2, RejectedTolerant DEF Fail
    <3> QED  BY <2>2, <3>1 DEF AwakeInv, FulfilledStep, StrictStep
  <2> QED  BY <2>1, <2>2
<1> QED  BY <1>1, <1>2, <1>3, <1>4, Steps

LEMMA ReasonedAlways == ASSUME Reasoned PROVE Spec => [](Inv /\ AwakeInv)
<1>1. Init => AwakeInv
  BY Created DEF AwakeInv, Reasoned
<1>2. Inv /\ AwakeInv /\ [Next]_vars => AwakeInv'
  BY ReasonedNext
<1> QED  BY <1>1, <1>2, SoundAlways, PTL DEF Spec

(* No wake-up is lost: whenever a task waits in a scheduler that is        *)
(* neither paused nor busy, a pump was given to setImmediate.              *)
THEOREM AlwaysAwake == ASSUME Reasoned PROVE Spec => []NoLostWakeup
<1>1. AwakeInv => NoLostWakeup
  BY DEF AwakeInv, NoLostWakeup
<1> QED  BY <1>1, ReasonedAlways, PTL

(* The promise of a scheduler is fulfilled by a pump that finds nothing    *)
(* left: whatever was handed over before that instant is settled.          *)
THEOREM DrainedWhenFulfilled ==
  ASSUME Reasoned PROVE Spec => FulfilledWhenDrained
<1>1. Inv /\ AwakeInv /\ [Next]_vars => [FulfilledStep]_vars
  BY ReasonedNext
<1> QED
  BY <1>1, ReasonedAlways, PTL DEF Spec, FulfilledStep, FulfilledWhenDrained

(* The failure of a task rejects, in a strict scheduler and in the same    *)
(* step, every task that waits, and none is left to start.                 *)
THEOREM FailureDropsTheRest ==
  ASSUME Reasoned PROVE Spec => StrictFailureDrops
<1>1. Inv /\ AwakeInv /\ [Next]_vars => [StrictStep]_vars
  BY ReasonedNext
<1> QED
  BY <1>1, ReasonedAlways, PTL DEF Spec, StrictStep, StrictFailureDrops

-----------------------------------------------------------------------------
(* The order in which the handlers were called.                            *)
StartsInv ==
  /\ IsSimple(started)
  /\ Range(started) = {t \in Task : sched.task[t] \in Started}
  /\ \A t \in Task : sched.task[t] = "executing"
                       => started # << >> /\ started[Len(started)] = t

LEMMA RangeOfAppend ==
  ASSUME NEW q \in Seq(Task), IsSimple(q), NEW t \in Task, t \notin Range(q)
  PROVE  /\ Append(q, t) \in Seq(Task)
         /\ IsSimple(Append(q, t))
         /\ Range(Append(q, t)) = Range(q) \cup {t}
         /\ Len(Append(q, t)) = Len(q) + 1
         /\ Append(q, t)[Len(q) + 1] = t
         /\ \A i \in 1..Len(q) : Append(q, t)[i] = q[i]
<1> DEFINE p == Append(q, t)
<1>1. /\ p \in Seq(Task)
      /\ Len(p) = Len(q) + 1 /\ Len(q) \in Nat
      /\ p[Len(q) + 1] = t
      /\ \A i \in 1..Len(q) : p[i] = q[i]
      /\ DOMAIN p = 1..(Len(q) + 1)
      /\ DOMAIN q = 1..Len(q)
  OBVIOUS
<1> HIDE DEF p
<1>2. \A i \in 1..Len(q) : q[i] \in Range(q)
  BY <1>1 DEF Range
<1>3. IsSimple(p)
  BY <1>1, <1>2 DEF IsSimple
<1>4. Range(p) = Range(q) \cup {t}
  BY <1>1 DEF Range
<1> QED  BY <1>1, <1>3, <1>4 DEF p

\* Neither list changes when no handler starts or ends.
LEMMA MovesKeepOrder ==
  ASSUME Inv, StartsInv, OutputInOrder, sched' \in Scheduler,
         Moves(sched, sched'), started' = started
  PROVE  StartsInv' /\ OutputInOrder'
<1>1. \A t \in Task :
        /\ sched'.task[t] \in Started <=> sched.task[t] \in Started
        /\ sched'.task[t] = "executing" <=> sched.task[t] = "executing"
        /\ sched'.task[t] = "fulfilled" <=> sched.task[t] = "fulfilled"
        /\ sched.task[t] = "fulfilled" => (t \in sched'.collect <=> t \in sched.collect)
  BY DEF Moves, Started
<1>2. sched'.output = sched.output
  BY DEF Moves
<1>3. sched.collect \subseteq Task /\ sched'.collect \subseteq Task
  BY Fields DEF Inv, Sound
<1>4. Listed' = Listed
  BY <1>1, <1>3 DEF Listed
<1>5. StartsInv'
  BY <1>1 DEF StartsInv
<1>6. OutputInOrder'
  BY <1>2, <1>4 DEF OutputInOrder
<1> QED  BY <1>5, <1>6

LEMMA OrderOfStart ==
  ASSUME Inv, StartsInv, OutputInOrder, NEW t \in Task, RunTask(t)
  PROVE  StartsInv' /\ OutputInOrder'
<1>1. /\ sched \in Scheduler
      /\ started \in Seq(Task)
      /\ sched.task \in [Task -> Status]
      /\ sched.task[t] = "taken"
  BY Fields DEF Inv, Sound, RunTask
<1>2. /\ sched'.task = [sched.task EXCEPT ![t] = "executing"]
      /\ sched'.output = sched.output
      /\ sched'.collect = sched.collect
      /\ started' = Append(started, t)
  BY <1>1 DEF RunTask, CallHandler, Scheduler
<1>3. t \notin Range(started) /\ IsSimple(started)
  BY <1>1 DEF StartsInv, Started
<1>4. /\ started' \in Seq(Task)
      /\ IsSimple(started')
      /\ Range(started') = Range(started) \cup {t}
      /\ Len(started') = Len(started) + 1 /\ Len(started) \in Nat
      /\ started'[Len(started) + 1] = t
      /\ \A i \in 1..Len(started) : started'[i] = started[i]
  BY <1>1, <1>2, <1>3, RangeOfAppend
<1>5. \A u \in Task : sched.task[u] = "executing" => u = t
  BY <1>1 DEF Inv, Sound, Serial, InFlight
<1>6. StartsInv'
  <2>1. Range(started') = {u \in Task : sched'.task[u] \in Started}
    BY <1>1, <1>2, <1>4 DEF StartsInv, Started
  <2>2. \A u \in Task : sched'.task[u] = "executing" => u = t
    BY <1>1, <1>2, <1>5
  <2>3. started' # << >> /\ started'[Len(started')] = t
    BY <1>4
  <2> QED  BY <1>4, <2>1, <2>2, <2>3 DEF StartsInv
<1>7. OutputInOrder'
  <2>1. Listed' = Listed
    BY <1>1, <1>2 DEF Listed, Scheduler
  <2>2. \A i \in 1..Len(sched.output) : sched.output[i] \in Listed
    <3>1. sched.output \in Seq(Task)
      BY <1>1, Fields
    <3> QED  BY <3>1 DEF OutputInOrder, Range
  <2>3. t \notin Listed
    BY <1>1 DEF Listed
  <2>4. ASSUME NEW i \in 1..Len(sched.output), NEW j \in 1..Len(sched.output),
               NEW k \in 1..Len(started'), NEW l \in 1..Len(started'),
               i < j, sched.output[i] = started'[k], sched.output[j] = started'[l]
        PROVE  k < l
    <3>1. /\ k \in 1..Len(started) /\ started'[k] = started[k]
          /\ l \in 1..Len(started) /\ started'[l] = started[l]
      BY <1>4, <2>2, <2>3, <2>4
    <3> QED  BY <2>4, <3>1 DEF OutputInOrder
  <2> QED  BY <1>2, <2>1, <2>4 DEF OutputInOrder
<1> QED  BY <1>6, <1>7

LEMMA OrderOfFulfil ==
  ASSUME Inv, StartsInv, OutputInOrder, NEW t \in Task, Fulfil(t)
  PROVE  StartsInv' /\ OutputInOrder'
<1>1. /\ sched \in Scheduler
      /\ started \in Seq(Task)
      /\ sched.task \in [Task -> Status]
      /\ sched.output \in Seq(Task)
      /\ sched.collect \subseteq Task
      /\ sched.task[t] = "executing"
      /\ started' = started
  BY Fields DEF Inv, Sound, Fulfil
<1>2. /\ sched'.task = [sched.task EXCEPT ![t] = "fulfilled"]
      /\ sched'.output = IF t \in sched.collect THEN Append(sched.output, t)
                                                ELSE sched.output
      /\ sched'.collect = sched.collect
  BY <1>1 DEF Fulfil, HandlerFulfilled, Scheduler
<1>3. StartsInv'
  <2>1. \A u \in Task : sched'.task[u] = "executing" => sched.task[u] = "executing"
    BY <1>1, <1>2
  <2>2. \A u \in Task : sched'.task[u] \in Started <=> sched.task[u] \in Started
    BY <1>1, <1>2 DEF Started
  <2> QED  BY <1>1, <2>1, <2>2 DEF StartsInv
<1>4. CASE t \notin sched.collect
  <2>1. Listed' = Listed
    BY <1>1, <1>2, <1>4 DEF Listed
  <2>2. sched'.output = sched.output
    BY <1>2, <1>4
  <2> QED  BY <1>1, <1>3, <2>1, <2>2 DEF OutputInOrder
<1>5. CASE t \in sched.collect
  <2>1. Listed' = Listed \cup {t} /\ t \notin Listed
    BY <1>1, <1>2, <1>5 DEF Listed
  <2>2. IsSimple(sched.output) /\ t \notin Range(sched.output)
    BY <2>1 DEF OutputInOrder
  <2> DEFINE n == Len(sched.output)
  <2>3. /\ n \in Nat
        /\ IsSimple(sched'.output)
        /\ Range(sched'.output) = Range(sched.output) \cup {t}
        /\ Len(sched'.output) = n + 1
        /\ sched'.output[n + 1] = t
        /\ \A i \in 1..n : sched'.output[i] = sched.output[i]
    BY <1>1, <1>2, <1>5, <2>2, RangeOfAppend
  <2>4. \A i \in 1..n : sched.output[i] # t
    BY <1>1, <2>2 DEF Range
  <2>5. /\ Len(started) \in Nat
        /\ \A l \in 1..Len(started) : started[l] = t => l = Len(started)
    <3>1. started # << >> /\ started[Len(started)] = t
      BY <1>1 DEF StartsInv
    <3>2. Len(started) \in 1..Len(started)
      BY <1>1, <3>1
    <3> QED  BY <1>1, <3>1, <3>2 DEF StartsInv, IsSimple
  <2>6. ASSUME NEW i \in 1..Len(sched'.output), NEW j \in 1..Len(sched'.output),
               NEW k \in 1..Len(started), NEW l \in 1..Len(started),
               i < j, sched'.output[i] = started[k], sched'.output[j] = started[l]
        PROVE  k < l
    <3>1. i \in 1..n /\ sched'.output[i] = sched.output[i]
      BY <2>3, <2>6
    <3>2. CASE j \in 1..n
      BY <2>3, <2>6, <3>1, <3>2 DEF OutputInOrder
    <3>3. CASE j = n + 1
      <4>1. l = Len(started)
        BY <2>3, <2>5, <2>6, <3>3
      <4>2. k # Len(started)
        <5>1. started[k] # t
          BY <2>4, <2>6, <3>1
        <5>2. started[Len(started)] = t
          BY <1>1 DEF StartsInv
        <5> QED  BY <5>1, <5>2
      <4> QED  BY <2>5, <4>1, <4>2
    <3> QED  BY <2>3, <3>2, <3>3
  <2>7. Range(sched'.output) = Listed'
    BY <2>1, <2>3 DEF OutputInOrder
  <2> HIDE DEF n
  <2>8. OutputInOrder'
    BY <1>1, <2>3, <2>6, <2>7 DEF OutputInOrder
  <2> QED  BY <1>3, <2>8
<1> QED  BY <1>4, <1>5

LEMMA OrderOfFail ==
  ASSUME Inv, StartsInv, OutputInOrder,
         NEW t \in Task, NEW falsy \in BOOLEAN, Fail(t, falsy)
  PROVE  StartsInv' /\ OutputInOrder'
<1>1. /\ sched \in Scheduler
      /\ sched.strict \in BOOLEAN
      /\ sched.task \in [Task -> Status]
      /\ sched.task[t] = "executing"
      /\ Waiting(sched) = Range(sched.stack)
      /\ started' = started
  BY Fields DEF Inv, Sound, Fail, StackHoldsWaiting
<1>2. /\ sched'.output = sched.output
      /\ sched'.collect = sched.collect
  BY <1>1 DEF Fail, HandlerRejected, EndOk, EndError, Scheduler
<1> DEFINE f == [sched.task EXCEPT ![t] = "failed"]
<1>3. sched'.task = f \/ sched'.task = [u \in Task |->
                          IF u \in Range(sched.stack) THEN "dropped" ELSE f[u]]
  BY <1>1 DEF Fail, HandlerRejected, EndOk, EndError, Scheduler
<1>4. \A u \in Task :
        /\ sched'.task[u] \in Started <=> sched.task[u] \in Started
        /\ sched'.task[u] = "executing" => sched.task[u] = "executing"
        /\ sched'.task[u] = "fulfilled" <=> sched.task[u] = "fulfilled"
  BY <1>1, <1>3 DEF Waiting, Started
<1>5. Listed' = Listed
  <2>1. sched.collect \subseteq Task
    BY <1>1, Fields
  <2> QED  BY <1>2, <1>4, <2>1 DEF Listed
<1>6. StartsInv'
  BY <1>1, <1>4 DEF StartsInv
<1>7. OutputInOrder'
  BY <1>1, <1>2, <1>5 DEF OutputInOrder
<1> QED  BY <1>6, <1>7

(* Results are listed in the order the handlers ran, whatever was pushed   *)
(* in front meanwhile, and none is forgotten or listed twice.              *)
THEOREM OutputOrdered == Spec => []OutputInOrder
<1>1. Init => StartsInv /\ OutputInOrder
  <2> SUFFICES ASSUME Init PROVE StartsInv /\ OutputInOrder
    OBVIOUS
  <2>1. IsSimple(<< >>) /\ Range(<< >>) = {}
    BY RangeOfEmpty
  <2>2. sched.collect \subseteq Task
    BY InvInit, Fields DEF Inv, Sound
  <2>3. Listed = {}
    BY <2>2, Created DEF Listed, Started
  <2> QED  BY <2>1, <2>3, Created DEF StartsInv, OutputInOrder, Started
<1>2. Inv /\ StartsInv /\ OutputInOrder /\ [Next]_vars
        => StartsInv' /\ OutputInOrder'
  <2> SUFFICES ASSUME Inv, StartsInv, OutputInOrder, [Next]_vars
               PROVE  StartsInv' /\ OutputInOrder'
    OBVIOUS
  <2>1. sched' \in Scheduler
    BY InvNext DEF Inv, Sound
  <2>2. CASE Neither
    BY <2>1, <2>2, MovesKeepOrder DEF Neither
  <2> QED  BY <2>2, Steps, OrderOfStart, OrderOfFulfil, OrderOfFail
<1> QED  BY <1>1, <1>2, SoundAlways, PTL DEF Spec

-----------------------------------------------------------------------------
(***************************************************************************)
(* The scheduler implements TaskQueue, for any set of tasks, any arrays of *)
(* handlers and any kind of scheduler: the initial states map to initial   *)
(* states of the queue and every step maps to one of its steps or leaves   *)
(* the queue as it is.                                                     *)
(***************************************************************************)
\* What the queue knows of a scheduler.
Executing(s) == {t \in Task : s.task[t] = "executing"}

ResultWhen(status) ==
  CASE status = "fulfilled"            -> "success"
    [] status \in {"failed", "dropped"} -> "failure"
    [] status \notin Settled            -> "none"

ResultOf(s) == [t \in Task |-> ResultWhen(s.task[t])]

\* The outcomes when the failure of t is that of all that waits.
FailsAll(s, t) ==
  [u \in Task |-> IF u = t \/ \E i \in 1..Len(Ahead(s)) : Ahead(s)[i] = u
                  THEN "failure" ELSE ResultOf(s)[u]]

SameQueue(s, r) ==
  /\ r.strict = s.strict
  /\ Ahead(r) = Ahead(s)
  /\ Executing(r) = Executing(s)
  /\ ResultOf(r) = ResultOf(s)

LEMMA EmptyConcat ==
  ASSUME NEW q \in Seq(Task)
  PROVE  << >> \o q = q
OBVIOUS

\* The task that was taken off the stack, if any, is ahead of it.
LEMMA AheadOfNone ==
  ASSUME NEW s, s.stack \in Seq(Task), \A t \in Task : s.task[t] # "taken"
  PROVE  Ahead(s) = s.stack
BY EmptyConcat DEF Ahead

LEMMA AheadOfTaken ==
  ASSUME NEW s, Serial(s), NEW t \in Task, s.task[t] = "taken"
  PROVE  Ahead(s) = <<t>> \o s.stack
<1>1. \A u \in Task : s.task[u] = "taken" => u = t
  BY DEF Serial, InFlight
<1>2. (CHOOSE u \in Task : s.task[u] = "taken") = t
  BY <1>1
<1> QED  BY <1>2 DEF Ahead

LEMMA ConcatOfThree ==
  ASSUME NEW p \in Seq(Task), NEW q \in Seq(Task), NEW u \in Seq(Task)
  PROVE  p \o (q \o u) = (p \o q) \o u
BY ConcatAssociative

LEMMA HeadAndTail ==
  ASSUME NEW q \in Seq(Task), q # << >>
  PROVE  <<Head(q)>> \o Tail(q) = q
<1> DEFINE p == <<Head(q)>> \o Tail(q)
<1>1. Head(q) \in Task /\ Tail(q) \in Seq(Task) /\ Len(Tail(q)) = Len(q) - 1
  OBVIOUS
<1>2. p \in Seq(Task) /\ Len(p) = Len(q)
  BY <1>1
<1>3. \A i \in 1..Len(q) : p[i] = q[i]
  BY <1>1
<1> QED  BY <1>2, <1>3

LEMMA PumpSameQueue ==
  ASSUME NEW s, Sound(s)
  PROVE  SameQueue(s, Pump(s))
<1>1. /\ s \in Scheduler
      /\ s.running \in BOOLEAN
      /\ s.resolved \in BOOLEAN
      /\ s.stack \in Seq(Task)
      /\ s.task \in [Task -> Status]
  BY Fields DEF Sound
<1>2. CASE ~s.running /\ s.stack # << >>
  <2> DEFINE h == Head(s.stack)
             r == Take(s)
  <2>1. Pump(s) = r
    BY <1>2 DEF Pump
  <2>2. /\ h \in Task /\ s.task[h] = "queued"
        /\ r.strict = s.strict
        /\ r.stack = Tail(s.stack)
        /\ r.task = [s.task EXCEPT ![h] = "taken"]
    BY <1>2, TakeFields
  <2>3. Serial(r)
    BY <1>2, SoundTake DEF Sound
  <2> HIDE DEF r
  <2>4. Ahead(s) = s.stack
    <3>1. \A t \in Task : s.task[t] # "taken"
      BY <1>2 DEF Sound, Serial, InFlight
    <3> QED  BY <1>1, <3>1, AheadOfNone
  <2>5. Ahead(r) = <<h>> \o Tail(s.stack)
    BY <1>1, <2>2, <2>3, AheadOfTaken
  <2>6. Ahead(r) = Ahead(s)
    BY <1>1, <1>2, <2>4, <2>5, HeadAndTail
  <2>7. Executing(r) = Executing(s)
    BY <1>1, <2>2 DEF Executing
  <2>8. ResultOf(r) = ResultOf(s)
    <3>1. \A t \in Task : ResultWhen(r.task[t]) = ResultWhen(s.task[t])
      BY <1>1, <2>2 DEF ResultWhen, Settled
    <3> QED  BY <3>1 DEF ResultOf
  <2> QED  BY <2>1, <2>2, <2>6, <2>7, <2>8 DEF SameQueue
<1>3. CASE s.running \/ s.stack = << >>
  <2>1. /\ EndOk(s).task = s.task
        /\ EndOk(s).stack = s.stack
        /\ EndOk(s).strict = s.strict
    BY <1>1 DEF EndOk, Scheduler
  <2>2. /\ Pump(s).task = s.task
        /\ Pump(s).stack = s.stack
        /\ Pump(s).strict = s.strict
    BY <1>1, <1>3, <2>1 DEF Pump
  <2> QED  BY <2>2 DEF SameQueue, Ahead, Executing, ResultOf
<1> QED  BY <1>1, <1>2, <1>3

LEMMA PushAllQueue ==
  ASSUME NEW s, Sound(s), NEW ts \in Seq(Task), IsSimple(ts), ts # << >>,
         NEW out \in BOOLEAN, \A t \in Range(ts) : s.task[t] = "idle"
  PROVE  LET r == PushAll(s, ts, out)
         IN  /\ r.strict = s.strict
             /\ Ahead(r) = Ahead(s) \o ts
             /\ Executing(r) = Executing(s)
             /\ ResultOf(r) = ResultOf(s)
<1> DEFINE r == [Enqueue(s, ts, out) EXCEPT !.stack = s.stack \o ts]
<1>1. /\ s \in Scheduler
      /\ s.stack \in Seq(Task)
      /\ s.task \in [Task -> Status]
      /\ Serial(s)
  BY Fields DEF Sound
<1>2. PushAll(s, ts, out) = PumpUnlessPaused(r)
  <2>1. Enqueue(s, ts, out).stack = s.stack
    BY <1>1 DEF Enqueue, Scheduler
  <2> QED  BY <2>1 DEF PushAll
<1>3. /\ r.strict = s.strict
      /\ r.stack = s.stack \o ts
      /\ r.task = [t \in Task |-> IF t \in Range(ts) THEN "queued" ELSE s.task[t]]
  BY <1>1 DEF Enqueue, Scheduler
<1>4. Sound(r)
  <2>1. /\ s.stack \o ts \in Seq(Task)
        /\ IsSimple(s.stack \o ts)
        /\ Range(s.stack \o ts) = Range(s.stack) \cup Range(ts)
    BY IdleIsOff, RangeOfConcat
  <2> QED  BY <2>1, SoundEnqueue
<1> HIDE DEF r
<1>5. \A t \in Task : /\ r.task[t] = "taken" <=> s.task[t] = "taken"
                      /\ r.task[t] = "executing" <=> s.task[t] = "executing"
  BY <1>3
<1>6. Ahead(r) = Ahead(s) \o ts
  <2>1. CASE \A t \in Task : s.task[t] # "taken"
    <3>1. Ahead(s) = s.stack
      BY <1>1, <2>1, AheadOfNone
    <3>2. Ahead(r) = s.stack \o ts
      <4>1. r.stack \in Seq(Task)
        BY <1>1, <1>3
      <4>2. \A t \in Task : r.task[t] # "taken"
        BY <1>5, <2>1
      <4> QED  BY <1>3, <4>1, <4>2, AheadOfNone
    <3> QED  BY <3>1, <3>2
  <2>2. ASSUME NEW t \in Task, s.task[t] = "taken"
        PROVE  Ahead(r) = Ahead(s) \o ts
    <3>1. Ahead(s) = <<t>> \o s.stack
      BY <1>1, <2>2, AheadOfTaken
    <3>2. Ahead(r) = <<t>> \o (s.stack \o ts)
      <4>1. Serial(r) /\ r.task[t] = "taken"
        BY <1>4, <1>5, <2>2 DEF Sound
      <4>2. Ahead(r) = <<t>> \o r.stack
        BY <4>1, AheadOfTaken
      <4> QED  BY <1>3, <4>2
    <3>3. <<t>> \o (s.stack \o ts) = (<<t>> \o s.stack) \o ts
      <4>1. <<t>> \in Seq(Task)
        OBVIOUS
      <4> QED  BY <1>1, <4>1, ConcatOfThree
    <3> QED  BY <3>1, <3>2, <3>3
  <2> QED  BY <2>1, <2>2
<1>7. Executing(r) = Executing(s)
  BY <1>5 DEF Executing
<1>8. ResultOf(r) = ResultOf(s)
  BY <1>3 DEF ResultOf, ResultWhen, Settled
<1>9. SameQueue(r, PumpUnlessPaused(r))
  <2>1. SameQueue(r, r)
    BY DEF SameQueue
  <2> QED  BY <1>4, <2>1, PumpSameQueue DEF PumpUnlessPaused
<1> QED  BY <1>2, <1>3, <1>6, <1>7, <1>8, <1>9 DEF SameQueue

LEMMA SameQueueOfFields ==
  ASSUME NEW s, NEW r, r.strict = s.strict, r.stack = s.stack, r.task = s.task
  PROVE  SameQueue(s, r)
BY DEF SameQueue, Ahead, Executing, ResultOf

LEMMA ResumeSameQueue ==
  ASSUME NEW s, Sound(s)
  PROVE  SameQueue(s, Resume(s))
<1> DEFINE r == [s EXCEPT !.paused = FALSE]
<1>1. s \in Scheduler
  BY DEF Sound
<1>2. /\ r \in Scheduler /\ r.running = s.running /\ r.loop = s.loop
      /\ r.strict = s.strict /\ r.stack = s.stack /\ r.task = s.task
  BY <1>1 DEF Scheduler
<1>3. Resume(s) = Pump(r)
  BY DEF Resume
<1> HIDE DEF r
<1>4. Sound(r) /\ SameQueue(s, r)
  BY <1>2, SoundFlags, SameQueueOfFields
<1> QED  BY <1>3, <1>4, PumpSameQueue DEF SameQueue

LEMMA PumpCallbackSameQueue ==
  ASSUME NEW s, Sound(s), s.loop # << >>, Head(s.loop) = "pump"
  PROVE  SameQueue(s, PumpCallback(s))
<1> DEFINE r == [s EXCEPT !.loop = Tail(@)]
<1>1. s \in Scheduler
  BY DEF Sound
<1>2. r.strict = s.strict /\ r.stack = s.stack /\ r.task = s.task
  BY <1>1 DEF Scheduler
<1>3. Sound(r)
  BY SoundPumpDue
<1>4. PumpCallback(s) = Pump(r)
  BY DEF PumpCallback
<1> HIDE DEF r
<1>5. SameQueue(s, r)
  BY <1>2, SameQueueOfFields
<1> QED  BY <1>3, <1>4, <1>5, PumpSameQueue DEF SameQueue

\* The handler of the first task is called when no other executes.
LEMMA CallHandlerQueue ==
  ASSUME NEW s, Sound(s), NEW t \in Task, s.task[t] = "taken"
  PROVE  LET r == CallHandler(s, t)
         IN  /\ r.strict = s.strict
             /\ Ahead(s) # << >>
             /\ Executing(s) = {}
             /\ Executing(r) = {Head(Ahead(s))}
             /\ Ahead(r) = Tail(Ahead(s))
             /\ ResultOf(r) = ResultOf(s)
<1> DEFINE r == CallHandler(s, t)
<1>1. /\ s \in Scheduler
      /\ s.stack \in Seq(Task)
      /\ s.task \in [Task -> Status]
      /\ Serial(s)
  BY Fields DEF Sound
<1>2. /\ r.strict = s.strict
      /\ r.stack = s.stack
      /\ r.task = [s.task EXCEPT ![t] = "executing"]
  BY <1>1 DEF CallHandler, Scheduler
<1> HIDE DEF r
<1>3. \A u \in Task : s.task[u] \in {"taken", "executing"} => u = t
  BY <1>1 DEF Serial, InFlight
<1>4. Ahead(s) = <<t>> \o s.stack
  BY <1>1, AheadOfTaken
<1>5. Ahead(s) # << >> /\ Head(Ahead(s)) = t /\ Tail(Ahead(s)) = s.stack
  <2>1. /\ Ahead(s) \in Seq(Task)
        /\ Len(Ahead(s)) = Len(s.stack) + 1
        /\ Ahead(s)[1] = t
        /\ \A i \in 1..Len(s.stack) : Ahead(s)[i + 1] = s.stack[i]
    BY <1>1, <1>4
  <2>2. Ahead(s) # << >> /\ Head(Ahead(s)) = t
    BY <1>1, <2>1
  <2>3. /\ Tail(Ahead(s)) \in Seq(Task)
        /\ Len(Tail(Ahead(s))) = Len(s.stack)
        /\ \A i \in 1..Len(s.stack) : Tail(Ahead(s))[i] = s.stack[i]
    BY <1>1, <2>1, <2>2
  <2> QED  BY <1>1, <2>2, <2>3
<1>6. Executing(s) = {} /\ Executing(r) = {t}
  BY <1>1, <1>2, <1>3 DEF Executing
<1>7. Ahead(r) = s.stack
  <2>1. \A u \in Task : r.task[u] # "taken"
    BY <1>1, <1>2, <1>3
  <2> QED  BY <1>1, <1>2, <2>1, AheadOfNone
<1>8. ResultOf(r) = ResultOf(s)
  BY <1>1, <1>2 DEF ResultOf, ResultWhen, Settled
<1> QED  BY <1>2, <1>5, <1>6, <1>7, <1>8 DEF r

\* While a handler executes, the queue is the stack.
LEMMA ExecutingAlone ==
  ASSUME NEW s, Sound(s), NEW t \in Task, s.task[t] = "executing"
  PROVE  /\ Executing(s) = {t}
         /\ Ahead(s) = s.stack
         /\ \A u \in Task : s.task[u] # "taken"
<1>1. /\ s.stack \in Seq(Task)
      /\ Serial(s)
  BY Fields DEF Sound
<1>2. \A u \in Task : s.task[u] \in {"taken", "executing"} => u = t
  BY <1>1 DEF Serial, InFlight
<1>3. \A u \in Task : s.task[u] # "taken"
  BY <1>2
<1>4. Executing(s) = {t}
  BY <1>2 DEF Executing
<1> QED  BY <1>1, <1>3, <1>4, AheadOfNone

LEMMA OverQueue ==
  ASSUME NEW s, Sound(s), NEW t \in Task, s.task[t] = "executing",
         NEW v \in {"fulfilled", "failed"}, NEW r,
         r.strict = s.strict, r.stack = s.stack,
         r.task = [s.task EXCEPT ![t] = v]
  PROVE  /\ Executing(r) = {}
         /\ Ahead(r) = Ahead(s)
         /\ ResultOf(r) =
              [ResultOf(s) EXCEPT ![t] = IF v = "fulfilled" THEN "success"
                                         ELSE "failure"]
<1>1. /\ s.stack \in Seq(Task)
      /\ s.task \in [Task -> Status]
      /\ Executing(s) = {t}
      /\ Ahead(s) = s.stack
      /\ \A u \in Task : s.task[u] # "taken"
  BY ExecutingAlone, Fields DEF Sound
<1>2. Executing(r) = {}
  BY <1>1 DEF Executing
<1>3. Ahead(r) = r.stack
  <2>1. \A u \in Task : r.task[u] # "taken"
    BY <1>1
  <2> QED  BY <1>1, <2>1, AheadOfNone
<1>4. ResultOf(r) = [ResultOf(s) EXCEPT ![t] = IF v = "fulfilled" THEN "success"
                                               ELSE "failure"]
  BY <1>1 DEF ResultOf, ResultWhen, Settled
<1> QED  BY <1>1, <1>2, <1>3, <1>4


LEMMA FulfilledQueue ==
  ASSUME NEW s, Sound(s), NEW t \in Task, s.task[t] = "executing"
  PROVE  LET r == HandlerFulfilled(s, t)
         IN  /\ r.strict = s.strict
             /\ Executing(s) = {t}
             /\ Executing(r) = {}
             /\ Ahead(r) = Ahead(s)
             /\ ResultOf(r) = [ResultOf(s) EXCEPT ![t] = "success"]
<1> DEFINE r == HandlerFulfilled(s, t)
<1>1. s \in Scheduler
  BY DEF Sound
<1>2. /\ r.strict = s.strict
      /\ r.stack = s.stack
      /\ r.task = [s.task EXCEPT ![t] = "fulfilled"]
  BY <1>1 DEF HandlerFulfilled, Scheduler
<1> HIDE DEF r
<1>3. /\ Executing(r) = {}
      /\ Ahead(r) = Ahead(s)
      /\ ResultOf(r) = [ResultOf(s) EXCEPT ![t] = "success"]
  BY <1>2, OverQueue
<1> QED  BY <1>2, <1>3, ExecutingAlone DEF r

LEMMA TolerantQueue ==
  ASSUME NEW s, Sound(s), NEW t \in Task, s.task[t] = "executing",
         NEW falsy \in BOOLEAN, ~s.strict
  PROVE  LET r == HandlerRejected(s, t, falsy)
         IN  /\ r.strict = s.strict
             /\ Executing(s) = {t}
             /\ Executing(r) = {}
             /\ Ahead(r) = Ahead(s)
             /\ ResultOf(r) = [ResultOf(s) EXCEPT ![t] = "failure"]
<1> DEFINE r == HandlerRejected(s, t, falsy)
<1>1. s \in Scheduler
  BY DEF Sound
<1>2. /\ r.strict = s.strict
      /\ r.stack = s.stack
      /\ r.task = [s.task EXCEPT ![t] = "failed"]
  BY <1>1 DEF HandlerRejected, Scheduler
<1> HIDE DEF r
<1>3. /\ Executing(r) = {}
      /\ Ahead(r) = Ahead(s)
      /\ ResultOf(r) = [ResultOf(s) EXCEPT ![t] = "failure"]
  BY <1>2, OverQueue
<1> QED  BY <1>2, <1>3, ExecutingAlone DEF r

\* A failure with a reason in a strict scheduler is that of all that waits.
LEMMA StrictQueue ==
  ASSUME NEW s, Sound(s), NEW t \in Task, s.task[t] = "executing", s.strict
  PROVE  LET r == HandlerRejected(s, t, FALSE)
         IN  /\ r.strict = s.strict
             /\ Executing(s) = {t}
             /\ Executing(r) = {}
             /\ Ahead(r) = << >>
             /\ ResultOf(r) = FailsAll(s, t)
<1> DEFINE r == HandlerRejected(s, t, FALSE)
           f == [s EXCEPT !.running = FALSE,
                          !.task    = [@ EXCEPT ![t] = "failed"]]
<1>1. /\ s \in Scheduler
      /\ s.stack \in Seq(Task)
      /\ s.task \in [Task -> Status]
      /\ Executing(s) = {t}
      /\ Ahead(s) = s.stack
      /\ \A u \in Task : s.task[u] # "taken"
      /\ \A u \in Task : s.task[u] = "executing" => u = t
  BY ExecutingAlone, Fields DEF Sound, Serial, InFlight
<1>2. f \in Scheduler /\ f.strict = s.strict /\ f.stack = s.stack
        /\ f.task = [s.task EXCEPT ![t] = "failed"]
  BY <1>1 DEF Scheduler, Status
<1>3. r = EndError(f)
  BY DEF HandlerRejected
<1> HIDE DEF f
<1>4. /\ r.strict = s.strict
      /\ r.stack = << >>
      /\ r.task = [u \in Task |-> IF u \in Range(s.stack) THEN "dropped"
                                  ELSE f.task[u]]
  <2> DEFINE tk == [u \in Task |-> IF u \in Range(s.stack) THEN "dropped"
                                    ELSE f.task[u]]
  <2>1. r = [f EXCEPT !.resolved = TRUE,
                      !.outcome  = IF @ = "pending" THEN "rejected" ELSE @,
                      !.stack    = << >>,
                      !.task     = tk]
    BY <1>2, <1>3 DEF EndError
  <2> HIDE DEF tk, r
  <2>2. r.strict = s.strict /\ r.stack = << >> /\ r.task = tk
    BY <1>2, <2>1 DEF Scheduler
  <2> QED  BY <2>2 DEF tk
<1> HIDE DEF r
<1>5. \A u \in Task : u \in Range(s.stack) <=> \E i \in 1..Len(s.stack) : s.stack[i] = u
  BY <1>1 DEF Range
<1>6. t \notin Range(s.stack)
  BY DEF Sound, StackHoldsWaiting, Waiting
<1>7. \A u \in Task : r.task[u] = IF u \in Range(s.stack) THEN "dropped"
                                  ELSE IF u = t THEN "failed" ELSE s.task[u]
  BY <1>1, <1>2, <1>4
<1>8. \A u \in Task : r.task[u] \notin {"taken", "executing"}
  BY <1>1, <1>7
<1>9. Ahead(r) = << >>
  <2>1. r.stack \in Seq(Task)
    BY <1>4
  <2> QED  BY <1>4, <1>8, <2>1, AheadOfNone
<1>10. Executing(r) = {}
  BY <1>8 DEF Executing
<1>11. ASSUME NEW u \in Task
       PROVE  ResultOf(r)[u] = IF u = t \/ u \in Range(s.stack)
                               THEN "failure" ELSE ResultOf(s)[u]
  BY <1>6, <1>7 DEF ResultOf, ResultWhen, Settled
<1>12. ResultOf(r) = FailsAll(s, t)
  <2>1. ResultOf(r) = [u \in Task |-> ResultOf(r)[u]]
    BY DEF ResultOf
  <2> QED  BY <1>1, <1>5, <1>11, <2>1 DEF FailsAll
<1> QED  BY <1>1, <1>4, <1>9, <1>10, <1>12 DEF r

\* A scheduler made with handlers has them ahead, in their order.
LEMMA CreatedQueue ==
  ASSUME NEW strict \in BOOLEAN, NEW paused \in BOOLEAN,
         NEW ts \in Seq(Task), IsSimple(ts)
  PROVE  /\ LET r == Create(strict, paused)
            IN  /\ r.strict = strict
                /\ Ahead(r) = << >>
                /\ Executing(r) = {}
                /\ ResultOf(r) = [t \in Task |-> "none"]
         /\ LET r == CreateWith(ts, strict, paused)
            IN  /\ r.strict = strict
                /\ Ahead(r) = ts
                /\ Executing(r) = {}
                /\ ResultOf(r) = [t \in Task |-> "none"]
<1> DEFINE b == Blank(strict, paused)
           c == CreateWith(ts, strict, paused)
<1>1. /\ Sound(b)
      /\ b.strict = strict
      /\ b.stack = << >>
      /\ \A t \in Task : b.task[t] = "idle"
  BY SoundBlank DEF Blank
<1>2. ASSUME NEW r, r.stack = << >>, \A t \in Task : r.task[t] = "idle"
      PROVE  /\ Ahead(r) = << >>
             /\ Executing(r) = {}
             /\ ResultOf(r) = [t \in Task |-> "none"]
  <2>1. Ahead(r) = << >>
    <3>1. r.stack \in Seq(Task) /\ \A t \in Task : r.task[t] # "taken"
      BY <1>2
    <3> QED  BY <1>2, <3>1, AheadOfNone
  <2>2. Executing(r) = {}
    BY <1>2 DEF Executing
  <2>3. ResultOf(r) = [t \in Task |-> "none"]
    BY <1>2 DEF ResultOf, ResultWhen, Settled
  <2> QED  BY <2>1, <2>2, <2>3
<1>3. CASE ts = << >>
  <2>1. /\ c.strict = strict
        /\ c.stack = << >>
        /\ \A t \in Task : c.task[t] = "idle"
    BY <1>3 DEF CreateWith, Blank
  <2> HIDE DEF b, c
  <2> QED  BY <1>1, <1>2, <1>3, <2>1 DEF Create, b, c
<1>4. CASE ts # << >>
  <2> DEFINE p == PushAll(b, ts, TRUE)
  <2>1. c = Pump(p)
    BY <1>4 DEF CreateWith
  <2> HIDE DEF b, c
  <2>2. \A t \in Range(ts) : b.task[t] = "idle"
    BY <1>1, RangeOfSeq
  <2>3. /\ Sound(p)
        /\ p.strict = b.strict
        /\ Ahead(p) = Ahead(b) \o ts
        /\ Executing(p) = Executing(b)
        /\ ResultOf(p) = ResultOf(b)
    BY <1>1, <1>4, <2>2, SoundPushAll, PushAllQueue
  <2> HIDE DEF p
  <2>4. SameQueue(p, c)
    BY <2>1, <2>3, PumpSameQueue
  <2>5. Ahead(b) = << >> /\ Executing(b) = {} /\ ResultOf(b) = [t \in Task |-> "none"]
    BY <1>1, <1>2
  <2>6. Ahead(p) = ts
    BY <2>3, <2>5, EmptyConcat
  <2> QED  BY <1>1, <2>3, <2>4, <2>5, <2>6 DEF SameQueue, Create, b, c
<1> QED  BY <1>3, <1>4


-----------------------------------------------------------------------------
(***************************************************************************)
(* The steps.                                                              *)
(***************************************************************************)

LEMMA Bars ==
  /\ resultBar = ResultOf(sched)
  /\ resultBar' = ResultOf(sched)'
  /\ {t \in Task : sched.task[t] = "executing"} = Executing(sched)
  /\ {t \in Task : sched.task[t] = "executing"}' = Executing(sched)'
BY DEF resultBar, ResultOf, ResultWhen, Executing

\* A task that was not handed over is unknown to the queue.
LEMMA IdleIsUnknown ==
  ASSUME Inv, NEW t \in Task, sched.task[t] = "idle"
  PROVE  t \notin Q!Known
<1>1. /\ sched.stack \in Seq(Task)
      /\ Serial(sched)
      /\ \A u \in Range(sched.stack) : sched.task[u] = "queued"
  BY Fields DEF Inv, Sound, StackHoldsWaiting, Waiting
<1>2. \A i \in 1..Len(sched.stack) : sched.task[sched.stack[i]] = "queued"
  BY <1>1 DEF Range
<1>3. \A i \in 1..Len(Ahead(sched)) : Ahead(sched)[i] # t
  <2>1. CASE \A u \in Task : sched.task[u] # "taken"
    <3>1. Ahead(sched) = sched.stack
      BY <1>1, <2>1, AheadOfNone
    <3> QED  BY <1>2, <3>1
  <2>2. ASSUME NEW u \in Task, sched.task[u] = "taken"
        PROVE  \A i \in 1..Len(Ahead(sched)) : Ahead(sched)[i] # t
    <3>1. Ahead(sched) = <<u>> \o sched.stack
      BY <1>1, <2>2, AheadOfTaken
    <3>2. /\ Len(Ahead(sched)) = Len(sched.stack) + 1
          /\ Ahead(sched)[1] = u
          /\ \A i \in 2..Len(sched.stack) + 1 : Ahead(sched)[i] = sched.stack[i - 1]
      BY <1>1, <3>1
    <3>3. \A i \in 2..Len(sched.stack) + 1 : i - 1 \in 1..Len(sched.stack)
      BY <1>1
    <3>4. \A i \in 2..Len(sched.stack) + 1 : Ahead(sched)[i] # t
      BY <1>2, <3>2, <3>3
    <3>5. \A i \in 1..Len(Ahead(sched)) : i = 1 \/ i \in 2..Len(sched.stack) + 1
      BY <1>1, <3>2
    <3> QED  BY <2>2, <3>2, <3>4, <3>5
  <2> QED  BY <2>1, <2>2
<1>4. t \notin Executing(sched)
  BY DEF Executing
<1>5. resultBar[t] = "none"
  BY DEF resultBar, Settled
<1> QED  BY <1>3, <1>4, <1>5, Bars DEF Q!Known

LEMMA AddStep ==
  ASSUME Inv, NEW ts \in Batch \cup {<<t>> : t \in Task},
         NEW out \in BOOLEAN, Fresh(ts), sched' = PushAll(sched, ts, out)
  PROVE  [Q!Next]_Q!qvars
<1>1. ts \in Seq(Task) /\ IsSimple(ts)
  BY SchedulerAssumption, RangeOfOne
<1>2. CASE ts = << >>
  <2>1. sched' = sched
    BY <1>2 DEF PushAll
  <2>2. Ahead(sched)' = Ahead(sched) /\ resultBar' = resultBar
          /\ {t \in Task : sched.task[t] = "executing"}'
               = {t \in Task : sched.task[t] = "executing"}
    BY <2>1 DEF Ahead, resultBar
  <2> QED  BY <2>1, <2>2 DEF Q!qvars
<1>3. CASE ts # << >>
  <2>1. /\ sched'.strict = sched.strict
        /\ Ahead(sched)' = Ahead(sched) \o ts
        /\ Executing(sched)' = Executing(sched)
        /\ ResultOf(sched)' = ResultOf(sched)
    <3>1. /\ sched'.strict = sched.strict
          /\ Ahead(sched') = Ahead(sched) \o ts
          /\ Executing(sched') = Executing(sched)
          /\ ResultOf(sched') = ResultOf(sched)
      BY <1>1, <1>3, PushAllQueue DEF Inv, Fresh
    <3> QED  BY <3>1
  <2>2. \A i \in 1..Len(ts) : ts[i] \notin Q!Known
    <3>1. \A i \in 1..Len(ts) : ts[i] \in Task /\ sched.task[ts[i]] = "idle"
      BY <1>1 DEF Fresh, Range
    <3> QED  BY <3>1, IdleIsUnknown
  <2>3. Q!Add
    BY <2>1, <2>2, Bars DEF Q!Add
  <2> QED  BY <2>3 DEF Q!Next
<1> QED  BY <1>2, <1>3

LEMMA SameStep ==
  ASSUME SameQueue(sched, sched')
  PROVE  [Q!Next]_Q!qvars
<1>1. /\ sched'.strict = sched.strict
      /\ Ahead(sched)' = Ahead(sched)
      /\ Executing(sched)' = Executing(sched)
      /\ ResultOf(sched)' = ResultOf(sched)
  BY DEF SameQueue
<1> QED  BY <1>1, Bars DEF Q!qvars

LEMMA RunStep ==
  ASSUME Inv, NEW t \in Task, RunTask(t)
  PROVE  Q!Next
<1>1. /\ sched'.strict = sched.strict
      /\ Ahead(sched) # << >>
      /\ Executing(sched) = {}
      /\ Executing(sched') = {Head(Ahead(sched))}
      /\ Ahead(sched') = Tail(Ahead(sched))
      /\ ResultOf(sched') = ResultOf(sched)
  BY CallHandlerQueue DEF Inv, RunTask
<1>2. Q!Begin
  BY <1>1, Bars DEF Q!Begin
<1> QED  BY <1>2 DEF Q!Next

LEMMA FulfilStep ==
  ASSUME Inv, NEW t \in Task, Fulfil(t)
  PROVE  Q!Next
<1>1. /\ sched'.strict = sched.strict
      /\ Executing(sched) = {t}
      /\ Executing(sched') = {}
      /\ Ahead(sched') = Ahead(sched)
      /\ ResultOf(sched') = [ResultOf(sched) EXCEPT ![t] = "success"]
  BY FulfilledQueue DEF Inv, Fulfil
<1>2. Q!Succeed
  BY <1>1, Bars DEF Q!Succeed
<1> QED  BY <1>2 DEF Q!Next

LEMMA FailStep ==
  ASSUME Inv, AwakeInv, NEW t \in Task, NEW falsy \in BOOLEAN, Fail(t, falsy)
  PROVE  Q!Next
<1>1. CASE ~sched.strict
  <2>1. /\ sched'.strict = sched.strict
        /\ Executing(sched) = {t}
        /\ Executing(sched') = {}
        /\ Ahead(sched') = Ahead(sched)
        /\ ResultOf(sched') = [ResultOf(sched) EXCEPT ![t] = "failure"]
    BY <1>1, TolerantQueue DEF Inv, Fail
  <2>2. Q!Fail
    BY <1>1, <2>1, Bars DEF Q!Fail
  <2> QED  BY <2>2 DEF Q!Next
<1>2. CASE sched.strict
  <2>1. falsy = FALSE
    BY <1>2 DEF AwakeInv, Fail
  <2>2. /\ sched'.strict = sched.strict
        /\ Executing(sched) = {t}
        /\ Executing(sched') = {}
        /\ Ahead(sched') = << >>
        /\ ResultOf(sched') = FailsAll(sched, t)
    <3> DEFINE r == HandlerRejected(sched, t, FALSE)
    <3>1. sched' = r /\ Sound(sched) /\ sched.task[t] = "executing"
      BY <2>1 DEF Inv, Fail
    <3>2. /\ r.strict = sched.strict
          /\ Executing(sched) = {t}
          /\ Executing(r) = {}
          /\ Ahead(r) = << >>
          /\ ResultOf(r) = FailsAll(sched, t)
      BY <1>2, <3>1, StrictQueue
    <3> HIDE DEF r
    <3> QED  BY <3>1, <3>2
  <2>3. Q!Fail
    <3>1. /\ t \in {u \in Task : sched.task[u] = "executing"}
          /\ {u \in Task : sched.task[u] = "executing"}' = {}
          /\ Ahead(sched)' = << >>
          /\ resultBar' =
               [u \in Task |->
                  IF u = t \/ \E i \in 1..Len(Ahead(sched)) : Ahead(sched)[i] = u
                  THEN "failure" ELSE resultBar[u]]
          /\ sched'.strict = sched.strict
      BY <2>2, Bars DEF FailsAll
    <3> QED  BY <1>2, <3>1 DEF Q!Fail
  <2> QED  BY <2>3 DEF Q!Next
<1> QED  BY <1>1, <1>2

LEMMA QueueInit == Init => Q!Init
<1> SUFFICES ASSUME Init PROVE Q!Init
  OBVIOUS
<1>1. PICK kind \in Kind :
        \/ sched = Create(kind.strict, kind.paused)
        \/ \E ts \in Batch : sched = CreateWith(ts, kind.strict, kind.paused)
  BY DEF Init
<1>2. kind.strict \in BOOLEAN /\ kind.paused \in BOOLEAN
  BY SchedulerAssumption
<1>3. CASE sched = Create(kind.strict, kind.paused)
  <2>1. /\ sched.strict = kind.strict
        /\ Ahead(sched) = << >>
        /\ Executing(sched) = {}
        /\ ResultOf(sched) = [t \in Task |-> "none"]
    BY <1>2, <1>3, RangeOfEmpty, CreatedQueue
  <2> QED  BY <1>2, <2>1, Bars DEF Q!Init
<1>4. ASSUME NEW ts \in Batch, sched = CreateWith(ts, kind.strict, kind.paused)
      PROVE  Q!Init
  <2>1. ts \in Seq(Task) /\ IsSimple(ts)
    BY SchedulerAssumption
  <2>2. /\ sched.strict = kind.strict
        /\ Ahead(sched) = ts
        /\ Executing(sched) = {}
        /\ ResultOf(sched) = [t \in Task |-> "none"]
    BY <1>2, <1>4, <2>1, CreatedQueue
  <2> QED  BY <1>2, <2>2, Bars DEF Q!Init
<1> QED  BY <1>1, <1>3, <1>4

LEMMA QueueNext ==
  Inv /\ AwakeInv /\ [Next]_vars => [Q!Next \/ CutsIn]_Q!qvars
<1> SUFFICES ASSUME Inv, AwakeInv, [Next]_vars, ~CutsIn PROVE [Q!Next]_Q!qvars
  OBVIOUS
<1>0. Sound(sched) /\ sched \in Scheduler
  BY DEF Inv, Sound
<1>1. ASSUME NEW t \in Task, NEW out \in BOOLEAN, CallPush(t, out)
      PROVE  [Q!Next]_Q!qvars
  BY <1>1, AddStep DEF CallPush, Push
<1>2. ASSUME NEW ts \in Batch, NEW out \in BOOLEAN, CallPushAll(ts, out)
      PROVE  [Q!Next]_Q!qvars
  BY <1>2, AddStep DEF CallPushAll
<1>3. CASE CallPause
  <2>1. /\ sched'.strict = sched.strict
        /\ sched'.stack = sched.stack
        /\ sched'.task = sched.task
    BY <1>0, <1>3 DEF CallPause, Pause, Scheduler
  <2> QED  BY <2>1, SameQueueOfFields, SameStep
<1>4. CASE CallResume
  BY <1>0, <1>4, ResumeSameQueue, SameStep DEF CallResume
<1>5. ASSUME NEW t \in Task, RunTask(t)
      PROVE  [Q!Next]_Q!qvars
  BY <1>5, RunStep
<1>6. CASE RunPump
  BY <1>0, <1>6, PumpCallbackSameQueue, SameStep DEF RunPump, NextCallback
<1>7. ASSUME NEW t \in Task, Fulfil(t)
      PROVE  [Q!Next]_Q!qvars
  BY <1>7, FulfilStep
<1>8. ASSUME NEW t \in Task, NEW falsy \in BOOLEAN, Fail(t, falsy)
      PROVE  [Q!Next]_Q!qvars
  BY <1>8, FailStep
<1>9. CASE UNCHANGED vars
  <2>1. SameQueue(sched, sched')
    BY <1>9 DEF vars, SameQueue
  <2> QED  BY <2>1, SameStep
<1>10. /\ \A t \in Task : ~CallUnshift(t)
       /\ \A ts \in Batch : ~CallUnshiftAll(ts)
       /\ ~CallEnd
  BY DEF CutsIn
<1> QED
  BY <1>1, <1>2, <1>3, <1>4, <1>5, <1>6, <1>7, <1>8, <1>9, <1>10
  DEF Next, ClientCall, Immediate, HandlerOver

(* First in, first out, one at a time: when handlers reject with a reason, *)
(* every step of the scheduler but unshift and end is one of the queue,    *)
(* whatever is pushed when and whenever setImmediate calls back.           *)
THEOREM QueueImplemented == ASSUME Reasoned PROVE Spec => ImplementsTaskQueue
<1>1. Inv /\ AwakeInv /\ [Next]_vars => [Q!Next \/ CutsIn]_Q!qvars
  BY QueueNext
<1>2. Spec => [](Inv /\ AwakeInv)
  BY ReasonedAlways
<1> QED  BY <1>1, <1>2, QueueInit, PTL DEF Spec, ImplementsTaskQueue
=============================================================================
