---------------------------- MODULE LifecycleProofs ----------------------------
(***************************************************************************)
(* Theorems about Lifecycle, for any settings of the user, any bound on    *)
(* the attempts and on the children of an attempt.                         *)
(***************************************************************************)
EXTENDS Lifecycle, SchedulerOpsProofs

Cond(c)   == Condition(c, set.host)
Answer(a) == Assertion(a, result, set.host)

Before == {"tmpdir", "conditions", "schema", "attempt", "sleep"}
Later  == {"assert", "relax", "clean", "report", "over"}

\* Where the handler, the result and the promise stand in every stage.
Flow ==
  /\ hand \in {"control", "await"} <=> stage = "attempt"
  /\ hand = "none" <=> starts = 0
  /\ stage \in {"tmpdir", "conditions", "schema"} => starts = 0
  /\ stage \in {"attempt", "sleep"} => starts > 0
  /\ result = "pending" <=> stage \in Before
  /\ stage \in Before \cup {"drain", "assert", "relax"} => settled = "pending"
  /\ stage \in {"clean", "report"} => settled # "pending"
  /\ IF hand = "await" THEN \E i \in 1..calls : awaits = <<starts - 1, i>>
     ELSE awaits = None

\* What the hooks of nikita:action have decided so far.
Asking ==
  /\ set.disabled => off
  /\ stage \in {"tmpdir", "conditions"} =>
       /\ asked \in Seq(Range(set.conditions))
       /\ \A c \in Range(set.conditions) \ Range(asked) :
            Cond(c) = "yes" \/ (Cond(c) = "no" /\ off)
       /\ off => set.disabled \/ \E c \in Range(set.conditions) : Cond(c) = "no"
  /\ stage = "tmpdir" => asked = set.conditions
  /\ stage \in {"conditions", "schema"} => ~Unusable
  /\ stage = "schema" => ~off /\ \A c \in Range(set.conditions) : Cond(c) = "yes"
  /\ starts > 0 => Wanted /\ ~off
  /\ starts = 0 /\ stage \notin {"tmpdir", "conditions", "schema"} => ~Wanted

\* metadata.attempt counts the calls of the handler.
Counting ==
  /\ attempt = IF starts = 0 THEN set.attempt ELSE set.attempt + starts - 1
  /\ starts <= Allowed
  /\ stage = "sleep" => starts < MaxAttempts /\ ~GivesUp
  /\ starts > 0 /\ result = "error" => GivesUp

\* Once the promise of a scheduler is fulfilled, only the children called
\* later are not over.
Drained(s, calledLate) ==
  s.outcome = "fulfilled" =>
    \A t \in Task \ calledLate : s.task[t] \in {"idle"} \cup Settled

Uncalled(t) == t[1] > starts - 1 \/ (t[1] = starts - 1 /\ t[2] > calls)

ChildrenInv ==
  /\ Sound(in)
  /\ ~in.strict
  /\ Drained(in, late)
  /\ \A t \in Task : Uncalled(t) => in.task[t] = "idle"
  /\ stage \in Later /\ result # "error" => in.outcome = "fulfilled"

Judging ==
  /\ stage = "assert" => asked \in Seq(Range(set.assertions))
  /\ refused => /\ stage \in {"assert", "over"}
                /\ \E a \in Range(set.assertions) : Answer(a) = "no"

Dir ==
  /\ stage = "tmpdir" => ~tmp
  /\ Recorded /\ stage \notin {"tmpdir", "report", "over"} => tmp
  /\ tmp => Recorded \/ set.tmpdir = "unowned"
  /\ set.tmpdir = "unowned" /\ stage # "tmpdir" => result = "error"
  /\ settled = "fulfilled" => result # "error"
  /\ stage = "report" /\ tmp /\ ~set.dirty => set.tmpdir = "unowned"
  /\ stage = "over" /\ tmp /\ ~set.dirty =>
       /\ settled \in {"rejected", "relaxed"}
       /\ Asserted => set.tmpdir \in {"unowned", "stuck"}

Telling ==
  stage = "over" /\ settled = "fulfilled" /\ result \in {"nothing", "object"} /\ ~off =>
    /\ told \ late # {} => status
    /\ status => told # {}

IInv ==
  TypeOK /\ Flow /\ Asking /\ Counting /\ ChildrenInv /\ Judging /\ Dir /\ Telling

-----------------------------------------------------------------------------
(***************************************************************************)
(* The answers, the settings and the children.                             *)
(***************************************************************************)

LEMMA AllAnswers ==
  ASSUME NEW S
  PROVE  All(S) \in Answers
BY DEF All, Answers

LEMMA SettingFields ==
  ASSUME IInv
  PROVE  /\ set \in Setting
         /\ set.disabled \in BOOLEAN
         /\ set.dirty \in BOOLEAN
         /\ set.valid \in BOOLEAN
         /\ off \in BOOLEAN
         /\ set.retry \in Nat \cup {Always}
         /\ set.attempt \in Nat
         /\ set.conditions \in Seq(Range(set.conditions))
         /\ set.assertions \in Seq(Range(set.assertions))
         /\ MaxAttempts \in Nat \ {0}
         /\ MaxCalls \in Nat
         /\ Always = -1
         /\ attempt \in Nat /\ starts \in 0..MaxAttempts /\ calls \in 0..MaxCalls
BY LifecycleAssumption DEF IInv, TypeOK, Always

LEMMA ConditionAnswers ==
  ASSUME IInv, NEW c \in Range(set.conditions)
  PROVE  Cond(c) \in Answers
<1>1. c.kind \in {"if", "unless", "if_execute", "unless_execute",
                  "if_exists", "unless_exists", "if_os", "unless_os"}
  BY LifecycleAssumption DEF IInv, TypeOK
<1>2. IfOs(c, set.host) \in Answers /\ UnlessOs(c, set.host) \in Answers
  BY DEF IfOs, UnlessOs, Answers
<1>3. /\ If(c, set.host) \in Answers
      /\ Unless(c, set.host) \in Answers
      /\ IfExecute(c, set.host) \in Answers
      /\ UnlessExecute(c, set.host) \in Answers
      /\ IfExists(c, set.host) \in Answers
      /\ UnlessExists(c, set.host) \in Answers
  BY AllAnswers
  DEF If, Unless, IfExecute, UnlessExecute, IfExists, UnlessExists
<1> QED  BY <1>1, <1>2, <1>3 DEF Cond, Condition

\* One entry of a list is looked at.
LEMMA Looked ==
  ASSUME NEW S, NEW q \in Seq(S), q # << >>
  PROVE  /\ Head(q) \in S
         /\ Tail(q) \in Seq(S)
         /\ Range(q) = {Head(q)} \cup Range(Tail(q))
<1>1. /\ Head(q) = q[1] /\ q[1] \in S
      /\ Tail(q) \in Seq(S)
      /\ Len(q) \in Nat /\ Len(q) > 0
      /\ Len(Tail(q)) = Len(q) - 1
      /\ \A i \in 1..Len(Tail(q)) : Tail(q)[i] = q[i + 1]
      /\ DOMAIN q = 1..Len(q) /\ DOMAIN Tail(q) = 1..Len(Tail(q))
  BY HeadTailProperties, EmptySeq
<1>2. \A i \in 1..Len(q) : i = 1 \/ (i - 1 \in 1..Len(Tail(q)) /\ q[i] = Tail(q)[i - 1])
  BY <1>1
<1>3. \A i \in 1..Len(Tail(q)) : i + 1 \in 1..Len(q)
  BY <1>1
<1>4. ASSUME NEW x \in Range(q)
      PROVE  x \in {Head(q)} \cup Range(Tail(q))
  <2>1. PICK i \in 1..Len(q) : x = q[i]
    BY <1>1 DEF Range
  <2>2. i = 1 \/ (i - 1 \in DOMAIN Tail(q) /\ x = Tail(q)[i - 1])
    BY <1>1, <1>2, <2>1
  <2> QED  BY <1>1, <2>1, <2>2 DEF Range
<1>5. Range(Tail(q)) \subseteq Range(q)
  BY <1>1, <1>3 DEF Range
<1>6. Head(q) \in Range(q)
  BY <1>1 DEF Range
<1> QED  BY <1>1, <1>4, <1>5, <1>6

LEMMA DrainedPump ==
  ASSUME NEW s, Sound(s), NEW l, Drained(s, l)
  PROVE  /\ Drained(Pump(s), l)
         /\ s.outcome = "fulfilled" => Pump(s).outcome = "fulfilled"
<1>1. /\ s \in Scheduler
      /\ s.running \in BOOLEAN
      /\ s.resolved \in BOOLEAN
      /\ s.task \in [Task -> Status]
  BY Fields DEF Sound
<1>2. CASE s.running
  BY <1>2 DEF Pump
<1>3. CASE ~s.running /\ s.stack # << >>
  <2>1. Pump(s) = Take(s)
    BY <1>3 DEF Pump
  <2>2. /\ Head(s.stack) \in Task
        /\ s.task[Head(s.stack)] = "queued"
        /\ Take(s).task = [s.task EXCEPT ![Head(s.stack)] = "taken"]
        /\ Take(s).outcome = s.outcome
    BY <1>3, TakeFields
  <2> QED  BY <1>1, <2>1, <2>2 DEF Drained, Settled
<1>4. CASE ~s.running /\ s.stack = << >>
  <2>1. EndOk(s).task = s.task
    BY <1>1 DEF EndOk, Scheduler
  <2>2. Pump(s).task = s.task
    BY <1>1, <1>4, <2>1 DEF Pump
  <2>3. Emptied(s)
    BY <1>4, NothingLeft
  <2>4. s.outcome = "fulfilled" => Pump(s).outcome = "fulfilled"
    <3>1. s.outcome = "fulfilled" => EndOk(s).outcome = "fulfilled"
      BY <1>1 DEF EndOk, Scheduler
    <3> QED  BY <1>1, <1>4, <3>1 DEF Pump
  <2> QED  BY <2>2, <2>3, <2>4 DEF Drained, Emptied
<1> QED  BY <1>1, <1>2, <1>3, <1>4

LEMMA DrainedResume ==
  ASSUME NEW s, Sound(s), NEW l, Drained(s, l)
  PROVE  Drained(Resume(s), l)
<1> DEFINE r == [s EXCEPT !.paused = FALSE]
<1>1. s \in Scheduler
  BY DEF Sound
<1>2. /\ r \in Scheduler /\ r.running = s.running /\ r.loop = s.loop
      /\ r.stack = s.stack /\ r.task = s.task /\ r.outcome = s.outcome
  BY <1>1 DEF Scheduler
<1>3. Resume(s) = Pump(r)
  BY DEF Resume
<1> HIDE DEF r
<1>4. Sound(r) /\ Drained(r, l)
  BY <1>2, SoundFlags DEF Drained
<1> QED  BY <1>3, <1>4, DrainedPump

LEMMA DrainedPumpCallback ==
  ASSUME NEW s, Sound(s), NEW l, Drained(s, l), s.loop # << >>, Head(s.loop) = "pump"
  PROVE  /\ Drained(PumpCallback(s), l)
         /\ s.outcome = "fulfilled" => PumpCallback(s).outcome = "fulfilled"
<1> DEFINE r == [s EXCEPT !.loop = Tail(@)]
<1>1. s \in Scheduler
  BY DEF Sound
<1>2. r.task = s.task /\ r.outcome = s.outcome
  BY <1>1 DEF Scheduler
<1>3. Sound(r)
  BY SoundPumpDue
<1>4. PumpCallback(s) = Pump(r)
  BY DEF PumpCallback
<1> HIDE DEF r
<1>5. Drained(r, l)
  BY <1>2 DEF Drained
<1> QED  BY <1>2, <1>3, <1>4, <1>5, DrainedPump

\* The promise that is pending when a child is pushed stays so; one that is
\* not makes the child a late one.
LEMMA DrainedPush ==
  ASSUME NEW s, Sound(s), NEW l, Drained(s, l), NEW t \in Task, s.task[t] = "idle"
  PROVE  Drained(Push(s, t, FALSE), IF s.outcome = "pending" THEN l ELSE l \cup {t})
<1> DEFINE r == [Enqueue(s, <<t>>, FALSE) EXCEPT !.stack = s.stack \o <<t>>]
<1>1. /\ s \in Scheduler
      /\ s.stack \in Seq(Task)
      /\ s.task \in [Task -> Status]
  BY Fields DEF Sound
<1>2. <<t>> \in Seq(Task) /\ IsSimple(<<t>>) /\ Range(<<t>>) = {t}
  BY RangeOfOne
<1>3. Push(s, t, FALSE) = PumpUnlessPaused(r)
  <2>1. Enqueue(s, <<t>>, FALSE).stack = s.stack
    BY <1>1 DEF Enqueue, Scheduler
  <2>2. <<t>> # << >>
    OBVIOUS
  <2> QED  BY <2>1, <2>2 DEF Push, PushAll
<1>4. /\ r.outcome = s.outcome
      /\ r.stack = s.stack \o <<t>>
      /\ r.task = [u \in Task |-> IF u \in Range(<<t>>) THEN "queued" ELSE s.task[u]]
  BY <1>1 DEF Enqueue, Scheduler
<1>5. Sound(r)
  <2>1. \A u \in Range(<<t>>) : s.task[u] = "idle"
    BY <1>2
  <2>2. /\ s.stack \o <<t>> \in Seq(Task)
        /\ IsSimple(s.stack \o <<t>>)
        /\ Range(s.stack \o <<t>>) = Range(s.stack) \cup Range(<<t>>)
    BY <1>2, <2>1, IdleIsOff, RangeOfConcat
  <2> QED  BY <1>2, <2>1, <2>2, SoundEnqueue
<1> HIDE DEF r
<1>6. r.stack # << >>
  BY <1>1, <1>4
<1>7. CASE s.outcome = "pending"
  <2>1. PumpUnlessPaused(r).outcome = "pending"
    BY <1>4, <1>5, <1>6, <1>7, PumpMoves DEF PumpUnlessPaused
  <2> QED  BY <1>3, <1>7, <2>1 DEF Drained
<1>8. CASE s.outcome # "pending"
  <2>1. Drained(r, l \cup {t})
    BY <1>1, <1>2, <1>4 DEF Drained
  <2>2. Drained(Pump(r), l \cup {t})
    BY <1>5, <2>1, DrainedPump
  <2> QED  BY <1>3, <1>8, <2>1, <2>2 DEF PumpUnlessPaused
<1> QED  BY <1>7, <1>8

LEMMA StartOrEnd ==
  ASSUME NEW s, Sound(s), ~s.strict, NEW l, Drained(s, l), NEW t \in Task
  PROVE  /\ s.task[t] = "taken" =>
              LET r == CallHandler(s, t)
              IN  Drained(r, l) /\ r.strict = s.strict /\ r.outcome = s.outcome
         /\ s.task[t] = "executing" =>
              /\ \A r \in {HandlerFulfilled(s, t), HandlerRejected(s, t, FALSE)} :
                   Drained(r, l) /\ r.strict = s.strict /\ r.outcome = s.outcome
<1>1. /\ s \in Scheduler
      /\ s.task \in [Task -> Status]
  BY Fields DEF Sound
<1>2. ASSUME s.task[t] = "taken"
      PROVE  LET r == CallHandler(s, t)
             IN  Drained(r, l) /\ r.strict = s.strict /\ r.outcome = s.outcome
  <2>1. /\ CallHandler(s, t).task = [s.task EXCEPT ![t] = "executing"]
        /\ CallHandler(s, t).strict = s.strict
        /\ CallHandler(s, t).outcome = s.outcome
    BY <1>1 DEF CallHandler, Scheduler
  <2> QED  BY <1>1, <1>2, <2>1 DEF Drained, Settled
<1>3. ASSUME s.task[t] = "executing",
             NEW r \in {HandlerFulfilled(s, t), HandlerRejected(s, t, FALSE)}
      PROVE  Drained(r, l) /\ r.strict = s.strict /\ r.outcome = s.outcome
  <2>1. /\ HandlerFulfilled(s, t).task = [s.task EXCEPT ![t] = "fulfilled"]
        /\ HandlerFulfilled(s, t).strict = s.strict
        /\ HandlerFulfilled(s, t).outcome = s.outcome
    BY <1>1 DEF HandlerFulfilled, Scheduler
  <2>2. /\ HandlerRejected(s, t, FALSE).task = [s.task EXCEPT ![t] = "failed"]
        /\ HandlerRejected(s, t, FALSE).strict = s.strict
        /\ HandlerRejected(s, t, FALSE).outcome = s.outcome
    BY <1>1 DEF HandlerRejected, Scheduler
  <2>3. /\ r.strict = s.strict
        /\ r.outcome = s.outcome
        /\ \A u \in Task : r.task[u] = s.task[u] \/ r.task[u] \in Settled
    BY <1>1, <1>3, <2>1, <2>2 DEF Settled
  <2> QED  BY <2>3 DEF Drained
<1> QED  BY <1>2, <1>3

\* A callback that is not a pump is the call of the handler that was taken.
LEMMA RunDue ==
  ASSUME NEW s, Sound(s), s.loop # << >>, Head(s.loop) # "pump"
  PROVE  LET t == CHOOSE u \in Task : s.task[u] = "taken"
         IN  t \in Task /\ s.task[t] = "taken" /\ Head(s.loop) = "run"
<1>1. s.running
  BY Loops DEF Sound, LoopFollows
<1>2. PICK u \in Task : s.task[u] \in {"taken", "executing"}
  BY <1>1 DEF Sound, Serial, InFlight
<1>3. s.task[u] = "taken"
  BY <1>2 DEF Sound, LoopFollows
<1>4. Head(s.loop) = "run"
  BY <1>3, Loops DEF Sound, LoopFollows
<1> QED  BY <1>3, <1>4

\* Resuming `in` keeps what is said of the children.
LEMMA ResumedIn ==
  ASSUME ChildrenInv
  PROVE  /\ Sound(Resume(in))
         /\ ~Resume(in).strict
         /\ Drained(Resume(in), late)
         /\ \A t \in Task : in.task[t] = "idle" <=> Resume(in).task[t] = "idle"
<1>1. Sound(in) /\ ~in.strict /\ Drained(in, late)
  BY DEF ChildrenInv
<1>2. Sound(Resume(in)) /\ Drained(Resume(in), late)
  BY <1>1, SoundResume, DrainedResume
<1>3. Kept(in, Resume(in), {})
  BY <1>1, ResumeKeeps
<1>4. Resume(in).strict = in.strict
  BY <1>1, ResumeMoves DEF Moves
<1> QED  BY <1>1, <1>2, <1>3, <1>4 DEF Kept

\* The child that is called now was never called.
LEMMA NextChild ==
  ASSUME IInv, Call
  PROVE  LET child == <<starts - 1, calls + 1>>
         IN  /\ child \in Task
             /\ Uncalled(child)
             /\ in.task[child] = "idle"
<1> DEFINE child == <<starts - 1, calls + 1>>
<1>1. hand = "control" /\ calls < MaxCalls
  BY DEF Call
<1>2. starts > 0
  BY <1>1 DEF IInv, Flow
<1>3. starts - 1 \in 0..MaxAttempts - 1 /\ calls + 1 \in 1..MaxCalls
  BY <1>1, <1>2, SettingFields
<1>4. child \in Task
  BY <1>3, LifecycleAssumption
<1>5. Uncalled(child)
  BY SettingFields DEF Uncalled
<1> QED  BY <1>4, <1>5 DEF IInv, ChildrenInv

\* The schema decides whether the handler is called.
LEMMA Validated ==
  ASSUME IInv, ValidateSchema
  PROVE  /\ stage = "schema" /\ starts = 0 /\ result = "pending"
         /\ set' = set /\ off' = off /\ attempt' = attempt
         /\ set.valid => stage' = "attempt" /\ starts' = 1 /\ result' = "pending"
         /\ ~set.valid => stage' = "drain" /\ starts' = 0
<1>1. /\ stage = "schema" /\ starts = 0 /\ result = "pending"
      /\ set' = set /\ off' = off /\ attempt' = attempt
  BY DEF ValidateSchema, IInv, Flow, Before, Hooks
<1>2. CASE ~set.valid
  BY <1>1, <1>2 DEF ValidateSchema, Fails
<1>3. CASE set.valid
  <2>1. stage' = "attempt" /\ starts' = starts + 1 /\ result' = result
    BY <1>3 DEF ValidateSchema
  <2> QED  BY <1>1, <1>3, <2>1
<1> QED  BY <1>1, <1>2, <1>3, SettingFields

LEMMA Ranks ==
  ASSUME NEW t \in Task
  PROVE  t[1] \in Nat /\ t[2] \in Nat /\ t = <<t[1], t[2]>>
BY LifecycleAssumption

LEMMA ChildrenNext ==
  ASSUME IInv, Next
  PROVE  ChildrenInv'
<1> DEFINE SameIn == /\ in' = in /\ late' = late
                     /\ starts' = starts /\ calls' = calls
<1>0. ChildrenInv
  BY DEF IInv
<1>a. ASSUME SameIn,
             \/ stage \in Later /\ result # "error"
             \/ stage' \in Later /\ result' # "error" => in.outcome = "fulfilled"
      PROVE  ChildrenInv'
  BY <1>0, <1>a DEF ChildrenInv, Uncalled
<1>b. ASSUME in' = Resume(in), late' = late, starts' = starts, calls' = calls,
             stage' = "drain"
      PROVE  ChildrenInv'
  BY <1>0, <1>b, ResumedIn DEF ChildrenInv, Uncalled, Later
<1>1. CASE CreateTmpdir
  <2>1. CASE Unusable
    BY <1>1, <2>1, <1>b DEF CreateTmpdir, Fails, Handling
  <2>2. CASE ~Unusable
    BY <1>1, <2>2, <1>a DEF CreateTmpdir, Handling, Later
  <2> QED  BY <2>1, <2>2
<1>2. CASE EvaluateCondition
  <2>1. CASE Fails
    BY <1>2, <2>1, <1>b DEF EvaluateCondition, Fails, Handling
  <2>2. CASE UNCHANGED <<stage, result, in>>
    BY <1>2, <2>2, <1>a DEF EvaluateCondition, Handling, Later
  <2> QED  BY <1>2, <2>1, <2>2 DEF EvaluateCondition
<1>3. CASE DecideDisabled
  <2>1. CASE off
    BY <1>3, <2>1, <1>b DEF DecideDisabled, Handling
  <2>2. CASE ~off
    BY <1>3, <2>2, <1>a DEF DecideDisabled, Handling, Later
  <2> QED  BY <2>1, <2>2
<1>4. CASE ValidateSchema
  <2>1. CASE stage' = "drain"
    BY <1>4, <2>1, <1>b DEF ValidateSchema, Fails
  <2>2. CASE stage' = "attempt"
    <3>1. /\ in' = in /\ late' = late
          /\ starts' = starts + 1 /\ calls' = 0
      BY <1>4, <2>2 DEF ValidateSchema, Fails
    <3>2. \A t \in Task : Uncalled(t)' => Uncalled(t)
      BY <3>1, Ranks, SettingFields DEF Uncalled
    <3> QED  BY <1>0, <2>2, <3>1, <3>2 DEF ChildrenInv, Later
  <2> QED  BY <1>4, <2>1, <2>2 DEF ValidateSchema, Fails
<1>5. CASE Call
  <2> DEFINE child == <<starts - 1, calls + 1>>
  <2>1. child \in Task /\ Uncalled(child) /\ in.task[child] = "idle"
    BY <1>5, NextChild
  <2>2. /\ in' = Push(in, child, FALSE)
        /\ late' = IF in.outcome = "pending" THEN late ELSE late \cup {child}
        /\ stage' = stage /\ result' = result
        /\ starts' = starts /\ calls' = calls + 1
        /\ stage \notin Later
    BY <1>5 DEF Call, Hooks, IInv, Flow, Later
  <2>3. \A t \in Task : Uncalled(t)' => Uncalled(t) /\ t # child
    BY <2>2, Ranks, SettingFields DEF Uncalled
  <2> HIDE DEF child
  <2>4. Sound(in') /\ Drained(in', late')
    BY <1>0, <2>1, <2>2, SoundPush, DrainedPush DEF ChildrenInv
  <2>5. in'.strict = in.strict
    <3>1. /\ <<child>> \in Seq(Task) /\ IsSimple(<<child>>)
          /\ \A u \in Range(<<child>>) : in.task[u] = "idle"
      BY <2>1, RangeOfOne
    <3> QED  BY <1>0, <2>2, <3>1, PushAllMoves DEF Moves, Push, ChildrenInv
  <2>6. Kept(in, in', {child})
    BY <1>0, <2>1, <2>2, PushKeeps DEF ChildrenInv
  <2> QED  BY <1>0, <2>2, <2>3, <2>4, <2>5, <2>6 DEF ChildrenInv, Kept
<1>6. CASE Await
  BY <1>6, <1>a DEF Await, Hooks, Children, ChildrenInv, IInv
<1>7. CASE Wake
  BY <1>7, <1>a DEF Wake, Hooks, Children, ChildrenInv, IInv
<1>8. CASE Return
  BY <1>8, <1>b DEF Return
<1>9. CASE ThrowError
  <2>1. CASE GivesUp
    BY <1>9, <2>1, <1>b DEF ThrowError, Fails
  <2>2. CASE ~GivesUp
    BY <1>9, <2>2, <1>a DEF ThrowError, Later
  <2> QED  BY <2>1, <2>2
<1>10. CASE Retry
  <2>1. /\ in' = in /\ late' = late /\ stage' = "attempt"
        /\ starts' = starts + 1 /\ calls' = 0
    BY <1>10 DEF Retry, Children
  <2>2. \A t \in Task : Uncalled(t)' => Uncalled(t)
    BY <2>1, Ranks, SettingFields DEF Uncalled
  <2> QED  BY <1>0, <2>1, <2>2 DEF ChildrenInv, Later
<1>11. CASE RunImmediate
  <2>1. /\ in.loop # << >>
        /\ late' = late /\ stage' = stage /\ result' = result
        /\ starts' = starts /\ calls' = calls
    BY <1>11 DEF RunImmediate, Hooks, Handling
  <2>2. Sound(in) /\ ~in.strict /\ Drained(in, late)
    BY <1>0 DEF ChildrenInv
  <2>3. /\ Sound(in') /\ ~in'.strict /\ Drained(in', late)
        /\ Kept(in, in', {})
        /\ in.outcome = "fulfilled" => in'.outcome = "fulfilled"
    <3>1. CASE Head(in.loop) = "pump"
      <4>1. in' = PumpCallback(in)
        BY <1>11, <3>1 DEF RunImmediate
      <4> QED  BY <2>1, <2>2, <3>1, <4>1, SoundPumpCallback,
                  DrainedPumpCallback,
                  PumpCallbackKeeps, PumpCallbackMoves DEF Moves
    <3>2. CASE Head(in.loop) # "pump"
      <4> DEFINE t == CHOOSE u \in Task : in.task[u] = "taken"
      <4>1. in' = CallHandler(in, t)
        BY <1>11, <3>2 DEF RunImmediate
      <4>2. t \in Task /\ in.task[t] = "taken" /\ Head(in.loop) = "run"
        BY <2>1, <2>2, <3>2, RunDue
      <4> HIDE DEF t
      <4>3. Drained(in', late) /\ in'.strict = in.strict /\ in'.outcome = in.outcome
        BY <2>2, <4>1, <4>2, StartOrEnd
      <4>4. Sound(in') /\ Kept(in, in', {})
        BY <2>1, <2>2, <4>1, <4>2, SoundCallHandler, CallHandlerKeeps
      <4> QED  BY <2>2, <4>3, <4>4
    <3> QED  BY <3>1, <3>2
  <2> QED  BY <1>0, <2>1, <2>3 DEF ChildrenInv, Kept, Uncalled
<1>12. CASE EndChild
  <2>1. /\ late' = late /\ stage' = stage /\ result' = result
        /\ starts' = starts /\ calls' = calls
    BY <1>12 DEF EndChild, Hooks, Handling
  <2>2. Sound(in) /\ ~in.strict /\ Drained(in, late)
    BY <1>0 DEF ChildrenInv
  <2>3. PICK t \in Task :
          /\ in.task[t] = "executing"
          /\ in' \in {HandlerFulfilled(in, t), HandlerRejected(in, t, FALSE)}
    BY <1>12 DEF EndChild
  <2>4. Sound(in') /\ Kept(in, in', {t})
    BY <2>2, <2>3, SoundHandlerFulfilled, SoundHandlerRejected,
       HandlerFulfilledKeeps, HandlerRejectedKeeps
  <2>5. ~in'.strict /\ Drained(in', late) /\ in'.outcome = in.outcome
    BY <2>2, <2>3, StartOrEnd
  <2> QED  BY <1>0, <2>1, <2>3, <2>4, <2>5 DEF ChildrenInv, Kept, Uncalled
<1>13. CASE Drain
  BY <1>13, <1>a DEF Drain, DrainDue, Handling, Children
<1>14. CASE EvaluateAssertion
  BY <1>14, <1>a DEF EvaluateAssertion, Reject, Handling, Children, Later
<1>15. CASE JudgeAssertions
  BY <1>15, <1>a DEF JudgeAssertions, Reject, Handling, Children, Later
<1>16. CASE Relax
  BY <1>16, <1>a DEF Relax, Handling, Children, Later
<1>17. CASE RemoveTmpdir
  BY <1>17, <1>a DEF RemoveTmpdir, Reject, Recorded, Handling, Children, Later
<1>18. CASE Report
  BY <1>18, <1>a DEF Report, Reject, Handling, Children, Later
<1> QED
  BY <1>1, <1>2, <1>3, <1>4, <1>5, <1>6, <1>7, <1>8, <1>9, <1>10, <1>11, <1>12,
     <1>13, <1>14, <1>15, <1>16, <1>17, <1>18
  DEF Next

LEMMA FlowNext ==
  ASSUME IInv, Next
  PROVE  Flow'
<1>1. CASE CreateTmpdir
  BY <1>1 DEF CreateTmpdir, Fails, IInv, Flow, Before, Hooks, Handling
<1>2. CASE EvaluateCondition
  BY <1>2 DEF EvaluateCondition, Fails, IInv, Flow, Before, Handling, Output
<1>3. CASE DecideDisabled
  BY <1>3
  DEF DecideDisabled, IInv, Flow, Before, Hooks, Handling, Children, Output
<1>4. CASE ValidateSchema
  <2>1. stage = "schema" /\ starts = 0 /\ hand = "none" /\ settled' = "pending"
          /\ awaits = None /\ awaits' = None /\ result = "pending"
    BY <1>4
    DEF ValidateSchema, IInv, Flow, Before, Hooks, Handling, Children, Output
  <2>2. \/ stage' = "drain" /\ result' \in {"error", "nothing"}
             /\ starts' = starts /\ hand' = hand
        \/ stage' = "attempt" /\ result' = result /\ hand' = "control"
             /\ starts' = starts + 1
    BY <1>4 DEF ValidateSchema, Fails
  <2> QED  BY <2>1, <2>2 DEF Flow, Before
<1>5. CASE Call
  BY <1>5 DEF Call, IInv, Flow, Before, Hooks, Output
<1>6. CASE Await
  BY <1>6 DEF Await, None, IInv, Flow, Before, Hooks, Children, Output
<1>7. CASE Wake
  BY <1>7 DEF Wake, WakeDue, IInv, Flow, Before, Hooks, Children, Output
<1>8. CASE Return
  BY <1>8 DEF Return, IInv, Flow, Before, Hooks, Output
<1>9. CASE ThrowError
  BY <1>9 DEF ThrowError, Fails, WakeDue, IInv, Flow, Before, Hooks, Output
<1>10. CASE Retry
  BY <1>10, SettingFields
  DEF Retry, Quiet, IInv, Flow, Before, Hooks, Children, Output
<1>11. CASE RunImmediate
  BY <1>11 DEF RunImmediate, IInv, Flow, Before, Hooks, Handling, Output
<1>12. CASE EndChild
  BY <1>12 DEF EndChild, IInv, Flow, Before, Hooks, Handling, Output
<1>13. CASE Drain
  BY <1>13 DEF Drain, DrainDue, IInv, Flow, Before, Handling, Children, Output
<1>14. CASE EvaluateAssertion
  BY <1>14
  DEF EvaluateAssertion, Reject, IInv, Flow, Before, Handling, Children
<1>15. CASE JudgeAssertions
  BY <1>15
  DEF JudgeAssertions, Reject, IInv, Flow, Before, Hooks, Handling, Children
<1>16. CASE Relax
  BY <1>16 DEF Relax, IInv, Flow, Before, Hooks, Handling, Children
<1>17. CASE RemoveTmpdir
  BY <1>17 DEF RemoveTmpdir, Reject, Recorded, IInv, Flow, Before, Hooks, Handling, Children
<1>18. CASE Report
  BY <1>18 DEF Report, Reject, IInv, Flow, Before, Hooks, Handling, Children
<1> QED
  BY <1>1, <1>2, <1>3, <1>4, <1>5, <1>6, <1>7, <1>8, <1>9, <1>10, <1>11, <1>12,
     <1>13, <1>14, <1>15, <1>16, <1>17, <1>18
  DEF Next

LEMMA AskingNext ==
  ASSUME IInv, Next
  PROVE  Asking'
<1>1. CASE CreateTmpdir
  BY <1>1
  DEF CreateTmpdir, Fails, IInv, Asking, Cond, Wanted, Unusable, Flow, Hooks, Handling
<1>2. CASE EvaluateCondition
  <2> DEFINE c == Head(asked)
  <2>1. /\ stage = "conditions" /\ starts = 0 /\ starts' = starts
        /\ asked \in Seq(Range(set.conditions)) /\ asked # << >>
        /\ asked' = Tail(asked)
        /\ set' = set
        /\ off' = (off \/ Cond(c) = "no")
        /\ IF Cond(c) = "throws" THEN stage' = "drain" ELSE stage' = stage
    BY <1>2 DEF EvaluateCondition, Fails, IInv, Flow, Asking, Handling, Cond
  <2>2. /\ c \in Range(set.conditions)
        /\ Tail(asked) \in Seq(Range(set.conditions))
        /\ Range(asked) = {c} \cup Range(Tail(asked))
    BY <2>1, Looked
  <2>3. Cond(c) \in Answers
    BY <2>2, ConditionAnswers
  <2>4. \A d : Cond(d)' = Cond(d)
    BY <2>1 DEF Cond
  <2>5. Wanted' = Wanted
    BY <2>1 DEF Wanted, Unusable
  <2>6. Asking
    BY DEF IInv
  <2> HIDE DEF c
  <2>7. CASE Cond(c) = "throws"
    <3>1. ~Wanted
      BY <2>2, <2>7 DEF Wanted, Cond
    <3> QED  BY <2>1, <2>5, <2>6, <2>7, <3>1 DEF Asking
  <2>8. CASE Cond(c) # "throws"
    <3>1. Cond(c) \in {"yes", "no"}
      BY <2>3, <2>8 DEF Answers
    <3>2. stage' = "conditions"
      BY <2>1, <2>8
    <3>3. \A d \in Range(set.conditions) \ Range(Tail(asked)) :
            Cond(d) = "yes" \/ (Cond(d) = "no" /\ off')
      BY <2>1, <2>2, <2>6, <3>1 DEF Asking
    <3>4. off' => set.disabled \/ \E d \in Range(set.conditions) : Cond(d) = "no"
      BY <2>1, <2>2, <2>6 DEF Asking
    <3>5. (set.disabled => off') /\ ~Unusable'
      BY <2>1, <2>6 DEF Asking, Unusable
    <3>6. /\ starts = 0 /\ starts' = 0 /\ set' = set
          /\ asked' = Tail(asked) /\ Tail(asked) \in Seq(Range(set.conditions))
      BY <2>1, <2>2
    <3> QED  BY <2>4, <3>2, <3>3, <3>4, <3>5, <3>6 DEF Asking
  <2> QED  BY <2>7, <2>8
<1>3. CASE DecideDisabled
  <2>1. /\ stage = "conditions" /\ starts = 0 /\ starts' = 0
        /\ stage' = IF off THEN "drain" ELSE "schema"
        /\ asked = << >> /\ set' = set /\ off' = off
    BY <1>3 DEF DecideDisabled, IInv, Flow, Hooks, Handling
  <2>2. Range(asked) = {}
    BY <2>1 DEF Range
  <2>3. (\A d : Cond(d)' = Cond(d)) /\ Wanted' = Wanted /\ Unusable' = Unusable
    BY <2>1 DEF Cond, Wanted, Unusable
  <2>4. ~off => \A c \in Range(set.conditions) : Cond(c) = "yes"
    BY <2>1, <2>2 DEF IInv, Asking
  <2>5. off => ~Wanted
    <3>1. off => set.disabled \/ \E c \in Range(set.conditions) : Cond(c) = "no"
      BY <2>1 DEF IInv, Asking
    <3> QED  BY <3>1 DEF Wanted, Cond
  <2> QED  BY <2>1, <2>3, <2>4, <2>5 DEF IInv, Asking
<1>4. CASE ValidateSchema
  <2>1. /\ stage = "schema" /\ starts = 0 /\ set' = set /\ off' = off
        /\ IF set.valid THEN stage' = "attempt" /\ starts' = 1
           ELSE stage' = "drain" /\ starts' = starts
    BY <1>4, Validated
  <2>2. Wanted' = Wanted
    BY <2>1 DEF Wanted, Unusable
  <2>3. ~off /\ (Wanted <=> set.valid)
    BY <2>1 DEF IInv, Asking, Wanted, Cond
  <2> QED  BY <2>1, <2>2, <2>3 DEF IInv, Asking
<1>5. CASE Call
  BY <1>5 DEF Call, IInv, Asking, Cond, Wanted, Unusable, Flow, Hooks, Output
<1>6. CASE Await
  BY <1>6
  DEF Await, None, IInv, Asking, Cond, Wanted, Unusable, Flow, Hooks, Children, Output
<1>7. CASE Wake
  BY <1>7
  DEF Wake, WakeDue, IInv, Asking, Cond, Wanted, Unusable, Flow, Hooks, Children, Output
<1>8. CASE Return
  BY <1>8 DEF Return, IInv, Asking, Cond, Wanted, Unusable, Flow, Hooks, Output
<1>9. CASE ThrowError
  BY <1>9
  DEF ThrowError, Fails, WakeDue, IInv, Asking, Cond, Wanted, Unusable, Flow, Hooks,
      Output
<1>10. CASE Retry
  BY <1>10, SettingFields
  DEF Retry, Quiet, IInv, Asking, Cond, Wanted, Unusable, Flow, Hooks, Children, Output
<1>11. CASE RunImmediate
  BY <1>11
  DEF RunImmediate, IInv, Asking, Cond, Wanted, Unusable, Flow, Hooks, Handling, Output
<1>12. CASE EndChild
  BY <1>12
  DEF EndChild, IInv, Asking, Cond, Wanted, Unusable, Flow, Hooks, Handling, Output
<1>13. CASE Drain
  BY <1>13
  DEF Drain, DrainDue, IInv, Asking, Cond, Wanted, Unusable, Flow, Handling, Children,
      Output
<1>14. CASE EvaluateAssertion
  BY <1>14
  DEF EvaluateAssertion, Reject, IInv, Asking, Cond, Wanted, Unusable, Flow, Handling,
      Children
<1>15. CASE JudgeAssertions
  BY <1>15
  DEF JudgeAssertions, Reject, IInv, Asking, Cond, Wanted, Unusable, Flow, Hooks,
      Handling, Children
<1>16. CASE Relax
  BY <1>16
  DEF Relax, IInv, Asking, Cond, Wanted, Unusable, Flow, Hooks, Handling, Children
<1>17. CASE RemoveTmpdir
  BY <1>17
  DEF RemoveTmpdir, Reject, Recorded, IInv, Asking, Cond, Wanted, Unusable, Flow, Hooks, Handling, Children
<1>18. CASE Report
  BY <1>18
  DEF Report, Reject, IInv, Asking, Cond, Wanted, Unusable, Flow, Hooks, Handling, Children
<1> QED
  BY <1>1, <1>2, <1>3, <1>4, <1>5, <1>6, <1>7, <1>8, <1>9, <1>10, <1>11, <1>12,
     <1>13, <1>14, <1>15, <1>16, <1>17, <1>18
  DEF Next

LEMMA CountingNext ==
  ASSUME IInv, Next
  PROVE  Counting'
<1>1. CASE CreateTmpdir
  BY <1>1
  DEF CreateTmpdir, Fails, IInv, Counting, Flow, GivesUp, Allowed, Before,
      Hooks, Handling
<1>2. CASE EvaluateCondition
  BY <1>2
  DEF EvaluateCondition, Fails, IInv, Counting, Flow, GivesUp, Allowed, Before,
      Handling, Output
<1>3. CASE DecideDisabled
  BY <1>3
  DEF DecideDisabled, IInv, Counting, Flow, GivesUp, Allowed, Before, Hooks,
      Handling, Children, Output
<1>4. CASE ValidateSchema
  <2>1. stage = "schema" /\ starts = 0 /\ set' = set /\ attempt' = attempt
    BY <1>4, Validated
  <2>2. Allowed' = Allowed /\ GivesUp' = GivesUp
    BY <2>1 DEF Allowed, GivesUp
  <2>3. Allowed \in Nat /\ Allowed > 0
    BY SettingFields DEF Allowed
  <2>4. \/ starts' = 0 /\ stage' = "drain"
        \/ starts' = 1 /\ stage' = "attempt" /\ result' = "pending"
    BY <1>4, Validated, SettingFields
  <2> QED  BY <2>1, <2>2, <2>3, <2>4, SettingFields DEF IInv, Counting
<1>5. CASE Call
  BY <1>5
  DEF Call, IInv, Counting, Flow, GivesUp, Allowed, Before, Hooks, Output
<1>6. CASE Await
  BY <1>6
  DEF Await, None, IInv, Counting, Flow, GivesUp, Allowed, Before, Hooks,
      Children, Output
<1>7. CASE Wake
  BY <1>7
  DEF Wake, WakeDue, IInv, Counting, Flow, GivesUp, Allowed, Before, Hooks,
      Children, Output
<1>8. CASE Return
  BY <1>8
  DEF Return, IInv, Counting, Flow, GivesUp, Allowed, Before, Hooks, Output
<1>9. CASE ThrowError
  BY <1>9, SettingFields
  DEF ThrowError, Fails, WakeDue, IInv, Counting, Flow, GivesUp, Allowed,
      Before, Hooks, Output
<1>10. CASE Retry
  <2>1. /\ stage = "sleep" /\ stage' = "attempt" /\ starts > 0
        /\ set' = set /\ attempt' = attempt + 1 /\ starts' = starts + 1
        /\ result' = "pending"
    BY <1>10 DEF Retry, IInv, Flow, Hooks, Before
  <2>2. Allowed' = Allowed
    BY <2>1 DEF Allowed
  <2>3. /\ starts < MaxAttempts
        /\ attempt = set.attempt + starts - 1
        /\ set.retry = Always \/ attempt < set.retry - 1
    BY <2>1, SettingFields DEF IInv, Counting, GivesUp
  <2>4. starts + 1 <= Allowed
    <3>1. CASE set.retry = Always
      BY <2>3, <3>1, SettingFields DEF Allowed
    <3>2. CASE set.retry # Always
      <4>1. /\ set.retry \in Nat /\ set.attempt \in Nat /\ starts \in Nat
            /\ set.attempt + starts - 1 < set.retry - 1
        BY <2>3, <3>2, SettingFields
      <4>2. set.retry > set.attempt /\ starts + 1 <= set.retry - set.attempt
        BY <4>1
      <4> QED  BY <3>2, <4>2 DEF Allowed
    <3> QED  BY <3>1, <3>2
  <2>5. starts + 1 # 0 /\ attempt + 1 = set.attempt + (starts + 1) - 1
    BY <2>1, <2>3, SettingFields
  <2> QED  BY <2>1, <2>2, <2>4, <2>5 DEF Counting
<1>11. CASE RunImmediate
  BY <1>11
  DEF RunImmediate, IInv, Counting, Flow, GivesUp, Allowed, Before, Hooks,
      Handling, Output
<1>12. CASE EndChild
  BY <1>12
  DEF EndChild, IInv, Counting, Flow, GivesUp, Allowed, Before, Hooks,
      Handling, Output
<1>13. CASE Drain
  BY <1>13
  DEF Drain, DrainDue, IInv, Counting, Flow, GivesUp, Allowed, Before,
      Handling, Children, Output
<1>14. CASE EvaluateAssertion
  BY <1>14
  DEF EvaluateAssertion, Reject, IInv, Counting, Flow, GivesUp, Allowed,
      Before, Handling, Children
<1>15. CASE JudgeAssertions
  BY <1>15
  DEF JudgeAssertions, Reject, IInv, Counting, Flow, GivesUp, Allowed, Before,
      Hooks, Handling, Children
<1>16. CASE Relax
  BY <1>16
  DEF Relax, IInv, Counting, Flow, GivesUp, Allowed, Before, Hooks, Handling,
      Children
<1>17. CASE RemoveTmpdir
  BY <1>17
  DEF RemoveTmpdir, Reject, Recorded, IInv, Counting, Flow, GivesUp, Allowed, Before, Hooks,
      Handling, Children
<1>18. CASE Report
  BY <1>18
  DEF Report, Reject, IInv, Counting, Flow, GivesUp, Allowed, Before, Hooks, Handling,
      Children
<1> QED
  BY <1>1, <1>2, <1>3, <1>4, <1>5, <1>6, <1>7, <1>8, <1>9, <1>10, <1>11, <1>12,
     <1>13, <1>14, <1>15, <1>16, <1>17, <1>18
  DEF Next

LEMMA JudgingNext ==
  ASSUME IInv, Next
  PROVE  Judging'
<1>1. CASE CreateTmpdir
  BY <1>1
  DEF CreateTmpdir, Fails, IInv, Judging, Answer, Flow, Before, Hooks, Handling
<1>2. CASE EvaluateCondition
  BY <1>2
  DEF EvaluateCondition, Fails, IInv, Judging, Answer, Flow, Before, Handling,
      Output
<1>3. CASE DecideDisabled
  BY <1>3
  DEF DecideDisabled, IInv, Judging, Answer, Flow, Before, Hooks, Handling,
      Children, Output
<1>4. CASE ValidateSchema
  BY <1>4
  DEF ValidateSchema, Fails, IInv, Judging, Answer, Flow, Before, Hooks, Output
<1>5. CASE Call
  BY <1>5 DEF Call, IInv, Judging, Answer, Flow, Before, Hooks, Output
<1>6. CASE Await
  BY <1>6
  DEF Await, None, IInv, Judging, Answer, Flow, Before, Hooks, Children, Output
<1>7. CASE Wake
  BY <1>7
  DEF Wake, WakeDue, IInv, Judging, Answer, Flow, Before, Hooks, Children,
      Output
<1>8. CASE Return
  BY <1>8 DEF Return, IInv, Judging, Answer, Flow, Before, Hooks, Output
<1>9. CASE ThrowError
  BY <1>9
  DEF ThrowError, Fails, WakeDue, IInv, Judging, Answer, Flow, Before, Hooks,
      Output
<1>10. CASE Retry
  BY <1>10
  DEF Retry, Quiet, IInv, Judging, Answer, Flow, Before, Hooks, Children,
      Output
<1>11. CASE RunImmediate
  BY <1>11
  DEF RunImmediate, IInv, Judging, Answer, Flow, Before, Hooks, Handling,
      Output
<1>12. CASE EndChild
  BY <1>12
  DEF EndChild, IInv, Judging, Answer, Flow, Before, Hooks, Handling, Output
<1>13. CASE Drain
  BY <1>13, SettingFields
  DEF Drain, DrainDue, IInv, Judging, Answer, Flow, Before, Handling, Children,
      Output
<1>14. CASE EvaluateAssertion
  <2> DEFINE a == Head(asked)
  <2>1. /\ stage = "assert"
        /\ asked \in Seq(Range(set.assertions)) /\ asked # << >>
        /\ asked' = Tail(asked)
        /\ set' = set /\ result' = result
        /\ refused' = (refused \/ Answer(a) = "no")
        /\ IF Answer(a) = "throws" THEN stage' = "over" ELSE stage' = stage
        /\ tmp' = tmp
    BY <1>14 DEF EvaluateAssertion, Reject, IInv, Judging, Handling, Answer
  <2>2. /\ a \in Range(set.assertions)
        /\ Tail(asked) \in Seq(Range(set.assertions))
    BY <2>1, Looked
  <2>3. \A d : Answer(d)' = Answer(d)
    BY <2>1 DEF Answer
  <2> HIDE DEF a
  <2> QED  BY <2>1, <2>2, <2>3 DEF IInv, Judging
<1>15. CASE JudgeAssertions
  BY <1>15
  DEF JudgeAssertions, Reject, IInv, Judging, Answer, Flow, Before, Hooks,
      Handling, Children
<1>16. CASE Relax
  BY <1>16
  DEF Relax, IInv, Judging, Answer, Flow, Before, Hooks, Handling, Children
<1>17. CASE RemoveTmpdir
  BY <1>17
  DEF RemoveTmpdir, Reject, Recorded, IInv, Judging, Answer, Flow, Before, Hooks, Handling,
      Children
<1>18. CASE Report
  BY <1>18
  DEF Report, Reject, IInv, Judging, Answer, Flow, Before, Hooks, Handling, Children
<1> QED
  BY <1>1, <1>2, <1>3, <1>4, <1>5, <1>6, <1>7, <1>8, <1>9, <1>10, <1>11, <1>12,
     <1>13, <1>14, <1>15, <1>16, <1>17, <1>18
  DEF Next

LEMMA DirNext ==
  ASSUME IInv, Next
  PROVE  Dir'
<1>1. CASE CreateTmpdir
  BY <1>1
  DEF CreateTmpdir, Unusable, Fails, IInv, Dir, Recorded, TypeOK, Flow, Asserted, Judging, Answer, Before,
      Hooks, Handling
<1>2. CASE EvaluateCondition
  BY <1>2
  DEF EvaluateCondition, Fails, IInv, Dir, Recorded, TypeOK, Flow, Asserted, Judging, Answer,
      Before, Handling, Output
<1>3. CASE DecideDisabled
  BY <1>3
  DEF DecideDisabled, IInv, Dir, Recorded, TypeOK, Flow, Asserted, Judging, Answer, Before,
      Hooks, Handling, Children, Output
<1>4. CASE ValidateSchema
  BY <1>4
  DEF ValidateSchema, Fails, IInv, Dir, Recorded, TypeOK, Flow, Asserted, Judging, Answer,
      Before, Hooks, Output
<1>5. CASE Call
  BY <1>5
  DEF Call, IInv, Dir, Recorded, TypeOK, Flow, Asserted, Judging, Answer, Before, Hooks, Output
<1>6. CASE Await
  BY <1>6
  DEF Await, None, IInv, Dir, Recorded, TypeOK, Flow, Asserted, Judging, Answer, Before, Hooks,
      Children, Output
<1>7. CASE Wake
  BY <1>7
  DEF Wake, WakeDue, IInv, Dir, Recorded, TypeOK, Flow, Asserted, Judging, Answer, Before, Hooks,
      Children, Output
<1>8. CASE Return
  BY <1>8
  DEF Return, IInv, Dir, Recorded, TypeOK, Flow, Asserted, Judging, Answer, Before, Hooks, Output
<1>9. CASE ThrowError
  BY <1>9
  DEF ThrowError, Fails, WakeDue, IInv, Dir, Recorded, TypeOK, Flow, Asserted, Judging, Answer,
      Before, Hooks, Output
<1>10. CASE Retry
  BY <1>10
  DEF Retry, Quiet, IInv, Dir, Recorded, TypeOK, Flow, Asserted, Judging, Answer, Before, Hooks,
      Children, Output
<1>11. CASE RunImmediate
  BY <1>11
  DEF RunImmediate, IInv, Dir, Recorded, TypeOK, Flow, Asserted, Judging, Answer, Before, Hooks,
      Handling, Output
<1>12. CASE EndChild
  BY <1>12
  DEF EndChild, IInv, Dir, Recorded, TypeOK, Flow, Asserted, Judging, Answer, Before, Hooks,
      Handling, Output
<1>13. CASE Drain
  BY <1>13
  DEF Drain, DrainDue, IInv, Dir, Recorded, TypeOK, Flow, Asserted, Judging, Answer, Before,
      Handling, Children, Output
<1>14. CASE EvaluateAssertion
  <2> DEFINE a == Head(asked)
  <2>1. /\ stage = "assert"
        /\ asked \in Seq(Range(set.assertions)) /\ asked # << >>
        /\ asked' = Tail(asked)
        /\ set' = set /\ result' = result
        /\ refused' = (refused \/ Answer(a) = "no")
        /\ IF Answer(a) = "throws" THEN stage' = "over" /\ settled' = "rejected"
           ELSE stage' = stage /\ settled' = settled
        /\ tmp' = tmp
    BY <1>14 DEF EvaluateAssertion, Reject, IInv, Judging, Handling, Answer
  <2>2. /\ a \in Range(set.assertions)
        /\ Tail(asked) \in Seq(Range(set.assertions))
    BY <2>1, Looked
  <2>3. \A d : Answer(d)' = Answer(d)
    BY <2>1 DEF Answer
  <2> HIDE DEF a
  <2>4. Asserted' = Asserted
    BY <2>1 DEF Asserted
  <2>5. CASE Answer(a) = "throws"
    <3>1. ~Asserted
      BY <2>2, <2>5 DEF Asserted, Answer
    <3> QED  BY <2>1, <2>4, <2>5, <3>1 DEF IInv, Dir, Recorded
  <2>6. CASE Answer(a) # "throws"
    BY <2>1, <2>6 DEF IInv, Dir, Recorded
  <2> QED  BY <2>5, <2>6
<1>15. CASE JudgeAssertions
  BY <1>15
  DEF JudgeAssertions, Reject, IInv, Dir, Recorded, TypeOK, Flow, Asserted, Judging, Answer,
      Before, Hooks, Handling, Children
<1>16. CASE Relax
  BY <1>16
  DEF Relax, IInv, Dir, Recorded, TypeOK, Flow, Asserted, Judging, Answer, Before, Hooks,
      Handling, Children
<1>17. CASE RemoveTmpdir
  BY <1>17
  DEF RemoveTmpdir, Reject, IInv, Dir, Recorded, TypeOK, Flow, Asserted, Judging, Answer, Before, Hooks,
      Handling, Children
<1>18. CASE Report
  BY <1>18
  DEF Report, Reject, IInv, Dir, Recorded, TypeOK, Flow, Asserted, Judging, Answer, Before, Hooks,
      Handling, Children
<1> QED
  BY <1>1, <1>2, <1>3, <1>4, <1>5, <1>6, <1>7, <1>8, <1>9, <1>10, <1>11, <1>12,
     <1>13, <1>14, <1>15, <1>16, <1>17, <1>18
  DEF Next

LEMMA TellingNext ==
  ASSUME IInv, Next
  PROVE  Telling'
<1>1. CASE CreateTmpdir
  BY <1>1
  DEF CreateTmpdir, Fails, IInv, Telling, Flow, Inherited, Before, Later,
      Hooks, Handling
<1>2. CASE EvaluateCondition
  BY <1>2
  DEF EvaluateCondition, Fails, IInv, Telling, Flow, Inherited, Before, Later,
      Handling, Output
<1>3. CASE DecideDisabled
  BY <1>3
  DEF DecideDisabled, IInv, Telling, Flow, Inherited, Before, Later, Hooks,
      Handling, Children, Output
<1>4. CASE ValidateSchema
  BY <1>4
  DEF ValidateSchema, Fails, IInv, Telling, Flow, Inherited, Before, Later,
      Hooks, Output
<1>5. CASE Call
  BY <1>5
  DEF Call, IInv, Telling, Flow, Inherited, Before, Later, Hooks, Output
<1>6. CASE Await
  BY <1>6
  DEF Await, None, IInv, Telling, Flow, Inherited, Before, Later, Hooks,
      Children, Output
<1>7. CASE Wake
  BY <1>7
  DEF Wake, WakeDue, IInv, Telling, Flow, Inherited, Before, Later, Hooks,
      Children, Output
<1>8. CASE Return
  BY <1>8
  DEF Return, IInv, Telling, Flow, Inherited, Before, Later, Hooks, Output
<1>9. CASE ThrowError
  BY <1>9
  DEF ThrowError, Fails, WakeDue, IInv, Telling, Flow, Inherited, Before,
      Later, Hooks, Output
<1>10. CASE Retry
  BY <1>10
  DEF Retry, Quiet, IInv, Telling, Flow, Inherited, Before, Later, Hooks,
      Children, Output
<1>11. CASE RunImmediate
  BY <1>11
  DEF RunImmediate, IInv, Telling, Flow, Inherited, Before, Later, Hooks,
      Handling, Output
<1>12. CASE EndChild
  <2>1. /\ stage' = stage /\ settled' = settled /\ result' = result /\ off' = off
        /\ late' = late /\ status' = status
    BY <1>12 DEF EndChild, Hooks, Handling, Output
  <2>2. PICK t \in Task : in.task[t] = "executing" /\ told' \in {told, told \cup {t}}
    BY <1>12 DEF EndChild
  <2>3. stage = "over" /\ result # "error" => t \in late
    BY <2>2 DEF IInv, ChildrenInv, Drained, Later, Settled
  <2> QED  BY <2>1, <2>2, <2>3 DEF IInv, Telling
<1>13. CASE Drain
  BY <1>13
  DEF Drain, DrainDue, IInv, Telling, Flow, Inherited, Before, Later, Handling,
      Children, Output
<1>14. CASE EvaluateAssertion
  BY <1>14
  DEF EvaluateAssertion, Reject, IInv, Telling, Flow, Inherited, Before, Later,
      Handling, Children
<1>15. CASE JudgeAssertions
  BY <1>15
  DEF JudgeAssertions, Reject, IInv, Telling, Flow, Inherited, Before, Later,
      Hooks, Handling, Children
<1>16. CASE Relax
  BY <1>16
  DEF Relax, IInv, Telling, Flow, Inherited, Before, Later, Hooks, Handling,
      Children
<1>17. CASE RemoveTmpdir
  BY <1>17
  DEF RemoveTmpdir, Reject, Recorded, IInv, Telling, Flow, Inherited, Before, Later, Hooks,
      Handling, Children
<1>18. CASE Report
  BY <1>18
  DEF Report, Reject, IInv, Telling, Flow, Inherited, Before, Later, Hooks, Handling,
      Children
<1> QED
  BY <1>1, <1>2, <1>3, <1>4, <1>5, <1>6, <1>7, <1>8, <1>9, <1>10, <1>11, <1>12,
     <1>13, <1>14, <1>15, <1>16, <1>17, <1>18
  DEF Next

LEMMA TypesNext ==
  ASSUME IInv, Next
  PROVE  TypeOK'
<1>0. in' \in Scheduler
  BY ChildrenNext DEF ChildrenInv, Sound
<1>1. CASE CreateTmpdir
  BY <1>1, <1>0 DEF CreateTmpdir, Fails, IInv, TypeOK, Flow, Hooks, Handling
<1>2. CASE EvaluateCondition
  <2>1. /\ stage' \in {"drain", stage} /\ result' \in {"error", result}
        /\ off' \in BOOLEAN
    BY <1>2 DEF EvaluateCondition, Fails
  <2> QED  BY <1>2, <1>0, <2>1
           DEF EvaluateCondition, IInv, TypeOK, Handling, Output
<1>3. CASE DecideDisabled
  BY <1>3, <1>0
  DEF DecideDisabled, IInv, TypeOK, Flow, Hooks, Handling, Children, Output
<1>4. CASE ValidateSchema
  <2>1. starts' \in 0..MaxAttempts
    BY <1>4, Validated, SettingFields
  <2>2. /\ stage' \in {"drain", "attempt"} /\ calls' \in {0, calls}
        /\ hand' \in {"control", hand} /\ result' \in {"error", result}
    <3>1. set.valid \in BOOLEAN
      BY SettingFields
    <3>2. CASE ~set.valid
      BY <1>4, <3>2 DEF ValidateSchema, Fails
    <3>3. CASE set.valid
      BY <1>4, <3>3 DEF ValidateSchema
    <3> QED  BY <3>1, <3>2, <3>3
  <2>3. calls' \in 0..MaxCalls
    BY <2>2, SettingFields
  <2> QED  BY <1>4, <1>0, <2>1, <2>2, <2>3
           DEF ValidateSchema, IInv, TypeOK, Hooks, Output
<1>5. CASE Call
  <2>1. late' \subseteq Task
    BY <1>5, NextChild DEF Call, IInv, TypeOK
  <2>2. calls' \in 0..MaxCalls
    BY <1>5, SettingFields DEF Call
  <2>3. UNCHANGED <<set, off, refused, stage, attempt, starts, hand, awaits, result,
                    told, tmp, status, settled>>
    BY <1>5 DEF Call, Hooks, Output
  <2>4. TypeOK
    BY DEF IInv
  <2> QED  BY <1>0, <2>1, <2>2, <2>3, <2>4 DEF TypeOK
<1>6. CASE Await
  <2>1. starts > 0
    BY <1>6 DEF Await, IInv, Flow
  <2>2. awaits' \in Task
    <3>1. PICK i \in 1..calls : awaits' = <<starts - 1, i>>
      BY <1>6 DEF Await
    <3>2. starts - 1 \in 0..MaxAttempts - 1 /\ i \in 1..MaxCalls
      BY <2>1, <3>1, SettingFields
    <3> QED  BY <3>1, <3>2, LifecycleAssumption
  <2> QED  BY <1>6, <1>0, <2>2 DEF Await, IInv, TypeOK, Hooks, Children, Output
<1>7. CASE Wake
  BY <1>7, <1>0 DEF Wake, WakeDue, IInv, TypeOK, Flow, Hooks, Children, Output
<1>8. CASE Return
  BY <1>8, <1>0 DEF Return, IInv, TypeOK, Flow, Hooks, Output
<1>9. CASE ThrowError
  BY <1>9, <1>0
  DEF ThrowError, Fails, WakeDue, IInv, TypeOK, Flow, Hooks, Output
<1>10. CASE Retry
  <2>1. starts' \in 0..MaxAttempts /\ attempt' \in Nat /\ calls' \in 0..MaxCalls
    BY <1>10, SettingFields DEF Retry, IInv, Counting
  <2> QED  BY <1>10, <1>0, <2>1
           DEF Retry, IInv, TypeOK, Hooks, Children, Output
<1>11. CASE RunImmediate
  BY <1>11, <1>0 DEF RunImmediate, IInv, TypeOK, Flow, Hooks, Handling, Output
<1>12. CASE EndChild
  <2>1. told' \subseteq Task
    BY <1>12 DEF EndChild, IInv, TypeOK
  <2>2. UNCHANGED <<set, off, refused, stage, attempt, starts, hand, calls, awaits,
                    result, late, tmp, status, settled>>
    BY <1>12 DEF EndChild, Hooks, Handling, Output
  <2>3. TypeOK
    BY DEF IInv
  <2> QED  BY <1>0, <2>1, <2>2, <2>3 DEF TypeOK
<1>13. CASE Drain
  BY <1>13, <1>0
  DEF Drain, DrainDue, IInv, TypeOK, Flow, Handling, Children, Output
<1>14. CASE EvaluateAssertion
  <2>1. /\ stage' \in {"over", stage} /\ settled' \in {"rejected", settled}
        /\ refused' \in BOOLEAN
    BY <1>14 DEF EvaluateAssertion, Reject
  <2> QED  BY <1>14, <1>0, <2>1
           DEF EvaluateAssertion, IInv, TypeOK, Handling, Children
<1>15. CASE JudgeAssertions
  BY <1>15, <1>0
  DEF JudgeAssertions, Reject, IInv, TypeOK, Flow, Hooks, Handling, Children
<1>16. CASE Relax
  BY <1>16, <1>0 DEF Relax, IInv, TypeOK, Flow, Hooks, Handling, Children
<1>17. CASE RemoveTmpdir
  <2>1. tmp' \in BOOLEAN
    BY <1>17 DEF RemoveTmpdir, IInv, TypeOK
  <2> QED  BY <1>17, <1>0, <2>1
           DEF RemoveTmpdir, Reject, Recorded, IInv, TypeOK, Hooks, Handling, Children
<1>18. CASE Report
  <2>1. status' \in BOOLEAN
    BY <1>18 DEF Report, IInv, TypeOK
  <2> QED  BY <1>18, <1>0, <2>1
           DEF Report, Reject, IInv, TypeOK, Hooks, Handling, Children
<1> QED
  BY <1>1, <1>2, <1>3, <1>4, <1>5, <1>6, <1>7, <1>8, <1>9, <1>10, <1>11, <1>12,
     <1>13, <1>14, <1>15, <1>16, <1>17, <1>18
  DEF Next

LEMMA IInvInit == Init => IInv
<1> SUFFICES ASSUME Init PROVE IInv
  OBVIOUS
<1>1. /\ set \in Setting
      /\ set.disabled \in BOOLEAN
      /\ set.attempt \in Nat
      /\ set.retry \in Nat \cup {Always}
      /\ set.conditions \in Seq(Range(set.conditions))
      /\ MaxAttempts \in Nat \ {0} /\ MaxCalls \in Nat
  BY LifecycleAssumption DEF Init
<1>2. Sound(in) /\ ~in.strict /\ in.outcome = "pending"
        /\ \A t \in Task : in.task[t] = "idle"
  BY SoundCreate, CreateIdle DEF Init, Create, Blank
<1>3. TypeOK
  <2>1. starts \in 0..MaxAttempts /\ calls \in 0..MaxCalls /\ attempt \in Nat
    BY <1>1 DEF Init
  <2>2. in \in Scheduler /\ late \subseteq Task /\ told \subseteq Task
    BY <1>2 DEF Init, Sound
  <2>3. /\ off \in BOOLEAN /\ refused \in BOOLEAN /\ tmp \in BOOLEAN /\ status \in BOOLEAN
        /\ stage = "tmpdir" /\ hand = "none" /\ awaits = None
        /\ result = "pending" /\ settled = "pending"
    BY <1>1 DEF Init
  <2> QED  BY <1>1, <2>1, <2>2, <2>3 DEF TypeOK
<1>4. Flow
  BY DEF Init, Flow, Before
<1>5. Asking
  BY <1>1 DEF Init, Asking
<1>6. Counting
  <2>1. 0 <= Allowed
    BY <1>1 DEF Allowed, Always
  <2> QED  BY <2>1 DEF Init, Counting
<1>7. ChildrenInv
  BY <1>2 DEF Init, ChildrenInv, Drained, Later
<1>8. Judging /\ Dir /\ Telling
  BY DEF Init, Judging, Dir, Telling
<1> QED  BY <1>3, <1>4, <1>5, <1>6, <1>7, <1>8 DEF IInv

LEMMA IInvNext == IInv /\ [Next]_vars => IInv'
<1> SUFFICES ASSUME IInv, [Next]_vars PROVE IInv'
  OBVIOUS
<1>1. CASE Next
  BY <1>1, TypesNext, FlowNext, AskingNext, CountingNext, ChildrenNext,
     JudgingNext, DirNext, TellingNext DEF IInv
<1>2. CASE UNCHANGED vars
  <2>1. TypeOK'
    BY <1>2 DEF vars, IInv, TypeOK
  <2>2. Flow' /\ Counting' /\ ChildrenInv'
    BY <1>2
    DEF vars, IInv, Flow, Counting, Allowed, GivesUp, ChildrenInv, Uncalled
  <2>3. Asking'
    BY <1>2 DEF vars, IInv, Asking, Cond, Wanted, Unusable
  <2>4. Judging' /\ Dir' /\ Telling'
    BY <1>2
    DEF vars, IInv, Judging, Answer, Dir, Recorded, Asserted, Telling
  <2> QED  BY <2>1, <2>2, <2>3, <2>4 DEF IInv
<1> QED  BY <1>1, <1>2

-----------------------------------------------------------------------------
(* The inductive invariant of an action.                                   *)
THEOREM IInvAlways == Spec => []IInv
BY IInvInit, IInvNext, PTL DEF Spec

(* The state of an action keeps its types.                                 *)
THEOREM LifecycleTypes == Spec => []TypeOK
<1>1. IInv => TypeOK
  BY DEF IInv
<1> QED  BY <1>1, IInvAlways, PTL

(* The handler is called if and only if every condition, `disabled`, the   *)
(* schema and the temporary directory allow it, whatever their number and  *)
(* order.                                                                  *)
THEOREM HandlerRunsIffWanted == Spec => []RunsIffWanted
<1>1. IInv => RunsIffWanted
  <2> SUFFICES ASSUME IInv PROVE RunsIffWanted
    OBVIOUS
  <2>1. starts > 0 => Wanted
    BY DEF IInv, Asking
  <2>2. stage = "over" => (starts > 0 <=> Wanted)
    BY <2>1, SettingFields DEF IInv, Asking
  <2> QED  BY <2>1, <2>2 DEF RunsIffWanted
<1> QED  BY <1>1, IInvAlways, PTL

(* A handler is never called more often than `retry` allows, and an action *)
(* that fails after it was called has used all its attempts.               *)
THEOREM AttemptsExact == Spec => []AttemptsCounted
<1>1. IInv => AttemptsCounted
  <2> SUFFICES ASSUME IInv PROVE AttemptsCounted
    OBVIOUS
  <2>1. starts <= Allowed
    BY DEF IInv, Counting
  <2>2. ASSUME starts > 0, result = "error"
        PROVE  set.retry # Always /\ starts = Allowed
    <3>1. set.retry # Always /\ attempt >= set.retry - 1
      BY <2>2 DEF IInv, Counting, GivesUp
    <3>2. attempt = set.attempt + starts - 1
      BY <2>2, SettingFields DEF IInv, Counting
    <3>3. set.retry \in Nat /\ set.attempt \in Nat /\ starts \in Nat
      BY <3>1, SettingFields
    <3>4. starts >= set.retry - set.attempt
      BY <3>1, <3>2, <3>3, SettingFields
    <3> QED  BY <2>1, <2>2, <3>1, <3>3, <3>4 DEF Allowed
  <2> QED  BY <2>1, <2>2 DEF AttemptsCounted
<1> QED  BY <1>1, IInvAlways, PTL

(* The temporary directory of an action outlives its handler and the       *)
(* children it waits for; an action that leaves it behind is not fulfilled, *)
(* and what prevented the removal is one of three causes.                  *)
THEOREM TmpdirOutlives == Spec => []TmpdirLifetime
<1>1. IInv => TmpdirLifetime
  <2> SUFFICES ASSUME IInv PROVE TmpdirLifetime
    OBVIOUS
  <2>1. Recorded /\ stage # "tmpdir" /\ hand \in {"control", "await"} => tmp
    BY DEF IInv, Flow, Dir
  <2>2. ASSUME Recorded, NEW t \in Task \ late, in.task[t] = "executing", result # "error"
        PROVE  tmp
    <3>1. stage # "tmpdir"
      <4>1. ASSUME stage = "tmpdir" PROVE FALSE
        <5>1. starts = 0
          BY <4>1 DEF IInv, Flow
        <5>2. t[1] > starts - 1
          BY <5>1, Ranks
        <5> QED  BY <2>2, <5>2 DEF IInv, ChildrenInv, Uncalled
      <4> QED  BY <4>1
    <3>2. stage \notin {"report", "over"}
      BY <2>2 DEF IInv, ChildrenInv, Later, Drained, Settled
    <3> QED  BY <2>2, <3>1, <3>2 DEF IInv, Dir
  <2>3. (stage = "over" /\ tmp /\ ~set.dirty) =>
          /\ settled \in {"rejected", "relaxed"}
          /\ Asserted => set.tmpdir \in {"unowned", "stuck"}
    BY DEF IInv, Dir
  <2> QED  BY <2>1, <2>2, <2>3 DEF TmpdirLifetime
<1> QED  BY <1>1, IInvAlways, PTL

(* Without a status of its own, an action has that of the children it      *)
(* waited for, whichever attempt called them.                              *)
THEOREM ChildrenTellStatus == Spec => []StatusOfChildren
<1>1. IInv => StatusOfChildren
  BY DEF IInv, Telling, StatusOfChildren
<1> QED  BY <1>1, IInvAlways, PTL
=============================================================================
