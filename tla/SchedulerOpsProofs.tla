------------------------- MODULE SchedulerOpsProofs -------------------------
(***************************************************************************)
(* Every method and every callback of the scheduler preserves Sound, for   *)
(* any set of tasks.  The lemmas speak of one scheduler record, so that    *)
(* they serve any module that runs one, or several.                        *)
(***************************************************************************)
EXTENDS SchedulerOps, SequenceTheorems, TLAPS

LEMMA RangeOfTail ==
  ASSUME NEW q \in Seq(Task), q # << >>, IsSimple(q)
  PROVE  /\ Head(q) \in Task
         /\ Tail(q) \in Seq(Task)
         /\ IsSimple(Tail(q))
         /\ Range(Tail(q)) = Range(q) \ {Head(q)}
<1>1. /\ Head(q) \in Task
      /\ Tail(q) \in Seq(Task)
      /\ Len(Tail(q)) = Len(q) - 1
      /\ \A i \in 1..Len(Tail(q)) : Tail(q)[i] = q[i + 1]
  BY HeadTailProperties
<1>2. /\ Len(q) \in Nat
      /\ Len(q) # 0
      /\ DOMAIN q = 1..Len(q)
      /\ DOMAIN Tail(q) = 1..Len(Tail(q))
      /\ Head(q) = q[1]
  BY <1>1
<1>3. IsSimple(Tail(q))
  BY <1>1, <1>2 DEF IsSimple
<1>4. ASSUME NEW x \in Range(Tail(q)) PROVE x \in Range(q) \ {Head(q)}
  <2>1. PICK i \in 1..Len(Tail(q)) : x = Tail(q)[i]
    BY <1>2, <1>4 DEF Range
  <2>2. i + 1 \in 1..Len(q) /\ x = q[i + 1]
    BY <1>1, <1>2, <2>1
  <2>3. x # q[1]
    BY <1>2, <2>1, <2>2 DEF IsSimple
  <2> QED  BY <1>2, <2>2, <2>3 DEF Range
<1>5. ASSUME NEW x \in Range(q) \ {Head(q)} PROVE x \in Range(Tail(q))
  <2>1. PICK i \in 1..Len(q) : x = q[i]
    BY <1>2 DEF Range
  <2>2. i # 1
    BY <1>2, <1>5, <2>1
  <2>3. i - 1 \in 1..Len(Tail(q)) /\ Tail(q)[i - 1] = x
    BY <1>1, <1>2, <2>1, <2>2
  <2> QED  BY <1>2, <2>3 DEF Range
<1> QED  BY <1>1, <1>3, <1>4, <1>5

LEMMA RangeOfConcat ==
  ASSUME NEW p \in Seq(Task), NEW q \in Seq(Task), IsSimple(p), IsSimple(q),
         Range(p) \cap Range(q) = {}
  PROVE  /\ p \o q \in Seq(Task)
         /\ IsSimple(p \o q)
         /\ Range(p \o q) = Range(p) \cup Range(q)
<1>1. /\ p \o q \in Seq(Task)
      /\ Len(p \o q) = Len(p) + Len(q)
      /\ \A i \in 1..Len(p) + Len(q) :
           (p \o q)[i] = IF i <= Len(p) THEN p[i] ELSE q[i - Len(p)]
  BY ConcatProperties
<1>2. \A i \in 1..Len(p) : p[i] \in Range(p)
  BY DEF Range
<1>3. \A i \in 1..Len(q) : q[i] \in Range(q)
  BY DEF Range
<1>4. IsSimple(p \o q)
  <2> SUFFICES ASSUME NEW i \in 1..Len(p \o q), NEW j \in 1..Len(p \o q),
                      (p \o q)[i] = (p \o q)[j]
               PROVE  i = j
    BY DEF IsSimple
  <2>1. Len(p) \in Nat /\ Len(q) \in Nat
    OBVIOUS
  <2>2. CASE i <= Len(p) /\ j <= Len(p)
    BY <1>1, <2>1, <2>2 DEF IsSimple
  <2>3. CASE i <= Len(p) /\ ~(j <= Len(p))
    <3>1. (p \o q)[i] \in Range(p) /\ (p \o q)[j] \in Range(q)
      BY <1>1, <1>2, <1>3, <2>1, <2>3
    <3> QED  BY <3>1
  <2>4. CASE ~(i <= Len(p)) /\ j <= Len(p)
    <3>1. (p \o q)[i] \in Range(q) /\ (p \o q)[j] \in Range(p)
      BY <1>1, <1>2, <1>3, <2>1, <2>4
    <3> QED  BY <3>1
  <2>5. CASE ~(i <= Len(p)) /\ ~(j <= Len(p))
    <3>1. /\ i - Len(p) \in 1..Len(q)
          /\ j - Len(p) \in 1..Len(q)
          /\ q[i - Len(p)] = q[j - Len(p)]
      BY <1>1, <2>1, <2>5
    <3>2. i - Len(p) = j - Len(p)
      BY <3>1 DEF IsSimple
    <3> QED  BY <2>1, <3>2
  <2> QED  BY <2>2, <2>3, <2>4, <2>5
<1> QED  BY <1>1, <1>4, RangeConcatenation

LEMMA RangeOfOne ==
  ASSUME NEW t \in Task
  PROVE  <<t>> \in Seq(Task) /\ IsSimple(<<t>>) /\ Range(<<t>>) = {t}
BY DEF IsSimple, Range

LEMMA RangeOfEmpty ==
  << >> \in Seq(Task) /\ IsSimple(<< >>) /\ Range(<< >>) = {}
BY DEF IsSimple, Range

LEMMA RangeOfFront ==
  ASSUME NEW q \in Seq(Task), q # << >>, IsSimple(q)
  PROVE  /\ Last(q) \in Task
         /\ Front(q) \in Seq(Task)
         /\ IsSimple(Front(q))
         /\ Range(Front(q)) = Range(q) \ {Last(q)}
<1> DEFINE n == Len(q)
<1>1. n \in Nat /\ n # 0 /\ DOMAIN q = 1..n
  OBVIOUS
<1>2. /\ Front(q) \in Seq(Task)
      /\ DOMAIN Front(q) = 1..(n - 1)
      /\ Len(Front(q)) = n - 1
      /\ \A i \in 1..(n - 1) : Front(q)[i] = q[i]
  <2>1. Front(q) = [i \in 1..(n - 1) |-> q[i]]
    BY <1>1 DEF Front
  <2> QED  BY <1>1, <2>1, IsASeq
<1>3. Last(q) = q[n] /\ Last(q) \in Task
  BY <1>1 DEF Last
<1>4. IsSimple(Front(q))
  BY <1>1, <1>2 DEF IsSimple
<1>5. ASSUME NEW x \in Range(Front(q)) PROVE x \in Range(q) \ {Last(q)}
  <2>1. PICK i \in 1..(n - 1) : x = q[i]
    BY <1>2, <1>5 DEF Range
  <2>2. x # q[n]
    BY <1>1, <2>1 DEF IsSimple
  <2> QED  BY <1>1, <1>3, <2>1, <2>2 DEF Range
<1>6. ASSUME NEW x \in Range(q) \ {Last(q)} PROVE x \in Range(Front(q))
  <2>1. PICK i \in 1..n : x = q[i]
    BY <1>1 DEF Range
  <2>2. i \in 1..(n - 1)
    BY <1>1, <1>3, <1>6, <2>1
  <2> QED  BY <1>2, <2>1, <2>2 DEF Range
<1> QED  BY <1>2, <1>3, <1>4, <1>5, <1>6

LEMMA AppendToOne ==
  ASSUME NEW a, NEW b
  PROVE  Append(<<a>>, b) = <<a, b>>
<1> DEFINE S == {a, b}
<1>1. <<a>> \in Seq(S) /\ <<a, b>> \in Seq(S) /\ b \in S
  OBVIOUS
<1>2. /\ Append(<<a>>, b) \in Seq(S)
      /\ Len(Append(<<a>>, b)) = 2
      /\ Append(<<a>>, b)[1] = a
      /\ Append(<<a>>, b)[2] = b
  BY <1>1, AppendProperties
<1>3. Len(<<a, b>>) = 2 /\ <<a, b>>[1] = a /\ <<a, b>>[2] = b
  OBVIOUS
<1> HIDE DEF S
<1>4. \A i \in 1..2 : Append(<<a>>, b)[i] = <<a, b>>[i]
  BY <1>2, <1>3
<1> QED  BY <1>1, <1>2, <1>3, <1>4, SeqEqual

\* The queues of callbacks that occur.
LEMMA Loops ==
  /\ << >> \in Seq(Callback)
  /\ <<"pump">> \in Seq(Callback)
  /\ Append(<< >>, "pump") = <<"pump">>
  /\ Head(<<"pump">>) = "pump"       /\ Tail(<<"pump">>) = << >>
  /\ Head(<<"run">>) = "run"         /\ Tail(<<"run">>) = << >>
  /\ Head(<<"pump", "run">>) = "pump" /\ Tail(<<"pump", "run">>) = <<"run">>
  /\ "pump" # "run"
BY DEF Callback

-----------------------------------------------------------------------------
(* The fields of a scheduler, for the steps that need one at a time.       *)

LEMMA Fields ==
  ASSUME NEW s \in Scheduler
  PROVE  /\ s.strict \in BOOLEAN
         /\ s.paused \in BOOLEAN
         /\ s.resolved \in BOOLEAN
         /\ s.running \in BOOLEAN
         /\ s.stack \in Seq(Task)
         /\ s.task \in [Task -> Status]
         /\ s.collect \in SUBSET Task
         /\ s.output \in Seq(Task)
         /\ s.outcome \in {"pending", "fulfilled", "rejected"}
         /\ s.loop \in Seq(Callback)
BY DEF Scheduler

(* A change of the flags and outcome that Sound does not speak of.         *)
LEMMA SoundFlags ==
  ASSUME NEW s, NEW r \in Scheduler, Sound(s),
         r.running = s.running, r.stack = s.stack,
         r.task = s.task, r.loop = s.loop
  PROVE  Sound(r)
BY DEF Sound, Serial, InFlight, StackHoldsWaiting, Waiting, LoopFollows

LEMMA SoundEndOk ==
  ASSUME NEW s, Sound(s)
  PROVE  Sound(EndOk(s))
<1>1. s \in Scheduler
  BY DEF Sound
<1>2. EndOk(s) \in Scheduler
  BY <1>1 DEF EndOk, Scheduler
<1>3. /\ EndOk(s).running = s.running
      /\ EndOk(s).stack = s.stack
      /\ EndOk(s).task = s.task
      /\ EndOk(s).loop = s.loop
  BY <1>1 DEF EndOk, Scheduler
<1> QED  BY <1>2, <1>3, SoundFlags

(* Rejecting what waits leaves the task in flight and the callbacks alone. *)
LEMMA SoundEndError ==
  ASSUME NEW s, Sound(s)
  PROVE  Sound(EndError(s))
<1> DEFINE r == EndError(s)
<1>1. s \in Scheduler /\ Waiting(s) = Range(s.stack)
  BY DEF Sound, StackHoldsWaiting
<1>2. /\ r \in Scheduler
      /\ r.running = s.running
      /\ r.stack = << >>
      /\ r.loop = s.loop
      /\ r.task = [t \in Task |-> IF t \in Range(s.stack) THEN "dropped"
                                                         ELSE s.task[t]]
  <2> DEFINE tk == [t \in Task |-> IF t \in Range(s.stack) THEN "dropped"
                                                          ELSE s.task[t]]
  <2>1. tk \in [Task -> Status]
    BY <1>1, Fields DEF Status
  <2>2. r = [s EXCEPT !.resolved = TRUE,
                      !.outcome  = IF @ = "pending" THEN "rejected" ELSE @,
                      !.stack    = << >>,
                      !.task     = tk]
    BY DEF EndError
  <2> HIDE DEF tk, r
  <2>3. << >> \in Seq(Task)
    OBVIOUS
  <2>4. /\ r \in Scheduler
        /\ r.running = s.running
        /\ r.stack = << >>
        /\ r.loop = s.loop
        /\ r.task = tk
    BY <1>1, <2>1, <2>2, <2>3 DEF Scheduler
  <2> QED  BY <2>4 DEF tk
<1>3. \A t \in Task : t \in Range(s.stack) <=> s.task[t] = "queued"
  BY <1>1 DEF Waiting
<1>4. \A t \in Task : /\ r.task[t] = "taken" <=> s.task[t] = "taken"
                      /\ r.task[t] = "executing" <=> s.task[t] = "executing"
                      /\ r.task[t] # "queued"
  BY <1>2, <1>3
<1>5. InFlight(r) = InFlight(s)
  BY <1>4 DEF InFlight
<1>6. Serial(r)
  BY <1>2, <1>5 DEF Sound, Serial
<1>7. StackHoldsWaiting(r)
  BY <1>2, <1>4, RangeOfEmpty DEF StackHoldsWaiting, Waiting
<1>8. LoopFollows(r)
  BY <1>2, <1>4 DEF Sound, LoopFollows
<1> QED  BY <1>2, <1>6, <1>7, <1>8 DEF Sound

LEMMA SoundTake ==
  ASSUME NEW s, Sound(s), ~s.running, s.stack # << >>
  PROVE  Sound(Take(s))
<1> DEFINE r == Take(s)
           h == Head(s.stack)
<1>1. /\ s \in Scheduler
      /\ IsSimple(s.stack)
      /\ Waiting(s) = Range(s.stack)
      /\ InFlight(s) = {}
      /\ s.loop \in {<< >>, <<"pump">>}
  BY DEF Sound, StackHoldsWaiting, Serial, LoopFollows
<1>2. /\ s.stack \in Seq(Task)
      /\ s.task \in [Task -> Status]
      /\ s.loop \in Seq(Callback)
  BY <1>1, Fields
<1>3. /\ h \in Task
      /\ Tail(s.stack) \in Seq(Task)
      /\ IsSimple(Tail(s.stack))
      /\ Range(Tail(s.stack)) = Range(s.stack) \ {h}
  BY <1>1, <1>2, RangeOfTail
<1>4. /\ r \in Scheduler
      /\ r.running = TRUE
      /\ r.stack = Tail(s.stack)
      /\ r.task = [s.task EXCEPT ![h] = "taken"]
      /\ r.loop = Append(s.loop, "run")
  <2>1. Append(s.loop, "run") \in Seq(Callback)
    BY <1>2 DEF Callback
  <2>2. [s.task EXCEPT ![h] = "taken"] \in [Task -> Status]
    BY <1>2 DEF Status
  <2> QED  BY <1>1, <1>3, <2>1, <2>2 DEF Take, Scheduler
<1>5. \A t \in Task : s.task[t] \notin {"taken", "executing"}
  BY <1>1 DEF InFlight
<1>6. /\ r.task[h] = "taken"
      /\ \A t \in Task : t # h => r.task[t] = s.task[t]
  BY <1>2, <1>3, <1>4
<1>7. InFlight(r) = {h}
  BY <1>3, <1>5, <1>6 DEF InFlight
<1>8. Serial(r)
  BY <1>4, <1>7 DEF Serial
<1>9. StackHoldsWaiting(r)
  <2>1. Waiting(r) = Waiting(s) \ {h}
    BY <1>6 DEF Waiting
  <2> QED  BY <1>1, <1>3, <1>4, <2>1 DEF StackHoldsWaiting
<1>10. LoopFollows(r)
  <2>1. r.loop \in {<<"run">>, <<"pump", "run">>}
    <3>1. CASE s.loop = << >>
      BY <1>4, <3>1
    <3>2. CASE s.loop = <<"pump">>
      BY <1>4, <3>2, AppendToOne
    <3> QED  BY <1>1, <3>1, <3>2
  <2>2. \A t \in Task : r.task[t] # "executing"
    BY <1>5, <1>6
  <2> QED  BY <1>4, <2>1, <2>2 DEF LoopFollows
<1> QED  BY <1>4, <1>8, <1>9, <1>10 DEF Sound

LEMMA SoundPump ==
  ASSUME NEW s, Sound(s)
  PROVE  Sound(Pump(s))
<1>1. s.running \in BOOLEAN /\ s.resolved \in BOOLEAN
  BY Fields DEF Sound
<1>2. CASE s.running
  BY <1>2 DEF Pump
<1>3. CASE ~s.running /\ s.stack # << >>
  <2>1. Pump(s) = Take(s)
    BY <1>3 DEF Pump
  <2> QED  BY <1>3, <2>1, SoundTake
<1>4. CASE ~s.running /\ s.stack = << >> /\ ~s.resolved
  <2>1. Pump(s) = EndOk(s)
    BY <1>4 DEF Pump
  <2> QED  BY <2>1, SoundEndOk
<1>5. CASE ~s.running /\ s.stack = << >> /\ s.resolved
  <2>1. Pump(s) = s
    BY <1>5 DEF Pump
  <2> QED  BY <2>1
<1> QED  BY <1>1, <1>2, <1>3, <1>4, <1>5

LEMMA SoundPumpUnlessPaused ==
  ASSUME NEW s, Sound(s)
  PROVE  Sound(PumpUnlessPaused(s))
BY SoundPump DEF PumpUnlessPaused

LEMMA SoundPause ==
  ASSUME NEW s, Sound(s)
  PROVE  Sound(Pause(s))
<1>1. s \in Scheduler
  BY DEF Sound
<1>2. /\ Pause(s) \in Scheduler
      /\ Pause(s).running = s.running
      /\ Pause(s).stack = s.stack
      /\ Pause(s).task = s.task
      /\ Pause(s).loop = s.loop
  BY <1>1 DEF Pause, Scheduler
<1> QED  BY <1>2, SoundFlags

LEMMA SoundResume ==
  ASSUME NEW s, Sound(s)
  PROVE  Sound(Resume(s))
<1> DEFINE r == [s EXCEPT !.paused = FALSE]
<1>1. s \in Scheduler
  BY DEF Sound
<1>2. /\ r \in Scheduler
      /\ r.running = s.running
      /\ r.stack = s.stack
      /\ r.task = s.task
      /\ r.loop = s.loop
  BY <1>1 DEF Scheduler
<1>3. Sound(r)
  BY <1>2, SoundFlags
<1> QED  BY <1>3, SoundPump DEF Resume

(* Putting fresh tasks anywhere in the stack.                              *)
LEMMA SoundEnqueue ==
  ASSUME NEW s, Sound(s), NEW ts \in Seq(Task), NEW out \in BOOLEAN,
         \A t \in Range(ts) : s.task[t] = "idle",
         NEW q \in Seq(Task), IsSimple(q),
         Range(q) = Range(s.stack) \cup Range(ts)
  PROVE  Sound([Enqueue(s, ts, out) EXCEPT !.stack = q])
<1> DEFINE tk == [t \in Task |-> IF t \in Range(ts) THEN "queued" ELSE s.task[t]]
           co == IF out THEN s.collect \cup Range(ts) ELSE s.collect
           r == [Enqueue(s, ts, out) EXCEPT !.stack = q]
<1>1. s \in Scheduler /\ Waiting(s) = Range(s.stack)
  BY DEF Sound, StackHoldsWaiting
<1>2. tk \in [Task -> Status]
  BY <1>1, Fields DEF Status
<1>3. co \in SUBSET Task
  BY <1>1, Fields, RangeOfSeq
<1>4. r = [[s EXCEPT !.task = tk, !.collect = co] EXCEPT !.stack = q]
  BY DEF Enqueue
<1> HIDE DEF tk, co, r
<1>5. /\ r \in Scheduler
      /\ r.running = s.running
      /\ r.stack = q
      /\ r.loop = s.loop
      /\ r.task = tk
  BY <1>1, <1>2, <1>3, <1>4 DEF Scheduler
<1>6. \A t \in Task :
        /\ r.task[t] = "taken" <=> s.task[t] = "taken"
        /\ r.task[t] = "executing" <=> s.task[t] = "executing"
        /\ r.task[t] = "queued" <=> s.task[t] = "queued" \/ t \in Range(ts)
  BY <1>5 DEF tk
<1>7. InFlight(r) = InFlight(s)
  BY <1>6 DEF InFlight
<1>8. Serial(r)
  BY <1>5, <1>7 DEF Sound, Serial
<1>9. Waiting(r) = Waiting(s) \cup Range(ts)
  <2>1. Range(ts) \subseteq Task
    BY RangeOfSeq
  <2> QED  BY <1>6, <2>1 DEF Waiting
<1>10. StackHoldsWaiting(r)
  BY <1>1, <1>5, <1>9 DEF StackHoldsWaiting
<1>11. LoopFollows(r)
  BY <1>5, <1>6 DEF Sound, LoopFollows
<1>12. Sound(r)
  BY <1>5, <1>8, <1>10, <1>11 DEF Sound
<1> QED  BY <1>12 DEF r

(* An idle task is not in the stack.                                       *)
LEMMA IdleIsOff ==
  ASSUME NEW s, Sound(s), NEW ts \in Seq(Task),
         \A t \in Range(ts) : s.task[t] = "idle"
  PROVE  /\ s.stack \in Seq(Task)
         /\ IsSimple(s.stack)
         /\ Range(ts) \cap Range(s.stack) = {}
<1>1. /\ s.stack \in Seq(Task)
      /\ IsSimple(s.stack)
      /\ Waiting(s) = Range(s.stack)
  BY Fields DEF Sound, StackHoldsWaiting
<1>2. \A t \in Range(s.stack) : s.task[t] = "queued"
  BY <1>1 DEF Waiting
<1> QED  BY <1>1, <1>2

LEMMA FreshInFront ==
  ASSUME NEW s, Sound(s), NEW ts \in Seq(Task), IsSimple(ts),
         \A t \in Range(ts) : s.task[t] = "idle"
  PROVE  /\ ts \o s.stack \in Seq(Task)
         /\ IsSimple(ts \o s.stack)
         /\ Range(ts \o s.stack) = Range(s.stack) \cup Range(ts)
<1>1. /\ s.stack \in Seq(Task)
      /\ IsSimple(s.stack)
      /\ Range(ts) \cap Range(s.stack) = {}
  BY IdleIsOff
<1> QED  BY <1>1, RangeOfConcat

LEMMA SoundPushAll ==
  ASSUME NEW s, Sound(s), NEW ts \in Seq(Task), IsSimple(ts),
         NEW out \in BOOLEAN, \A t \in Range(ts) : s.task[t] = "idle"
  PROVE  Sound(PushAll(s, ts, out))
<1>1. CASE ts = << >>
  BY <1>1 DEF PushAll
<1>2. CASE ts # << >>
  <2>1. /\ s.stack \o ts \in Seq(Task)
        /\ IsSimple(s.stack \o ts)
        /\ Range(s.stack \o ts) = Range(s.stack) \cup Range(ts)
    BY IdleIsOff, RangeOfConcat
  <2>2. Enqueue(s, ts, out).stack = s.stack
    BY DEF Enqueue, Sound, Scheduler
  <2>3. Sound([Enqueue(s, ts, out) EXCEPT !.stack = s.stack \o ts])
    BY <2>1, SoundEnqueue
  <2> QED  BY <1>2, <2>2, <2>3, SoundPumpUnlessPaused DEF PushAll
<1> QED  BY <1>1, <1>2

LEMMA SoundPush ==
  ASSUME NEW s, Sound(s), NEW t \in Task, NEW out \in BOOLEAN,
         s.task[t] = "idle"
  PROVE  Sound(Push(s, t, out))
BY RangeOfOne, SoundPushAll DEF Push

LEMMA SoundUnshift ==
  ASSUME NEW s, Sound(s), NEW t \in Task, s.task[t] = "idle"
  PROVE  Sound(Unshift(s, t))
<1>1. <<t>> \in Seq(Task) /\ IsSimple(<<t>>) /\ Range(<<t>>) = {t}
  BY RangeOfOne
<1>2. /\ <<t>> \o s.stack \in Seq(Task)
      /\ IsSimple(<<t>> \o s.stack)
      /\ Range(<<t>> \o s.stack) = Range(s.stack) \cup Range(<<t>>)
  <2>1. \A u \in Range(<<t>>) : s.task[u] = "idle"
    BY <1>1
  <2> QED  BY <1>1, <2>1, FreshInFront
<1>3. Enqueue(s, <<t>>, FALSE).stack = s.stack
  BY DEF Enqueue, Sound, Scheduler
<1>4. Sound([Enqueue(s, <<t>>, FALSE) EXCEPT !.stack = <<t>> \o s.stack])
  BY <1>1, <1>2, SoundEnqueue
<1> QED  BY <1>3, <1>4, SoundPumpUnlessPaused DEF Unshift

(* A pump never touches a task that was not given to the scheduler.        *)
LEMMA PumpKeepsIdle ==
  ASSUME NEW s, Sound(s), NEW u \in Task, s.task[u] = "idle"
  PROVE  /\ Pump(s).task[u] = "idle"
         /\ PumpUnlessPaused(s).task[u] = "idle"
<1>1. /\ s \in Scheduler
      /\ s.running \in BOOLEAN
      /\ s.resolved \in BOOLEAN
      /\ s.stack \in Seq(Task)
      /\ s.task \in [Task -> Status]
      /\ Waiting(s) = Range(s.stack)
  BY Fields DEF Sound, StackHoldsWaiting
<1>2. s.stack # << >> => Take(s).task[u] = "idle"
  <2> HAVE s.stack # << >>
  <2>1. Head(s.stack) \in Range(s.stack)
    BY <1>1 DEF Range
  <2>2. Head(s.stack) # u
    BY <1>1, <2>1 DEF Waiting
  <2>3. Take(s).task = [s.task EXCEPT ![Head(s.stack)] = "taken"]
    BY <1>1 DEF Take, Scheduler
  <2> QED  BY <1>1, <2>2, <2>3
<1>3. EndOk(s).task = s.task
  BY <1>1 DEF EndOk, Scheduler
<1>4. Pump(s).task[u] = "idle"
  BY <1>1, <1>2, <1>3 DEF Pump
<1> QED  BY <1>4 DEF PumpUnlessPaused

LEMMA UnshiftKeepsIdle ==
  ASSUME NEW s, Sound(s), NEW t \in Task, s.task[t] = "idle",
         NEW u \in Task, u # t, s.task[u] = "idle"
  PROVE  Unshift(s, t).task[u] = "idle"
<1> DEFINE r == [Enqueue(s, <<t>>, FALSE) EXCEPT !.stack = <<t>> \o s.stack]
<1>1. <<t>> \in Seq(Task) /\ IsSimple(<<t>>) /\ Range(<<t>>) = {t}
  BY RangeOfOne
<1>2. /\ <<t>> \o s.stack \in Seq(Task)
      /\ IsSimple(<<t>> \o s.stack)
      /\ Range(<<t>> \o s.stack) = Range(s.stack) \cup Range(<<t>>)
  <2>1. \A v \in Range(<<t>>) : s.task[v] = "idle"
    BY <1>1
  <2> QED  BY <1>1, <2>1, FreshInFront
<1>3. Sound(r)
  BY <1>1, <1>2, SoundEnqueue
<1>4. r.task = [v \in Task |-> IF v \in Range(<<t>>) THEN "queued" ELSE s.task[v]]
  BY DEF Enqueue, Sound, Scheduler
<1>5. r.task[u] = "idle"
  BY <1>1, <1>4
<1>6. Unshift(s, t) = PumpUnlessPaused(r)
  BY DEF Unshift, Enqueue, Sound, Scheduler
<1> HIDE DEF r
<1> QED  BY <1>3, <1>5, <1>6, PumpKeepsIdle

LEMMA SoundUnshiftAll ==
  ASSUME NEW s, Sound(s), NEW ts \in Seq(Task), IsSimple(ts),
         \A t \in Range(ts) : s.task[t] = "idle"
  PROVE  Sound(UnshiftAll(s, ts))
<1>1. CASE ts = << >>
  BY <1>1 DEF UnshiftAll
<1>2. CASE ts # << >>
  <2> DEFINE r == Unshift(s, Last(ts))
             f == Front(ts)
  <2>1. /\ Last(ts) \in Task
        /\ f \in Seq(Task)
        /\ IsSimple(f)
        /\ Range(f) = Range(ts) \ {Last(ts)}
    BY <1>2, RangeOfFront
  <2>2. Last(ts) \in Range(ts)
    BY <1>2 DEF Range, Last
  <2>3. Sound(r)
    BY <2>1, <2>2, SoundUnshift
  <2>4. \A t \in Range(f) : r.task[t] = "idle"
    <3> TAKE t \in Range(f)
    <3>1. t \in Task /\ t # Last(ts) /\ s.task[t] = "idle"
      BY <2>1, RangeOfSeq
    <3> QED  BY <2>1, <2>2, <3>1, UnshiftKeepsIdle
  <2>5. Enqueue(r, f, FALSE).stack = r.stack
    BY <2>3 DEF Enqueue, Sound, Scheduler
  <2>6. UnshiftAll(s, ts) = [Enqueue(r, f, FALSE) EXCEPT !.stack = f \o r.stack]
    BY <1>2, <2>5 DEF UnshiftAll
  <2> HIDE DEF r, f
  <2>7. /\ f \o r.stack \in Seq(Task)
        /\ IsSimple(f \o r.stack)
        /\ Range(f \o r.stack) = Range(r.stack) \cup Range(f)
    BY <2>1, <2>3, <2>4, FreshInFront
  <2>8. Sound([Enqueue(r, f, FALSE) EXCEPT !.stack = f \o r.stack])
    BY <2>1, <2>3, <2>4, <2>7, SoundEnqueue
  <2> QED  BY <2>6, <2>8
<1> QED  BY <1>1, <1>2

(* A pump callback is the head of the queue: no handler executes, and what *)
(* is left of the queue still agrees with the flags.                       *)
LEMMA SoundPumpDue ==
  ASSUME NEW s, Sound(s), s.loop # << >>, Head(s.loop) = "pump"
  PROVE  Sound([s EXCEPT !.loop = Tail(@)])
<1> DEFINE r == [s EXCEPT !.loop = Tail(@)]
<1>1. s \in Scheduler /\ LoopFollows(s) /\ Serial(s)
  BY DEF Sound
<1>2. s.loop \in Seq(Callback) /\ Tail(s.loop) \in Seq(Callback)
  BY <1>1, Fields
<1>3. /\ r \in Scheduler
      /\ r.running = s.running
      /\ r.stack = s.stack
      /\ r.task = s.task
      /\ r.loop = Tail(s.loop)
  BY <1>1, <1>2 DEF Scheduler
<1>4. LoopFollows(r)
  <2>1. ~s.running => Tail(s.loop) = << >>
    <3> HAVE ~s.running
    <3>1. s.loop = <<"pump">>
      BY <1>1 DEF LoopFollows
    <3> HIDE DEF r
    <3> QED  BY <3>1, Loops
  <2>2. ASSUME NEW t \in Task, s.task[t] = "taken"
        PROVE  Tail(s.loop) = <<"run">>
    <3>1. s.loop \in {<<"run">>, <<"pump", "run">>}
      BY <1>1, <2>2 DEF LoopFollows
    <3> HIDE DEF r
    <3>2. s.loop # <<"run">>
      BY Loops
    <3> QED  BY <3>1, <3>2, Loops
  <2>3. \A t \in Task : s.task[t] # "executing"
    BY <1>1 DEF LoopFollows
  <2> QED  BY <1>3, <2>1, <2>2, <2>3 DEF LoopFollows
<1>5. Serial(r)
  BY <1>1, <1>3 DEF Serial, InFlight
<1>6. StackHoldsWaiting(r)
  BY <1>3 DEF Sound, StackHoldsWaiting, Waiting
<1> QED  BY <1>3, <1>4, <1>5, <1>6 DEF Sound

LEMMA SoundPumpCallback ==
  ASSUME NEW s, Sound(s), s.loop # << >>, Head(s.loop) = "pump"
  PROVE  Sound(PumpCallback(s))
BY SoundPumpDue, SoundPump DEF PumpCallback

LEMMA SoundCallHandler ==
  ASSUME NEW s, Sound(s), NEW t \in Task, s.task[t] = "taken",
         s.loop # << >>, Head(s.loop) = "run"
  PROVE  Sound(CallHandler(s, t))
<1> DEFINE r == CallHandler(s, t)
<1>1. s \in Scheduler /\ LoopFollows(s) /\ Serial(s)
  BY DEF Sound
<1>2. s.loop = <<"run">> /\ Tail(s.loop) = << >>
  <2>1. s.loop \in {<<"run">>, <<"pump", "run">>}
    BY <1>1 DEF LoopFollows
  <2>2. s.loop # <<"pump", "run">>
    BY Loops
  <2> QED  BY <2>1, <2>2, Loops
<1>3. s.task \in [Task -> Status] /\ s.running \in BOOLEAN
  BY <1>1, Fields
<1>4. /\ r \in Scheduler
      /\ r.running = s.running
      /\ r.stack = s.stack
      /\ r.loop = << >>
      /\ r.task = [s.task EXCEPT ![t] = "executing"]
  <2>1. << >> \in Seq(Callback)
    OBVIOUS
  <2>2. [s.task EXCEPT ![t] = "executing"] \in [Task -> Status]
    BY <1>3 DEF Status
  <2> QED  BY <1>1, <1>2, <2>1, <2>2 DEF CallHandler, Scheduler
<1>5. /\ r.task[t] = "executing"
      /\ \A u \in Task : u # t => r.task[u] = s.task[u]
  BY <1>3, <1>4
<1>6. InFlight(s) = {t}
  BY <1>1 DEF Serial, InFlight
<1>7. InFlight(r) = {t}
  BY <1>5, <1>6 DEF InFlight
<1>8. s.running
  BY <1>1, <1>3, <1>6 DEF Serial
<1>9. Serial(r)
  BY <1>4, <1>7, <1>8 DEF Serial
<1>10. StackHoldsWaiting(r)
  <2>1. Waiting(r) = Waiting(s)
    BY <1>5 DEF Waiting
  <2> QED  BY <1>4, <2>1 DEF Sound, StackHoldsWaiting
<1>11. LoopFollows(r)
  <2>1. \A u \in Task : r.task[u] # "taken"
    BY <1>5, <1>6 DEF InFlight
  <2> QED  BY <1>4, <1>8, <2>1 DEF LoopFollows
<1> QED  BY <1>4, <1>9, <1>10, <1>11 DEF Sound

(* The end of a handler, whatever its outcome, before anything is pumped.  *)
LEMMA SoundOver ==
  ASSUME NEW s, Sound(s), NEW t \in Task, s.task[t] = "executing",
         NEW r \in Scheduler, NEW v \in {"fulfilled", "failed"},
         r.running = FALSE, r.stack = s.stack,
         r.task = [s.task EXCEPT ![t] = v],
         r.loop \in {<< >>, <<"pump">>}
  PROVE  Sound(r)
<1>1. s \in Scheduler /\ Serial(s) /\ StackHoldsWaiting(s)
  BY DEF Sound
<1>2. s.task \in [Task -> Status]
  BY <1>1, Fields
<1>3. /\ r.task[t] = v
      /\ \A u \in Task : u # t => r.task[u] = s.task[u]
  BY <1>2
<1>4. InFlight(s) = {t}
  BY <1>1 DEF Serial, InFlight
<1>5. InFlight(r) = {}
  BY <1>3, <1>4 DEF InFlight
<1>6. Serial(r)
  BY <1>5 DEF Serial
<1>7. Waiting(r) = Waiting(s)
  BY <1>3 DEF Waiting
<1>8. StackHoldsWaiting(r)
  BY <1>1, <1>7 DEF StackHoldsWaiting
<1>9. LoopFollows(r)
  BY <1>5 DEF LoopFollows, InFlight
<1> QED  BY <1>6, <1>8, <1>9 DEF Sound

LEMMA SoundHandlerFulfilled ==
  ASSUME NEW s, Sound(s), NEW t \in Task, s.task[t] = "executing"
  PROVE  Sound(HandlerFulfilled(s, t))
<1> DEFINE r  == HandlerFulfilled(s, t)
           out == IF t \in s.collect THEN Append(s.output, t) ELSE s.output
<1>1. s \in Scheduler
  BY DEF Sound
<1>2. /\ s.task \in [Task -> Status]
      /\ s.output \in Seq(Task)
  BY <1>1, Fields
<1>3. s.loop = << >> /\ Append(s.loop, "pump") = <<"pump">>
  <2>1. s.loop = << >>
    BY DEF Sound, LoopFollows
  <2> QED  BY <2>1, Loops
<1>4. out \in Seq(Task)
  BY <1>2
<1>5. [s.task EXCEPT ![t] = "fulfilled"] \in [Task -> Status]
  BY <1>2 DEF Status
<1>6. <<"pump">> \in Seq(Callback)
  BY DEF Callback
<1>7. r = [s EXCEPT !.running = FALSE,
                    !.task    = [s.task EXCEPT ![t] = "fulfilled"],
                    !.output  = out,
                    !.loop    = <<"pump">>]
  BY <1>3 DEF HandlerFulfilled
<1> HIDE DEF r, out
<1>8. /\ r \in Scheduler
      /\ r.running = FALSE
      /\ r.stack = s.stack
      /\ r.loop = <<"pump">>
      /\ r.task = [s.task EXCEPT ![t] = "fulfilled"]
  BY <1>1, <1>4, <1>5, <1>6, <1>7 DEF Scheduler
<1>9. Sound(r)
  BY <1>8, SoundOver
<1> QED  BY <1>9 DEF r

LEMMA SoundHandlerRejected ==
  ASSUME NEW s, Sound(s), NEW t \in Task, s.task[t] = "executing",
         NEW falsy \in BOOLEAN
  PROVE  Sound(HandlerRejected(s, t, falsy))
<1> DEFINE f == [s EXCEPT !.running = FALSE,
                          !.task    = [@ EXCEPT ![t] = "failed"]]
           p == [f EXCEPT !.loop = Append(@, "pump")]
<1>1. s \in Scheduler
  BY DEF Sound
<1>2. s.task \in [Task -> Status] /\ s.strict \in BOOLEAN
  BY <1>1, Fields
<1>3. s.loop = << >> /\ Append(s.loop, "pump") = <<"pump">>
  <2>1. s.loop = << >>
    BY DEF Sound, LoopFollows
  <2> QED  BY <2>1, Loops
<1>4. [s.task EXCEPT ![t] = "failed"] \in [Task -> Status]
  BY <1>2 DEF Status
<1>5. /\ f \in Scheduler
      /\ f.running = FALSE
      /\ f.stack = s.stack
      /\ f.loop = << >>
      /\ f.task = [s.task EXCEPT ![t] = "failed"]
  BY <1>1, <1>3, <1>4 DEF Scheduler
<1>6. p = [f EXCEPT !.loop = <<"pump">>]
  BY <1>3, <1>5
<1>7. HandlerRejected(s, t, falsy) =
        CASE s.strict /\ falsy  -> EndOk(f)
          [] s.strict /\ ~falsy -> EndError(f)
          [] ~s.strict          -> p
  BY DEF HandlerRejected
<1> HIDE DEF f
<1>8. /\ p \in Scheduler
      /\ p.running = FALSE
      /\ p.stack = s.stack
      /\ p.loop = <<"pump">>
      /\ p.task = [s.task EXCEPT ![t] = "failed"]
  <2> HIDE DEF p
  <2> QED  BY <1>5, <1>6, Loops DEF Scheduler
<1> HIDE DEF p
<1>9. Sound(f)
  BY <1>5, SoundOver
<1>10. Sound(p)
  BY <1>8, SoundOver
<1>11. CASE s.strict /\ falsy
  BY <1>7, <1>9, <1>11, SoundEndOk
<1>12. CASE s.strict /\ ~falsy
  BY <1>7, <1>9, <1>12, SoundEndError
<1>13. CASE ~s.strict
  BY <1>7, <1>10, <1>13
<1> QED  BY <1>2, <1>11, <1>12, <1>13

-----------------------------------------------------------------------------
(* Creation.                                                               *)

LEMMA SoundBlank ==
  ASSUME NEW strict \in BOOLEAN, NEW paused \in BOOLEAN
  PROVE  Sound(Blank(strict, paused))
<1> DEFINE b == Blank(strict, paused)
<1>1. b \in Scheduler
  <2>1. [t \in Task |-> "idle"] \in [Task -> Status]
    BY DEF Status
  <2> QED  BY <2>1 DEF Blank, Scheduler
<1>2. /\ b.running = FALSE
      /\ b.stack = << >>
      /\ b.loop = << >>
      /\ \A t \in Task : b.task[t] = "idle"
  BY DEF Blank
<1> HIDE DEF b
<1>3. Serial(b)
  BY <1>2 DEF Serial, InFlight
<1>4. StackHoldsWaiting(b)
  BY <1>2, RangeOfEmpty DEF StackHoldsWaiting, Waiting
<1>5. LoopFollows(b)
  BY <1>2 DEF LoopFollows
<1>6. Sound(b)
  BY <1>1, <1>3, <1>4, <1>5 DEF Sound
<1> QED  BY <1>6 DEF b

LEMMA SoundCreate ==
  ASSUME NEW strict \in BOOLEAN, NEW paused \in BOOLEAN
  PROVE  Sound(Create(strict, paused))
BY SoundBlank DEF Create

LEMMA SoundCreateWith ==
  ASSUME NEW strict \in BOOLEAN, NEW paused \in BOOLEAN,
         NEW ts \in Seq(Task), IsSimple(ts)
  PROVE  Sound(CreateWith(ts, strict, paused))
<1> DEFINE b == Blank(strict, paused)
<1>1. Sound(b) /\ b \in Scheduler
  BY SoundBlank DEF Sound
<1>2. CASE ts = << >>
  <2> DEFINE e == [b EXCEPT !.outcome = "fulfilled"]
  <2> HIDE DEF b
  <2>1. /\ e \in Scheduler
        /\ e.running = b.running
        /\ e.stack = b.stack
        /\ e.task = b.task
        /\ e.loop = b.loop
    BY <1>1 DEF Scheduler
  <2>2. Sound(e)
    BY <1>1, <2>1, SoundFlags
  <2> QED  BY <1>2, <2>2 DEF CreateWith, b
<1>3. CASE ts # << >>
  <2>1. \A t \in Range(ts) : b.task[t] = "idle"
    BY RangeOfSeq DEF Blank
  <2> HIDE DEF b
  <2>2. Sound(PushAll(b, ts, TRUE))
    BY <1>1, <2>1, SoundPushAll
  <2>3. Sound(Pump(PushAll(b, ts, TRUE)))
    BY <2>2, SoundPump
  <2> QED  BY <1>3, <2>3 DEF CreateWith, b
<1> QED  BY <1>2, <1>3

-----------------------------------------------------------------------------
(***************************************************************************)
(* What a step of a scheduler leaves alone.  A module that runs several    *)
(* schedulers proves its own invariants from these facts.                  *)
(***************************************************************************)
Started == {"executing", "fulfilled", "failed"}

\* Except for the tasks of X, what was idle stays so and what executes too;
\* a handler that was called stays called.
Kept(s, r, X) ==
  /\ \A t \in Task \ X : /\ r.task[t] = "idle" <=> s.task[t] = "idle"
                         /\ s.task[t] = "executing" => r.task[t] = "executing"
  /\ \A t \in Task : s.task[t] \in Started => r.task[t] \in Started

LEMMA SameTasks ==
  ASSUME NEW s, NEW r, r.task = s.task
  PROVE  Kept(s, r, {})
BY DEF Kept

LEMMA TakeKeeps ==
  ASSUME NEW s \in Scheduler, StackHoldsWaiting(s), s.stack # << >>
  PROVE  Kept(s, Take(s), {})
<1> DEFINE h == Head(s.stack)
<1>1. /\ s.stack \in Seq(Task)
      /\ s.task \in [Task -> Status]
      /\ Waiting(s) = Range(s.stack)
  BY Fields DEF StackHoldsWaiting
<1>2. h \in Range(s.stack)
  BY <1>1 DEF Range
<1>3. h \in Task /\ s.task[h] = "queued"
  BY <1>1, <1>2 DEF Waiting
<1>4. Take(s).task = [s.task EXCEPT ![h] = "taken"]
  BY <1>1 DEF Take, Scheduler
<1> QED  BY <1>1, <1>3, <1>4 DEF Kept, Started

LEMMA PumpKeeps ==
  ASSUME NEW s \in Scheduler, StackHoldsWaiting(s)
  PROVE  Kept(s, Pump(s), {})
<1>1. s.running \in BOOLEAN /\ s.resolved \in BOOLEAN
  BY Fields
<1>2. CASE ~s.running /\ s.stack # << >>
  BY <1>2, TakeKeeps DEF Pump
<1>3. CASE s.running \/ s.stack = << >>
  <2>1. EndOk(s).task = s.task
    BY DEF EndOk, Scheduler
  <2>2. Pump(s).task = s.task
    BY <1>1, <1>3, <2>1 DEF Pump
  <2> QED  BY <2>2, SameTasks
<1> QED  BY <1>1, <1>2, <1>3

LEMMA ResumeKeeps ==
  ASSUME NEW s, Sound(s)
  PROVE  Kept(s, Resume(s), {})
<1> DEFINE r == [s EXCEPT !.paused = FALSE]
<1>1. s \in Scheduler /\ StackHoldsWaiting(s)
  BY DEF Sound
<1>2. /\ r \in Scheduler
      /\ r.stack = s.stack
      /\ r.task = s.task
  BY <1>1 DEF Scheduler
<1>3. Resume(s) = Pump(r)
  BY DEF Resume
<1> HIDE DEF r
<1>4. StackHoldsWaiting(r)
  BY <1>1, <1>2 DEF StackHoldsWaiting, Waiting
<1>5. Kept(r, Pump(r), {})
  BY <1>2, <1>4, PumpKeeps
<1> QED  BY <1>2, <1>3, <1>5 DEF Kept

LEMMA PumpCallbackKeeps ==
  ASSUME NEW s, Sound(s), s.loop # << >>
  PROVE  Kept(s, PumpCallback(s), {})
<1> DEFINE r == [s EXCEPT !.loop = Tail(@)]
<1>1. s \in Scheduler /\ StackHoldsWaiting(s) /\ s.loop \in Seq(Callback)
  BY Fields DEF Sound
<1>2. Tail(s.loop) \in Seq(Callback)
  BY <1>1
<1>3. /\ r \in Scheduler
      /\ r.stack = s.stack
      /\ r.task = s.task
  BY <1>1, <1>2 DEF Scheduler
<1>4. PumpCallback(s) = Pump(r)
  BY DEF PumpCallback
<1> HIDE DEF r
<1>5. StackHoldsWaiting(r)
  BY <1>1, <1>3 DEF StackHoldsWaiting, Waiting
<1>6. Kept(r, Pump(r), {})
  BY <1>3, <1>5, PumpKeeps
<1> QED  BY <1>3, <1>4, <1>6 DEF Kept

LEMMA CallHandlerKeeps ==
  ASSUME NEW s, Sound(s), NEW t \in Task, s.task[t] = "taken"
  PROVE  /\ Kept(s, CallHandler(s, t), {})
         /\ CallHandler(s, t).task[t] = "executing"
<1>1. s \in Scheduler /\ s.task \in [Task -> Status]
  BY Fields DEF Sound
<1>2. CallHandler(s, t).task = [s.task EXCEPT ![t] = "executing"]
  BY <1>1 DEF CallHandler, Scheduler
<1> QED  BY <1>1, <1>2 DEF Kept, Started

LEMMA PushKeeps ==
  ASSUME NEW s, Sound(s), NEW t \in Task, s.task[t] = "idle", NEW out \in BOOLEAN
  PROVE  Kept(s, Push(s, t, out), {t})
<1> DEFINE r == [Enqueue(s, <<t>>, out) EXCEPT !.stack = s.stack \o <<t>>]
<1>1. /\ s \in Scheduler
      /\ s.task \in [Task -> Status]
      /\ s.collect \in SUBSET Task
  BY Fields DEF Sound
<1>2. <<t>> \in Seq(Task) /\ IsSimple(<<t>>) /\ Range(<<t>>) = {t}
  BY RangeOfOne
<1>3. Enqueue(s, <<t>>, out).stack = s.stack
  BY <1>1 DEF Enqueue, Scheduler
<1>4. Sound(r)
  <2>1. /\ s.stack \o <<t>> \in Seq(Task)
        /\ IsSimple(s.stack \o <<t>>)
        /\ Range(s.stack \o <<t>>) = Range(s.stack) \cup Range(<<t>>)
    <3>1. \A u \in Range(<<t>>) : s.task[u] = "idle"
      BY <1>2
    <3>2. /\ s.stack \in Seq(Task)
          /\ IsSimple(s.stack)
          /\ Range(<<t>>) \cap Range(s.stack) = {}
      BY <1>2, <3>1, IdleIsOff
    <3> QED  BY <1>2, <3>2, RangeOfConcat
  <2> QED  BY <1>2, <2>1, SoundEnqueue
<1>5. r.task = [u \in Task |-> IF u = t THEN "queued" ELSE s.task[u]]
  BY <1>1, <1>2 DEF Enqueue, Scheduler
<1>6. Push(s, t, out) = PumpUnlessPaused(r)
  BY <1>3 DEF Push, PushAll
<1> HIDE DEF r
<1>7. Kept(s, r, {t})
  BY <1>1, <1>5 DEF Kept, Started
<1>8. Kept(r, PumpUnlessPaused(r), {})
  <2>1. Kept(r, Pump(r), {})
    BY <1>4, PumpKeeps DEF Sound
  <2> QED  BY <2>1, SameTasks DEF PumpUnlessPaused
<1> QED  BY <1>6, <1>7, <1>8 DEF Kept

LEMMA EndErrorKeeps ==
  ASSUME NEW s, Sound(s)
  PROVE  Kept(s, EndError(s), {})
<1>1. /\ s \in Scheduler
      /\ s.task \in [Task -> Status]
      /\ Waiting(s) = Range(s.stack)
  BY Fields DEF Sound, StackHoldsWaiting
<1>2. EndError(s).task = [t \in Task |-> IF t \in Range(s.stack) THEN "dropped"
                                                               ELSE s.task[t]]
  BY <1>1 DEF EndError, Scheduler
<1> QED  BY <1>1, <1>2 DEF Kept, Started, Waiting

LEMMA HandlerFulfilledKeeps ==
  ASSUME NEW s, Sound(s), NEW t \in Task, s.task[t] = "executing"
  PROVE  Kept(s, HandlerFulfilled(s, t), {t})
<1>1. s \in Scheduler /\ s.task \in [Task -> Status]
  BY Fields DEF Sound
<1>2. HandlerFulfilled(s, t).task = [s.task EXCEPT ![t] = "fulfilled"]
  BY <1>1 DEF HandlerFulfilled, Scheduler
<1> QED  BY <1>1, <1>2 DEF Kept, Started

LEMMA HandlerRejectedKeeps ==
  ASSUME NEW s, Sound(s), NEW t \in Task, s.task[t] = "executing",
         NEW falsy \in BOOLEAN
  PROVE  Kept(s, HandlerRejected(s, t, falsy), {t})
<1> DEFINE f == [s EXCEPT !.running = FALSE,
                          !.task    = [@ EXCEPT ![t] = "failed"]]
           tk == HandlerRejected(s, t, falsy).task
<1>1. /\ s \in Scheduler
      /\ s.strict \in BOOLEAN
      /\ s.task \in [Task -> Status]
      /\ Waiting(s) = Range(s.stack)
  BY Fields DEF Sound, StackHoldsWaiting
<1>2. /\ f.task = [s.task EXCEPT ![t] = "failed"]
      /\ f.stack = s.stack
  BY <1>1 DEF Scheduler
<1>3. CASE s.strict /\ ~falsy
  <2>1. tk = [u \in Task |-> IF u \in Range(s.stack) THEN "dropped" ELSE f.task[u]]
    BY <1>1, <1>3 DEF HandlerRejected, EndError, Scheduler
  <2> QED  BY <1>1, <1>2, <2>1 DEF Kept, Started, Waiting
<1>4. CASE ~(s.strict /\ ~falsy)
  <2>1. tk = f.task
    BY <1>1, <1>4 DEF HandlerRejected, EndOk, Scheduler
  <2> QED  BY <1>1, <1>2, <2>1 DEF Kept, Started
<1> QED  BY <1>3, <1>4

LEMMA CreateIdle ==
  ASSUME NEW strict, NEW paused, NEW t \in Task
  PROVE  Create(strict, paused).task[t] = "idle"
BY DEF Create, Blank

LEMMA CreateWithIdle ==
  ASSUME NEW strict \in BOOLEAN, NEW paused \in BOOLEAN,
         NEW ts \in Seq(Task), IsSimple(ts), NEW u \in Task, u \notin Range(ts)
  PROVE  CreateWith(ts, strict, paused).task[u] = "idle"
<1> DEFINE b == Blank(strict, paused)
           r == [Enqueue(b, ts, TRUE) EXCEPT !.stack = b.stack \o ts]
           p == PushAll(b, ts, TRUE)
<1>1. Sound(b) /\ b.stack = << >> /\ \A t \in Task : b.task[t] = "idle"
  BY SoundBlank DEF Blank
<1>2. CASE ts = << >>
  BY <1>2 DEF CreateWith, Blank
<1>3. CASE ts # << >>
  <2>1. CreateWith(ts, strict, paused) = Pump(p)
    BY <1>3 DEF CreateWith
  <2>2. Enqueue(b, ts, TRUE).stack = b.stack
    BY DEF Enqueue, Blank
  <2>3. p = PumpUnlessPaused(r)
    BY <1>3, <2>2 DEF PushAll
  <2>4. r.task[u] = "idle"
    BY <1>1 DEF Enqueue, Blank
  <2> HIDE DEF b
  <2>5. \A t \in Range(ts) : b.task[t] = "idle"
    BY <1>1, RangeOfSeq
  <2>6. /\ b.stack \o ts \in Seq(Task)
        /\ IsSimple(b.stack \o ts)
        /\ Range(b.stack \o ts) = Range(b.stack) \cup Range(ts)
    BY <1>1, <2>5, IdleIsOff, RangeOfConcat
  <2>7. Sound(r)
    BY <1>1, <2>5, <2>6, SoundEnqueue
  <2>8. Sound(p)
    BY <1>1, <2>5, SoundPushAll
  <2> HIDE DEF r
  <2>9. p.task[u] = "idle"
    BY <2>3, <2>4, <2>7, PumpKeepsIdle
  <2> QED  BY <2>1, <2>8, <2>9, PumpKeepsIdle
<1> QED  BY <1>2, <1>3

-----------------------------------------------------------------------------
(***************************************************************************)
(* A step in which no handler starts or ends: every operator but           *)
(* CallHandler, HandlerFulfilled and HandlerRejected.                      *)
(***************************************************************************)
Emptied(s) == \A t \in Task : s.task[t] \in {"idle"} \cup Settled

\* The results, and what is known of them, stay as they are; the promise of
\* the scheduler is fulfilled only when nothing is left.
Moves(s, r) ==
  /\ r.strict = s.strict
  /\ s.outcome = "pending" /\ r.outcome = "fulfilled" => Emptied(s)
  /\ r.output = s.output
  /\ \A t \in Task :
       /\ s.task[t] \in Started \/ r.task[t] \in Started => r.task[t] = s.task[t]
       /\ s.task[t] # "idle" => r.task[t] # "idle" /\ (t \in r.collect <=> t \in s.collect)

(* A scheduler at rest with an empty stack has nothing left to do.         *)
LEMMA NothingLeft ==
  ASSUME NEW s, Sound(s), ~s.running, s.stack = << >>
  PROVE  Emptied(s)
<1>1. /\ s.task \in [Task -> Status]
      /\ InFlight(s) = {}
      /\ Waiting(s) = Range(s.stack)
  BY Fields DEF Sound, Serial, StackHoldsWaiting
<1>2. Waiting(s) = {}
  BY <1>1, RangeOfEmpty
<1> QED  BY <1>1, <1>2 DEF Emptied, InFlight, Waiting, Status, Settled

LEMMA TakeFields ==
  ASSUME NEW s, Sound(s), s.stack # << >>
  PROVE  /\ Head(s.stack) \in Task
         /\ s.task[Head(s.stack)] = "queued"
         /\ Take(s).strict = s.strict
         /\ Take(s).paused = s.paused
         /\ Take(s).running = TRUE
         /\ Take(s).stack = Tail(s.stack)
         /\ Take(s).task = [s.task EXCEPT ![Head(s.stack)] = "taken"]
         /\ Take(s).collect = s.collect
         /\ Take(s).output = s.output
         /\ Take(s).outcome = s.outcome
<1>1. /\ s \in Scheduler
      /\ s.stack \in Seq(Task)
      /\ IsSimple(s.stack)
      /\ Waiting(s) = Range(s.stack)
  BY Fields DEF Sound, StackHoldsWaiting
<1>2. Head(s.stack) \in Range(s.stack)
  BY <1>1 DEF Range
<1>3. Head(s.stack) \in Task /\ s.task[Head(s.stack)] = "queued"
  BY <1>1, <1>2 DEF Waiting
<1> QED  BY <1>1, <1>3 DEF Take, Scheduler

LEMMA PumpMoves ==
  ASSUME NEW s, Sound(s)
  PROVE  /\ Moves(s, Pump(s))
         /\ Awake(Pump(s))
         /\ s.stack # << >> => Pump(s).running /\ Pump(s).outcome = s.outcome
<1>1. /\ s \in Scheduler /\ s.running \in BOOLEAN /\ s.resolved \in BOOLEAN
      /\ s.task \in [Task -> Status]
  BY Fields DEF Sound
<1>2. CASE s.running
  BY <1>2 DEF Pump, Moves, Awake
<1>3. CASE ~s.running /\ s.stack # << >>
  <2>1. Pump(s) = Take(s)
    BY <1>3 DEF Pump
  <2>2. /\ Take(s).strict = s.strict /\ Take(s).outcome = s.outcome
        /\ Take(s).output = s.output /\ Take(s).collect = s.collect
        /\ Take(s).running = TRUE
        /\ Take(s).task = [s.task EXCEPT ![Head(s.stack)] = "taken"]
        /\ Head(s.stack) \in Task /\ s.task[Head(s.stack)] = "queued"
    BY <1>3, TakeFields
  <2> QED  BY <1>1, <2>1, <2>2 DEF Moves, Started, Awake
<1>4. CASE ~s.running /\ s.stack = << >>
  <2>1. Emptied(s)
    BY <1>4, NothingLeft
  <2>2. /\ EndOk(s).strict = s.strict
        /\ EndOk(s).stack = << >>
        /\ EndOk(s).task = s.task
        /\ EndOk(s).output = s.output
        /\ EndOk(s).collect = s.collect
    BY <1>1, <1>4 DEF EndOk, Scheduler
  <2> QED  BY <1>1, <1>4, <2>1, <2>2 DEF Pump, Moves, Awake
<1> QED  BY <1>1, <1>2, <1>3, <1>4

(* Handing tasks over, wherever they go in the stack.                      *)
LEMMA HandOver ==
  ASSUME NEW s, Sound(s), NEW r, Sound(r),
         NEW ts \in Seq(Task), \A t \in Range(ts) : s.task[t] = "idle",
         r.strict = s.strict, r.outcome = s.outcome, r.output = s.output,
         r.stack # << >>, r.collect \in {s.collect, s.collect \cup Range(ts)},
         r.task = [t \in Task |-> IF t \in Range(ts) THEN "queued" ELSE s.task[t]]
  PROVE  LET p == PumpUnlessPaused(r)
         IN  Moves(s, p) /\ (p.paused \/ p.running)
<1>1. Moves(s, r)
  BY DEF Moves, Started
<1>2. CASE r.paused
  BY <1>1, <1>2 DEF PumpUnlessPaused
<1>3. CASE ~r.paused
  <2>1. /\ Moves(r, Pump(r))
        /\ Pump(r).running
        /\ Pump(r).outcome = r.outcome
    BY PumpMoves
  <2>2. Moves(s, Pump(r))
    BY <1>1, <2>1 DEF Moves, Started
  <2> QED  BY <1>3, <2>1, <2>2 DEF PumpUnlessPaused
<1> QED  BY <1>2, <1>3

LEMMA PushAllMoves ==
  ASSUME NEW s, Sound(s), NEW ts \in Seq(Task), IsSimple(ts),
         NEW out \in BOOLEAN, \A t \in Range(ts) : s.task[t] = "idle"
  PROVE  /\ Moves(s, PushAll(s, ts, out))
         /\ Awake(s) => Awake(PushAll(s, ts, out))
<1>1. CASE ts = << >>
  BY <1>1 DEF PushAll, Moves
<1>2. CASE ts # << >>
  <2> DEFINE r == [Enqueue(s, ts, out) EXCEPT !.stack = s.stack \o ts]
  <2>1. /\ s.stack \o ts \in Seq(Task)
        /\ IsSimple(s.stack \o ts)
        /\ Range(s.stack \o ts) = Range(s.stack) \cup Range(ts)
    BY IdleIsOff, RangeOfConcat
  <2>2. s.stack \o ts # << >>
    <3>1. s.stack \in Seq(Task)
      BY Fields DEF Sound
    <3>2. Len(s.stack \o ts) = Len(s.stack) + Len(ts) /\ Len(ts) > 0
      BY <1>2, <3>1
    <3> QED  BY <3>1, <3>2
  <2>3. Sound(r)
    BY <2>1, SoundEnqueue
  <2>4. PushAll(s, ts, out) = PumpUnlessPaused(r)
    <3>1. Enqueue(s, ts, out).stack = s.stack
      BY DEF Enqueue, Sound, Scheduler
    <3> QED  BY <1>2, <3>1 DEF PushAll
  <2>5. /\ r.strict = s.strict
        /\ r.outcome = s.outcome
        /\ r.output = s.output
        /\ r.collect \in {s.collect, s.collect \cup Range(ts)}
        /\ r.stack = s.stack \o ts
        /\ r.task = [t \in Task |-> IF t \in Range(ts) THEN "queued"
                                                      ELSE s.task[t]]
    BY DEF Enqueue, Sound, Scheduler
  <2> HIDE DEF r
  <2>6. /\ Moves(s, PumpUnlessPaused(r))
        /\ PumpUnlessPaused(r).paused \/ PumpUnlessPaused(r).running
    BY <2>2, <2>3, <2>5, HandOver
  <2> QED  BY <2>4, <2>6 DEF Awake
<1> QED  BY <1>1, <1>2

LEMMA UnshiftMoves ==
  ASSUME NEW s, Sound(s), NEW t \in Task, s.task[t] = "idle"
  PROVE  /\ Moves(s, Unshift(s, t))
         /\ Unshift(s, t).paused \/ Unshift(s, t).running
<1> DEFINE r == [Enqueue(s, <<t>>, FALSE) EXCEPT !.stack = <<t>> \o s.stack]
<1>1. /\ <<t>> \in Seq(Task) /\ IsSimple(<<t>>) /\ Range(<<t>>) = {t}
      /\ s.stack \in Seq(Task)
  BY RangeOfOne, Fields DEF Sound
<1>2. \A u \in Range(<<t>>) : s.task[u] = "idle"
  BY <1>1
<1>3. /\ <<t>> \o s.stack \in Seq(Task)
      /\ IsSimple(<<t>> \o s.stack)
      /\ Range(<<t>> \o s.stack) = Range(s.stack) \cup Range(<<t>>)
  BY <1>1, <1>2, FreshInFront
<1>4. <<t>> \o s.stack # << >>
  <2>1. Len(<<t>> \o s.stack) = 1 + Len(s.stack)
    BY <1>1
  <2> QED  BY <1>1, <2>1
<1>5. Sound(r)
  BY <1>1, <1>2, <1>3, SoundEnqueue
<1>6. Unshift(s, t) = PumpUnlessPaused(r)
  <2>1. Enqueue(s, <<t>>, FALSE).stack = s.stack
    BY DEF Enqueue, Sound, Scheduler
  <2> QED  BY <2>1 DEF Unshift
<1>7. /\ r.strict = s.strict
      /\ r.outcome = s.outcome
      /\ r.output = s.output
      /\ r.collect = s.collect
      /\ r.stack = <<t>> \o s.stack
      /\ r.task = [u \in Task |-> IF u \in Range(<<t>>) THEN "queued"
                                                      ELSE s.task[u]]
  BY DEF Enqueue, Sound, Scheduler
<1> DEFINE ts == <<t>>
<1> HIDE DEF r, ts
<1>8. /\ r.stack # << >>
      /\ ts \in Seq(Task)
      /\ \A u \in Range(ts) : s.task[u] = "idle"
      /\ r.task = [u \in Task |-> IF u \in Range(ts) THEN "queued" ELSE s.task[u]]
  BY <1>1, <1>2, <1>4, <1>7 DEF ts
<1>9. /\ Moves(s, PumpUnlessPaused(r))
      /\ PumpUnlessPaused(r).paused \/ PumpUnlessPaused(r).running
  BY <1>5, <1>7, <1>8, HandOver
<1> QED  BY <1>6, <1>9

(* The members before the last one queue behind it, if it was taken.       *)
LEMMA UnshiftAllMoves ==
  ASSUME NEW s, Sound(s), NEW ts \in Seq(Task), IsSimple(ts),
         \A t \in Range(ts) : s.task[t] = "idle"
  PROVE  /\ Moves(s, UnshiftAll(s, ts))
         /\ Awake(s) => Awake(UnshiftAll(s, ts))
<1>1. CASE ts = << >>
  BY <1>1 DEF UnshiftAll, Moves
<1>2. CASE ts # << >>
  <2> DEFINE l == Unshift(s, Last(ts))
             r == [Enqueue(l, Front(ts), FALSE) EXCEPT !.stack = Front(ts) \o l.stack]
  <2>1. /\ Last(ts) \in Task
        /\ Front(ts) \in Seq(Task)
        /\ Range(Front(ts)) = Range(ts) \ {Last(ts)}
    BY <1>2, RangeOfFront
  <2>2. s.task[Last(ts)] = "idle"
    <3>1. Last(ts) \in Range(ts)
      <4>1. Len(ts) \in DOMAIN ts
        BY <1>2
      <4> QED  BY <4>1 DEF Range, Last
    <3> QED  BY <3>1
  <2>3. Sound(l) /\ Moves(s, l) /\ (l.paused \/ l.running)
    BY <2>1, <2>2, SoundUnshift, UnshiftMoves
  <2>4. \A t \in Range(Front(ts)) : l.task[t] = "idle"
    <3> SUFFICES ASSUME NEW t \in Range(Front(ts)) PROVE l.task[t] = "idle"
      OBVIOUS
    <3>1. t \in Task /\ s.task[t] = "idle" /\ t # Last(ts)
      BY <2>1, RangeOfSeq
    <3> QED  BY <2>1, <2>2, <3>1, UnshiftKeepsIdle
  <2>5. UnshiftAll(s, ts) = r
    <3>1. Enqueue(l, Front(ts), FALSE).stack = l.stack
      BY <2>3 DEF Enqueue, Sound, Scheduler
    <3> HIDE DEF l
    <3> QED  BY <1>2, <3>1 DEF UnshiftAll, l
  <2> HIDE DEF l
  <2>6. /\ r.strict = l.strict
        /\ r.outcome = l.outcome
        /\ r.output = l.output
        /\ r.collect = l.collect
        /\ r.paused = l.paused
        /\ r.running = l.running
        /\ r.task = [t \in Task |-> IF t \in Range(Front(ts)) THEN "queued"
                                                              ELSE l.task[t]]
    BY <2>3 DEF Enqueue, Sound, Scheduler
  <2> HIDE DEF r
  <2>7. Moves(s, r)
    BY <2>3, <2>4, <2>6 DEF Moves, Started
  <2>8. Awake(r)
    BY <2>3, <2>6 DEF Awake
  <2> QED  BY <2>5, <2>7, <2>8
<1> QED  BY <1>1, <1>2

LEMMA ResumeMoves ==
  ASSUME NEW s, Sound(s)
  PROVE  Moves(s, Resume(s)) /\ Awake(Resume(s))
<1> DEFINE r == [s EXCEPT !.paused = FALSE]
<1>1. /\ r \in Scheduler
      /\ r.strict = s.strict
      /\ r.outcome = s.outcome
      /\ r.output = s.output
      /\ r.collect = s.collect
      /\ r.running = s.running
      /\ r.stack = s.stack
      /\ r.task = s.task
      /\ r.loop = s.loop
  BY DEF Sound, Scheduler
<1>2. Resume(s) = Pump(r)
  BY DEF Resume
<1> HIDE DEF r
<1>3. Moves(r, Pump(r)) /\ Awake(Pump(r))
  BY <1>1, SoundFlags, PumpMoves
<1> QED  BY <1>1, <1>2, <1>3 DEF Moves, Started, Emptied

LEMMA PumpCallbackMoves ==
  ASSUME NEW s, Sound(s), s.loop # << >>, Head(s.loop) = "pump"
  PROVE  Moves(s, PumpCallback(s)) /\ Awake(PumpCallback(s))
<1> DEFINE r == [s EXCEPT !.loop = Tail(@)]
<1>1. /\ r.strict = s.strict
      /\ r.outcome = s.outcome
      /\ r.output = s.output
      /\ r.collect = s.collect
      /\ r.stack = s.stack
      /\ r.running = s.running
      /\ r.task = s.task
  BY DEF Sound, Scheduler
<1>2. Sound(r)
  BY SoundPumpDue
<1>3. PumpCallback(s) = Pump(r)
  BY DEF PumpCallback
<1> HIDE DEF r
<1>4. Moves(r, Pump(r)) /\ Awake(Pump(r))
  BY <1>2, PumpMoves
<1> QED  BY <1>1, <1>3, <1>4 DEF Moves, Started, Emptied

(* The task that executes gives way to the next one.                       *)
LEMMA LoopOfExecuting ==
  ASSUME NEW s, Sound(s), NEW t \in Task, s.task[t] = "executing"
  PROVE  s.loop = << >> /\ Append(s.loop, "pump") = <<"pump">>
<1>1. s.loop = << >>
  BY DEF Sound, LoopFollows
<1> QED  BY <1>1, Loops

LEMMA FulfilledIsAwake ==
  ASSUME NEW s, Sound(s), NEW t \in Task, s.task[t] = "executing"
  PROVE  /\ Awake(HandlerFulfilled(s, t))
         /\ HandlerFulfilled(s, t).strict = s.strict
         /\ HandlerFulfilled(s, t).outcome = s.outcome
         /\ \A u \in Task : s.task[u] = "executing"
                             => HandlerFulfilled(s, t).task[u] # "failed"
<1>1. s \in Scheduler /\ s.task \in [Task -> Status]
  BY Fields DEF Sound
<1>2. /\ HandlerFulfilled(s, t).loop = <<"pump">>
      /\ HandlerFulfilled(s, t).strict = s.strict
      /\ HandlerFulfilled(s, t).outcome = s.outcome
      /\ HandlerFulfilled(s, t).task = [s.task EXCEPT ![t] = "fulfilled"]
  BY <1>1, LoopOfExecuting DEF HandlerFulfilled, Scheduler
<1> QED  BY <1>1, <1>2 DEF Awake

LEMMA RejectedTolerant ==
  ASSUME NEW s, Sound(s), NEW t \in Task, s.task[t] = "executing",
         NEW falsy \in BOOLEAN, ~s.strict
  PROVE  /\ Awake(HandlerRejected(s, t, falsy))
         /\ HandlerRejected(s, t, falsy).strict = s.strict
         /\ HandlerRejected(s, t, falsy).outcome = s.outcome
<1>1. s \in Scheduler /\ s.task \in [Task -> Status]
  BY Fields DEF Sound
<1>2. /\ HandlerRejected(s, t, falsy).loop = <<"pump">>
      /\ HandlerRejected(s, t, falsy).strict = s.strict
      /\ HandlerRejected(s, t, falsy).outcome = s.outcome
  BY <1>1, LoopOfExecuting DEF HandlerRejected, Scheduler
<1> QED  BY <1>1, <1>2 DEF Awake

LEMMA RejectedStrict ==
  ASSUME NEW s, Sound(s), NEW t \in Task, s.task[t] = "executing", s.strict
  PROVE  LET r == HandlerRejected(s, t, FALSE)
         IN  /\ Awake(r)
             /\ r.strict = s.strict
             /\ r.outcome # "fulfilled" \/ r.outcome = s.outcome
             /\ r.stack = << >>
             /\ \A u \in Waiting(s) : r.task[u] = "dropped"
<1> DEFINE r == HandlerRejected(s, t, FALSE)
<1>1. s \in Scheduler /\ s.task \in [Task -> Status] /\ Waiting(s) = Range(s.stack)
  BY Fields DEF Sound, StackHoldsWaiting
<1>2. /\ r.strict = s.strict
      /\ r.stack = << >>
      /\ r.outcome = IF s.outcome = "pending" THEN "rejected" ELSE s.outcome
      /\ r.task = [u \in Task |-> IF u \in Range(s.stack) THEN "dropped"
                                  ELSE [s.task EXCEPT ![t] = "failed"][u]]
  BY <1>1 DEF HandlerRejected, EndError, Scheduler
<1> HIDE DEF r
<1>3. \A u \in Waiting(s) : r.task[u] = "dropped"
  BY <1>1, <1>2 DEF Waiting
<1> QED  BY <1>2, <1>3 DEF Awake, r

-----------------------------------------------------------------------------
(***************************************************************************)
(* What a step of a scheduler does to its tasks and to its promise.        *)
(***************************************************************************)

\* Tasks are taken off the stack, the promise is fulfilled when none is left.
Advances(s, r) ==
  /\ r.strict = s.strict
  /\ \A t \in Task : \/ r.task[t] = s.task[t]
                     \/ s.task[t] = "queued" /\ r.task[t] = "taken"
  /\ \/ r.outcome = s.outcome
     \/ s.outcome = "pending" /\ r.outcome = "fulfilled" /\ Emptied(r)

LEMMA PumpAdvances ==
  ASSUME NEW s, Sound(s)
  PROVE  /\ Advances(s, Pump(s))
         /\ (\E t \in Task : s.task[t] \notin {"idle"} \cup Settled)
              => Pump(s).outcome = s.outcome
<1>1. /\ s \in Scheduler
      /\ s.running \in BOOLEAN
      /\ s.resolved \in BOOLEAN
      /\ s.task \in [Task -> Status]
  BY Fields DEF Sound
<1>2. CASE s.running
  BY <1>2 DEF Pump, Advances
<1>3. CASE ~s.running /\ s.stack # << >>
  <2>1. Pump(s) = Take(s)
    BY <1>3 DEF Pump
  <2>2. /\ Head(s.stack) \in Task
        /\ s.task[Head(s.stack)] = "queued"
        /\ Take(s).task = [s.task EXCEPT ![Head(s.stack)] = "taken"]
        /\ Take(s).outcome = s.outcome
        /\ Take(s).strict = s.strict
    BY <1>3, TakeFields
  <2> QED  BY <1>1, <2>1, <2>2 DEF Advances
<1>4. CASE ~s.running /\ s.stack = << >>
  <2>1. /\ EndOk(s).task = s.task
        /\ EndOk(s).strict = s.strict
        /\ EndOk(s).outcome = IF s.outcome = "pending" THEN "fulfilled" ELSE s.outcome
    BY <1>1 DEF EndOk, Scheduler
  <2>2. Pump(s) \in {s, EndOk(s)}
    BY <1>1, <1>4 DEF Pump
  <2>3. Emptied(s)
    BY <1>4, NothingLeft
  <2> QED  BY <2>1, <2>2, <2>3 DEF Advances, Emptied
<1> QED  BY <1>1, <1>2, <1>3, <1>4

LEMMA ResumeAdvances ==
  ASSUME NEW s, Sound(s)
  PROVE  Advances(s, Resume(s))
<1> DEFINE r == [s EXCEPT !.paused = FALSE]
<1>1. /\ r \in Scheduler
      /\ r.strict = s.strict
      /\ r.outcome = s.outcome
      /\ r.running = s.running
      /\ r.stack = s.stack
      /\ r.task = s.task
      /\ r.loop = s.loop
  BY DEF Sound, Scheduler
<1>2. Resume(s) = Pump(r)
  BY DEF Resume
<1> HIDE DEF r
<1>3. Advances(r, Pump(r))
  BY <1>1, SoundFlags, PumpAdvances
<1> QED  BY <1>1, <1>2, <1>3 DEF Advances

LEMMA PumpCallbackAdvances ==
  ASSUME NEW s, Sound(s), s.loop # << >>, Head(s.loop) = "pump"
  PROVE  /\ Advances(s, PumpCallback(s))
         /\ (\E t \in Task : s.task[t] \notin {"idle"} \cup Settled)
              => PumpCallback(s).outcome = s.outcome
<1> DEFINE r == [s EXCEPT !.loop = Tail(@)]
<1>1. r.strict = s.strict /\ r.outcome = s.outcome /\ r.task = s.task
  BY DEF Sound, Scheduler
<1>2. Sound(r)
  BY SoundPumpDue
<1>3. PumpCallback(s) = Pump(r)
  BY DEF PumpCallback
<1> HIDE DEF r
<1>4. /\ Advances(r, Pump(r))
      /\ (\E t \in Task : r.task[t] \notin {"idle"} \cup Settled)
           => Pump(r).outcome = r.outcome
  BY <1>2, PumpAdvances
<1> QED  BY <1>1, <1>3, <1>4 DEF Advances

LEMMA PushAdvances ==
  ASSUME NEW s, Sound(s), NEW t \in Task, s.task[t] = "idle", NEW out \in BOOLEAN
  PROVE  LET r == Push(s, t, out)
         IN  /\ r.strict = s.strict
             /\ r.outcome = s.outcome
             /\ r.task[t] \in {"queued", "taken"}
             /\ \A u \in Task \ {t} : \/ r.task[u] = s.task[u]
                                      \/ s.task[u] = "queued" /\ r.task[u] = "taken"
<1> DEFINE r == [Enqueue(s, <<t>>, out) EXCEPT !.stack = s.stack \o <<t>>]
<1>1. /\ s \in Scheduler
      /\ s.stack \in Seq(Task)
      /\ s.task \in [Task -> Status]
      /\ s.paused \in BOOLEAN
  BY Fields DEF Sound
<1>2. <<t>> \in Seq(Task) /\ IsSimple(<<t>>) /\ Range(<<t>>) = {t}
  BY RangeOfOne
<1>3. Push(s, t, out) = PumpUnlessPaused(r)
  <2>1. Enqueue(s, <<t>>, out).stack = s.stack
    BY <1>1 DEF Enqueue, Scheduler
  <2>2. <<t>> # << >>
    OBVIOUS
  <2> QED  BY <2>1, <2>2 DEF Push, PushAll
<1>4. /\ r.strict = s.strict
      /\ r.outcome = s.outcome
      /\ r.paused = s.paused
      /\ r.loop = s.loop
      /\ r.stack = s.stack \o <<t>>
      /\ r.task = [u \in Task |-> IF u \in Range(<<t>>) THEN "queued" ELSE s.task[u]]
  BY <1>1 DEF Enqueue, Scheduler
<1>5. Sound(r)
  <2>1. \A u \in Range(<<t>>) : s.task[u] = "idle"
    BY <1>2
  <2>2. /\ s.stack \o <<t>> \in Seq(Task)
        /\ IsSimple(s.stack \o <<t>>)
        /\ Range(s.stack \o <<t>>) = Range(s.stack) \cup Range(<<t>>)
    BY <1>2, <2>1, IdleIsOff, RangeOfConcat
  <2> QED  BY <1>2, <2>1, <2>2, SoundEnqueue
<1>6. r.task = [s.task EXCEPT ![t] = "queued"]
  BY <1>1, <1>2, <1>4
<1> HIDE DEF r
<1>7. CASE r.paused
  BY <1>1, <1>3, <1>4, <1>6, <1>7 DEF PumpUnlessPaused
<1>8. CASE ~r.paused
  <2>1. r.task[t] = "queued"
    BY <1>1, <1>6
  <2>2. Advances(r, Pump(r)) /\ Pump(r).outcome = r.outcome
    BY <1>5, <2>1, PumpAdvances DEF Settled
  <2> QED  BY <1>1, <1>3, <1>4, <1>6, <1>8, <2>1, <2>2 DEF PumpUnlessPaused, Advances
<1> QED  BY <1>7, <1>8

LEMMA PushPaused ==
  ASSUME NEW s, Sound(s), NEW t \in Task, s.task[t] = "idle", NEW out \in BOOLEAN, s.paused
  PROVE  /\ Push(s, t, out).paused
         /\ Push(s, t, out).loop = s.loop
         /\ Push(s, t, out).outcome = s.outcome
         /\ Push(s, t, out).task = [s.task EXCEPT ![t] = "queued"]
<1> DEFINE r == [Enqueue(s, <<t>>, out) EXCEPT !.stack = s.stack \o <<t>>]
<1>1. /\ s \in Scheduler
      /\ s.stack \in Seq(Task)
      /\ s.task \in [Task -> Status]
      /\ s.paused \in BOOLEAN
  BY Fields DEF Sound
<1>2. <<t>> \in Seq(Task) /\ IsSimple(<<t>>) /\ Range(<<t>>) = {t}
  BY RangeOfOne
<1>3. Push(s, t, out) = PumpUnlessPaused(r)
  <2>1. Enqueue(s, <<t>>, out).stack = s.stack
    BY <1>1 DEF Enqueue, Scheduler
  <2>2. <<t>> # << >>
    OBVIOUS
  <2> QED  BY <2>1, <2>2 DEF Push, PushAll
<1>4. /\ r.strict = s.strict
      /\ r.outcome = s.outcome
      /\ r.paused = s.paused
      /\ r.loop = s.loop
      /\ r.stack = s.stack \o <<t>>
      /\ r.task = [u \in Task |-> IF u \in Range(<<t>>) THEN "queued" ELSE s.task[u]]
  BY <1>1 DEF Enqueue, Scheduler
<1>5. Sound(r)
  <2>1. \A u \in Range(<<t>>) : s.task[u] = "idle"
    BY <1>2
  <2>2. /\ s.stack \o <<t>> \in Seq(Task)
        /\ IsSimple(s.stack \o <<t>>)
        /\ Range(s.stack \o <<t>>) = Range(s.stack) \cup Range(<<t>>)
    BY <1>2, <2>1, IdleIsOff, RangeOfConcat
  <2> QED  BY <1>2, <2>1, <2>2, SoundEnqueue
<1>6. r.task = [s.task EXCEPT ![t] = "queued"]
  BY <1>1, <1>2, <1>4
<1> HIDE DEF r
<1> QED  BY <1>1, <1>3, <1>4, <1>6 DEF PumpUnlessPaused

LEMMA EndErrorEffect ==
  ASSUME NEW s, Sound(s)
  PROVE  /\ EndError(s).strict = s.strict
         /\ EndError(s).paused = s.paused
         /\ EndError(s).loop = s.loop
         /\ EndError(s).outcome = IF s.outcome = "pending" THEN "rejected" ELSE s.outcome
         /\ EndError(s).task = [t \in Task |-> IF s.task[t] = "queued" THEN "dropped"
                                                                       ELSE s.task[t]]
<1>1. s \in Scheduler /\ Waiting(s) = Range(s.stack) /\ s.task \in [Task -> Status]
  BY Fields DEF Sound, StackHoldsWaiting
<1>2. /\ EndError(s).task = [t \in Task |-> IF t \in Range(s.stack) THEN "dropped"
                                                                    ELSE s.task[t]]
      /\ EndError(s).strict = s.strict
      /\ EndError(s).paused = s.paused
      /\ EndError(s).loop = s.loop
      /\ EndError(s).outcome = IF s.outcome = "pending" THEN "rejected" ELSE s.outcome
  BY <1>1 DEF EndError, Scheduler
<1>3. \A t \in Task : t \in Range(s.stack) <=> s.task[t] = "queued"
  BY <1>1 DEF Waiting
<1> QED  BY <1>2, <1>3

LEMMA FulfilledEffect ==
  ASSUME NEW s, Sound(s), NEW t \in Task
  PROVE  /\ HandlerFulfilled(s, t).strict = s.strict
         /\ HandlerFulfilled(s, t).outcome = s.outcome
         /\ HandlerFulfilled(s, t).task = [s.task EXCEPT ![t] = "fulfilled"]
BY DEF HandlerFulfilled, Sound, Scheduler

LEMMA RejectedTolerantEffect ==
  ASSUME NEW s, Sound(s), NEW t \in Task, ~s.strict
  PROVE  /\ HandlerRejected(s, t, FALSE).strict = s.strict
         /\ HandlerRejected(s, t, FALSE).outcome = s.outcome
         /\ HandlerRejected(s, t, FALSE).task = [s.task EXCEPT ![t] = "failed"]
BY DEF HandlerRejected, Sound, Scheduler

\* Nothing is left of a strict scheduler after a failure.
LEMMA RejectedStrictEffect ==
  ASSUME NEW s, Sound(s), NEW t \in Task, s.task[t] = "executing", s.strict
  PROVE  LET r == HandlerRejected(s, t, FALSE)
         IN  /\ r.strict = s.strict
             /\ r.outcome = IF s.outcome = "pending" THEN "rejected" ELSE s.outcome
             /\ r.task = [u \in Task |-> IF u = t THEN "failed"
                                         ELSE IF s.task[u] = "queued" THEN "dropped"
                                         ELSE s.task[u]]
             /\ Emptied(r)
<1> DEFINE r == HandlerRejected(s, t, FALSE)
<1>1. /\ s \in Scheduler /\ s.task \in [Task -> Status]
      /\ Waiting(s) = Range(s.stack)
      /\ \A u, v \in InFlight(s) : u = v
  BY Fields DEF Sound, StackHoldsWaiting, Serial
<1>2. /\ r.strict = s.strict
      /\ r.outcome = IF s.outcome = "pending" THEN "rejected" ELSE s.outcome
      /\ r.task = [u \in Task |-> IF u \in Range(s.stack) THEN "dropped"
                                  ELSE [s.task EXCEPT ![t] = "failed"][u]]
  BY <1>1 DEF HandlerRejected, EndError, Scheduler
<1> HIDE DEF r
<1>3. \A u \in Task : u \in Range(s.stack) <=> s.task[u] = "queued"
  BY <1>1 DEF Waiting
<1>4. r.task = [u \in Task |-> IF u = t THEN "failed"
                               ELSE IF s.task[u] = "queued" THEN "dropped"
                               ELSE s.task[u]]
  BY <1>1, <1>2, <1>3
<1>5. \A u \in Task \ {t} : s.task[u] \notin {"taken", "executing"}
  BY <1>1 DEF InFlight
<1>6. Emptied(r)
  BY <1>1, <1>4, <1>5 DEF Emptied, Settled, Status
<1> QED  BY <1>2, <1>4, <1>6 DEF r

LEMMA CallHandlerEffect ==
  ASSUME NEW s, Sound(s), NEW t \in Task
  PROVE  /\ CallHandler(s, t).strict = s.strict
         /\ CallHandler(s, t).outcome = s.outcome
         /\ CallHandler(s, t).task = [s.task EXCEPT ![t] = "executing"]
BY DEF CallHandler, Sound, Scheduler

-----------------------------------------------------------------------------
\* Nothing is left once the promise is settled.
Tidy(s) == s.outcome # "pending" => Emptied(s)

\* A strict scheduler is rejected by the first failure.
FirstFailure(s) ==
  /\ s.strict
  /\ \A t \in Task : s.task[t] \in {"failed", "dropped"} => s.outcome = "rejected"

\* No task was ever given to it.
Untouched(s) == \A t \in Task : s.task[t] = "idle"

\* A task was taken off the stack.
Begun(s) == \E t \in Task : s.task[t] \in {"taken", "executing", "fulfilled", "failed"}

LEMMA TidyAdvances ==
  ASSUME NEW s, NEW r, Advances(s, r), Tidy(s)
  PROVE  /\ Tidy(r)
         /\ FirstFailure(s) => FirstFailure(r)
         /\ Begun(r) => Begun(s) \/ s.outcome = "pending"
         /\ s.outcome # "pending" => r.outcome = s.outcome
BY DEF Advances, Tidy, Emptied, FirstFailure, Begun, Settled

LEMMA TidySettles ==
  ASSUME NEW s, Sound(s), NEW t \in Task, s.task[t] = "executing", Tidy(s),
         NEW r, r \in {HandlerFulfilled(s, t), HandlerRejected(s, t, FALSE)}
  PROVE  /\ s.outcome = "pending"
         /\ Tidy(r)
         /\ FirstFailure(s) => FirstFailure(r)
         /\ r.strict = s.strict
         /\ ~s.strict => r.outcome = s.outcome
         /\ r.outcome # "fulfilled"
<1>1. s \in Scheduler /\ s.task \in [Task -> Status] /\ s.strict \in BOOLEAN
  BY Fields DEF Sound
<1>2. s.outcome = "pending"
  BY DEF Tidy, Emptied, Settled
<1>3. CASE r = HandlerFulfilled(s, t)
  <2>1. /\ r.strict = s.strict
        /\ r.outcome = "pending"
        /\ r.task = [s.task EXCEPT ![t] = "fulfilled"]
    BY <1>2, <1>3, FulfilledEffect
  <2> QED  BY <1>1, <1>2, <2>1 DEF Tidy, FirstFailure
<1>4. CASE r = HandlerRejected(s, t, FALSE) /\ ~s.strict
  BY <1>1, <1>2, <1>4, RejectedTolerantEffect DEF Tidy, FirstFailure
<1>5. CASE r = HandlerRejected(s, t, FALSE) /\ s.strict
  <2>1. r.strict = s.strict /\ r.outcome = "rejected" /\ Emptied(r)
    BY <1>2, <1>5, RejectedStrictEffect
  <2> QED  BY <1>2, <1>5, <2>1 DEF Tidy, FirstFailure
<1> QED  BY <1>1, <1>2, <1>3, <1>4, <1>5

LEMMA TidyCalls ==
  ASSUME NEW s, Sound(s), NEW t \in Task, s.task[t] = "taken", Tidy(s)
  PROVE  LET r == CallHandler(s, t)
         IN  /\ Tidy(r)
             /\ FirstFailure(s) => FirstFailure(r)
             /\ r.strict = s.strict
             /\ r.outcome = s.outcome
             /\ s.outcome = "pending"
<1>1. s \in Scheduler /\ s.task \in [Task -> Status]
  BY Fields DEF Sound
<1>2. s.outcome = "pending"
  BY DEF Tidy, Emptied, Settled
<1> DEFINE r == CallHandler(s, t)
<1>3. /\ r.strict = s.strict
      /\ r.outcome = "pending"
      /\ r.task = [s.task EXCEPT ![t] = "executing"]
  BY <1>2, CallHandlerEffect
<1> HIDE DEF r
<1>4. Tidy(r) /\ (FirstFailure(s) => FirstFailure(r))
  BY <1>1, <1>2, <1>3 DEF Tidy, FirstFailure
<1> QED  BY <1>2, <1>3, <1>4 DEF r

\* A scheduler that is ended while nothing runs.
LEMMA TidyEndError ==
  ASSUME NEW s, Sound(s), Tidy(s), ~Begun(s) \/ s.outcome # "pending"
  PROVE  LET r == EndError(s)
         IN  /\ Tidy(r)
             /\ FirstFailure(s) => FirstFailure(r)
             /\ r.outcome # "pending"
             /\ Begun(r) => Begun(s)
             /\ Untouched(s) => Untouched(r)
             /\ s.outcome # "pending" => r.outcome = s.outcome
<1> DEFINE r == EndError(s)
<1>1. s \in Scheduler /\ s.task \in [Task -> Status]
  BY Fields DEF Sound
<1>2. /\ r.strict = s.strict
      /\ r.outcome = IF s.outcome = "pending" THEN "rejected" ELSE s.outcome
      /\ r.task = [t \in Task |-> IF s.task[t] = "queued" THEN "dropped" ELSE s.task[t]]
  BY EndErrorEffect
<1> HIDE DEF r
<1>3. Emptied(r)
  BY <1>1, <1>2 DEF Tidy, Emptied, Begun, Settled, Status
<1>4. FirstFailure(s) => FirstFailure(r)
  BY <1>1, <1>2 DEF Tidy, Emptied, FirstFailure, Settled
<1> QED  BY <1>1, <1>2, <1>3, <1>4 DEF Tidy, Begun, Untouched, r

(* The scheduler of a group starts with its members waiting.               *)
LEMMA CreateWithEffect ==
  ASSUME NEW ts \in Seq(Task), IsSimple(ts)
  PROVE  LET r == CreateWith(ts, TRUE, TRUE)
         IN  /\ Tidy(r) /\ FirstFailure(r)
             /\ r.outcome # "rejected"
             /\ \A t \in Task : r.task[t] \in {"idle", "queued", "taken"}
             /\ \A t \in Range(ts) : r.task[t] # "idle"
<1> DEFINE b == Blank(TRUE, TRUE)
           r == CreateWith(ts, TRUE, TRUE)
<1>1. /\ Sound(b)
      /\ b.task = [t \in Task |-> "idle"]
      /\ b.outcome = "pending"
      /\ b.paused = TRUE
      /\ b.strict = TRUE
  BY SoundBlank DEF Blank
<1>2. Sound(r)
  BY SoundCreateWith
<1>3. CASE ts = << >>
  <2>1. r = [b EXCEPT !.outcome = "fulfilled"]
    BY <1>3 DEF CreateWith
  <2>2. r.task = [t \in Task |-> "idle"] /\ r.strict = TRUE /\ r.outcome = "fulfilled"
    BY <2>1 DEF Blank
  <2>3. Range(ts) = {}
    BY <1>3, RangeOfEmpty
  <2> HIDE DEF r
  <2>4. Tidy(r) /\ FirstFailure(r)
    BY <2>2 DEF Tidy, Emptied, FirstFailure
  <2> QED  BY <2>2, <2>3, <2>4 DEF r
<1>4. CASE ts # << >>
  <2> DEFINE q == [Enqueue(b, ts, TRUE) EXCEPT !.stack = b.stack \o ts]
  <2>1. b \in Scheduler /\ b.stack = << >>
    BY <1>1 DEF Sound, Blank
  <2>2. PushAll(b, ts, TRUE) = q
    <3>1. Enqueue(b, ts, TRUE).stack = b.stack /\ Enqueue(b, ts, TRUE).paused = TRUE
      BY <1>1, <2>1 DEF Enqueue, Scheduler
    <3>2. q.paused = TRUE
      BY <1>1, <2>1 DEF Enqueue, Scheduler
    <3> HIDE DEF b
    <3> QED  BY <1>4, <3>1, <3>2 DEF PushAll, PumpUnlessPaused
  <2>3. Sound(q)
    <3>1. \A t \in Range(ts) : t \in Task /\ b.task[t] = "idle"
      BY <1>1, RangeOfSeq
    <3> HIDE DEF b, q
    <3>2. Sound(PushAll(b, ts, TRUE))
      BY <1>1, <3>1, SoundPushAll
    <3> QED  BY <2>2, <3>2
  <2>4. /\ q.strict = TRUE
        /\ q.outcome = "pending"
        /\ q.task = [t \in Task |-> IF t \in Range(ts) THEN "queued" ELSE "idle"]
    <3> HIDE DEF b
    <3> QED  BY <1>1, <2>1 DEF Enqueue, Scheduler
  <2>5. r = Pump(q)
    BY <1>4, <2>2 DEF CreateWith
  <2>6. \E t \in Task : q.task[t] = "queued"
    <3>1. ts[1] \in Range(ts) /\ ts[1] \in Task
      BY <1>4 DEF Range
    <3> HIDE DEF q
    <3> QED  BY <2>4, <3>1
  <2>0. \A t \in Range(ts) : t \in Task
    BY RangeOfSeq
  <2> HIDE DEF q, r, b
  <2>7. Advances(q, Pump(q)) /\ Pump(q).outcome = q.outcome
    BY <2>3, <2>6, PumpAdvances DEF Settled
  <2>8. /\ \A t \in Task : r.task[t] \in {"idle", "queued", "taken"}
        /\ \A t \in Range(ts) : r.task[t] # "idle"
        /\ r.strict = TRUE
        /\ r.outcome = "pending"
    BY <2>0, <2>4, <2>5, <2>7 DEF Advances
  <2>9. Tidy(r) /\ FirstFailure(r)
    BY <2>8 DEF Tidy, FirstFailure
  <2> QED  BY <2>8, <2>9 DEF r
<1> QED  BY <1>3, <1>4
=============================================================================
