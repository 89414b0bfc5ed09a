---------------------------- MODULE SessionProofs ----------------------------
(***************************************************************************)
(* Theorems about Session, for any tree of calls, any groups, any failures *)
(* and any way handlers await their children.                              *)
(***************************************************************************)
EXTENDS SessionRefinement, SchedulerOpsProofs

AllSound == \A id \in SchedId : Sound(scheds[id])

\* A scheduler knows the calls that were pushed to it, and no other.
Hosted ==
  /\ \A id \in SchedId, t \in Task : scheds[id].task[t] # "idle" => host[t] = id
  /\ \A g \in Group : \A y \in Range(Members[g]) : host[y] \in {None, Args(g)}

\* The scheduler of a group is empty until the handler of the group runs.
GroupsFresh ==
  \A g \in Group, t \in Task :
    scheds[Args(g)].task[t] # "idle"
      => host[g] # None /\ scheds[host[g]].task[g] \in Started

\* A session in progress is the handler its host is executing.
LiveExecutes ==
  \A x \in Live \ {Root} :
    host[x] # None /\ scheds[host[x]].task[x] = "executing"

Inv == TypeOK /\ AllSound /\ Hosted /\ GroupsFresh /\ LiveExecutes

-----------------------------------------------------------------------------
LEMMA Ids ==
  /\ \A a \in Action : In(a) \in SchedId /\ Out(a) \in SchedId
  /\ \A g \in Group : Args(g) \in SchedId
  /\ None \notin SchedId
  /\ Group \subseteq Task /\ Action \subseteq Task
BY SessionAssumption DEF SchedId, In, Out, Args, Group

\* The schedulers and the calls do not move, no session begins.
LEMMA NothingMoves ==
  ASSUME Inv, scheds' = scheds, host' = host, Live' \subseteq Live
  PROVE  (AllSound /\ Hosted /\ GroupsFresh /\ LiveExecutes)'
BY DEF Inv, AllSound, Hosted, GroupsFresh, LiveExecutes

\* One scheduler becomes r.  The calls of X are pushed to it or end in it,
\* the sessions of B begin.
Move(id, r, X, B) ==
  /\ X \subseteq Task
  /\ Sound(r)
  /\ Kept(scheds[id], r, X)
  /\ scheds' = [scheds EXCEPT ![id] = r]
  /\ \A t \in X : host'[t] = id
  /\ \A t \in Task \ X : host'[t] = host[t]
  /\ \A t \in X : \/ scheds[id].task[t] # "idle"
                  \/ /\ host[t] = None
                     /\ t \notin InGroup
                     /\ \A g \in Group : id # Args(g)
  /\ Live' \ {Root} \subseteq (Live \ X) \cup B
  /\ \A x \in B : host'[x] = id /\ r.task[x] = "executing"

LEMMA OneMoves ==
  ASSUME Inv, NEW id \in SchedId, NEW r, NEW X, NEW B, Move(id, r, X, B)
  PROVE  (AllSound /\ Hosted /\ GroupsFresh /\ LiveExecutes)'
<1> USE DEF Move
<1> USE DEF Inv
<1>1. scheds \in [SchedId -> Scheduler] /\ host \in [Task -> SchedId \cup {None}]
  BY DEF TypeOK
<1>2. scheds'[id] = r /\ \A i \in SchedId \ {id} : scheds'[i] = scheds[i]
  BY <1>1
<1>0. \A t \in X : host[t] = id \/ (host[t] = None /\ t \notin InGroup)
  BY DEF Hosted
<1>3. AllSound'
  BY <1>2 DEF AllSound
<1>4. Hosted'
  <2>1. ASSUME NEW i \in SchedId, NEW t \in Task, scheds'[i].task[t] # "idle"
        PROVE  host'[t] = i
    <3>1. CASE t \in X
      <4>1. CASE i = id
        BY <3>1, <4>1
      <4>2. CASE i # id
        <5>1. scheds[i].task[t] # "idle"
          BY <1>2, <2>1, <4>2
        <5>2. host[t] = i
          BY <5>1 DEF Hosted
        <5> QED  BY <1>0, <3>1, <4>2, <5>2, Ids
      <4> QED  BY <4>1, <4>2
    <3>2. CASE t \notin X
      <4>1. scheds[i].task[t] # "idle"
        BY <1>2, <2>1, <3>2 DEF Kept
      <4> QED  BY <3>2, <4>1 DEF Hosted
    <3> QED  BY <3>1, <3>2
  <2>2. ASSUME NEW g \in Group, NEW y \in Range(Members[g])
        PROVE  host'[y] \in {None, Args(g)}
    <3>1. y \in InGroup /\ y \in Task
      BY SessionAssumption, Ids, RangeOfSeq DEF InGroup, Range
    <3>2. host[y] \in {None, Args(g)}
      BY DEF Hosted
    <3> QED  BY <1>0, <3>1, <3>2
  <2> QED  BY <2>1, <2>2 DEF Hosted
<1>5. GroupsFresh'
  <2> SUFFICES ASSUME NEW g \in Group, NEW t \in Task,
                      scheds'[Args(g)].task[t] # "idle"
               PROVE  host'[g] # None /\ scheds'[host'[g]].task[g] \in Started
    BY DEF GroupsFresh
  <2>1. Args(g) \in SchedId /\ g \in Task
    BY Ids
  <2>2. scheds[Args(g)].task[t] # "idle"
    BY <1>2, <2>1 DEF Kept
  <2>3. host[g] # None /\ scheds[host[g]].task[g] \in Started
    BY <2>2 DEF GroupsFresh
  <2>4. host[g] \in SchedId
    BY <1>1, <2>1, <2>3
  <2>5. scheds'[host[g]].task[g] \in Started
    BY <1>2, <2>1, <2>3, <2>4 DEF Kept
  <2>6. host'[g] = host[g]
    BY <1>0, <2>1, <2>3
  <2> QED  BY <2>3, <2>5, <2>6
<1>6. LiveExecutes'
  <2> SUFFICES ASSUME NEW x \in Live' \ {Root}
               PROVE  host'[x] # None /\ scheds'[host'[x]].task[x] = "executing"
    BY DEF LiveExecutes
  <2>1. CASE x \in B
    BY <1>2, <2>1, Ids
  <2>2. CASE x \in Live \ X
    <3>1. x \in Task
      BY <2>2, Ids DEF Live
    <3>2. /\ host'[x] = host[x]
          /\ host[x] # None
          /\ scheds[host[x]].task[x] = "executing"
      BY <2>2, <3>1 DEF LiveExecutes
    <3>3. host[x] \in SchedId
      BY <1>1, <3>1, <3>2
    <3> QED  BY <1>2, <2>2, <3>1, <3>2, <3>3 DEF Kept
  <2> QED  BY <2>1, <2>2
<1> QED  BY <1>3, <1>4, <1>5, <1>6

\* The same for a move that pushes nothing and ends nothing.
LEMMA OneContinues ==
  ASSUME Inv, NEW id \in SchedId, NEW r, Sound(r), Kept(scheds[id], r, {}),
         scheds' = [scheds EXCEPT ![id] = r],
         host' = host, Live' \subseteq Live
  PROVE  (AllSound /\ Hosted /\ GroupsFresh /\ LiveExecutes)'
<1>1. Move(id, r, {}, {})
  BY DEF Move
<1> QED  BY <1>1, OneMoves

\* The handler of a group runs: it starts the scheduler of its members.
LEMMA GroupRuns ==
  ASSUME Inv, NEW id \in SchedId, NEW g \in Group,
         scheds[id].task[g] = "taken",
         NEW r, Sound(r), Kept(scheds[id], r, {}), r.task[g] = "executing",
         scheds' = [scheds EXCEPT
                      ![id]      = r,
                      ![Args(g)] = CreateWith(Members[g], TRUE, TRUE)],
         host' = [y \in Task |-> IF y \in Range(Members[g]) THEN Args(g)
                                                             ELSE host[y]],
         Live' = Live
  PROVE  (AllSound /\ Hosted /\ GroupsFresh /\ LiveExecutes)'
<1> DEFINE q == CreateWith(Members[g], TRUE, TRUE)
<1> USE DEF Inv
<1>1. /\ scheds \in [SchedId -> Scheduler]
      /\ host \in [Task -> SchedId \cup {None}]
      /\ Args(g) \in SchedId
      /\ g \in Task
  BY Ids DEF TypeOK
<1>2. host[g] = id
  BY <1>1 DEF Hosted
<1>3. \A t \in Task : scheds[Args(g)].task[t] = "idle"
  BY <1>2 DEF GroupsFresh, Started
<1>4. id # Args(g)
  BY <1>1, <1>3
<1>5. /\ scheds'[id] = r
      /\ scheds'[Args(g)] = q
      /\ \A i \in SchedId \ {id, Args(g)} : scheds'[i] = scheds[i]
  BY <1>1, <1>4
<1>6. /\ Members[g] \in Seq(Task)
      /\ IsSimple(Members[g])
      /\ Range(Members[g]) \subseteq Action
  <2>1. Members[g] \in Seq(Action \ {Root}) /\ IsSimple(Members[g])
    BY SessionAssumption
  <2>2. Action \subseteq Task
    BY Ids
  <2>3. Members[g] \in Seq(Task)
    BY <2>1, <2>2
  <2> QED  BY <2>1, <2>3, RangeOfSeq DEF Range
<1>7. Sound(q)
  BY <1>6, SoundCreateWith
<1>8. \A t \in Task \ Range(Members[g]) : q.task[t] = "idle"
  BY <1>6, CreateWithIdle
<1> HIDE DEF q
<1>9. \A y \in Range(Members[g]), i \in SchedId :
        i # Args(g) => scheds[i].task[y] = "idle"
  <2> SUFFICES ASSUME NEW y \in Range(Members[g]), NEW i \in SchedId,
                      i # Args(g), scheds[i].task[y] # "idle"
               PROVE  FALSE
    OBVIOUS
  <2>1. y \in Task
    BY <1>6, Ids
  <2>2. host[y] = i /\ host[y] \in {None, Args(g)}
    BY <2>1 DEF Hosted
  <2> QED  BY <2>2, Ids
<1>10. \A i \in SchedId \ {Args(g)} : Kept(scheds[i], scheds'[i], {})
  BY <1>5 DEF Kept
<1>11. AllSound'
  BY <1>5, <1>7 DEF AllSound
<1>12. Hosted'
  <2>1. ASSUME NEW i \in SchedId, NEW t \in Task, scheds'[i].task[t] # "idle"
        PROVE  host'[t] = i
    <3>1. CASE i = Args(g)
      BY <1>5, <1>8, <2>1, <3>1
    <3>2. CASE i # Args(g)
      <4>1. scheds[i].task[t] # "idle"
        BY <1>10, <2>1, <3>2 DEF Kept
      <4>2. t \notin Range(Members[g])
        BY <1>9, <3>2, <4>1
      <4> QED  BY <4>1, <4>2 DEF Hosted
    <3> QED  BY <3>1, <3>2
  <2>2. ASSUME NEW h \in Group, NEW y \in Range(Members[h])
        PROVE  host'[y] \in {None, Args(h)}
    <3>1. y \in Range(Members[g]) => h = g
      BY SessionAssumption
    <3>2. y \in Task
      BY SessionAssumption, Ids, RangeOfSeq DEF Range
    <3>3. host[y] \in {None, Args(h)}
      BY DEF Hosted
    <3> QED  BY <3>1, <3>2, <3>3
  <2> QED  BY <2>1, <2>2 DEF Hosted
<1>13. GroupsFresh'
  <2> SUFFICES ASSUME NEW h \in Group, NEW t \in Task,
                      scheds'[Args(h)].task[t] # "idle"
               PROVE  host'[h] # None /\ scheds'[host'[h]].task[h] \in Started
    BY DEF GroupsFresh
  <2>1. h \in Task /\ host'[h] = host[h]
    BY <1>6, Ids DEF Group
  <2>2. CASE h = g
    BY <1>2, <1>5, <2>1, <2>2, Ids DEF Started
  <2>3. CASE h # g
    <3>1. Args(h) \in SchedId /\ Args(h) # Args(g)
      BY <2>3, Ids DEF Args
    <3>2. scheds[Args(h)].task[t] # "idle"
      <4>1. Kept(scheds[Args(h)], scheds'[Args(h)], {})
        BY <1>10, <3>1
      <4> QED  BY <4>1 DEF Kept
    <3>3. host[h] # None /\ scheds[host[h]].task[h] \in Started
      BY <3>2 DEF GroupsFresh
    <3>4. host[h] \in SchedId /\ host[h] # Args(g)
      BY <1>1, <1>3, <2>1, <3>3 DEF Started
    <3> QED  BY <1>10, <2>1, <3>3, <3>4 DEF Kept
  <2> QED  BY <2>2, <2>3
<1>14. LiveExecutes'
  <2> SUFFICES ASSUME NEW x \in Live \ {Root}
               PROVE  host'[x] # None /\ scheds'[host'[x]].task[x] = "executing"
    BY DEF LiveExecutes
  <2>1. /\ x \in Task
        /\ host[x] # None
        /\ scheds[host[x]].task[x] = "executing"
    BY Ids DEF LiveExecutes, Live
  <2>2. host[x] \in SchedId /\ host[x] # Args(g)
    BY <1>1, <1>3, <2>1
  <2>3. host'[x] = host[x]
    BY <1>9, <2>1, <2>2
  <2> QED  BY <1>10, <2>1, <2>2, <2>3 DEF Kept
<1> QED  BY <1>11, <1>12, <1>13, <1>14

-----------------------------------------------------------------------------
LEMMA InvInit == Init => Inv
<1> SUFFICES ASSUME Init PROVE Inv
  OBVIOUS
<1>1. \A id \in SchedId : \E strict \in BOOLEAN, paused \in BOOLEAN :
        scheds[id] = Create(strict, paused)
  BY DEF Init, NewSchedulers, SchedId
<1>2. \A id \in SchedId : Sound(scheds[id])
  BY <1>1, SoundCreate
<1>3. \A id \in SchedId, t \in Task : scheds[id].task[t] = "idle"
  BY <1>1, CreateIdle
<1>4. TypeOK
  <2>1. scheds \in [SchedId -> Scheduler]
    BY <1>2 DEF Init, NewSchedulers, Sound
  <2> QED  BY <2>1 DEF Init, TypeOK, Phase
<1>5. Live \subseteq {Root}
  BY DEF Init, Live
<1>6. Hosted
  <2>1. \A g \in Group : \A y \in Range(Members[g]) : y \in Task
    BY SessionAssumption, RangeOfSeq, Ids DEF Range
  <2> QED  BY <1>3, <2>1 DEF Hosted, Init
<1>7. GroupsFresh
  BY <1>3, Ids DEF GroupsFresh
<1> QED  BY <1>2, <1>4, <1>5, <1>6, <1>7 DEF Inv, AllSound, LiveExecutes

\* Steps that only write phase, hand, awaits, output or current.
LEMMA InvQuiet ==
  ASSUME Inv, TypeOK', UNCHANGED <<scheds, host>>, Live' \subseteq Live
  PROVE  Inv'
BY NothingMoves DEF Inv

\* Steps in which one scheduler continues.
LEMMA InvContinues ==
  ASSUME Inv, NEW id \in SchedId, NEW r, Sound(r), Kept(scheds[id], r, {}),
         scheds' = [scheds EXCEPT ![id] = r],
         host' = host, Live' \subseteq Live,
         phase' \in [Action -> Phase],
         hand' \in [Action -> {"none", "hooks", "control", "await", "sleep", "over"}],
         awaits' \in [Action -> Task \cup {None}],
         output' \in [Action -> {"pending", "ok", "error"}],
         current' \in [Action -> {"in", "out"}]
  PROVE  Inv'
<1>1. r \in Scheduler
  BY DEF Sound
<1>2. TypeOK'
  BY <1>1 DEF Inv, TypeOK
<1> QED  BY <1>2, OneContinues DEF Inv

LEMMA PushCallKeeps ==
  ASSUME Inv, NEW x \in Task \ {Root}, x \notin InGroup, PushCall(x),
         UNCHANGED <<phase, hand, awaits, output, current>>
  PROVE  Inv'
<1> DEFINE p  == Parent[x]
           id == <<current[p], p>>
           r  == Push(scheds[id], x, FALSE)
<1> USE DEF Inv
<1>1. /\ p \in Action
      /\ current[p] \in {"in", "out"}
      /\ id \in SchedId
      /\ \A g \in Group : id # Args(g)
  BY SessionAssumption DEF TypeOK, SchedId, Args
<1>2. /\ host[x] = None
      /\ host' = [host EXCEPT ![x] = id]
      /\ scheds' = [scheds EXCEPT ![id] = r]
  BY DEF PushCall
<1>3. scheds[id].task[x] = "idle" /\ Sound(scheds[id])
  BY <1>1, <1>2, Ids DEF Hosted, AllSound
<1>4. Sound(r) /\ Kept(scheds[id], r, {x})
  BY <1>3, SoundPush, PushKeeps
<1> HIDE DEF id, r
<1>5. host'[x] = id /\ \A t \in Task \ {x} : host'[t] = host[t]
  BY <1>2 DEF TypeOK
<1>6. \A y \in Live' \ {Root} : y \in Live /\ y # x
  BY <1>2 DEF Live, LiveExecutes
<1>7. (AllSound /\ Hosted /\ GroupsFresh /\ LiveExecutes)'
  <2>1. Move(id, r, {x}, {})
    BY <1>1, <1>2, <1>4, <1>5, <1>6 DEF Move
  <2> QED  BY <1>1, <2>1, OneMoves
<1>8. TypeOK'
  <2>1. r \in Scheduler
    BY <1>4 DEF Sound
  <2> QED  BY <1>1, <1>2, <2>1 DEF TypeOK
<1> QED  BY <1>7, <1>8

LEMMA SettleCallKeeps ==
  ASSUME Inv, NEW x \in Task, SettleCall(x)
  PROVE  Inv'
<1> DEFINE id == host[x]
           r  == IF WentWell(x) THEN HandlerFulfilled(scheds[id], x)
                                ELSE HandlerRejected(scheds[id], x, FALSE)
<1> USE DEF Inv
<1>1. /\ id \in SchedId
      /\ scheds[id].task[x] = "executing"
      /\ Over(x)
      /\ scheds' = [scheds EXCEPT ![id] = r]
  BY DEF SettleCall, SettleDue, CallStatus, TypeOK
<1>2. Sound(scheds[id])
  BY <1>1 DEF AllSound
<1>3. Sound(r) /\ Kept(scheds[id], r, {x})
  BY <1>1, <1>2, SoundHandlerFulfilled, SoundHandlerRejected,
     HandlerFulfilledKeeps, HandlerRejectedKeeps
<1> HIDE DEF r
<1>4. host' = host /\ Live' = Live /\ x \notin Live
  BY <1>1 DEF SettleCall, Live, Over
<1>5. (AllSound /\ Hosted /\ GroupsFresh /\ LiveExecutes)'
  <2>1. Move(id, r, {x}, {})
    BY <1>1, <1>3, <1>4 DEF Move
  <2> HIDE DEF id
  <2> QED  BY <1>1, <2>1, OneMoves
<1>6. TypeOK'
  <2>1. r \in Scheduler
    BY <1>3 DEF Sound
  <2> QED  BY <1>1, <2>1 DEF TypeOK, SettleCall
<1> QED  BY <1>5, <1>6

LEMMA RunCallKeeps ==
  ASSUME Inv, NEW id \in SchedId, NEW x \in Task, RunCall(id, x)
  PROVE  Inv'
<1> DEFINE r == CallHandler(scheds[id], x)
<1> USE DEF Inv
<1>1. /\ scheds[id].task[x] = "taken"
      /\ scheds[id].loop # << >>
      /\ Head(scheds[id].loop) = "run"
      /\ UNCHANGED <<hand, awaits, output, current>>
  BY DEF RunCall
<1>2. Sound(scheds[id]) /\ host[x] = id
  BY <1>1 DEF AllSound, Hosted
<1>3. /\ Sound(r)
      /\ Kept(scheds[id], r, {})
      /\ r.task[x] = "executing"
      /\ r \in Scheduler
  <2>1. Sound(r)
    BY <1>1, <1>2, SoundCallHandler
  <2> QED  BY <1>1, <1>2, <2>1, CallHandlerKeeps DEF Sound
<1>4. CASE /\ x \in Unknown
           /\ phase' = [phase EXCEPT ![x] = "rejected"]
           /\ scheds' = [scheds EXCEPT ![id] = r]
           /\ UNCHANGED host
  <2>1. Live' \subseteq Live /\ phase' \in [Action -> Phase]
    BY <1>4 DEF Live, TypeOK, Phase
  <2> HIDE DEF r
  <2> QED  BY <1>1, <1>3, <1>4, <2>1, InvContinues DEF TypeOK
<1>5. CASE /\ x \in Action \ Unknown
           /\ phase' = [phase EXCEPT ![x] = "normalizing"]
           /\ scheds' = [scheds EXCEPT ![id] = r]
           /\ UNCHANGED host
  <2>1. Live' \subseteq Live \cup {x} /\ phase' \in [Action -> Phase]
    BY <1>5 DEF Live, TypeOK, Phase
  <2> HIDE DEF r
  <2>2. (AllSound /\ Hosted /\ GroupsFresh /\ LiveExecutes)'
    <3>1. Move(id, r, {}, {x})
      BY <1>2, <1>3, <1>5, <2>1 DEF Move
    <3> QED  BY <3>1, OneMoves
  <2>3. TypeOK'
    BY <1>1, <1>3, <1>5, <2>1 DEF TypeOK
  <2> QED  BY <2>2, <2>3
<1>6. CASE /\ x \in Group
           /\ scheds' = [scheds EXCEPT
                           ![id]      = r,
                           ![Args(x)] = CreateWith(Members[x], TRUE, TRUE)]
           /\ host' = [y \in Task |-> IF y \in Range(Members[x]) THEN Args(x)
                                                                 ELSE host[y]]
           /\ UNCHANGED phase
  <2>1. Live' = Live
    BY <1>6 DEF Live
  <2> HIDE DEF r
  <2>2. (AllSound /\ Hosted /\ GroupsFresh /\ LiveExecutes)'
    BY <1>1, <1>3, <1>6, <2>1, GroupRuns
  <2>3. CreateWith(Members[x], TRUE, TRUE) \in Scheduler
    <3>1. Members[x] \in Seq(Action \ {Root}) /\ IsSimple(Members[x])
      BY <1>6, SessionAssumption
    <3>2. Members[x] \in Seq(Task)
      BY <3>1, Ids
    <3> QED  BY <3>1, <3>2, SoundCreateWith DEF Sound
  <2>4. TypeOK'
    BY <1>1, <1>3, <1>6, <2>3, Ids DEF TypeOK
  <2> QED  BY <2>2, <2>4
<1> QED  BY <1>4, <1>5, <1>6 DEF RunCall

LEMMA OutputSettlesKeeps ==
  ASSUME Inv, NEW a \in Action, NEW result \in {"ok", "error"},
         OutputSettles(a, result)
  PROVE  Inv'
<1> DEFINE r == Resume(scheds[In(a)])
<1>1. In(a) \in SchedId /\ Sound(scheds[In(a)])
  BY Ids DEF Inv, AllSound
<1>2. Sound(r) /\ Kept(scheds[In(a)], r, {})
  BY <1>1, SoundResume, ResumeKeeps
<1>3. Live' = Live
  BY DEF OutputSettles, Live
<1> QED  BY <1>1, <1>2, <1>3, InvContinues DEF OutputSettles, Inv, TypeOK

LEMMA ReactionKeeps ==
  ASSUME Inv, NEW a \in Action, Drain(a) \/ Abort(a) \/ Flush(a)
  PROVE  Inv'
<1> DEFINE s == scheds[Out(a)]
<1>1. Out(a) \in SchedId /\ Sound(s)
  BY Ids DEF Inv, AllSound
<1>2. /\ Sound(Resume(s)) /\ Kept(s, Resume(s), {})
      /\ Sound(EndError(s)) /\ Kept(s, EndError(s), {})
  BY <1>1, SoundResume, ResumeKeeps, SoundEndError, EndErrorKeeps
<1>3. /\ Live' \subseteq Live
      /\ phase' \in [Action -> Phase]
      /\ output' \in [Action -> {"pending", "ok", "error"}]
      /\ UNCHANGED <<hand, awaits, current, host>>
  BY DEF Drain, Abort, Flush, DrainDue, AbortDue, FlushDue, Live, Inv, TypeOK, Phase
<1> USE DEF Inv, TypeOK
<1>4. CASE Drain(a)
  BY <1>1, <1>2, <1>3, <1>4, InvContinues DEF Drain
<1>5. CASE scheds' = [scheds EXCEPT ![Out(a)] = EndError(s)]
  BY <1>1, <1>2, <1>3, <1>5, InvContinues
<1>6. CASE scheds' = scheds
  BY <1>3, <1>6, InvQuiet
<1> QED  BY <1>4, <1>5, <1>6 DEF Abort, Flush

LEMMA InvNext == Inv /\ [Next]_vars => Inv'
<1> SUFFICES ASSUME Inv, [Next]_vars PROVE Inv'
  OBVIOUS
<1>1. ASSUME NEW x \in Called(Root), ChainedCall(x)
      PROVE  Inv'
  <2>1. x \in Task \ {Root} /\ x \notin InGroup
    BY <1>1 DEF Called
  <2> QED  BY <1>1, <2>1, PushCallKeeps DEF ChainedCall
<1>2. ASSUME NEW a \in Action, HandlerStep(a)
      PROVE  Inv'
  <2>1. ASSUME NEW x \in Called(a), Call(x)
        PROVE  Inv'
    <3>1. x \in Task \ {Root} /\ x \notin InGroup
      BY <2>1 DEF Called
    <3> QED  BY <2>1, <3>1, PushCallKeeps DEF Call
  <2>2. ASSUME NEW x \in Called(a), Await(a, x)
        PROVE  Inv'
    <3>1. x \in Task
      BY DEF Called
    <3>2. Live' = Live /\ TypeOK'
      BY <2>2, <3>1 DEF Await, Live, Inv, TypeOK
    <3> QED  BY <2>2, <3>2, InvQuiet DEF Await
  <2>3. ASSUME NEW result \in {"ok", "error"}, EndHandler(a, result)
        PROVE  Inv'
    BY <2>3, OutputSettlesKeeps DEF EndHandler
  <2>4. CASE WakeThrowing(a)
    BY <2>4, OutputSettlesKeeps DEF WakeThrowing
  <2>5. CASE Wake(a) \/ Sleep(a)
    <3>1. Live' = Live /\ TypeOK' /\ UNCHANGED <<scheds, host>>
      BY <2>5 DEF Wake, Sleep, Live, Inv, TypeOK
    <3> QED  BY <3>1, InvQuiet
  <2> QED  BY <1>2, <2>1, <2>2, <2>3, <2>4, <2>5 DEF HandlerStep
<1>3. ASSUME NEW a \in Action, Drain(a) \/ Abort(a) \/ Flush(a)
      PROVE  Inv'
  BY <1>3, ReactionKeeps
<1>4. ASSUME NEW x \in Task, SettleCall(x)
      PROVE  Inv'
  BY <1>4, SettleCallKeeps
<1>5. ASSUME NEW id \in SchedId, RunPump(id)
      PROVE  Inv'
  <2> DEFINE r == PumpCallback(scheds[id])
  <2>1. /\ scheds[id].loop # << >>
        /\ Head(scheds[id].loop) = "pump"
        /\ Sound(scheds[id])
    BY <1>5 DEF RunPump, Inv, AllSound
  <2>2. Sound(r) /\ Kept(scheds[id], r, {})
    BY <2>1, SoundPumpCallback, PumpCallbackKeeps
  <2>3. Live' = Live
    BY <1>5 DEF RunPump, Live
  <2> QED  BY <1>5, <2>2, <2>3, InvContinues DEF RunPump, Inv, TypeOK
<1>6. ASSUME NEW id \in SchedId, NEW x \in Task, RunCall(id, x)
      PROVE  Inv'
  BY <1>6, RunCallKeeps
<1>7. ASSUME NEW a \in Action,
             Normalize(a) \/ BeginHandler(a) \/ WakeUp(a) \/ Report(a)
      PROVE  Inv'
  <2>1. Live' \subseteq Live /\ UNCHANGED <<scheds, host>>
    BY <1>7 DEF Normalize, BeginHandler, WakeUp, Report, Live, Inv, TypeOK
  <2>2. TypeOK'
    BY <1>7 DEF Normalize, BeginHandler, WakeUp, Report, Inv, TypeOK, Phase
  <2> QED  BY <2>1, <2>2, InvQuiet
<1>8. ASSUME NEW a \in Action, NormalizeFails(a)
      PROVE  Inv'
  <2> DEFINE r == EndError(scheds[Out(a)])
  <2>1. Out(a) \in SchedId /\ Sound(scheds[Out(a)])
    BY Ids DEF Inv, AllSound
  <2>2. Sound(r) /\ Kept(scheds[Out(a)], r, {})
    BY <2>1, SoundEndError, EndErrorKeeps
  <2>3. Live' \subseteq Live /\ phase' \in [Action -> Phase]
    BY <1>8 DEF NormalizeFails, Live, Inv, TypeOK, Phase
  <2> QED  BY <1>8, <2>1, <2>2, <2>3, InvContinues DEF NormalizeFails, Inv, TypeOK
<1>9. ASSUME NEW a \in Action, NEW result \in {"ok", "error"}, SkipHandler(a, result)
      PROVE  Inv'
  BY <1>9, OutputSettlesKeeps DEF SkipHandler
<1>10. CASE UNCHANGED vars
  <2>1. TypeOK' /\ Live' = Live /\ UNCHANGED <<scheds, host>>
    BY <1>10 DEF vars, TypeOK, Live, Inv
  <2> QED  BY <2>1, InvQuiet
<1> QED
  BY <1>1, <1>2, <1>3, <1>4, <1>5, <1>6, <1>7, <1>8, <1>9, <1>10
  DEF Next, Reaction, EventLoop

-----------------------------------------------------------------------------
(* The inductive invariant holds of every session.                         *)
THEOREM InvAlways == Spec => []Inv
BY InvInit, InvNext, PTL DEF Spec

(* The state of a session keeps its types.                                 *)
THEOREM SessionTypes == Spec => []TypeOK
<1>1. Inv => TypeOK
  BY DEF Inv
<1> QED  BY <1>1, InvAlways, PTL

(* None of the schedulers of a session loses a task, runs two at once or   *)
(* piles up callbacks, whatever promise chain calls its methods.           *)
THEOREM SessionSchedulers == Spec => []SchedulersSound
<1>1. Inv => SchedulersSound
  BY DEF Inv, AllSound, SchedulersSound, Sound
<1> QED  BY <1>1, InvAlways, PTL

-----------------------------------------------------------------------------
(***************************************************************************)
(* The order of the calls.  The invariant of above says that nothing       *)
(* overlaps; what runs when needs more.                                    *)
(***************************************************************************)

Ran == {"executing", "fulfilled", "failed"}

\* Where the promise, the handler and the schedulers of an action stand
\* goes together.
Stage(a) ==
  \/ /\ phase[a] \in {"none", "normalizing"}
     /\ hand[a] = "none" /\ output[a] = "pending" /\ current[a] = "out"
  \/ /\ phase[a] = "handling"
     /\ hand[a] \in {"hooks", "control", "await", "sleep"}
     /\ output[a] = "pending" /\ current[a] = "in"
  \/ /\ phase[a] \in {"handling", "reporting", "rejected"}
     /\ hand[a] = "over" /\ output[a] # "pending" /\ current[a] = "in"
  \/ /\ phase[a] \in {"flushing", "fulfilled"}
     /\ hand[a] = "over" /\ output[a] = "ok" /\ current[a] = "in"
  \/ /\ phase[a] = "rejected"
     /\ hand[a] = "none" /\ output[a] = "pending" /\ current[a] = "out"

\* A call is in the scheduler it was pushed to, one of its parent's, and a
\* session began with the handler of its call.
Placed ==
  /\ \A x \in Task : host[x] # None => scheds[host[x]].task[x] # "idle"
  /\ \A x \in Task \ (InGroup \cup {Root}) : host[x] \in {None, In(Parent[x]), Out(Parent[x])}
  /\ host[Root] = None
  /\ phase[Root] # "none"
  /\ \A x \in Action \ {Root} :
       phase[x] # "none" => host[x] # None /\ scheds[host[x]].task[x] \in Ran

\* The members of a group are pushed at once, by its handler; its promise is
\* that of their scheduler.
GroupRow(g) ==
  /\ Tidy(scheds[Args(g)]) /\ FirstFailure(scheds[Args(g)])
  /\ \A y, z \in Range(Members[g]) : host[y] # None => host[z] # None
  /\ host[g] # None /\ CallStatus(g) \in Ran => \A y \in Range(Members[g]) : host[y] # None
  /\ CallStatus(g) = "fulfilled" => scheds[Args(g)].outcome = "fulfilled"
  /\ CallStatus(g) = "failed" => scheds[Args(g)].outcome # "pending"

\* `out` keeps what is chained to the action until it is flushed, and is
\* settled before the action is.
OutRow(a) ==
  LET s == scheds[Out(a)]
  IN  /\ Tidy(s) /\ FirstFailure(s)
      /\ phase[a] = "none" => Untouched(s)
      /\ phase[a] \in {"none", "normalizing", "handling"} =>
           s.paused /\ s.loop = << >> /\ s.outcome = "pending" /\ ~Begun(s)
      /\ phase[a] \in {"reporting", "fulfilled", "rejected"} =>
           s.outcome # "pending" \/ Untouched(s)
      /\ (phase[a] \in {"reporting", "fulfilled"} /\ output[a] = "ok") => s.outcome = "fulfilled"
      /\ Begun(s) => hand[a] = "over"

\* `in` is not fulfilled before the handler is over, and is before the action
\* is flushed.
InRow(a) ==
  LET s == scheds[In(a)]
  IN  /\ Tidy(s) /\ ~s.strict
      /\ s.outcome \in {"pending", "fulfilled"}
      /\ hand[a] # "sleep"
      /\ hand[a] \in {"none", "hooks"} => Untouched(s) /\ s.loop = << >>
      /\ hand[a] # "over" => s.outcome = "pending"
      /\ hand[a] = "await" => awaits[a] \in Task /\ host[awaits[a]] = In(a)
      /\ phase[a] \in {"flushing", "fulfilled"} => s.outcome = "fulfilled"
      /\ phase[a] = "reporting" /\ output[a] = "ok" => s.outcome = "fulfilled"
      /\ Begun(scheds[Out(a)]) => s.outcome = "fulfilled"

\* What holds of any session, of one whose calls are not late, and of one
\* whose handlers await calls only.
Ordered ==
  /\ Inv
  /\ \A a \in Action : Stage(a)
  /\ Placed
  /\ \A g \in Group : GroupRow(g)
  /\ ~Late => \A a \in Action : OutRow(a)
  /\ ~Late /\ Sleeping = {} => \A a \in Action : InRow(a)

-----------------------------------------------------------------------------
\* The steps, by what they do to the schedulers.

Pushes(x) ==
  /\ PushCall(x)
  /\ \/ hand[Parent[x]] = "control"
     \/ Parent[x] = Root /\ (Late \/ phase[Root] = "normalizing")
  /\ UNCHANGED <<phase, hand, awaits, output, current>>

Ends(a, result) ==
  /\ hand[a] \in {"hooks", "control", "await"}
  /\ OutputSettles(a, result)

TurnsOf(a) ==
  Wake(a) \/ Sleep(a) \/ WakeUp(a) \/ BeginHandler(a) \/ \E x \in Called(a) : Await(a, x)

LEMMA Steps ==
  ASSUME Next
  PROVE  \/ \E x \in Task \ ({Root} \cup InGroup) : Pushes(x)
         \/ \E a \in Action, result \in {"ok", "error"} : Ends(a, result)
         \/ \E a \in Action : TurnsOf(a) \/ Normalize(a) \/ NormalizeFails(a)
                              \/ Drain(a) \/ Abort(a) \/ Flush(a) \/ Report(a)
         \/ \E id \in SchedId : RunPump(id) \/ \E x \in Task : RunCall(id, x)
         \/ \E x \in Task : SettleCall(x)
<1>1. ASSUME NEW x \in Called(Root), ChainedCall(x)
      PROVE  x \in Task \ ({Root} \cup InGroup) /\ Pushes(x)
  BY <1>1 DEF Called, ChainedCall, Pushes
<1>2. ASSUME NEW a \in Action, NEW x \in Called(a), Call(x)
      PROVE  x \in Task \ ({Root} \cup InGroup) /\ Pushes(x)
  BY <1>2 DEF Called, Call, Pushes
<1>3. \A a \in Action, result \in {"ok", "error"} :
        EndHandler(a, result) \/ SkipHandler(a, result) => Ends(a, result)
  BY DEF EndHandler, SkipHandler, Ends
<1>4. \A a \in Action : WakeThrowing(a) => Ends(a, "error")
  BY DEF WakeThrowing, WakeDue, Ends
<1>5. ASSUME NEW a \in Action, HandlerStep(a)
      PROVE  \/ \E x \in Task \ ({Root} \cup InGroup) : Pushes(x)
             \/ \E result \in {"ok", "error"} : Ends(a, result)
             \/ TurnsOf(a)
  BY <1>2, <1>3, <1>4, <1>5 DEF HandlerStep, TurnsOf
<1>6. Reaction => \/ \E a \in Action : Drain(a) \/ Abort(a) \/ Flush(a)
                  \/ \E x \in Task : SettleCall(x)
  BY DEF Reaction
<1>7. EventLoop => \/ \E id \in SchedId : RunPump(id) \/ \E x \in Task : RunCall(id, x)
                   \/ \E a \in Action : \/ Normalize(a) \/ NormalizeFails(a) \/ Report(a)
                                        \/ TurnsOf(a)
                                        \/ \E result \in {"ok", "error"} : Ends(a, result)
  BY <1>3 DEF EventLoop, TurnsOf
<1>8. CASE \E x \in Called(Root) : ChainedCall(x)
  BY <1>1, <1>8
<1>9. CASE \E a \in Action : HandlerStep(a)
  BY <1>5, <1>9
<1>10. CASE Reaction
  BY <1>6, <1>10
<1>11. CASE EventLoop
  BY <1>7, <1>11
<1> QED  BY <1>8, <1>9, <1>10, <1>11 DEF Next

\* The names of the schedulers differ.
LEMMA Apart ==
  /\ \A a, b \in Action : /\ In(a) # Out(b)
                          /\ In(a) = In(b) => a = b
                          /\ Out(a) = Out(b) => a = b
  /\ \A a \in Action, g \in Group : In(a) # Args(g) /\ Out(a) # Args(g)
  /\ \A g, h \in Group : Args(g) = Args(h) => g = h
BY DEF In, Out, Args

\* The scheduler a call is pushed to.
Target(x) == <<current[Parent[x]], Parent[x]>>

LEMMA PushFacts ==
  ASSUME Ordered, NEW x \in Task \ ({Root} \cup InGroup), Pushes(x)
  PROVE  /\ Parent[x] \in Action
         /\ Target(x) \in {In(Parent[x]), Out(Parent[x])}
         /\ Target(x) \in SchedId
         /\ Target(x) = Out(Parent[x]) => Parent[x] = Root /\ (Late \/ phase[Root] = "normalizing")
         /\ Target(x) = In(Parent[x]) /\ ~Late => hand[Parent[x]] = "control"
         /\ host[x] = None
         /\ host' = [host EXCEPT ![x] = Target(x)]
         /\ scheds' = [scheds EXCEPT ![Target(x)] = Push(scheds[Target(x)], x, FALSE)]
         /\ scheds[Target(x)].task[x] = "idle"
<1> DEFINE p  == Parent[x]
           id == Target(x)
<1>1. p \in Action /\ Stage(p) /\ current[p] \in {"in", "out"}
  BY SessionAssumption DEF Ordered, Inv, TypeOK
<1>2. id \in {In(p), Out(p)} /\ id \in SchedId
  BY <1>1, Ids DEF In, Out, Target
<1>3. /\ host[x] = None
      /\ host' = [host EXCEPT ![x] = id]
      /\ scheds' = [scheds EXCEPT ![id] = Push(scheds[id], x, FALSE)]
  BY DEF Pushes, PushCall, Target
<1>4. scheds[id].task[x] = "idle"
  BY <1>2, <1>3, Ids DEF Ordered, Inv, Hosted
<1>5. id = Out(p) => p = Root /\ (Late \/ phase[Root] = "normalizing")
  BY <1>1 DEF Pushes, Out, Stage, Target
<1>6. id = In(p) /\ ~Late => hand[p] = "control"
  BY <1>1 DEF Pushes, In, Stage, Target
<1> QED  BY <1>1, <1>2, <1>3, <1>4, <1>5, <1>6

LEMMA TakenFacts ==
  ASSUME Ordered, NEW id \in SchedId, NEW x \in Task, RunCall(id, x)
  PROVE  /\ scheds[id].task[x] = "taken"
         /\ host[x] = id
         /\ x # Root
         /\ x \in Action => phase[x] = "none"
         /\ UNCHANGED <<hand, awaits, output, current>>
<1>1. scheds[id].task[x] = "taken"
  BY DEF RunCall
<1>2. host[x] = id
  BY <1>1 DEF Ordered, Inv, Hosted
<1>3. x # Root
  BY <1>2, Ids DEF Ordered, Placed
<1>4. x \in Action => phase[x] = "none"
  BY <1>1, <1>2, <1>3, Ids DEF Ordered, Placed, Ran
<1> QED  BY <1>1, <1>2, <1>3, <1>4 DEF RunCall

LEMMA SessionBegins ==
  ASSUME Ordered, NEW id \in SchedId, NEW x \in Task \ Group, RunCall(id, x)
  PROVE  /\ scheds' = [scheds EXCEPT ![id] = CallHandler(scheds[id], x)]
         /\ x \in Action
         /\ \E v \in {"normalizing", "rejected"} : phase' = [phase EXCEPT ![x] = v]
         /\ host' = host
<1>1. Unknown \subseteq Action /\ x \in Action
  BY SessionAssumption DEF Group
<1> QED  BY <1>1 DEF RunCall

LEMMA GroupBegins ==
  ASSUME Ordered, NEW id \in SchedId, NEW x \in Group, RunCall(id, x)
  PROVE  /\ phase' = phase
         /\ Args(x) \in SchedId
         /\ id # Args(x)
         /\ Untouched(scheds[Args(x)])
         /\ scheds' = [scheds EXCEPT ![id] = CallHandler(scheds[id], x),
                                     ![Args(x)] = CreateWith(Members[x], TRUE, TRUE)]
         /\ host' = [y \in Task |-> IF y \in Range(Members[x]) THEN Args(x) ELSE host[y]]
<1>0. x \in Task /\ x \notin Action /\ Unknown \subseteq Action /\ Args(x) \in SchedId
  BY SessionAssumption, Ids DEF Group
<1>1. scheds[id].task[x] = "taken" /\ host[x] = id
  BY <1>0, TakenFacts
<1>2. Untouched(scheds[Args(x)])
  BY <1>1 DEF Ordered, Inv, GroupsFresh, Untouched, Started
<1>3. id # Args(x)
  BY <1>0, <1>1, <1>2 DEF Untouched
<1> QED  BY <1>0, <1>2, <1>3 DEF RunCall

LEMMA SettleFacts ==
  ASSUME Ordered, NEW x \in Task, SettleCall(x)
  PROVE  /\ host[x] \in SchedId
         /\ Sound(scheds[host[x]])
         /\ scheds[host[x]].task[x] = "executing"
         /\ scheds' = [scheds EXCEPT ![host[x]] =
                         IF WentWell(x) THEN HandlerFulfilled(scheds[host[x]], x)
                                        ELSE HandlerRejected(scheds[host[x]], x, FALSE)]
         /\ UNCHANGED <<phase, hand, awaits, output, current, host>>
BY DEF SettleCall, SettleDue, CallStatus, Ordered, Inv, TypeOK, AllSound

LEMMA MembersOf ==
  ASSUME NEW g \in Group
  PROVE  /\ Members[g] \in Seq(Task) /\ IsSimple(Members[g])
         /\ Range(Members[g]) \subseteq Action \ {Root}
         /\ Range(Members[g]) \subseteq Task
         /\ \A h \in Group \ {g} : Range(Members[g]) \cap Range(Members[h]) = {}
         /\ g \in Task /\ g # Root
<1>1. Members[g] \in Seq(Action \ {Root}) /\ IsSimple(Members[g])
  BY SessionAssumption
<1>2. Action \subseteq Task /\ g \in Task /\ g # Root
  BY SessionAssumption, Ids DEF Group
<1>3. Members[g] \in Seq(Task)
  BY <1>1, <1>2
<1>4. Range(Members[g]) \subseteq Action \ {Root}
  BY <1>1, RangeOfSeq DEF Range
<1> QED  BY <1>1, <1>2, <1>3, <1>4, SessionAssumption

LEMMA StageNext ==
  ASSUME Ordered, Next, NEW a \in Action
  PROVE  Stage(a)'
<1>1. Stage(a) /\ TypeOK
  BY DEF Ordered, Inv
<1> USE DEF Stage, TypeOK
<1>2. CASE UNCHANGED <<phase, hand, output, current>>
  BY <1>1, <1>2
<1>3. ASSUME NEW x \in Task \ ({Root} \cup InGroup), Pushes(x)
      PROVE  Stage(a)'
  BY <1>2, <1>3 DEF Pushes
<1>4. ASSUME NEW b \in Action, NEW result \in {"ok", "error"}, Ends(b, result)
      PROVE  Stage(a)'
  BY <1>1, <1>4 DEF Ends, OutputSettles
<1>5. ASSUME NEW b \in Action, TurnsOf(b)
      PROVE  Stage(a)'
  BY <1>1, <1>5 DEF TurnsOf, Wake, WakeDue, Sleep, WakeUp, BeginHandler, Await
<1>6. ASSUME NEW b \in Action, Normalize(b) \/ NormalizeFails(b)
      PROVE  Stage(a)'
  BY <1>1, <1>6 DEF Normalize, NormalizeFails
<1>7. ASSUME NEW b \in Action, Drain(b) \/ Abort(b) \/ Flush(b)
      PROVE  Stage(a)'
  BY <1>1, <1>7 DEF Drain, DrainDue, Abort, AbortDue, Flush, FlushDue
<1>8. ASSUME NEW b \in Action, Report(b)
      PROVE  Stage(a)'
  BY <1>1, <1>8 DEF Report
<1>9. ASSUME NEW id \in SchedId, RunPump(id)
      PROVE  Stage(a)'
  BY <1>2, <1>9 DEF RunPump
<1>10. ASSUME NEW id \in SchedId, NEW x \in Task, RunCall(id, x)
       PROVE  Stage(a)'
  <2>1. UNCHANGED <<hand, output, current>>
    BY <1>10 DEF RunCall
  <2>2. CASE x \in Group
    BY <1>1, <1>10, <2>1, <2>2, GroupBegins
  <2>3. CASE x \notin Group
    <3>1. /\ x \in Action
          /\ \E v \in {"normalizing", "rejected"} : phase' = [phase EXCEPT ![x] = v]
      BY <1>10, <2>3, SessionBegins
    <3>2. phase[x] = "none"
      BY <1>10, <3>1, TakenFacts
    <3> QED  BY <1>1, <2>1, <3>1, <3>2
  <2> QED  BY <2>2, <2>3
<1>11. ASSUME NEW x \in Task, SettleCall(x)
       PROVE  Stage(a)'
  BY <1>2, <1>11 DEF SettleCall
<1> QED  BY <1>3, <1>4, <1>5, <1>6, <1>7, <1>8, <1>9, <1>10, <1>11, Steps

\* What may become of a task of one of the schedulers.
Follows(was, is) ==
  \/ is = was
  \/ was = "idle" /\ is \in {"queued", "taken"}
  \/ was = "queued" /\ is \in {"taken", "dropped"}

TaskStep(id, t) ==
  \/ Follows(scheds[id].task[t], scheds'[id].task[t])
  \/ /\ RunCall(id, t)
     /\ scheds[id].task[t] = "taken"
     /\ scheds'[id].task[t] = "executing"
  \/ /\ SettleCall(t)
     /\ host[t] = id
     /\ scheds[id].task[t] = "executing"
     /\ scheds'[id].task[t] = IF WentWell(t) THEN "fulfilled" ELSE "failed"

LEMMA TaskSteps ==
  ASSUME Ordered, Next, NEW id \in SchedId, NEW t \in Task
  PROVE  TaskStep(id, t)
<1>0. /\ scheds \in [SchedId -> Scheduler]
      /\ \A i \in SchedId : Sound(scheds[i]) /\ scheds[i].task \in [Task -> Status]
  BY Fields DEF Ordered, Inv, TypeOK, AllSound
<1>1. CASE scheds' = scheds
  BY <1>1 DEF TaskStep, Follows
<1>2. ASSUME NEW x \in Task \ ({Root} \cup InGroup), Pushes(x)
      PROVE  TaskStep(id, t)
  <2> DEFINE i == Target(x)
             s == scheds[i]
             r == Push(s, x, FALSE)
  <2>1. /\ i \in SchedId
        /\ scheds' = [scheds EXCEPT ![i] = r]
        /\ s.task[x] = "idle"
    BY <1>2, PushFacts
  <2>2. Sound(s) /\ x \in Task
    BY <1>0, <2>1
  <2> HIDE DEF i, s
  <2>3. /\ r.task[x] \in {"queued", "taken"}
        /\ \A u \in Task \ {x} : \/ r.task[u] = s.task[u]
                                 \/ s.task[u] = "queued" /\ r.task[u] = "taken"
    BY <2>1, <2>2, PushAdvances
  <2> HIDE DEF r
  <2> QED  BY <1>0, <2>1, <2>3 DEF TaskStep, Follows, s
<1>3. ASSUME NEW b \in Action, NEW result \in {"ok", "error"}, Ends(b, result)
      PROVE  TaskStep(id, t)
  <2> DEFINE r == Resume(scheds[In(b)])
  <2>1. scheds' = [scheds EXCEPT ![In(b)] = r] /\ In(b) \in SchedId
    BY <1>3, Ids DEF Ends, OutputSettles
  <2>2. Advances(scheds[In(b)], r)
    BY <1>0, <2>1, ResumeAdvances
  <2> HIDE DEF r
  <2> QED  BY <1>0, <2>1, <2>2 DEF TaskStep, Follows, Advances
<1>4. ASSUME NEW b \in Action, TurnsOf(b) \/ Normalize(b) \/ Report(b)
      PROVE  TaskStep(id, t)
  BY <1>1, <1>4 DEF TurnsOf, Wake, Sleep, WakeUp, BeginHandler, Await, Normalize, Report
<1>5. ASSUME NEW b \in Action, NormalizeFails(b) \/ Abort(b) \/ Flush(b)
      PROVE  TaskStep(id, t)
  <2> DEFINE r == EndError(scheds[Out(b)])
  <2>1. scheds' \in {scheds, [scheds EXCEPT ![Out(b)] = r]} /\ Out(b) \in SchedId
    BY <1>5, Ids DEF NormalizeFails, Abort, Flush
  <2>2. r.task = [u \in Task |-> IF scheds[Out(b)].task[u] = "queued" THEN "dropped"
                                                            ELSE scheds[Out(b)].task[u]]
    BY <1>0, <2>1, EndErrorEffect
  <2> HIDE DEF r
  <2> QED  BY <1>0, <2>1, <2>2 DEF TaskStep, Follows
<1>6. ASSUME NEW b \in Action, Drain(b)
      PROVE  TaskStep(id, t)
  <2> DEFINE r == Resume(scheds[Out(b)])
  <2>1. scheds' = [scheds EXCEPT ![Out(b)] = r] /\ Out(b) \in SchedId
    BY <1>6, Ids DEF Drain
  <2>2. Advances(scheds[Out(b)], r)
    BY <1>0, <2>1, ResumeAdvances
  <2> HIDE DEF r
  <2> QED  BY <1>0, <2>1, <2>2 DEF TaskStep, Follows, Advances
<1>7. ASSUME NEW i \in SchedId, RunPump(i)
      PROVE  TaskStep(id, t)
  <2> DEFINE r == PumpCallback(scheds[i])
  <2>1. scheds' = [scheds EXCEPT ![i] = r]
    BY <1>7 DEF RunPump
  <2>2. Advances(scheds[i], r)
    BY <1>0, <1>7, PumpCallbackAdvances DEF RunPump
  <2> HIDE DEF r
  <2> QED  BY <1>0, <2>1, <2>2 DEF TaskStep, Follows, Advances
<1>8. ASSUME NEW i \in SchedId, NEW x \in Task, RunCall(i, x)
      PROVE  TaskStep(id, t)
  <2> DEFINE r == CallHandler(scheds[i], x)
             q == CreateWith(Members[x], TRUE, TRUE)
  <2>1. r.task = [scheds[i].task EXCEPT ![x] = "executing"] /\ scheds[i].task[x] = "taken"
    BY <1>0, <1>8, CallHandlerEffect, TakenFacts
  <2>2. CASE x \notin Group
    <3>1. scheds' = [scheds EXCEPT ![i] = r]
      BY <1>8, <2>2, SessionBegins
    <3> HIDE DEF r
    <3> QED  BY <1>0, <1>8, <2>1, <3>1 DEF TaskStep, Follows
  <2>3. CASE x \in Group
    <3>1. /\ scheds' = [scheds EXCEPT ![i] = r, ![Args(x)] = q]
          /\ i # Args(x)
          /\ Untouched(scheds[Args(x)])
      BY <1>8, <2>3, GroupBegins
    <3>2. q.task[t] \in {"idle", "queued", "taken"}
      BY <2>3, MembersOf, CreateWithEffect
    <3>3. Args(x) \in SchedId
      BY <2>3, Ids
    <3> HIDE DEF r, q
    <3>4. /\ scheds'[i] = r /\ scheds'[Args(x)] = q
          /\ \A j \in SchedId \ {i, Args(x)} : scheds'[j] = scheds[j]
      BY <1>0, <3>1, <3>3
    <3> QED  BY <1>0, <1>8, <2>1, <3>1, <3>2, <3>4 DEF TaskStep, Follows, Untouched
  <2> QED  BY <2>2, <2>3
<1>9. ASSUME NEW x \in Task, SettleCall(x)
      PROVE  TaskStep(id, t)
  <2> DEFINE i == host[x]
             s == scheds[i]
             r == IF WentWell(x) THEN HandlerFulfilled(s, x)
                                 ELSE HandlerRejected(s, x, FALSE)
  <2>1. /\ i \in SchedId /\ Sound(s)
        /\ s.task[x] = "executing"
        /\ scheds' = [scheds EXCEPT ![i] = r]
    BY <1>9, SettleFacts
  <2>2. s.strict \in BOOLEAN
    BY <2>1, Fields DEF Sound
  <2>3. \A u \in Task : \/ u = x /\ r.task[u] = IF WentWell(x) THEN "fulfilled" ELSE "failed"
                        \/ u # x /\ Follows(s.task[u], r.task[u])
    <3>1. CASE WentWell(x)
      <4>1. r.task = [s.task EXCEPT ![x] = "fulfilled"]
        BY <2>1, <3>1, FulfilledEffect
      <4> HIDE DEF r
      <4> QED  BY <1>0, <2>1, <3>1, <4>1 DEF Follows
    <3>2. CASE ~WentWell(x) /\ ~s.strict
      <4>1. r.task = [s.task EXCEPT ![x] = "failed"]
        BY <2>1, <3>2, RejectedTolerantEffect
      <4> HIDE DEF r
      <4> QED  BY <1>0, <2>1, <3>2, <4>1 DEF Follows
    <3>3. CASE ~WentWell(x) /\ s.strict
      <4>1. r.task = [u \in Task |-> IF u = x THEN "failed"
                                     ELSE IF s.task[u] = "queued" THEN "dropped"
                                     ELSE s.task[u]]
        BY <2>1, <3>3, RejectedStrictEffect
      <4> HIDE DEF r
      <4> QED  BY <1>0, <2>1, <3>3, <4>1 DEF Follows
    <3> QED  BY <2>2, <3>1, <3>2, <3>3
  <2> HIDE DEF r, i
  <2> QED  BY <1>0, <1>9, <2>1, <2>3 DEF TaskStep, Follows, i
<1> QED  BY <1>2, <1>3, <1>4, <1>5, <1>6, <1>7, <1>8, <1>9, Steps

\* A call keeps the scheduler it was pushed to.
HostStep(x) ==
  \/ host'[x] = host[x]
  \/ x \in Task \ ({Root} \cup InGroup) /\ Pushes(x) /\ host[x] = None /\ host'[x] = Target(x)
  \/ \E g \in Group : /\ x \in Range(Members[g])
                      /\ \E id \in SchedId : RunCall(id, g)
                      /\ host'[x] = Args(g)

LEMMA HostSteps ==
  ASSUME Ordered, Next, NEW t \in Task
  PROVE  HostStep(t)
<1>0. host \in [Task -> SchedId \cup {None}]
  BY DEF Ordered, Inv, TypeOK
<1>1. ASSUME NEW x \in Task \ ({Root} \cup InGroup), Pushes(x)
      PROVE  HostStep(t)
  <2>1. host[x] = None /\ host' = [host EXCEPT ![x] = Target(x)]
    BY <1>1, PushFacts
  <2> QED  BY <1>0, <1>1, <2>1 DEF HostStep
<1>2. ASSUME NEW b \in Action, NEW result \in {"ok", "error"}, Ends(b, result)
      PROVE  HostStep(t)
  BY <1>2 DEF Ends, OutputSettles, HostStep
<1>3. ASSUME NEW b \in Action, TurnsOf(b) \/ Normalize(b) \/ NormalizeFails(b)
                              \/ Drain(b) \/ Abort(b) \/ Flush(b) \/ Report(b)
      PROVE  HostStep(t)
  BY <1>3 DEF TurnsOf, Wake, Sleep, WakeUp, BeginHandler, Await, Normalize, NormalizeFails,
              Drain, Abort, Flush, Report, HostStep
<1>4. ASSUME NEW id \in SchedId, RunPump(id)
      PROVE  HostStep(t)
  BY <1>4 DEF RunPump, HostStep
<1>5. ASSUME NEW id \in SchedId, NEW x \in Task, RunCall(id, x)
      PROVE  HostStep(t)
  <2>1. CASE x \notin Group
    BY <1>5, <2>1, SessionBegins DEF HostStep
  <2>2. CASE x \in Group
    <3>1. host' = [y \in Task |-> IF y \in Range(Members[x]) THEN Args(x) ELSE host[y]]
      BY <1>5, <2>2, GroupBegins
    <3> QED  BY <1>5, <2>2, <3>1 DEF HostStep
  <2> QED  BY <2>1, <2>2
<1>6. ASSUME NEW x \in Task, SettleCall(x)
      PROVE  HostStep(t)
  BY <1>6 DEF SettleCall, HostStep
<1> QED  BY <1>1, <1>2, <1>3, <1>4, <1>5, <1>6, Steps

\* The session of a call begins with the handler of the call.
PhaseStep(a) ==
  \/ phase'[a] = phase[a]
  \/ phase[a] # "none" /\ phase'[a] # "none"
  \/ phase[a] = "none" /\ a \notin Group /\ \E id \in SchedId : RunCall(id, a)

LEMMA PhaseSteps ==
  ASSUME Ordered, Next, NEW a \in Action
  PROVE  PhaseStep(a)
<1>0. phase \in [Action -> Phase] /\ a \in Task /\ a \notin Group
  BY Ids DEF Ordered, Inv, TypeOK, Group
<1>1. ASSUME NEW x \in Task \ ({Root} \cup InGroup), Pushes(x)
      PROVE  PhaseStep(a)
  BY <1>1 DEF Pushes, PhaseStep
<1>2. ASSUME NEW b \in Action, NEW result \in {"ok", "error"}, Ends(b, result)
      PROVE  PhaseStep(a)
  BY <1>2 DEF Ends, OutputSettles, PhaseStep
<1>3. ASSUME NEW b \in Action, TurnsOf(b)
      PROVE  PhaseStep(a)
  BY <1>3 DEF TurnsOf, Wake, Sleep, WakeUp, BeginHandler, Await, PhaseStep
<1>4. ASSUME NEW b \in Action, Normalize(b) \/ NormalizeFails(b)
                              \/ Drain(b) \/ Abort(b) \/ Flush(b) \/ Report(b)
      PROVE  PhaseStep(a)
  BY <1>0, <1>4 DEF Normalize, NormalizeFails, Drain, DrainDue, Abort, AbortDue,
                    Flush, FlushDue, Report, PhaseStep
<1>5. ASSUME NEW id \in SchedId, RunPump(id)
      PROVE  PhaseStep(a)
  BY <1>5 DEF RunPump, PhaseStep
<1>6. ASSUME NEW id \in SchedId, NEW x \in Task, RunCall(id, x)
      PROVE  PhaseStep(a)
  <2>1. CASE x \in Group
    BY <1>6, <2>1, GroupBegins DEF PhaseStep
  <2>2. CASE x \notin Group
    <3>1. /\ x \in Action
          /\ \E v \in {"normalizing", "rejected"} : phase' = [phase EXCEPT ![x] = v]
      BY <1>6, <2>2, SessionBegins
    <3>2. phase[x] = "none"
      BY <1>6, <3>1, TakenFacts
    <3> QED  BY <1>0, <1>6, <3>1, <3>2 DEF PhaseStep
  <2> QED  BY <2>1, <2>2
<1>7. ASSUME NEW x \in Task, SettleCall(x)
      PROVE  PhaseStep(a)
  BY <1>7 DEF SettleCall, PhaseStep
<1> QED  BY <1>1, <1>2, <1>3, <1>4, <1>5, <1>6, <1>7, Steps

LEMMA HostStays ==
  ASSUME Ordered, Next, NEW x \in Task, host[x] # None
  PROVE  host'[x] = host[x] /\ host[x] \in SchedId
<1>1. HostStep(x)
  BY HostSteps
<1>2. host[x] \in SchedId
  BY DEF Ordered, Inv, TypeOK
<1>3. \A g \in Group : x \in Range(Members[g]) => host[x] = Args(g)
  BY DEF Ordered, Inv, Hosted
<1> QED  BY <1>1, <1>2, <1>3 DEF HostStep

LEMMA PlacedNext ==
  ASSUME Ordered, Next
  PROVE  Placed'
<1>1. ASSUME NEW x \in Task, host'[x] # None
      PROVE  scheds'[host'[x]].task[x] # "idle"
  <2>1. CASE host'[x] = host[x]
    <3>1. host[x] \in SchedId /\ scheds[host[x]].task[x] # "idle"
      BY <1>1, <2>1 DEF Ordered, Placed, Inv, TypeOK
    <3>2. TaskStep(host[x], x)
      BY <3>1, TaskSteps
    <3> QED  BY <2>1, <3>1, <3>2 DEF TaskStep, Follows
  <2>2. CASE x \in Task \ ({Root} \cup InGroup) /\ Pushes(x) /\ host'[x] = Target(x)
    <3> DEFINE i == Target(x)
               s == scheds[i]
               r == Push(s, x, FALSE)
    <3>1. i \in SchedId /\ scheds' = [scheds EXCEPT ![i] = r] /\ s.task[x] = "idle"
      BY <2>2, PushFacts
    <3>2. scheds'[i] = r /\ Sound(s)
      BY <3>1 DEF Ordered, Inv, TypeOK, AllSound
    <3> HIDE DEF s, i
    <3>3. r.task[x] \in {"queued", "taken"}
      BY <3>1, <3>2, PushAdvances
    <3> QED  BY <2>2, <3>2, <3>3 DEF i
  <2>3. ASSUME NEW g \in Group, NEW id \in SchedId, x \in Range(Members[g]),
               RunCall(id, g), host'[x] = Args(g)
        PROVE  scheds'[host'[x]].task[x] # "idle"
    <3> DEFINE q == CreateWith(Members[g], TRUE, TRUE)
    <3>0. /\ scheds' = [scheds EXCEPT ![id] = CallHandler(scheds[id], g), ![Args(g)] = q]
          /\ Args(g) \in SchedId
      BY <2>3, GroupBegins
    <3>1. scheds'[Args(g)] = q
      BY <3>0 DEF Ordered, Inv, TypeOK
    <3>2. q.task[x] # "idle"
      BY <2>3, MembersOf, CreateWithEffect
    <3> QED  BY <2>3, <3>1, <3>2
  <2>4. HostStep(x)
    BY HostSteps
  <2> QED  BY <2>1, <2>2, <2>3, <2>4 DEF HostStep
<1>2. ASSUME NEW x \in Task \ (InGroup \cup {Root})
      PROVE  host'[x] \in {None, In(Parent[x]), Out(Parent[x])}
  <2>1. HostStep(x) /\ host[x] \in {None, In(Parent[x]), Out(Parent[x])}
    BY HostSteps DEF Ordered, Placed
  <2>2. Pushes(x) => Target(x) \in {In(Parent[x]), Out(Parent[x])}
    BY PushFacts
  <2>3. \A g \in Group : x \notin Range(Members[g])
    BY DEF InGroup
  <2> QED  BY <2>1, <2>2, <2>3 DEF HostStep
<1>3. host'[Root] = None
  <2>1. Root \in Task /\ HostStep(Root) /\ host[Root] = None
    BY SessionAssumption, HostSteps DEF Ordered, Placed
  <2>2. \A g \in Group : Root \notin Range(Members[g])
    BY MembersOf
  <2> QED  BY <2>1, <2>2 DEF HostStep
<1>4. phase'[Root] # "none"
  <2>1. PhaseStep(Root) /\ phase[Root] # "none"
    BY SessionAssumption, PhaseSteps DEF Ordered, Placed
  <2> QED  BY <2>1 DEF PhaseStep
<1>5. ASSUME NEW x \in Action \ {Root}, phase'[x] # "none"
      PROVE  host'[x] # None /\ scheds'[host'[x]].task[x] \in Ran
  <2>0. x \in Task /\ PhaseStep(x)
    BY Ids, PhaseSteps
  <2>1. CASE phase[x] # "none"
    <3>1. host[x] # None /\ scheds[host[x]].task[x] \in Ran
      BY <2>1 DEF Ordered, Placed
    <3>2. host'[x] = host[x] /\ host[x] \in SchedId
      BY <2>0, <3>1, HostStays
    <3>3. TaskStep(host[x], x)
      BY <2>0, <3>2, TaskSteps
    <3> QED  BY <3>1, <3>2, <3>3 DEF TaskStep, Follows, Ran
  <2>2. ASSUME NEW id \in SchedId, x \notin Group, RunCall(id, x)
        PROVE  host'[x] # None /\ scheds'[host'[x]].task[x] \in Ran
    <3>1. host[x] = id
      BY <2>0, <2>2, TakenFacts
    <3>0. host' = host
      BY <2>0, <2>2, SessionBegins
    <3> DEFINE r == CallHandler(scheds[id], x)
    <3>2. scheds' = [scheds EXCEPT ![id] = r]
      BY <2>0, <2>2, SessionBegins
    <3>3. scheds'[id] = r /\ Sound(scheds[id]) /\ scheds[id].task \in [Task -> Status]
      BY <3>2, Fields DEF Ordered, Inv, TypeOK, AllSound
    <3>4. r.task = [scheds[id].task EXCEPT ![x] = "executing"]
      BY <2>0, <3>3, CallHandlerEffect
    <3> HIDE DEF r
    <3>5. r.task[x] = "executing"
      BY <2>0, <3>3, <3>4
    <3> QED  BY <3>0, <3>1, <3>3, <3>5, Ids DEF Ran
  <2> QED  BY <1>5, <2>0, <2>1, <2>2 DEF PhaseStep
<1> QED  BY <1>1, <1>2, <1>3, <1>4, <1>5 DEF Placed

\* A group starts this scheduler.
Restarts(id) == \E g \in Group, i \in SchedId : RunCall(i, g) /\ id = Args(g)

TidyStep(id) ==
  LET s == scheds[id]
      r == scheds'[id]
  IN  /\ Tidy(r)
      /\ FirstFailure(s) => FirstFailure(r)
      /\ ~Restarts(id) => r.strict = s.strict
      /\ ~Restarts(id) /\ s.outcome # "pending" => r.outcome = s.outcome

\* What is settled stays so, unless a call is pushed to it or it is ended
\* while one of its calls is in progress.
LEMMA TidyNext ==
  ASSUME Ordered, Next, NEW id \in SchedId, Tidy(scheds[id]),
         \A x \in Task \ ({Root} \cup InGroup) :
           Pushes(x) /\ Target(x) = id => scheds[id].outcome = "pending",
         \A b \in Action :
           (NormalizeFails(b) \/ Abort(b) \/ Flush(b)) /\ id = Out(b)
             => ~Begun(scheds[id]) \/ scheds[id].outcome # "pending"
  PROVE  TidyStep(id)
<1> DEFINE s == scheds[id]
           r == scheds'[id]
           Goal == /\ Tidy(r)
                   /\ FirstFailure(s) => FirstFailure(r)
                   /\ ~Restarts(id) => r.strict = s.strict
                   /\ ~Restarts(id) /\ s.outcome # "pending" => r.outcome = s.outcome
<1>0. scheds \in [SchedId -> Scheduler] /\ Sound(s)
  BY DEF Ordered, Inv, TypeOK, AllSound
<1>1. r = s => Goal
  OBVIOUS
<1>2. Advances(s, r) => Goal
  <2>1. SUFFICES ASSUME Advances(s, r) PROVE Goal
    OBVIOUS
  <2> HIDE DEF s, r
  <2> QED  BY <2>1, TidyAdvances DEF Advances, s
<1> HIDE DEF Goal, s
<1>3. ASSUME NEW x \in Task \ ({Root} \cup InGroup), Pushes(x)
      PROVE  Goal
  <2>1. /\ Target(x) \in SchedId
        /\ scheds' = [scheds EXCEPT ![Target(x)] = Push(scheds[Target(x)], x, FALSE)]
        /\ scheds[Target(x)].task[x] = "idle"
    BY <1>3, PushFacts
  <2>2. CASE Target(x) = id
    <3>1. s.outcome = "pending" /\ s.task[x] = "idle"
      BY <1>3, <2>1, <2>2 DEF s
    <3> DEFINE p == Push(s, x, FALSE)
    <3>2. r = p
      BY <1>0, <2>1, <2>2 DEF s
    <3>4. /\ p.strict = s.strict
          /\ p.outcome = s.outcome
          /\ p.task[x] \in {"queued", "taken"}
          /\ \A u \in Task \ {x} : \/ p.task[u] = s.task[u]
                                   \/ s.task[u] = "queued" /\ p.task[u] = "taken"
      BY <1>0, <3>1, PushAdvances
    <3> HIDE DEF r, p
    <3>3. /\ r.strict = s.strict
          /\ r.outcome = s.outcome
          /\ r.task[x] \in {"queued", "taken"}
          /\ \A u \in Task \ {x} : \/ r.task[u] = s.task[u]
                                   \/ s.task[u] = "queued" /\ r.task[u] = "taken"
      BY <3>2, <3>4
    <3>5. Tidy(r) /\ (FirstFailure(s) => FirstFailure(r))
      BY <3>1, <3>3 DEF Tidy, FirstFailure
    <3> QED  BY <3>1, <3>3, <3>5 DEF Goal
  <2>3. CASE Target(x) # id
    BY <1>0, <1>1, <2>1, <2>3 DEF s
  <2> QED  BY <2>2, <2>3
<1>4. ASSUME NEW b \in Action, NEW result \in {"ok", "error"}, Ends(b, result)
      PROVE  Goal
  <2>1. scheds' = [scheds EXCEPT ![In(b)] = Resume(scheds[In(b)])] /\ In(b) \in SchedId
    BY <1>4, Ids DEF Ends, OutputSettles
  <2>2. r \in {s, Resume(s)}
    BY <1>0, <2>1 DEF s
  <2> QED  BY <1>0, <1>1, <1>2, <2>2, ResumeAdvances
<1>5. ASSUME NEW b \in Action, TurnsOf(b) \/ Normalize(b) \/ Report(b)
      PROVE  Goal
  BY <1>1, <1>5 DEF TurnsOf, Wake, Sleep, WakeUp, BeginHandler, Await, Normalize, Report, s
<1>6. ASSUME NEW b \in Action, NormalizeFails(b) \/ Abort(b) \/ Flush(b)
      PROVE  Goal
  <2>1. \/ scheds' = scheds
        \/ scheds' = [scheds EXCEPT ![Out(b)] = EndError(scheds[Out(b)])]
    BY <1>6 DEF NormalizeFails, Abort, Flush
  <2>2. r = s \/ (r = EndError(s) /\ id = Out(b))
    BY <1>0, <2>1 DEF s
  <2>3. CASE r = EndError(s) /\ id = Out(b)
    <3>1. ~Begun(s) \/ s.outcome # "pending"
      BY <1>6, <2>3 DEF s
    <3>2. Tidy(s)
      BY DEF s
    <3>3. /\ Tidy(r)
          /\ FirstFailure(s) => FirstFailure(r)
          /\ s.outcome # "pending" => r.outcome = s.outcome
      BY <1>0, <2>3, <3>1, <3>2, TidyEndError
    <3>4. r.strict = s.strict
      BY <1>0, <2>3, EndErrorEffect
    <3> QED  BY <3>3, <3>4 DEF Goal
  <2> QED  BY <1>1, <2>2, <2>3
<1>7. ASSUME NEW b \in Action, Drain(b)
      PROVE  Goal
  <2>1. scheds' = [scheds EXCEPT ![Out(b)] = Resume(scheds[Out(b)])] /\ Out(b) \in SchedId
    BY <1>7, Ids DEF Drain
  <2>2. r \in {s, Resume(s)}
    BY <1>0, <2>1 DEF s
  <2> QED  BY <1>0, <1>1, <1>2, <2>2, ResumeAdvances
<1>8. ASSUME NEW i \in SchedId, RunPump(i)
      PROVE  Goal
  <2>1. /\ scheds' = [scheds EXCEPT ![i] = PumpCallback(scheds[i])]
        /\ scheds[i].loop # << >> /\ Head(scheds[i].loop) = "pump"
    BY <1>8 DEF RunPump
  <2>2. r = s \/ (i = id /\ r = PumpCallback(s))
    BY <1>0, <2>1 DEF s
  <2>3. CASE i = id /\ r = PumpCallback(s)
    <3>1. s.loop # << >> /\ Head(s.loop) = "pump"
      BY <2>1, <2>3 DEF s
    <3>2. Advances(s, r)
      BY <1>0, <2>3, <3>1, PumpCallbackAdvances
    <3> QED  BY <1>2, <3>2
  <2> QED  BY <1>1, <2>2, <2>3
<1>9. ASSUME NEW i \in SchedId, NEW x \in Task, RunCall(i, x)
      PROVE  Goal
  <2>0. scheds[i].task[x] = "taken"
    BY <1>9, TakenFacts
  <2>1. \/ r = s
        \/ i = id /\ r = CallHandler(s, x)
        \/ x \in Group /\ id = Args(x) /\ r = CreateWith(Members[x], TRUE, TRUE)
    <3>1. CASE x \in Group
      <4>1. /\ scheds' = [scheds EXCEPT ![i] = CallHandler(scheds[i], x),
                                        ![Args(x)] = CreateWith(Members[x], TRUE, TRUE)]
            /\ i # Args(x)
            /\ Args(x) \in SchedId
        BY <1>9, <3>1, GroupBegins
      <4> QED  BY <1>0, <3>1, <4>1 DEF s
    <3>2. CASE x \notin Group
      <4>1. scheds' = [scheds EXCEPT ![i] = CallHandler(scheds[i], x)]
        BY <1>9, <3>2, SessionBegins
      <4> QED  BY <1>0, <4>1 DEF s
    <3> QED  BY <3>1, <3>2
  <2>2. CASE i = id /\ r = CallHandler(s, x)
    <3>1. s.task[x] = "taken" /\ Tidy(s)
      BY <2>0, <2>2 DEF s
    <3>2. /\ Tidy(r)
          /\ FirstFailure(s) => FirstFailure(r)
          /\ r.strict = s.strict
          /\ r.outcome = s.outcome
      BY <1>0, <2>2, <3>1, TidyCalls
    <3> QED  BY <3>2 DEF Goal
  <2>3. CASE x \in Group /\ id = Args(x) /\ r = CreateWith(Members[x], TRUE, TRUE)
    <3>1. Tidy(r) /\ FirstFailure(r)
      BY <2>3, MembersOf, CreateWithEffect
    <3>2. Restarts(id)
      BY <1>9, <2>3 DEF Restarts
    <3> QED  BY <3>1, <3>2 DEF Goal
  <2> QED  BY <1>1, <2>1, <2>2, <2>3
<1>10. ASSUME NEW x \in Task, SettleCall(x)
       PROVE  Goal
  <2>1. /\ scheds[host[x]].task[x] = "executing"
        /\ scheds' = [scheds EXCEPT ![host[x]] =
                         IF WentWell(x) THEN HandlerFulfilled(scheds[host[x]], x)
                                        ELSE HandlerRejected(scheds[host[x]], x, FALSE)]
    BY <1>10, SettleFacts
  <2>2. \/ r = s
        \/ host[x] = id /\ r \in {HandlerFulfilled(s, x), HandlerRejected(s, x, FALSE)}
    BY <1>0, <2>1 DEF s
  <2>3. CASE host[x] = id /\ r \in {HandlerFulfilled(s, x), HandlerRejected(s, x, FALSE)}
    <3>1. s.task[x] = "executing" /\ Tidy(s)
      BY <2>1, <2>3 DEF s
    <3> HIDE DEF r
    <3>2. /\ s.outcome = "pending"
          /\ Tidy(r)
          /\ FirstFailure(s) => FirstFailure(r)
          /\ r.strict = s.strict
      BY <1>0, <2>3, <3>1, TidySettles
    <3> QED  BY <3>2 DEF Goal
  <2> QED  BY <1>1, <2>2, <2>3
<1>11. Goal
  BY <1>3, <1>4, <1>5, <1>6, <1>7, <1>8, <1>9, <1>10, Steps
<1> QED  BY <1>11 DEF Goal, s, TidyStep

LEMMA GroupNext ==
  ASSUME Ordered, Next, NEW g \in Group
  PROVE  GroupRow(g)'
<1> DEFINE A == scheds[Args(g)]
<1>0. /\ Args(g) \in SchedId /\ g \in Task
      /\ GroupRow(g)
      /\ Range(Members[g]) \subseteq Task
  BY Ids, MembersOf DEF Ordered
<1>1. /\ Tidy(scheds'[Args(g)]) /\ FirstFailure(scheds'[Args(g)])
      /\ (\A i \in SchedId : ~RunCall(i, g)) /\ A.outcome # "pending"
           => scheds'[Args(g)].outcome = A.outcome
  <2>1. \A x \in Task \ ({Root} \cup InGroup) : Pushes(x) => Target(x) # Args(g)
    <3> SUFFICES ASSUME NEW x \in Task \ ({Root} \cup InGroup), Pushes(x)
                 PROVE  Target(x) # Args(g)
      OBVIOUS
    <3>1. Parent[x] \in Action /\ Target(x) \in {In(Parent[x]), Out(Parent[x])}
      BY PushFacts
    <3> QED  BY <3>1, Apart
  <2>2. \A b \in Action : Args(g) # Out(b)
    BY Apart
  <2>3. TidyStep(Args(g))
    BY <1>0, <2>1, <2>2, TidyNext DEF GroupRow
  <2>4. Restarts(Args(g)) => \E i \in SchedId : RunCall(i, g)
    BY Apart DEF Restarts
  <2>5. FirstFailure(A)
    BY <1>0 DEF GroupRow
  <2> QED  BY <2>3, <2>4, <2>5 DEF TidyStep
<1>2. ASSUME NEW y \in Range(Members[g]), NEW z \in Range(Members[g]), host'[y] # None
      PROVE  host'[z] # None
  <2>1. y \in Task /\ z \in Task /\ y \in InGroup
    BY <1>0 DEF InGroup
  <2>2. CASE host'[y] = host[y]
    BY <1>0, <1>2, <2>1, <2>2, HostStays DEF GroupRow
  <2>3. ASSUME NEW h \in Group, NEW id \in SchedId, y \in Range(Members[h]), RunCall(id, h)
        PROVE  host'[z] # None
    <3>1. h = g
      BY <2>3, MembersOf
    <3>2. /\ host' = [t \in Task |-> IF t \in Range(Members[h]) THEN Args(h) ELSE host[t]]
          /\ Args(h) \in SchedId
      BY <2>3, GroupBegins
    <3> QED  BY <2>1, <3>1, <3>2, Ids
  <2> QED  BY <2>1, <2>2, <2>3, HostSteps DEF HostStep
<1>3. ASSUME host'[g] # None, CallStatus(g)' \in Ran, NEW y \in Range(Members[g])
      PROVE  host'[y] # None
  <2> DEFINE j == host'[g]
  <2>1. j \in SchedId /\ scheds'[j].task[g] \in Ran
    <3>1. TypeOK'
      BY InvNext DEF Ordered, Inv
    <3>2. j \in SchedId
      BY <1>0, <1>3, <3>1 DEF TypeOK
    <3> QED  BY <1>3, <3>2 DEF CallStatus
  <2>2. TaskStep(j, g)
    BY <1>0, <2>1, TaskSteps
  <2>3. CASE scheds[j].task[g] \in Ran
    <3>1. host[g] = j /\ host[g] # None
      BY <1>0, <2>1, <2>3, Ids DEF Ordered, Inv, Hosted, Ran
    <3>2. host[y] # None
      BY <1>0, <2>3, <3>1 DEF GroupRow, CallStatus
    <3> QED  BY <1>0, <3>2, HostStays
  <2>4. CASE RunCall(j, g)
    <3>1. /\ host' = [t \in Task |-> IF t \in Range(Members[g]) THEN Args(g) ELSE host[t]]
          /\ Args(g) \in SchedId
      BY <2>1, <2>4, GroupBegins
    <3> QED  BY <1>0, <3>1, Ids
  <2> QED  BY <2>1, <2>2, <2>3, <2>4 DEF TaskStep, Follows, Ran
<1>4. ASSUME CallStatus(g)' = "fulfilled"
      PROVE  scheds'[Args(g)].outcome = "fulfilled"
  <2> DEFINE j == host'[g]
  <2>1. j \in SchedId /\ scheds'[j].task[g] = "fulfilled"
    <3>1. TypeOK' /\ host'[g] # None
      BY <1>4, InvNext DEF Ordered, Inv, CallStatus
    <3>2. j \in SchedId
      BY <1>0, <3>1 DEF TypeOK
    <3> QED  BY <1>4, <3>2, Ids DEF CallStatus
  <2>2. TaskStep(j, g)
    BY <1>0, <2>1, TaskSteps
  <2>3. scheds[j].task[g] \in {"fulfilled", "executing"} /\ A.outcome = "fulfilled"
    <3>1. CASE scheds[j].task[g] = "fulfilled"
      <4>1. host[g] = j /\ host[g] # None
        BY <1>0, <2>1, <3>1, Ids DEF Ordered, Inv, Hosted
      <4> QED  BY <1>0, <3>1, <4>1 DEF GroupRow, CallStatus
    <3>2. CASE scheds[j].task[g] = "executing" /\ WentWell(g)
      BY <3>2 DEF WentWell, Group
    <3> QED  BY <2>1, <2>2, <3>1, <3>2 DEF TaskStep, Follows
  <2>4. \A i \in SchedId : ~RunCall(i, g)
    <3> SUFFICES ASSUME NEW i \in SchedId, RunCall(i, g) PROVE FALSE
      OBVIOUS
    <3>1. host[g] = i /\ scheds[i].task[g] = "taken"
      BY <1>0, TakenFacts
    <3>2. host[g] = j
      BY <1>0, <2>1, <2>3 DEF Ordered, Inv, Hosted
    <3> QED  BY <2>3, <3>1, <3>2
  <2> QED  BY <1>1, <2>3, <2>4
<1>5. ASSUME CallStatus(g)' = "failed"
      PROVE  scheds'[Args(g)].outcome # "pending"
  <2> DEFINE j == host'[g]
  <2>1. j \in SchedId /\ scheds'[j].task[g] = "failed"
    <3>1. TypeOK' /\ host'[g] # None
      BY <1>5, InvNext DEF Ordered, Inv, CallStatus
    <3>2. j \in SchedId
      BY <1>0, <3>1 DEF TypeOK
    <3> QED  BY <1>5, <3>2, Ids DEF CallStatus
  <2>2. TaskStep(j, g)
    BY <1>0, <2>1, TaskSteps
  <2>3. scheds[j].task[g] \in {"failed", "executing"} /\ A.outcome # "pending"
    <3>1. CASE scheds[j].task[g] = "failed"
      <4>1. host[g] = j /\ host[g] # None
        BY <1>0, <2>1, <3>1, Ids DEF Ordered, Inv, Hosted
      <4> QED  BY <1>0, <3>1, <4>1 DEF GroupRow, CallStatus
    <3>2. CASE scheds[j].task[g] = "executing" /\ SettleCall(g)
      BY <3>2 DEF SettleCall, SettleDue, Over, Group
    <3> QED  BY <2>1, <2>2, <3>1, <3>2 DEF TaskStep, Follows
  <2>4. \A i \in SchedId : ~RunCall(i, g)
    <3> SUFFICES ASSUME NEW i \in SchedId, RunCall(i, g) PROVE FALSE
      OBVIOUS
    <3>1. host[g] = i /\ scheds[i].task[g] = "taken"
      BY <1>0, TakenFacts
    <3>2. host[g] = j
      BY <1>0, <2>1, <2>3 DEF Ordered, Inv, Hosted
    <3> QED  BY <2>3, <3>1, <3>2
  <2> QED  BY <1>1, <2>3, <2>4
<1> QED  BY <1>1, <1>2, <1>3, <1>4, <1>5 DEF GroupRow

-----------------------------------------------------------------------------
(* Nothing of `out` runs before the action is flushed.                     *)
LEMMA OutTidy ==
  ASSUME Ordered, Next, ~Late, NEW a \in Action
  PROVE  LET s == scheds[Out(a)]
             r == scheds'[Out(a)]
         IN  /\ Tidy(r) /\ FirstFailure(r)
             /\ s.outcome # "pending" => r.outcome = s.outcome
<1>0. Out(a) \in SchedId /\ OutRow(a)
  BY Ids DEF Ordered
<1>1. ASSUME NEW x \in Task \ ({Root} \cup InGroup), Pushes(x), Target(x) = Out(a)
      PROVE  scheds[Out(a)].outcome = "pending"
  <2>1. /\ Parent[x] \in Action
        /\ Target(x) \in {In(Parent[x]), Out(Parent[x])}
        /\ Target(x) = Out(Parent[x]) => Parent[x] = Root /\ phase[Root] = "normalizing"
    BY <1>1, PushFacts
  <2>2. a = Root /\ phase[a] = "normalizing"
    BY <1>1, <2>1, Apart
  <2> QED  BY <1>0, <2>2 DEF OutRow
<1>2. ASSUME NEW b \in Action, NormalizeFails(b) \/ Abort(b) \/ Flush(b), Out(a) = Out(b)
      PROVE  ~Begun(scheds[Out(a)]) \/ scheds[Out(a)].outcome # "pending"
  <2>1. a = b
    BY <1>2, Apart
  <2> QED  BY <1>0, <1>2, <2>1 DEF OutRow, NormalizeFails, Abort, AbortDue, Flush, FlushDue
<1>3. TidyStep(Out(a))
  BY <1>0, <1>1, <1>2, TidyNext DEF OutRow
<1>4. ~Restarts(Out(a))
  BY Apart DEF Restarts
<1> QED  BY <1>0, <1>3, <1>4 DEF TidyStep, OutRow

\* A call in progress in `out` tells that the action is flushed.
LEMMA OutFlushing ==
  ASSUME Ordered, ~Late, NEW a \in Action, NEW t \in Task,
         scheds[Out(a)].task[t] \in {"taken", "executing"}
  PROVE  phase[a] = "flushing" /\ hand[a] = "over" /\ Begun(scheds[Out(a)])
<1> DEFINE s == scheds[Out(a)]
<1>1. OutRow(a) /\ Stage(a)
  BY DEF Ordered
<1>2. Begun(s) /\ ~Untouched(s) /\ ~Emptied(s)
  BY DEF Begun, Untouched, Emptied, Settled
<1>3. s.outcome = "pending"
  BY <1>1, <1>2 DEF OutRow, Tidy
<1> HIDE DEF s
<1>4. phase[a] \notin {"none", "normalizing", "handling", "reporting", "fulfilled", "rejected"}
  BY <1>1, <1>2, <1>3 DEF OutRow, s
<1>5. phase[a] \in Phase
  BY DEF Ordered, Inv, TypeOK
<1> QED  BY <1>1, <1>2, <1>4, <1>5 DEF OutRow, Phase, s

LEMMA OutNext ==
  ASSUME Ordered, Next, ~Late, NEW a \in Action
  PROVE  /\ OutRow(a)'
         /\ Begun(scheds'[Out(a)]) => \/ Begun(scheds[Out(a)])
                                      \/ phase[a] = "flushing"
                                      \/ Drain(a)
<1> DEFINE s == scheds[Out(a)]
           r == scheds'[Out(a)]
           Rest == /\ phase'[a] = "none" => Untouched(r)
                   /\ phase'[a] \in {"none", "normalizing", "handling"} =>
                        r.paused /\ r.loop = << >> /\ r.outcome = "pending" /\ ~Begun(r)
                   /\ phase'[a] \in {"reporting", "fulfilled", "rejected"} =>
                        r.outcome # "pending" \/ Untouched(r)
                   /\ (phase'[a] \in {"reporting", "fulfilled"} /\ output'[a] = "ok")
                        => r.outcome = "fulfilled"
                   /\ Begun(r) => hand'[a] = "over"
                   /\ Begun(r) => Begun(s) \/ phase[a] = "flushing" \/ Drain(a)
<1>0. /\ Out(a) \in SchedId /\ OutRow(a) /\ Stage(a) /\ TypeOK
      /\ Sound(s)
  BY Ids DEF Ordered, Inv, AllSound
<1>1. /\ Tidy(r) /\ FirstFailure(r)
      /\ s.outcome # "pending" => r.outcome = s.outcome
  BY OutTidy
<1>2. (r = s /\ phase'[a] = phase[a] /\ hand'[a] = hand[a] /\ output'[a] = output[a]) => Rest
  BY <1>0 DEF OutRow
<1>3. ASSUME NEW x \in Task \ ({Root} \cup InGroup), Pushes(x)
      PROVE  Rest
  <2>1. /\ Parent[x] \in Action
        /\ Target(x) \in {In(Parent[x]), Out(Parent[x])}
        /\ Target(x) \in SchedId
        /\ Target(x) = Out(Parent[x]) => Parent[x] = Root /\ phase[Root] = "normalizing"
        /\ scheds' = [scheds EXCEPT ![Target(x)] = Push(scheds[Target(x)], x, FALSE)]
        /\ scheds[Target(x)].task[x] = "idle"
    BY <1>3, PushFacts
  <2>2. UNCHANGED <<phase, hand, output>>
    BY <1>3 DEF Pushes
  <2>3. CASE Target(x) # Out(a)
    <3>1. r = s
      BY <1>0, <2>1, <2>3 DEF TypeOK
    <3> QED  BY <1>2, <2>2, <3>1
  <2>4. CASE Target(x) = Out(a)
    <3> DEFINE p == Push(s, x, FALSE)
    <3>1. phase[a] = "normalizing"
      BY <2>1, <2>4, Apart
    <3>2. r = p /\ s.task[x] = "idle"
      BY <1>0, <2>1, <2>4 DEF TypeOK
    <3>3. s.paused /\ s.loop = << >> /\ s.outcome = "pending" /\ ~Begun(s)
      BY <1>0, <3>1 DEF OutRow
    <3>4. s.task \in [Task -> Status]
      BY <1>0, Fields DEF Sound
    <3> HIDE DEF s, r
    <3>5. /\ p.outcome = s.outcome
          /\ p.paused /\ p.loop = s.loop
          /\ p.task = [s.task EXCEPT ![x] = "queued"]
      BY <1>0, <3>2, <3>3, PushPaused
    <3> HIDE DEF p
    <3>6. ~Begun(r)
      BY <3>2, <3>3, <3>4, <3>5 DEF Begun
    <3> QED  BY <2>2, <3>1, <3>2, <3>3, <3>5, <3>6
  <2> QED  BY <2>3, <2>4
<1>4. ASSUME NEW b \in Action, NEW result \in {"ok", "error"}, Ends(b, result)
      PROVE  Rest
  <2>1. r = s /\ phase' = phase
    BY <1>0, <1>4, Apart DEF Ends, OutputSettles, TypeOK
  <2>2. CASE a # b
    BY <1>0, <1>2, <1>4, <2>1, <2>2 DEF Ends, OutputSettles, TypeOK
  <2>3. CASE a = b
    <3>1. phase[a] = "handling" /\ hand'[a] = "over"
      BY <1>0, <1>4, <2>3 DEF Ends, OutputSettles, Stage, TypeOK
    <3> QED  BY <1>0, <2>1, <3>1 DEF OutRow
  <2> QED  BY <2>2, <2>3
<1>5. ASSUME NEW b \in Action, TurnsOf(b)
      PROVE  Rest
  <2>1. r = s /\ phase' = phase /\ output' = output
    BY <1>5 DEF TurnsOf, Wake, Sleep, WakeUp, BeginHandler, Await
  <2>2. CASE a # b
    <3>1. hand'[a] = hand[a]
      BY <1>0, <1>5, <2>2 DEF TurnsOf, Wake, Sleep, WakeUp, BeginHandler, Await, TypeOK
    <3> QED  BY <1>2, <2>1, <3>1
  <2>3. CASE a = b
    <3>1. hand[a] \in {"await", "control", "sleep", "hooks"}
      BY <1>5, <2>3 DEF TurnsOf, Wake, WakeDue, Sleep, WakeUp, BeginHandler, Await
    <3>2. phase[a] = "handling"
      BY <1>0, <3>1 DEF Stage
    <3> QED  BY <1>0, <2>1, <3>2 DEF OutRow
  <2> QED  BY <2>2, <2>3
<1>6. ASSUME NEW b \in Action, Normalize(b)
      PROVE  Rest
  <2>1. r = s /\ output' = output
    BY <1>6 DEF Normalize
  <2>2. CASE a # b
    BY <1>0, <1>2, <1>6, <2>1, <2>2 DEF Normalize, TypeOK
  <2>3. CASE a = b
    BY <1>0, <1>6, <2>1, <2>3 DEF Normalize, TypeOK, OutRow
  <2> QED  BY <2>2, <2>3
<1>7. ASSUME NEW b \in Action, Report(b)
      PROVE  Rest
  <2>1. r = s /\ output' = output /\ hand' = hand
    BY <1>7 DEF Report
  <2>2. CASE a # b
    BY <1>0, <1>2, <1>7, <2>1, <2>2 DEF Report, TypeOK
  <2>3. CASE a = b
    <3>1. /\ phase[a] = "reporting"
          /\ phase'[a] \in {"fulfilled", "rejected"}
          /\ phase'[a] = "fulfilled" => output[a] = "ok"
      BY <1>0, <1>7, <2>3 DEF Report, TypeOK
    <3> QED  BY <1>0, <2>1, <3>1 DEF OutRow
  <2> QED  BY <2>2, <2>3
<1>8. ASSUME NEW b \in Action, NormalizeFails(b) \/ Abort(b) \/ Flush(b)
      PROVE  Rest
  <2>1. hand' = hand
    BY <1>8 DEF NormalizeFails, Abort, Flush
  <2>2. CASE a # b
    <3>1. r = s
      BY <1>0, <1>8, <2>2, Apart DEF NormalizeFails, Abort, Flush, TypeOK
    <3>2. phase'[a] = phase[a] /\ output'[a] = output[a]
      BY <1>0, <1>8, <2>2 DEF NormalizeFails, Abort, Flush, TypeOK
    <3> QED  BY <1>2, <2>1, <3>1, <3>2
  <2>3. CASE a = b /\ r = EndError(s) /\ ~(phase'[a] = "reporting" /\ output'[a] = "ok")
    <3>1. phase'[a] \in {"reporting", "rejected"}
      BY <1>0, <1>8, <2>3 DEF NormalizeFails, Abort, Flush, TypeOK
    <3>2. ~Begun(s) \/ s.outcome # "pending"
      BY <1>0, <1>8, <2>3 DEF OutRow, NormalizeFails, Abort, AbortDue, Flush, FlushDue
    <3>3. Tidy(s)
      BY <1>0 DEF OutRow
    <3> HIDE DEF s, r
    <3>4. r.outcome # "pending" /\ (Begun(r) => Begun(s))
      BY <1>0, <2>3, <3>2, <3>3, TidyEndError
    <3>5. Begun(s) => hand[a] = "over"
      BY <1>0 DEF OutRow, s
    <3> QED  BY <2>1, <2>3, <3>1, <3>4, <3>5
  <2>4. CASE a = b /\ Flush(a) /\ s.outcome = "fulfilled"
    <3>1. phase'[a] = "reporting" /\ r = s
      BY <1>0, <2>4 DEF Flush, TypeOK
    <3> QED  BY <1>0, <2>1, <2>4, <3>1 DEF OutRow
  <2>5. a = b => (r = EndError(s) /\ ~(phase'[a] = "reporting" /\ output'[a] = "ok"))
                   \/ (Flush(a) /\ s.outcome = "fulfilled")
    BY <1>0, <1>8 DEF NormalizeFails, Abort, AbortDue, Flush, TypeOK
  <2> QED  BY <2>2, <2>3, <2>4, <2>5
<1>9. ASSUME NEW b \in Action, Drain(b)
      PROVE  Rest
  <2>1. hand' = hand /\ output' = output
    BY <1>9 DEF Drain
  <2>2. CASE a # b
    <3>1. r = s /\ phase'[a] = phase[a]
      BY <1>0, <1>9, <2>2, Apart DEF Drain, TypeOK
    <3> QED  BY <1>2, <2>1, <3>1
  <2>3. CASE a = b
    <3>1. phase'[a] = "flushing" /\ hand[a] = "over"
      BY <1>0, <1>9, <2>3 DEF Drain, DrainDue, Stage, TypeOK
    <3> QED  BY <1>9, <2>1, <2>3, <3>1
  <2> QED  BY <2>2, <2>3
<1>10. ASSUME NEW id \in SchedId, RunPump(id)
       PROVE  Rest
  <2>1. /\ UNCHANGED <<phase, hand, output>>
        /\ scheds' = [scheds EXCEPT ![id] = PumpCallback(scheds[id])]
        /\ scheds[id].loop # << >> /\ Head(scheds[id].loop) = "pump"
    BY <1>10 DEF RunPump
  <2>2. CASE id # Out(a)
    <3>1. r = s
      BY <1>0, <2>1, <2>2 DEF TypeOK
    <3> QED  BY <1>2, <2>1, <3>1
  <2>3. CASE id = Out(a)
    <3>1. r = PumpCallback(s) /\ s.loop # << >> /\ Head(s.loop) = "pump"
      BY <1>0, <2>1, <2>3 DEF TypeOK
    <3>2. phase[a] \notin {"none", "normalizing", "handling"}
      BY <1>0, <3>1 DEF OutRow
    <3>3. /\ Tidy(s)
          /\ phase[a] \in {"reporting", "fulfilled", "rejected"}
               => s.outcome # "pending" \/ Untouched(s)
          /\ (phase[a] \in {"reporting", "fulfilled"} /\ output[a] = "ok")
               => s.outcome = "fulfilled"
          /\ Begun(s) => hand[a] = "over"
          /\ phase[a] = "flushing" => hand[a] = "over"
          /\ phase[a] \in Phase
      BY <1>0 DEF OutRow, Stage, TypeOK
    <3> HIDE DEF s, r
    <3>4. Advances(s, r)
      BY <1>0, <3>1, PumpCallbackAdvances
    <3>5. /\ Begun(r) => Begun(s) \/ s.outcome = "pending"
          /\ Untouched(s) => Untouched(r)
      BY <3>3, <3>4, TidyAdvances DEF Advances, Untouched
    <3>6. Untouched(r) => ~Begun(r)
      BY DEF Untouched, Begun
    <3> QED  BY <1>1, <2>1, <3>2, <3>3, <3>5, <3>6 DEF Phase
  <2> QED  BY <2>2, <2>3
<1>11. ASSUME NEW id \in SchedId, NEW x \in Task, RunCall(id, x)
       PROVE  Rest
  <2>1. /\ scheds[id].task[x] = "taken"
        /\ x \in Action => phase[x] = "none"
        /\ UNCHANGED <<hand, output>>
    BY <1>11, TakenFacts
  <2>2. \/ phase'[a] = phase[a]
        \/ (x = a /\ phase[a] = "none" /\ phase'[a] \in {"normalizing", "rejected"})
    <3>1. CASE x \in Group
      BY <1>11, <3>1, GroupBegins
    <3>2. CASE x \notin Group
      <4>1. x \in Action /\ \E v \in {"normalizing", "rejected"} : phase' = [phase EXCEPT ![x] = v]
        BY <1>11, <3>2, SessionBegins
      <4> QED  BY <1>0, <2>1, <4>1 DEF TypeOK
    <3> QED  BY <3>1, <3>2
  <2>3. CASE id = Out(a)
    <3>1. phase[a] = "flushing" /\ hand[a] = "over" /\ Begun(s)
      BY <2>1, <2>3, OutFlushing
    <3> QED  BY <2>1, <2>2, <3>1
  <2>4. CASE id # Out(a)
    <3>1. r = s
      <4>1. CASE x \in Group
        <5>1. /\ scheds' = [scheds EXCEPT ![id] = CallHandler(scheds[id], x),
                                     ![Args(x)] = CreateWith(Members[x], TRUE, TRUE)]
              /\ Args(x) # Out(a)
          BY <1>11, <4>1, GroupBegins, Apart
        <5> QED  BY <1>0, <2>4, <5>1 DEF TypeOK
      <4>2. CASE x \notin Group
        <5>1. scheds' = [scheds EXCEPT ![id] = CallHandler(scheds[id], x)]
          BY <1>11, <4>2, SessionBegins
        <5> QED  BY <1>0, <2>4, <5>1 DEF TypeOK
      <4> QED  BY <4>1, <4>2
    <3>2. CASE phase'[a] = phase[a]
      BY <1>2, <2>1, <3>1, <3>2
    <3>3. CASE phase[a] = "none" /\ phase'[a] \in {"normalizing", "rejected"}
      BY <1>0, <2>1, <3>1, <3>3 DEF OutRow
    <3> QED  BY <2>2, <3>2, <3>3
  <2> QED  BY <2>3, <2>4
<1>12. ASSUME NEW x \in Task, SettleCall(x)
       PROVE  Rest
  <2>1. /\ UNCHANGED <<phase, hand, output>>
        /\ scheds[host[x]].task[x] = "executing"
        /\ scheds' = [scheds EXCEPT ![host[x]] =
                         IF WentWell(x) THEN HandlerFulfilled(scheds[host[x]], x)
                                        ELSE HandlerRejected(scheds[host[x]], x, FALSE)]
    BY <1>12, SettleFacts
  <2>2. CASE host[x] # Out(a)
    <3>1. r = s
      BY <1>0, <2>1, <2>2 DEF TypeOK
    <3> QED  BY <1>2, <2>1, <3>1
  <2>3. CASE host[x] = Out(a)
    <3>1. phase[a] = "flushing" /\ hand[a] = "over"
      BY <2>1, <2>3, OutFlushing
    <3> QED  BY <2>1, <3>1
  <2> QED  BY <2>2, <2>3
<1> HIDE DEF Rest
<1>13. Rest
  BY <1>3, <1>4, <1>5, <1>6, <1>7, <1>8, <1>9, <1>10, <1>11, <1>12, Steps
<1> QED  BY <1>1, <1>13 DEF Rest, OutRow

-----------------------------------------------------------------------------
(* `in` ends after the handler, which holds it back while it awaits.       *)
LEMMA InTidy ==
  ASSUME Ordered, Next, ~Late, Sleeping = {}, NEW a \in Action
  PROVE  LET s == scheds[In(a)]
             r == scheds'[In(a)]
         IN  /\ Tidy(r) /\ ~r.strict
             /\ s.outcome # "pending" => r.outcome = s.outcome
<1>0. In(a) \in SchedId /\ InRow(a)
  BY Ids DEF Ordered
<1>1. ASSUME NEW x \in Task \ ({Root} \cup InGroup), Pushes(x), Target(x) = In(a)
      PROVE  scheds[In(a)].outcome = "pending"
  <2>1. /\ Parent[x] \in Action
        /\ Target(x) \in {In(Parent[x]), Out(Parent[x])}
        /\ Target(x) = In(Parent[x]) => hand[Parent[x]] = "control"
    BY <1>1, PushFacts
  <2>2. hand[a] = "control"
    BY <1>1, <2>1, Apart
  <2> QED  BY <1>0, <2>2 DEF InRow
<1>2. \A b \in Action : In(a) # Out(b)
  BY Apart
<1>3. TidyStep(In(a))
  BY <1>0, <1>1, <1>2, TidyNext DEF InRow
<1>4. ~Restarts(In(a))
  BY Apart DEF Restarts
<1> QED  BY <1>0, <1>3, <1>4 DEF TidyStep, InRow

LEMMA InNext ==
  ASSUME Ordered, Next, ~Late, Sleeping = {}, NEW a \in Action
  PROVE  InRow(a)'
<1> DEFINE s == scheds[In(a)]
           r == scheds'[In(a)]
           Same == /\ phase'[a] = phase[a] /\ hand'[a] = hand[a]
                   /\ output'[a] = output[a] /\ awaits'[a] = awaits[a]
           Rest == /\ r.outcome \in {"pending", "fulfilled"}
                   /\ hand'[a] # "sleep"
                   /\ hand'[a] \in {"none", "hooks"} => Untouched(r) /\ r.loop = << >>
                   /\ hand'[a] # "over" => r.outcome = "pending"
                   /\ hand'[a] = "await" => awaits'[a] \in Task /\ host'[awaits'[a]] = In(a)
                   /\ phase'[a] \in {"flushing", "fulfilled"} => r.outcome = "fulfilled"
                   /\ phase'[a] = "reporting" /\ output'[a] = "ok" => r.outcome = "fulfilled"
<1>0. /\ In(a) \in SchedId /\ In(a) # None
      /\ InRow(a) /\ Stage(a) /\ TypeOK /\ Sound(s)
  BY Ids DEF Ordered, Inv, AllSound
<1>1. /\ Tidy(r) /\ ~r.strict
      /\ s.outcome # "pending" => r.outcome = s.outcome
  BY InTidy
<1>2. ASSUME Same, r.outcome = s.outcome, hand[a] \in {"none", "hooks"} => r = s
      PROVE  Rest
  <2>1. hand[a] = "await" => host'[awaits[a]] = In(a)
    BY <1>0, HostStays DEF InRow
  <2> QED  BY <1>0, <1>2, <2>1 DEF InRow
<1>3. ASSUME NEW x \in Task \ ({Root} \cup InGroup), Pushes(x)
      PROVE  Rest
  <2>1. /\ Parent[x] \in Action
        /\ Target(x) \in {In(Parent[x]), Out(Parent[x])}
        /\ Target(x) \in SchedId
        /\ Target(x) = In(Parent[x]) => hand[Parent[x]] = "control"
        /\ scheds' = [scheds EXCEPT ![Target(x)] = Push(scheds[Target(x)], x, FALSE)]
        /\ scheds[Target(x)].task[x] = "idle"
    BY <1>3, PushFacts
  <2>2. Same
    BY <1>3 DEF Pushes
  <2>3. CASE Target(x) # In(a)
    <3>1. r = s
      BY <1>0, <2>1, <2>3 DEF TypeOK
    <3> QED  BY <1>2, <2>2, <3>1
  <2>4. CASE Target(x) = In(a)
    <3> DEFINE p == Push(s, x, FALSE)
    <3>1. hand[a] = "control"
      BY <2>1, <2>4, Apart
    <3>2. r = p /\ s.task[x] = "idle"
      BY <1>0, <2>1, <2>4 DEF TypeOK
    <3>0. Sound(s) /\ x \in Task /\ s.task[x] = "idle"
      BY <1>0, <3>2
    <3> HIDE DEF s, r, Same, Rest
    <3>3. /\ p.strict = s.strict
          /\ p.outcome = s.outcome
          /\ p.task[x] \in {"queued", "taken"}
          /\ \A u \in Task \ {x} : \/ p.task[u] = s.task[u]
                                   \/ s.task[u] = "queued" /\ p.task[u] = "taken"
      BY <3>0, PushAdvances
    <3> HIDE DEF p, Same, Rest
    <3>4. r.outcome = s.outcome
      BY <3>2, <3>3
    <3> QED  BY <1>2, <2>2, <3>1, <3>4
  <2> QED  BY <2>3, <2>4
<1>4. ASSUME NEW b \in Action, NEW result \in {"ok", "error"}, Ends(b, result)
      PROVE  Rest
  <2>1. phase' = phase /\ scheds' = [scheds EXCEPT ![In(b)] = Resume(scheds[In(b)])]
    BY <1>4 DEF Ends, OutputSettles
  <2>2. CASE a # b
    <3>1. Same
      BY <1>0, <1>4, <2>2 DEF Ends, OutputSettles, TypeOK
    <3>2. r = s
      BY <1>0, <2>1, <2>2, Apart DEF TypeOK
    <3> QED  BY <1>2, <3>1, <3>2
  <2>3. CASE a = b
    <3>1. phase[a] = "handling" /\ hand'[a] = "over" /\ hand[a] # "over"
      BY <1>0, <1>4, <2>3 DEF Ends, OutputSettles, Stage, TypeOK
    <3>2. s.outcome = "pending"
      BY <1>0, <3>1 DEF InRow
    <3>3. r = Resume(s)
      BY <1>0, <2>1, <2>3 DEF TypeOK
    <3> HIDE DEF s, r
    <3>4. Advances(s, r)
      BY <1>0, <3>3, ResumeAdvances
    <3> QED  BY <2>1, <3>1, <3>2, <3>4 DEF Advances
  <2> QED  BY <2>2, <2>3
<1>5. ASSUME NEW b \in Action, TurnsOf(b)
      PROVE  Rest
  <2>1. r = s /\ phase' = phase /\ output' = output /\ host' = host
    BY <1>5 DEF TurnsOf, Wake, Sleep, WakeUp, BeginHandler, Await
  <2>2. CASE a # b
    <3>1. Same
      BY <1>0, <1>5, <2>2 DEF TurnsOf, Wake, Sleep, WakeUp, BeginHandler, Await, TypeOK
    <3> QED  BY <1>2, <2>1, <3>1
  <2>3. CASE a = b
    <3>1. /\ hand[a] \in {"await", "control", "hooks"}
          /\ hand'[a] \in {"await", "control"}
          /\ hand'[a] = "await" => awaits'[a] \in Task /\ host[awaits'[a]] = In(a)
      BY <1>0, <1>5, <2>3 DEF TurnsOf, Wake, WakeDue, Sleep, WakeUp, BeginHandler, Await,
                              Called, TypeOK, InRow
    <3>2. phase[a] = "handling" /\ s.outcome = "pending"
      BY <1>0, <3>1 DEF Stage, InRow
    <3> QED  BY <2>1, <3>1, <3>2
  <2> QED  BY <2>2, <2>3
<1>6. ASSUME NEW b \in Action, Normalize(b)
      PROVE  Rest
  <2>1. r = s
    BY <1>6 DEF Normalize
  <2>2. CASE a # b
    <3>1. Same
      BY <1>0, <1>6, <2>2 DEF Normalize, TypeOK
    <3> QED  BY <1>2, <2>1, <3>1
  <2>3. CASE a = b
    <3>1. hand[a] = "none" /\ hand'[a] = "hooks" /\ phase'[a] = "handling"
      BY <1>0, <1>6, <2>3 DEF Normalize, Stage, TypeOK
    <3> QED  BY <1>0, <2>1, <3>1 DEF InRow
  <2> QED  BY <2>2, <2>3
<1>7. ASSUME NEW b \in Action, NormalizeFails(b) \/ Abort(b) \/ Flush(b) \/ Report(b) \/ Drain(b)
      PROVE  Rest
  <2>1. r = s /\ hand' = hand /\ awaits' = awaits /\ host' = host
    BY <1>0, <1>7, Apart DEF NormalizeFails, Abort, Flush, Report, Drain, TypeOK
  <2>2. CASE a # b
    <3>1. Same
      BY <1>0, <1>7, <2>1, <2>2 DEF NormalizeFails, Abort, Flush, Report, Drain, TypeOK
    <3> QED  BY <1>2, <2>1, <3>1
  <2>3. CASE a = b
    <3>1. \/ phase'[a] = "rejected"
          \/ phase'[a] = "reporting" /\ output'[a] = "error"
          \/ phase'[a] = "reporting" /\ phase[a] = "flushing"
          \/ phase'[a] = "fulfilled" /\ phase[a] = "reporting" /\ output[a] = "ok"
          \/ phase'[a] = "flushing" /\ s.outcome = "fulfilled"
      BY <1>0, <1>7, <2>3 DEF NormalizeFails, Abort, AbortDue, Flush, FlushDue, Report,
                              Drain, DrainDue, TypeOK
    <3>2. phase'[a] \in {"flushing", "fulfilled"} \/ (phase'[a] = "reporting" /\ output'[a] = "ok")
            => s.outcome = "fulfilled"
      BY <1>0, <3>1 DEF InRow
    <3> QED  BY <1>0, <2>1, <3>2 DEF InRow
  <2> QED  BY <2>2, <2>3
<1>8. ASSUME NEW id \in SchedId, RunPump(id)
      PROVE  Rest
  <2>1. /\ Same /\ Quiet /\ host' = host
        /\ scheds' = [scheds EXCEPT ![id] = PumpCallback(scheds[id])]
        /\ scheds[id].loop # << >> /\ Head(scheds[id].loop) = "pump"
    BY <1>8 DEF RunPump
  <2>2. CASE id # In(a)
    <3>1. r = s
      BY <1>0, <2>1, <2>2 DEF TypeOK
    <3> QED  BY <1>2, <2>1, <3>1
  <2>3. CASE id = In(a)
    <3>1. r = PumpCallback(s) /\ s.loop # << >> /\ Head(s.loop) = "pump"
      BY <1>0, <2>1, <2>3 DEF TypeOK
    <3>2. hand[a] \in {"await", "over"}
      BY <1>0, <2>1, <3>1 DEF InRow, Quiet, TypeOK
    <3>3. CASE hand[a] = "await"
      <4>1. awaits[a] \in Task /\ host[awaits[a]] = In(a)
        BY <1>0, <3>3 DEF InRow
      <4>2. s.task[awaits[a]] # "idle"
        BY <1>0, <4>1 DEF Ordered, Placed
      <4>3. s.task[awaits[a]] \notin Settled
        BY <1>0, <2>1, <3>3, <4>1 DEF Quiet, WakeDue, CallSettled, CallStatus
      <4> HIDE DEF s, r
      <4>4. r.outcome = s.outcome
        BY <1>0, <3>1, <4>1, <4>2, <4>3, PumpCallbackAdvances
      <4> HIDE DEF Same, Rest
      <4> QED  BY <1>2, <2>1, <3>3, <4>4
    <3>4. CASE hand[a] = "over"
      <4>1. /\ s.outcome \in {"pending", "fulfilled"}
            /\ phase[a] \in {"flushing", "fulfilled"} => s.outcome = "fulfilled"
            /\ phase[a] = "reporting" /\ output[a] = "ok" => s.outcome = "fulfilled"
        BY <1>0 DEF InRow
      <4> HIDE DEF s, r
      <4>2. Advances(s, r)
        BY <1>0, <3>1, PumpCallbackAdvances
      <4> QED  BY <2>1, <3>4, <4>1, <4>2 DEF Advances
    <3> QED  BY <3>2, <3>3, <3>4
  <2> QED  BY <2>2, <2>3
<1>9. ASSUME NEW id \in SchedId, NEW x \in Task, RunCall(id, x)
      PROVE  Rest
  <2>1. /\ scheds[id].task[x] = "taken"
        /\ x \in Action => phase[x] = "none"
        /\ UNCHANGED <<hand, output, awaits>>
    BY <1>9, TakenFacts
  <2>2. r = s \/ (id = In(a) /\ r = CallHandler(s, x))
    <3>1. CASE x \in Group
      <4>1. scheds' = [scheds EXCEPT ![id] = CallHandler(scheds[id], x),
                                     ![Args(x)] = CreateWith(Members[x], TRUE, TRUE)]
        BY <1>9, <3>1, GroupBegins
      <4>2. Args(x) # In(a)
        BY <3>1, Apart
      <4> QED  BY <1>0, <4>1, <4>2 DEF TypeOK
    <3>2. CASE x \notin Group
      <4>1. scheds' = [scheds EXCEPT ![id] = CallHandler(scheds[id], x)]
        BY <1>9, <3>2, SessionBegins
      <4> QED  BY <1>0, <4>1 DEF TypeOK
    <3> QED  BY <3>1, <3>2
  <2>3. /\ r.outcome = s.outcome
        /\ hand[a] \in {"none", "hooks"} => r = s
    <3>1. id = In(a) => hand[a] \notin {"none", "hooks"}
      BY <1>0, <2>1 DEF InRow, Untouched
    <3> HIDE DEF s, r
    <3>2. CallHandler(s, x).outcome = s.outcome
      BY <1>0, CallHandlerEffect
    <3> QED  BY <2>2, <3>1, <3>2
  <2>4. CASE phase'[a] = phase[a]
    BY <1>2, <2>1, <2>3, <2>4
  <2>5. CASE phase'[a] # phase[a]
    <3>1. x \notin Group
      BY <1>9, <2>5, GroupBegins
    <3>2. x \in Action /\ \E v \in {"normalizing", "rejected"} : phase' = [phase EXCEPT ![x] = v]
      BY <1>9, <3>1, SessionBegins
    <3>3. x = a /\ phase'[a] \in {"normalizing", "rejected"}
      BY <1>0, <2>5, <3>2 DEF TypeOK
    <3>4. hand[a] = "none"
      BY <1>0, <2>1, <3>2, <3>3 DEF Stage
    <3> QED  BY <1>0, <2>1, <2>3, <3>3, <3>4 DEF InRow
  <2> QED  BY <2>4, <2>5
<1>10. ASSUME NEW x \in Task, SettleCall(x)
       PROVE  Rest
  <2>1. /\ UNCHANGED <<phase, hand, awaits, output, host>>
        /\ scheds[host[x]].task[x] = "executing"
        /\ scheds' = [scheds EXCEPT ![host[x]] =
                         IF WentWell(x) THEN HandlerFulfilled(scheds[host[x]], x)
                                        ELSE HandlerRejected(scheds[host[x]], x, FALSE)]
    BY <1>10, SettleFacts
  <2>2. CASE host[x] # In(a)
    <3>1. r = s
      BY <1>0, <2>1, <2>2 DEF TypeOK
    <3> QED  BY <1>2, <2>1, <3>1
  <2>3. CASE host[x] = In(a)
    <3>1. r \in {HandlerFulfilled(s, x), HandlerRejected(s, x, FALSE)} /\ s.task[x] = "executing"
      BY <1>0, <2>1, <2>3 DEF TypeOK
    <3>2. hand[a] \notin {"none", "hooks"} /\ Tidy(s) /\ ~s.strict
      BY <1>0, <3>1 DEF InRow, Untouched
    <3> HIDE DEF s, r
    <3>3. r.outcome = s.outcome
      BY <1>0, <3>1, <3>2, TidySettles
    <3> QED  BY <1>2, <2>1, <3>2, <3>3
  <2> QED  BY <2>2, <2>3
<1> HIDE DEF Rest
<1>11. Rest
  BY <1>3, <1>4, <1>5, <1>6, <1>7, <1>8, <1>9, <1>10, Steps
<1>12. Begun(scheds'[Out(a)]) => r.outcome = "fulfilled"
  <2>1. Begun(scheds'[Out(a)]) => Begun(scheds[Out(a)]) \/ phase[a] = "flushing" \/ Drain(a)
    BY OutNext
  <2>2. Begun(scheds'[Out(a)]) => s.outcome = "fulfilled"
    BY <1>0, <2>1 DEF InRow, Drain, DrainDue
  <2> QED  BY <1>1, <2>2
<1> QED  BY <1>1, <1>11, <1>12 DEF Rest, InRow

-----------------------------------------------------------------------------
LEMMA OrderedInit == Init => Ordered
<1> SUFFICES ASSUME Init PROVE Ordered
  OBVIOUS
<1>1. Inv
  BY InvInit
<1>2. \A a \in Action : Stage(a)
  BY DEF Init, Stage
<1>3. \A x \in Task : host[x] = None
  BY DEF Init
<1>4. ASSUME NEW id \in SchedId
      PROVE  /\ Untouched(scheds[id]) /\ ~Begun(scheds[id])
             /\ scheds[id].outcome = "pending" /\ scheds[id].loop = << >>
             /\ scheds[id].strict = (id[1] # "in") /\ scheds[id].paused = (id[1] # "in")
  <2>1. \/ id[1] = "in" /\ scheds[id] = Create(FALSE, FALSE)
        \/ id[1] # "in" /\ scheds[id] = Create(TRUE, TRUE)
    BY DEF Init, NewSchedulers, SchedId
  <2>2. \A strict, paused \in BOOLEAN :
          /\ Untouched(Create(strict, paused)) /\ ~Begun(Create(strict, paused))
          /\ Create(strict, paused).outcome = "pending"
          /\ Create(strict, paused).loop = << >>
          /\ Create(strict, paused).strict = strict
          /\ Create(strict, paused).paused = paused
    BY DEF Create, Blank, Untouched, Begun
  <2> QED  BY <2>1, <2>2
<1>5. ASSUME NEW id \in SchedId, id[1] # "in"
      PROVE  Tidy(scheds[id]) /\ FirstFailure(scheds[id])
  BY <1>4, <1>5 DEF Tidy, FirstFailure, Untouched
<1>6. Placed
  <2>1. Root \in Action /\ phase[Root] = "normalizing"
    BY SessionAssumption DEF Init
  <2>2. \A x \in Action \ {Root} : phase[x] = "none"
    BY DEF Init
  <2> QED  BY <1>3, <2>1, <2>2, Ids DEF Placed
<1>7. ASSUME NEW g \in Group
      PROVE  GroupRow(g)
  <2>1. Args(g) \in SchedId /\ Args(g)[1] # "in" /\ g \in Task
    BY Ids DEF Args
  <2>2. \A y \in Range(Members[g]) : host[y] = None
    BY <1>3, MembersOf
  <2>3. CallStatus(g) = "idle"
    BY <1>3, <2>1 DEF CallStatus
  <2> QED  BY <1>3, <1>5, <2>1, <2>2, <2>3 DEF GroupRow, Ran
<1>8. ASSUME NEW a \in Action
      PROVE  OutRow(a)
  <2>1. Out(a) \in SchedId /\ Out(a)[1] # "in"
    BY Ids DEF Out
  <2>2. phase[a] \in {"none", "normalizing"} /\ output[a] = "pending"
    BY DEF Init
  <2> QED  BY <1>4, <1>5, <2>1, <2>2 DEF OutRow
<1>9. ASSUME NEW a \in Action
      PROVE  InRow(a)
  <2>1. In(a) \in SchedId /\ In(a)[1] = "in" /\ Out(a) \in SchedId
    BY Ids DEF In
  <2>2. phase[a] \in {"none", "normalizing"} /\ output[a] = "pending" /\ hand[a] = "none"
    BY DEF Init
  <2>3. Tidy(scheds[In(a)])
    BY <1>4, <2>1 DEF Tidy
  <2> QED  BY <1>4, <2>1, <2>2, <2>3 DEF InRow
<1> QED  BY <1>1, <1>2, <1>6, <1>7, <1>8, <1>9 DEF Ordered

LEMMA OrderedNext == Ordered /\ [Next]_vars => Ordered'
<1>1. ASSUME Ordered, Next PROVE Ordered'
  <2>1. Inv'
    BY <1>1, InvNext DEF Ordered
  <2>2. \A a \in Action : Stage(a)'
    BY <1>1, StageNext
  <2>3. Placed'
    BY <1>1, PlacedNext
  <2>4. \A g \in Group : GroupRow(g)'
    BY <1>1, GroupNext
  <2>5. ~Late => \A a \in Action : OutRow(a)'
    BY <1>1, OutNext
  <2>6. ~Late /\ Sleeping = {} => \A a \in Action : InRow(a)'
    BY <1>1, InNext
  <2> QED  BY <2>1, <2>2, <2>3, <2>4, <2>5, <2>6 DEF Ordered
<1>2. ASSUME Ordered, UNCHANGED vars PROVE Ordered'
  <2>1. Inv'
    BY <1>2, InvNext DEF Ordered
  <2>2. \A a \in Action : Stage(a)'
    BY <1>2 DEF Ordered, Stage, vars
  <2>3. Placed'
    BY <1>2 DEF Ordered, Placed, vars
  <2>4. \A g \in Group : GroupRow(g)'
    BY <1>2 DEF Ordered, GroupRow, CallStatus, vars
  <2>5. ~Late => \A a \in Action : OutRow(a)'
    BY <1>2 DEF Ordered, OutRow, vars
  <2>6. ~Late /\ Sleeping = {} => \A a \in Action : InRow(a)'
    BY <1>2 DEF Ordered, InRow, vars
  <2> QED  BY <2>1, <2>2, <2>3, <2>4, <2>5, <2>6 DEF Ordered
<1> QED  BY <1>1, <1>2

(* The invariant of the order holds of every session.                      *)
THEOREM OrderedAlways == Spec => []Ordered
BY OrderedInit, OrderedNext, PTL DEF Spec

\* Once a scheduler is settled, so is what was pushed to it.
LEMMA SettledWithin ==
  ASSUME Ordered, NEW x \in Task, host[x] # None, Tidy(scheds[host[x]]),
         scheds[host[x]].outcome # "pending"
  PROVE  CallSettled(x) /\ CallStatus(x) # "queued"
<1>1. scheds[host[x]].task[x] # "idle"
  BY DEF Ordered, Placed
<1>2. scheds[host[x]].task[x] \in Settled
  BY <1>1 DEF Tidy, Emptied
<1> QED  BY <1>2 DEF CallSettled, CallStatus, Settled

(* When no call is made on the root after its creation, and handlers await *)
(* the calls they make and nothing else, every call made on an action is   *)
(* settled before its result is reported: `out` is resumed when `output`   *)
(* and `in` are fulfilled, and on_result is called when `out` is settled.  *)
THEOREM ChildrenBeforeResult ==
  ASSUME ~Late, Sleeping = {}
  PROVE  Spec => []ChildrenFirst
<1>1. Ordered => ChildrenFirst
  <2> SUFFICES ASSUME Ordered, NEW a \in Action,
                      phase[a] \in {"reporting", "fulfilled"}, output[a] = "ok",
                      NEW x \in Called(a), host[x] # None
               PROVE  CallSettled(x)
    BY DEF ChildrenFirst
  <2>1. x \in Task \ ({Root} \cup InGroup) /\ host[x] \in {In(a), Out(a)}
    BY DEF Called, Ordered, Placed
  <2>2. InRow(a) /\ OutRow(a)
    BY DEF Ordered
  <2>3. Tidy(scheds[host[x]]) /\ scheds[host[x]].outcome # "pending"
    BY <2>1, <2>2 DEF InRow, OutRow
  <2> QED  BY <2>1, <2>3, SettledWithin
<1> QED  BY <1>1, OrderedAlways, PTL

(* Under the same hypotheses what is chained to an action starts after its *)
(* handler and after what its handler called: `out` is paused until then.  *)
THEOREM ChainedAfterHandler ==
  ASSUME ~Late, Sleeping = {}
  PROVE  Spec => []ChainedLast
<1>1. Ordered => ChainedLast
  <2> SUFFICES ASSUME Ordered, NEW a \in Action, NEW x \in Task, host[x] = Out(a),
                      CallStatus(x) \in {"taken", "executing", "fulfilled", "failed"}
               PROVE  /\ phase[a] \in {"flushing", "reporting", "fulfilled", "rejected"}
                      /\ hand[a] = "over"
                      /\ \A y \in Task : host[y] = In(a) => CallSettled(y)
    BY DEF ChainedLast
  <2>1. InRow(a) /\ OutRow(a) /\ phase[a] \in Phase /\ None \notin {In(a), Out(a)}
    BY Ids DEF Ordered, Inv, TypeOK
  <2>2. Begun(scheds[Out(a)])
    BY <2>1 DEF CallStatus, Begun
  <2>3. phase[a] \in {"flushing", "reporting", "fulfilled", "rejected"} /\ hand[a] = "over"
    BY <2>1, <2>2 DEF OutRow, Phase
  <2>4. Tidy(scheds[In(a)]) /\ scheds[In(a)].outcome # "pending"
    BY <2>1, <2>2 DEF InRow
  <2>5. \A y \in Task : host[y] = In(a) => CallSettled(y)
    BY <2>1, <2>4, SettledWithin
  <2> QED  BY <2>3, <2>5
<1> QED  BY <1>1, OrderedAlways, PTL

(* When no call is made on the root after its creation, nothing waits in   *)
(* `out` once the action is settled: it is ended on every path that fails. *)
THEOREM NoCallForgotten ==
  ASSUME ~Late
  PROVE  Spec => []NothingForgotten
<1>1. Ordered => NothingForgotten
  <2> SUFFICES ASSUME Ordered, NEW a \in Action, NEW x \in Task,
                      phase[a] \in {"fulfilled", "rejected"}, host[x] = Out(a)
               PROVE  CallStatus(x) # "queued"
    BY DEF NothingForgotten
  <2>1. OutRow(a) /\ host[x] # None
    BY Ids DEF Ordered
  <2>2. CASE Untouched(scheds[Out(a)])
    BY <2>1, <2>2 DEF Untouched, CallStatus
  <2>3. CASE scheds[Out(a)].outcome # "pending"
    BY <2>1, <2>3, SettledWithin DEF OutRow
  <2> QED  BY <2>1, <2>2, <2>3 DEF OutRow
<1> QED  BY <1>1, OrderedAlways, PTL

\* A call that is in progress is the handler its scheduler is executing.
LEMMA BusyExecutes ==
  ASSUME Ordered, NEW x \in Task \ {Root}, Busy(x)
  PROVE  host[x] \in SchedId /\ scheds[host[x]].task[x] = "executing"
<1>0. Inv /\ TypeOK
  BY DEF Ordered, Inv
<1>1. CASE x \notin Group
  <2>1. x \in Live \ {Root}
    BY <1>1 DEF Busy
  <2> QED  BY <1>0, <2>1 DEF Inv, TypeOK, LiveExecutes
<1>2. CASE x \in Group
  <2>1. PICK y \in Range(Members[x]) : y \in Live
    BY <1>2 DEF Busy
  <2>2. y \in Task /\ y \in InGroup /\ y # Root
    BY <1>2, <2>1, MembersOf DEF InGroup
  <2>3. host[y] = Args(x) /\ scheds[Args(x)].task[y] = "executing"
    BY <1>0, <1>2, <2>1, <2>2 DEF Inv, Hosted, LiveExecutes
  <2>4. Args(x) \in SchedId /\ GroupRow(x)
    BY <1>2, Ids DEF Ordered
  <2>5. host[x] # None /\ scheds[host[x]].task[x] \in Started
    BY <1>0, <1>2, <2>2, <2>3 DEF Inv, GroupsFresh
  <2>6. scheds[Args(x)].outcome = "pending"
    BY <2>2, <2>3, <2>4 DEF GroupRow, Tidy, Emptied, Settled
  <2>7. scheds[host[x]].task[x] \notin {"fulfilled", "failed"}
    BY <2>4, <2>5, <2>6 DEF GroupRow, CallStatus
  <2> QED  BY <1>0, <2>5, <2>7 DEF TypeOK, Started
<1> QED  BY <1>1, <1>2

(* The calls made on the same action, and the members of a group, are never *)
(* in progress at the same time, be they actions or groups.                 *)
THEOREM SiblingsNeverOverlap == Spec => []SiblingsInTurn
<1>1. Ordered => SiblingsInTurn
  <2> SUFFICES ASSUME Ordered, NEW x \in Task \ {Root}, NEW y \in Task \ {Root},
                      Busy(x), Busy(y), host[x] = host[y]
               PROVE  x = y
    BY DEF SiblingsInTurn
  <2>1. /\ host[x] \in SchedId
        /\ scheds[host[x]].task[x] = "executing" /\ scheds[host[x]].task[y] = "executing"
    BY BusyExecutes
  <2>2. Serial(scheds[host[x]])
    BY <2>1 DEF Ordered, Inv, AllSound, Sound
  <2> QED  BY <2>1, <2>2 DEF Serial, InFlight
<1> QED  BY <1>1, OrderedAlways, PTL

(* A call with arrays of arguments is fulfilled with all its sessions, and *)
(* the first that fails drops the ones that wait: its scheduler is strict. *)
THEOREM GroupFailsAtOnce == Spec => []GroupStopsAtFailure
<1>1. Ordered => GroupStopsAtFailure
  <2> SUFFICES ASSUME Ordered, NEW g \in Group
               PROVE  /\ CallStatus(g) = "fulfilled" =>
                           \A y \in Range(Members[g]) : CallStatus(y) = "fulfilled"
                      /\ (\E y \in Range(Members[g]) : CallStatus(y) = "failed") =>
                           \A y \in Range(Members[g]) : CallStatus(y) \in Settled
    BY DEF GroupStopsAtFailure
  <2> DEFINE s == scheds[Args(g)]
  <2>1. /\ GroupRow(g)
        /\ Range(Members[g]) \subseteq Task
        /\ g \in Task
        /\ Args(g) # None
    BY MembersOf, Ids DEF Ordered
  <2>2. \A y \in Range(Members[g]) : host[y] \in {None, Args(g)}
    BY DEF Ordered, Inv, Hosted
  <2>3. ASSUME NEW y \in Range(Members[g]), host[y] # None, s.outcome # "pending"
        PROVE  CallStatus(y) = s.task[y] /\ CallStatus(y) \in Settled
    <3>1. y \in Task /\ host[y] = Args(g) /\ Tidy(s)
      BY <2>1, <2>2, <2>3 DEF GroupRow
    <3> QED  BY <2>3, <3>1, SettledWithin DEF CallSettled, CallStatus
  <2>4. ASSUME CallStatus(g) = "fulfilled", NEW y \in Range(Members[g])
        PROVE  CallStatus(y) = "fulfilled"
    <3>1. s.outcome = "fulfilled" /\ host[y] # None /\ FirstFailure(s)
      BY <2>1, <2>4 DEF GroupRow, CallStatus, Ran
    <3>2. CallStatus(y) = s.task[y] /\ CallStatus(y) \in Settled
      BY <2>3, <3>1
    <3> QED  BY <2>1, <3>1, <3>2 DEF FirstFailure, Settled
  <2>5. ASSUME NEW y \in Range(Members[g]), CallStatus(y) = "failed",
               NEW z \in Range(Members[g])
        PROVE  CallStatus(z) \in Settled
    <3>1. host[y] = Args(g) /\ host[z] # None /\ FirstFailure(s)
      BY <2>1, <2>2, <2>5 DEF GroupRow, CallStatus
    <3>2. s.outcome = "rejected"
      BY <2>1, <2>5, <3>1 DEF FirstFailure, CallStatus
    <3> QED  BY <2>3, <3>1, <3>2
  <2> QED  BY <2>4, <2>5
<1> QED  BY <1>1, OrderedAlways, PTL

-----------------------------------------------------------------------------
(***************************************************************************)
(* Where nothing fails, a session is a depth-first traversal of the tree   *)
(* of its calls.                                                           *)
(***************************************************************************)

\* Every call is one of a known action, no handler and no hook fails, handlers
\* await calls only, and nothing is called late.
Faultless == Failing = {} /\ Unknown = {} /\ Sleeping = {} /\ ~Late

\* No task of a scheduler failed.
Succeeds(s) ==
  /\ s.outcome # "rejected"
  /\ \A t \in Task : s.task[t] \notin {"failed", "dropped"}

AllWell ==
  /\ \A a \in Action : phase[a] # "rejected" /\ output[a] # "error"
  /\ \A id \in SchedId : Succeeds(scheds[id])

LEMMA AllWellInit == Init => AllWell
<1> SUFFICES ASSUME Init PROVE AllWell
  OBVIOUS
<1>1. \A id \in SchedId : \E strict \in BOOLEAN, paused \in BOOLEAN :
        scheds[id] = Create(strict, paused)
  BY DEF Init, NewSchedulers, SchedId
<1>2. \A strict \in BOOLEAN, paused \in BOOLEAN : Succeeds(Create(strict, paused))
  <2> SUFFICES ASSUME NEW strict \in BOOLEAN, NEW paused \in BOOLEAN
               PROVE  Succeeds(Create(strict, paused))
    OBVIOUS
  <2>1. \A t \in Task : Create(strict, paused).task[t] = "idle"
    BY CreateIdle
  <2>2. Create(strict, paused).outcome = "pending"
    BY DEF Create, Blank
  <2> QED  BY <2>1, <2>2 DEF Succeeds
<1>3. \A a \in Action : phase[a] # "rejected" /\ output[a] # "error"
  BY DEF Init
<1> QED  BY <1>1, <1>2, <1>3 DEF AllWell

\* No handler throws: what it awaits does not fail.
LEMMA NoError ==
  ASSUME Faultless, Ordered, AllWell, Next, NEW a \in Action
  PROVE  output'[a] # "error"
<1>1. /\ output \in [Action -> {"pending", "ok", "error"}]
      /\ output[a] # "error"
  BY DEF Ordered, Inv, TypeOK, AllWell
<1>2. CASE output' = output
  BY <1>1, <1>2
<1>3. ASSUME NEW b \in Action, NEW result \in {"ok", "error"},
             EndHandler(b, result) \/ SkipHandler(b, result)
      PROVE  output'[a] # "error"
  <2>1. result = "ok" /\ output' = [output EXCEPT ![b] = result]
    BY <1>3 DEF EndHandler, SkipHandler, OutputSettles, Results, Faultless
  <2> QED  BY <1>1, <2>1
<1>4. ASSUME NEW b \in Action, WakeThrowing(b)
      PROVE  output'[a] # "error"
  <2>1. InRow(b) /\ In(b) \in SchedId /\ In(b) # None
    BY Ids DEF Ordered, Faultless
  <2>2. awaits[b] \in Task /\ CallStatus(awaits[b]) = scheds[In(b)].task[awaits[b]]
    BY <1>4, <2>1 DEF WakeThrowing, WakeDue, InRow, CallStatus
  <2>3. CallStatus(awaits[b]) \in {"failed", "dropped"}
    BY <1>4 DEF WakeThrowing, WakeDue, CallSettled, Settled
  <2> QED  BY <2>1, <2>2, <2>3 DEF AllWell, Succeeds
<1>5. ASSUME NEW b \in Action, Flush(b)
      PROVE  output'[a] # "error"
  <2>1. scheds[Out(b)].outcome # "rejected" /\ scheds[Out(b)].outcome # "pending"
    BY <1>5, Ids DEF AllWell, Succeeds, Flush, FlushDue
  <2>2. scheds[Out(b)] \in Scheduler
    BY Ids DEF Ordered, Inv, TypeOK
  <2>3. scheds[Out(b)].outcome = "fulfilled"
    BY <2>1, <2>2 DEF Scheduler
  <2> QED  BY <1>2, <1>5, <2>3 DEF Flush
<1>6. ASSUME NEW b \in Action, HandlerStep(b)
      PROVE  output'[a] # "error"
  BY <1>2, <1>3, <1>4, <1>6 DEF HandlerStep, Call, Await, Wake, Sleep
<1>7. CASE \E x \in Called(Root) : ChainedCall(x)
  BY <1>2, <1>7 DEF ChainedCall
<1>8. CASE Reaction
  BY <1>2, <1>5, <1>8 DEF Reaction, Drain, Abort, SettleCall
<1>9. CASE EventLoop
  BY <1>2, <1>3, <1>9
  DEF EventLoop, RunPump, RunCall, Normalize, NormalizeFails, BeginHandler, WakeUp, Report
<1> QED  BY <1>6, <1>7, <1>8, <1>9 DEF Next

\* The steps that are left, by what they do.
LEMMA FaultlessSteps ==
  ASSUME Faultless, Ordered, AllWell, Next
  PROVE  \/ \E x \in Task \ ({Root} \cup InGroup) : Pushes(x)
         \/ \E a \in Action : \/ Ends(a, "ok") \/ TurnsOf(a) \/ Normalize(a) \/ Drain(a)
                              \/ Flush(a) /\ UNCHANGED scheds
                              \/ Report(a)
         \/ \E id \in SchedId : RunPump(id) \/ \E x \in Task : RunCall(id, x)
         \/ \E x \in Task : SettleCall(x) /\ WentWell(x)
<1>1. ASSUME NEW a \in Action, Ends(a, "error")
      PROVE  FALSE
  <2>1. output'[a] # "error"
    BY NoError
  <2>2. output'[a] = "error"
    BY <1>1 DEF Ends, OutputSettles, Ordered, Inv, TypeOK
  <2> QED  BY <2>1, <2>2
<1>2. ASSUME NEW a \in Action, NormalizeFails(a) \/ Abort(a)
      PROVE  FALSE
  BY <1>2 DEF NormalizeFails, Abort, AbortDue, Faultless, AllWell
<1>3. ASSUME NEW a \in Action, Flush(a)
      PROVE  UNCHANGED scheds
  <2>1. output'[a] # "error"
    BY NoError
  <2> QED  BY <1>3, <2>1 DEF Flush, Ordered, Inv, TypeOK
<1>4. ASSUME NEW x \in Task, SettleCall(x)
      PROVE  WentWell(x)
  <2>1. Over(x)
    BY <1>4 DEF SettleCall, SettleDue
  <2>2. CASE x \in Action
    BY <2>1, <2>2 DEF Over, WentWell, AllWell
  <2>3. CASE x \notin Action
    <3>1. Args(x) \in SchedId
      BY <2>3, Ids DEF Group
    <3>2. scheds[Args(x)] \in Scheduler /\ Succeeds(scheds[Args(x)])
      BY <3>1 DEF AllWell, Ordered, Inv, TypeOK
    <3> QED  BY <2>1, <2>3, <3>2 DEF Over, WentWell, Succeeds, Scheduler
  <2> QED  BY <2>2, <2>3
<1> QED  BY <1>1, <1>2, <1>3, <1>4, Steps

\* What a scheduler does without a failure.
LEMMA SucceedsAdvances ==
  ASSUME NEW s, NEW r, Advances(s, r), Succeeds(s)
  PROVE  Succeeds(r)
BY DEF Advances, Succeeds

LEMMA SucceedsPush ==
  ASSUME NEW s, Sound(s), NEW t \in Task, s.task[t] = "idle", NEW out \in BOOLEAN,
         Succeeds(s)
  PROVE  Succeeds(Push(s, t, out))
<1> DEFINE r == Push(s, t, out)
<1>1. /\ r.strict = s.strict
      /\ r.outcome = s.outcome
      /\ r.task[t] \in {"queued", "taken"}
      /\ \A u \in Task \ {t} : \/ r.task[u] = s.task[u]
                               \/ s.task[u] = "queued" /\ r.task[u] = "taken"
  BY PushAdvances
<1> HIDE DEF r
<1> QED  BY <1>1 DEF Succeeds, r

LEMMA AllWellNext ==
  ASSUME Faultless, Ordered, AllWell, Next
  PROVE  AllWell'
<1>0. /\ scheds \in [SchedId -> Scheduler]
      /\ phase \in [Action -> Phase]
      /\ \A i \in SchedId : /\ Sound(scheds[i]) /\ Succeeds(scheds[i])
                            /\ scheds[i].task \in [Task -> Status]
  BY Fields DEF Ordered, Inv, TypeOK, AllSound, AllWell
<1>1. ASSUME NEW a \in Action PROVE output'[a] # "error"
  BY NoError
<1>2. ASSUME NEW a \in Action PROVE phase'[a] # "rejected"
  <2>0. phase[a] # "rejected"
    BY DEF AllWell
  <2>1. CASE phase' = phase
    BY <2>0, <2>1
  <2>2. ASSUME NEW b \in Action, Report(b)
        PROVE  phase'[a] # "rejected"
    <3>1. output[b] = "ok"
      BY <2>2 DEF Report, Ordered, Stage, Inv, TypeOK, AllWell
    <3> QED  BY <1>0, <2>0, <2>2, <3>1 DEF Report, Results, Faultless
  <2>3. ASSUME NEW id \in SchedId, NEW x \in Task, RunCall(id, x)
        PROVE  phase'[a] # "rejected"
    BY <1>0, <2>0, <2>1, <2>3 DEF RunCall, Faultless
  <2>4. ASSUME NEW b \in Action, Normalize(b) \/ Drain(b) \/ Flush(b)
        PROVE  phase'[a] # "rejected"
    BY <1>0, <2>0, <2>4 DEF Normalize, Drain, Flush
  <2>5. ASSUME NEW b \in Action, Ends(b, "ok") \/ TurnsOf(b)
        PROVE  phase' = phase
    BY <2>5 DEF Ends, OutputSettles, TurnsOf, Wake, Sleep, WakeUp, BeginHandler, Await
  <2>6. ASSUME NEW x \in Task, Pushes(x) \/ SettleCall(x)
        PROVE  phase' = phase
    BY <2>6 DEF Pushes, SettleCall
  <2>7. ASSUME NEW id \in SchedId, RunPump(id)
        PROVE  phase' = phase
    BY <2>7 DEF RunPump
  <2> QED  BY <2>1, <2>2, <2>3, <2>4, <2>5, <2>6, <2>7, FaultlessSteps
<1>3. ASSUME NEW id \in SchedId PROVE Succeeds(scheds'[id])
  <2>1. CASE scheds' = scheds
    BY <1>0, <2>1
  <2>2. ASSUME NEW i \in SchedId, NEW r, scheds' = [scheds EXCEPT ![i] = r],
               Advances(scheds[i], r) \/ Succeeds(r)
        PROVE  Succeeds(scheds'[id])
    BY <1>0, <2>2, SucceedsAdvances
  <2>3. ASSUME NEW x \in Task \ ({Root} \cup InGroup), Pushes(x)
        PROVE  Succeeds(scheds'[id])
    <3> DEFINE i == Target(x)
               s == scheds[i]
               r == Push(s, x, FALSE)
    <3>1. /\ i \in SchedId
          /\ scheds' = [scheds EXCEPT ![i] = r]
          /\ s.task[x] = "idle"
      BY <2>3, PushFacts
    <3>2. Sound(s) /\ Succeeds(s) /\ x \in Task
      BY <1>0, <3>1
    <3> HIDE DEF i, s
    <3>3. Succeeds(r)
      BY <3>1, <3>2, SucceedsPush
    <3> HIDE DEF r
    <3> QED  BY <2>2, <3>1, <3>3
  <2>4. ASSUME NEW a \in Action, Ends(a, "ok")
        PROVE  Succeeds(scheds'[id])
    <3>1. scheds' = [scheds EXCEPT ![In(a)] = Resume(scheds[In(a)])] /\ In(a) \in SchedId
      BY <2>4, Ids DEF Ends, OutputSettles
    <3>2. Advances(scheds[In(a)], Resume(scheds[In(a)]))
      BY <1>0, <3>1, ResumeAdvances
    <3> QED  BY <2>2, <3>1, <3>2
  <2>5. ASSUME NEW a \in Action, Drain(a)
        PROVE  Succeeds(scheds'[id])
    <3>1. scheds' = [scheds EXCEPT ![Out(a)] = Resume(scheds[Out(a)])] /\ Out(a) \in SchedId
      BY <2>5, Ids DEF Drain
    <3>2. Advances(scheds[Out(a)], Resume(scheds[Out(a)]))
      BY <1>0, <3>1, ResumeAdvances
    <3> QED  BY <2>2, <3>1, <3>2
  <2>6. ASSUME NEW a \in Action, TurnsOf(a) \/ Normalize(a) \/ Report(a)
        PROVE  scheds' = scheds
    BY <2>6 DEF TurnsOf, Wake, Sleep, WakeUp, BeginHandler, Await, Normalize, Report
  <2>7. ASSUME NEW i \in SchedId, RunPump(i)
        PROVE  Succeeds(scheds'[id])
    <3>1. scheds' = [scheds EXCEPT ![i] = PumpCallback(scheds[i])]
      BY <2>7 DEF RunPump
    <3>2. Advances(scheds[i], PumpCallback(scheds[i]))
      BY <1>0, <2>7, PumpCallbackAdvances DEF RunPump
    <3> QED  BY <2>2, <3>1, <3>2
  <2>8. ASSUME NEW i \in SchedId, NEW x \in Task, RunCall(i, x)
        PROVE  Succeeds(scheds'[id])
    <3> DEFINE r == CallHandler(scheds[i], x)
               q == CreateWith(Members[x], TRUE, TRUE)
    <3>1. /\ r.task = [scheds[i].task EXCEPT ![x] = "executing"]
          /\ r.outcome = scheds[i].outcome
      BY <1>0, CallHandlerEffect
    <3> HIDE DEF r
    <3>2. Succeeds(r)
      BY <1>0, <3>1 DEF Succeeds
    <3>3. CASE x \notin Group
      <4>1. scheds' = [scheds EXCEPT ![i] = r]
        BY <2>8, <3>3, SessionBegins DEF r
      <4> QED  BY <2>2, <3>2, <4>1
    <3>4. CASE x \in Group
      <4>1. /\ scheds' = [scheds EXCEPT ![i] = r, ![Args(x)] = q]
            /\ Args(x) \in SchedId
        BY <2>8, <3>4, GroupBegins DEF r
      <4>2. Succeeds(q)
        <5>1. Members[x] \in Seq(Task) /\ IsSimple(Members[x])
          BY <3>4, MembersOf
        <5>2. /\ q.outcome # "rejected"
              /\ \A t \in Task : q.task[t] \in {"idle", "queued", "taken"}
          BY <5>1, CreateWithEffect
        <5> HIDE DEF q
        <5> QED  BY <5>2 DEF Succeeds
      <4> HIDE DEF q
      <4> QED  BY <1>0, <3>2, <4>1, <4>2
    <3> QED  BY <3>3, <3>4
  <2>9. ASSUME NEW x \in Task, SettleCall(x), WentWell(x)
        PROVE  Succeeds(scheds'[id])
    <3> DEFINE s == scheds[host[x]]
               r == HandlerFulfilled(s, x)
    <3>1. /\ host[x] \in SchedId /\ Sound(s)
          /\ scheds' = [scheds EXCEPT ![host[x]] = r]
      BY <2>9, SettleFacts
    <3>2. Succeeds(s) /\ s.task \in [Task -> Status]
      BY <1>0, <3>1
    <3> HIDE DEF s
    <3>3. r.outcome = s.outcome /\ r.task = [s.task EXCEPT ![x] = "fulfilled"]
      BY <3>1, FulfilledEffect
    <3> HIDE DEF r
    <3>4. Succeeds(r)
      BY <3>2, <3>3 DEF Succeeds
    <3> QED  BY <2>2, <3>1, <3>4
  <2> QED  BY <2>1, <2>3, <2>4, <2>5, <2>6, <2>7, <2>8, <2>9, FaultlessSteps
<1> QED  BY <1>1, <1>2, <1>3 DEF AllWell

-----------------------------------------------------------------------------
\* Off the stack and not over.
Flying(x) == host[x] # None /\ scheds[host[x]].task[x] \in {"taken", "executing"}

\* The call which an action is, or is a member of.
CallOf(z, x) ==
  /\ z \in Task \ (InGroup \cup {Root})
  /\ Parent[z] = Parent[x]
  /\ Flying(z)
  /\ z = x \/ (z \in Group /\ x \in Range(Members[z]) /\ host[x] = Args(z))

LEMMA HasCall ==
  ASSUME Faultless, Ordered, AllWell, NEW x \in Action \ {Root}, Flying(x)
  PROVE  \E z \in Task : CallOf(z, x)
<1>1. x \in Task /\ host[x] \in SchedId
  BY Ids DEF Ordered, Inv, TypeOK, Flying
<1>2. CASE x \notin InGroup
  <2>1. CallOf(x, x)
    BY <1>1, <1>2 DEF CallOf
  <2> QED  BY <1>1, <2>1
<1>3. CASE x \in InGroup
  <2>1. PICK g \in Group : x \in Range(Members[g])
    BY <1>3 DEF InGroup
  <2>2. host[x] = Args(g) /\ g \in Task /\ g # Root /\ g \notin InGroup
    <3>1. host[x] = Args(g) /\ g \in Task /\ g # Root
      BY <2>1, MembersOf DEF Ordered, Inv, Hosted, Flying
    <3>2. \A h \in Group : Range(Members[h]) \subseteq Action /\ g \notin Action
      BY MembersOf DEF Group
    <3> QED  BY <3>1, <3>2 DEF InGroup
  <2>3. host[g] # None /\ scheds[host[g]].task[g] \in Started
    BY <1>1, <2>1, <2>2 DEF Ordered, Inv, GroupsFresh, Flying
  <2>4. scheds[Args(g)].outcome = "pending"
    BY <1>1, <2>1, <2>2 DEF Ordered, GroupRow, Tidy, Emptied, Settled, Flying
  <2>5. scheds[host[g]].task[g] \notin {"fulfilled", "failed"}
    BY <2>1, <2>2, <2>3, <2>4
    DEF Ordered, GroupRow, CallStatus, AllWell, Succeeds, Inv, TypeOK
  <2>6. Parent[g] = Parent[x]
    BY <2>1, SessionAssumption
  <2>7. CallOf(g, x)
    BY <2>1, <2>2, <2>3, <2>5, <2>6 DEF CallOf, Flying, Started
  <2> QED  BY <2>2, <2>7
<1> QED  BY <1>2, <1>3

\* A call is under way in `in` while its parent is handled, in `out` while it
\* is flushed.
LEMMA UnderWay ==
  ASSUME Faultless, Ordered, AllWell, NEW z \in Task \ (InGroup \cup {Root}), Flying(z)
  PROVE  /\ Parent[z] \in Action
         /\ \/ phase[Parent[z]] = "handling" /\ host[z] = In(Parent[z])
            \/ phase[Parent[z]] = "flushing" /\ host[z] = Out(Parent[z])
<1> DEFINE p == Parent[z]
<1>1. p \in Action /\ In(p) \in SchedId /\ Out(p) \in SchedId
  BY SessionAssumption, Ids
<1>2. /\ Stage(p) /\ InRow(p) /\ OutRow(p)
      /\ phase[p] # "rejected" /\ output[p] # "error"
      /\ output[p] \in {"pending", "ok", "error"}
      /\ host[z] \in {In(p), Out(p)}
  BY <1>1 DEF Ordered, Faultless, AllWell, Flying, Placed, Inv, TypeOK
<1>3. CASE host[z] = In(p)
  <2>1. scheds[In(p)].outcome = "pending" /\ ~Untouched(scheds[In(p)])
    BY <1>2, <1>3 DEF InRow, Tidy, Emptied, Untouched, Settled, Flying
  <2> QED  BY <1>1, <1>2, <1>3, <2>1 DEF InRow, Stage
<1>4. CASE host[z] = Out(p)
  <2>1. scheds[Out(p)].outcome = "pending" /\ Begun(scheds[Out(p)])
    BY <1>2, <1>4 DEF OutRow, Tidy, Emptied, Begun, Settled, Flying
  <2> QED  BY <1>1, <1>2, <1>4, <2>1 DEF OutRow, Stage
<1> QED  BY <1>2, <1>3, <1>4

LEMMA AtMostOne ==
  ASSUME Ordered, NEW x \in Task, NEW y \in Task, Flying(x), Flying(y), host[x] = host[y]
  PROVE  x = y
<1>1. host[x] \in SchedId /\ Serial(scheds[host[x]])
  BY DEF Ordered, Inv, TypeOK, AllSound, Sound, Flying
<1> QED  BY <1>1 DEF Serial, InFlight, Flying

\* A parent has one child in progress.
LEMMA OneChild ==
  ASSUME Faultless, Ordered, AllWell,
         NEW x \in Action \ {Root}, NEW y \in Action \ {Root},
         Flying(x), Flying(y), Parent[x] = Parent[y]
  PROVE  x = y /\ Parent[x] \in Live
<1>1. PICK u \in Task : CallOf(u, x)
  BY HasCall
<1>2. PICK v \in Task : CallOf(v, y)
  BY HasCall
<1>3. /\ Parent[u] = Parent[x] /\ Parent[x] \in Action
      /\ \/ phase[Parent[x]] = "handling" /\ host[u] = In(Parent[x])
         \/ phase[Parent[x]] = "flushing" /\ host[u] = Out(Parent[x])
  BY <1>1, UnderWay DEF CallOf
<1>4. \/ phase[Parent[x]] = "handling" /\ host[v] = In(Parent[x])
      \/ phase[Parent[x]] = "flushing" /\ host[v] = Out(Parent[x])
  BY <1>2, UnderWay DEF CallOf
<1>5. u = v
  BY <1>1, <1>2, <1>3, <1>4, AtMostOne DEF CallOf
<1>6. x \in Task /\ y \in Task /\ x \notin Group /\ y \notin Group
  BY Ids DEF Group
<1>7. x = y
  BY <1>1, <1>2, <1>5, <1>6, AtMostOne DEF CallOf
<1> QED  BY <1>3, <1>7 DEF Live

LEMMA LiveFlies ==
  ASSUME Ordered, NEW x \in Live \ {Root}
  PROVE  x \in Action \ {Root} /\ Flying(x)
BY DEF Ordered, Inv, LiveExecutes, Flying, Live

\* An action is reported when nothing below it is in progress.
LEMMA ReportLeaves ==
  ASSUME Faultless, Ordered, AllWell, NEW a \in Action, Report(a)
  PROVE  T!Leave(a)
<1>1. phase \in [Action -> Phase] /\ phase[a] = "reporting" /\ a \in Live
  BY DEF Ordered, Inv, TypeOK, Report, Live
<1>2. output[a] = "ok"
  BY <1>1 DEF Ordered, Stage, Inv, TypeOK, AllWell
<1>3. phase' = [phase EXCEPT ![a] = "fulfilled"]
  BY <1>2 DEF Report, Results, Faultless
<1>4. Live' = Live \ {a}
  BY <1>1, <1>3 DEF Live
<1>5. Visited' = Visited
  BY <1>1, <1>3 DEF Visited
<1>6. ASSUME NEW b \in Live \ {Root}, Parent[b] = a
      PROVE  FALSE
  <2>1. b \in Action \ {Root} /\ Flying(b)
    BY LiveFlies
  <2>2. PICK z \in Task : CallOf(z, b)
    BY <2>1, HasCall
  <2>3. phase[a] \in {"handling", "flushing"}
    BY <1>6, <2>2, UnderWay DEF CallOf
  <2> QED  BY <1>1, <2>3
<1> QED  BY <1>1, <1>4, <1>5, <1>6 DEF T!Leave, T!Deepest

\* A session begins when its parent is the deepest action in progress.
LEMMA CallEnters ==
  ASSUME Faultless, Ordered, AllWell, NEW id \in SchedId, NEW x \in Action, RunCall(id, x)
  PROVE  T!Enter(x)
<1>1. /\ x \in Task /\ x # Root /\ x \notin Group
      /\ host[x] = id /\ scheds[id].task[x] = "taken"
      /\ phase[x] = "none"
  BY Ids, TakenFacts DEF Group
<1>2. phase \in [Action -> Phase]
  BY DEF Ordered, Inv, TypeOK
<1>3. phase' = [phase EXCEPT ![x] = "normalizing"]
  BY <1>1 DEF RunCall, Faultless
<1>4. Live' = Live \cup {x}
  BY <1>2, <1>3 DEF Live
<1>5. Visited' = Visited \cup {x} /\ x \notin Visited
  BY <1>1, <1>2, <1>3 DEF Visited
<1>6. Flying(x)
  BY <1>1, Ids DEF Flying
<1>7. Parent[x] \in Live
  BY <1>1, <1>6, OneChild
<1>8. ASSUME NEW b \in Live \ {Root}, Parent[b] = Parent[x]
      PROVE  FALSE
  <2>1. b = x
    BY <1>1, <1>6, <1>8, LiveFlies, OneChild
  <2> QED  BY <1>1, <2>1 DEF Live
<1> QED  BY <1>4, <1>5, <1>7, <1>8 DEF T!Enter, T!Deepest

LEMMA TraversalStep ==
  ASSUME Faultless, Ordered, AllWell, [Next]_vars
  PROVE  [T!Next]_(T!tvars)
<1>0. phase \in [Action -> Phase]
  BY DEF Ordered, Inv, TypeOK
<1>1. CASE Live' = Live /\ Visited' = Visited
  BY <1>1 DEF T!tvars
<1>2. CASE phase' = phase
  BY <1>1, <1>2 DEF Live, Visited
<1>3. ASSUME NEW a \in Action, Normalize(a) \/ Drain(a) \/ Flush(a)
      PROVE  Live' = Live /\ Visited' = Visited
  BY <1>0, <1>3 DEF Normalize, Drain, DrainDue, Flush, FlushDue, Live, Visited
<1>4. ASSUME NEW a \in Action, Report(a)
      PROVE  T!Next
  BY <1>4, ReportLeaves DEF T!Next
<1>5. ASSUME NEW id \in SchedId, NEW x \in Task, RunCall(id, x)
      PROVE  phase' = phase \/ T!Next
  <2>1. CASE x \in Action
    BY <1>5, <2>1, CallEnters DEF T!Next
  <2>2. CASE x \notin Action
    BY <1>5, <2>2, GroupBegins DEF Group
  <2> QED  BY <2>1, <2>2
<1>6. ASSUME NEW a \in Action, Ends(a, "ok") \/ TurnsOf(a)
      PROVE  phase' = phase
  BY <1>6 DEF Ends, OutputSettles, TurnsOf, Wake, Sleep, WakeUp, BeginHandler, Await
<1>7. ASSUME NEW x \in Task, Pushes(x) \/ SettleCall(x)
      PROVE  phase' = phase
  BY <1>7 DEF Pushes, SettleCall
<1>8. ASSUME NEW id \in SchedId, RunPump(id)
      PROVE  phase' = phase
  BY <1>8 DEF RunPump
<1>9. CASE Next
  BY <1>1, <1>2, <1>3, <1>4, <1>5, <1>6, <1>7, <1>8, <1>9, FaultlessSteps
<1>10. CASE UNCHANGED vars
  BY <1>2, <1>10 DEF vars
<1> QED  BY <1>9, <1>10

(* Without failures, late calls and handlers that await something else,    *)
(* the actions of a session run depth first, for every tree of calls and   *)
(* every group: an action starts while its parent is the deepest action in *)
(* progress, and ends while it is, whatever handlers await.  Nothing fails *)
(* then, so that it is the whole of Traversal they implement.              *)
THEOREM TraversalImplemented ==
  ASSUME Faultless
  PROVE  Spec => T!Spec /\ ImplementsTraversal
<1>1. Init => T!Init
  <2> SUFFICES ASSUME Init PROVE T!Init
    OBVIOUS
  <2>1. Root \in Action
    BY SessionAssumption
  <2>2. Live = {Root} /\ Visited = {Root}
    BY <2>1 DEF Init, Live, Visited
  <2> QED  BY <2>2 DEF T!Init
<1>2. Ordered /\ AllWell /\ [Next]_vars => AllWell'
  <2>1. CASE Next
    BY <2>1, AllWellNext
  <2>2. CASE UNCHANGED vars
    BY <2>2 DEF AllWell, vars
  <2> QED  BY <2>1, <2>2
<1>3. Ordered /\ AllWell /\ [Next]_vars => [T!Next]_(T!tvars)
  BY TraversalStep
<1>4. [T!Next]_(T!tvars) => [Troubled \/ Troubled' \/ T!Next]_(T!tvars)
  OBVIOUS
<1> QED  BY <1>1, <1>2, <1>3, <1>4, AllWellInit, OrderedInit, OrderedNext, PTL
         DEF Spec, ImplementsTraversal, T!Spec
=============================================================================
