-------------------------- MODULE ProvisionProofs --------------------------
EXTENDS Provision, FiniteSetTheorems, SequenceTheorems, WellFoundedInduction, TLAPS

-----------------------------------------------------------------------------
(* Effects and machines.                                                   *)

IsMachine(m) == m = [r \in DOMAIN m |-> m[r]]

IsEffect(e) == e \in [do : Seq(Range(e.do)), status : BOOLEAN, fails : BOOLEAN]

\* What a run that is cut after k writes has written, and has not.
Upto(e, k)  == [do |-> SubSeq(e.do, 1, k), status |-> e.status, fails |-> e.fails]
Since(e, k) == [do |-> SubSeq(e.do, k + 1, Len(e.do)), status |-> e.status, fails |-> e.fails]

\* The machines a run may leave, cut or not.
Cuts(m, e) == {After(m, Upto(e, k)) : k \in 0..Len(e.do)}

\* An effect is one whatever holds its writes.
LEMMA EffectIs ==
  ASSUME NEW W, NEW e \in [do : Seq(W), status : BOOLEAN, fails : BOOLEAN]
  PROVE  IsEffect(e)
<1>1. e.do \in Seq(W) /\ e.status \in BOOLEAN /\ e.fails \in BOOLEAN
  OBVIOUS
<1>2. Len(e.do) \in Nat /\ DOMAIN e.do = 1..Len(e.do) /\ e.do = [i \in 1..Len(e.do) |-> e.do[i]]
  BY <1>1
<1>3. e.do \in [1..Len(e.do) -> Range(e.do)]
  BY <1>2 DEF Range
<1>4. e.do \in Seq(Range(e.do))
  BY <1>2, <1>3, SeqDef
<1>5. e = [do |-> e.do, status |-> e.status, fails |-> e.fails]
  OBVIOUS
<1> QED  BY <1>1, <1>4, <1>5 DEF IsEffect

LEMMA EffectType ==
  ASSUME NEW e, IsEffect(e)
  PROVE  /\ e = [do |-> e.do, status |-> e.status, fails |-> e.fails]
         /\ e.status \in BOOLEAN /\ e.fails \in BOOLEAN
         /\ Len(e.do) \in Nat /\ DOMAIN e.do = 1..Len(e.do) /\ e.do \in Seq(Range(e.do))
<1>1. e.do \in Seq(Range(e.do)) /\ e.status \in BOOLEAN /\ e.fails \in BOOLEAN
  BY DEF IsEffect
<1>2. Len(e.do) \in Nat /\ DOMAIN e.do = 1..Len(e.do)
  <2> DEFINE W == Range(e.do)
  <2>1. e.do \in Seq(W)
    BY <1>1
  <2> HIDE DEF W
  <2> QED  BY <2>1
<1>3. e = [do |-> e.do, status |-> e.status, fails |-> e.fails]
  BY DEF IsEffect
<1> QED  BY <1>1, <1>2, <1>3

LEMMA UptoIs ==
  ASSUME NEW e, IsEffect(e), NEW k \in 0..Len(e.do)
  PROVE  /\ Upto(e, k).do \in Seq(Range(e.do)) /\ Len(Upto(e, k).do) = k /\ DOMAIN Upto(e, k).do = 1..k
         /\ \A i \in 1..k : Upto(e, k).do[i] = e.do[i]
         /\ Upto(e, k).status = e.status /\ Upto(e, k).fails = e.fails
<1> DEFINE W == Range(e.do)
<1>1. e = [do |-> e.do, status |-> e.status, fails |-> e.fails] /\ Len(e.do) \in Nat /\ e.do \in Seq(W)
  BY EffectType
<1>2. Upto(e, k).do = SubSeq(e.do, 1, k) /\ Upto(e, k).status = e.status /\ Upto(e, k).fails = e.fails
  BY <1>1 DEF Upto
<1> HIDE DEF W
<1>3. k \in Nat /\ k <= Len(e.do)
  BY <1>1
<1>4. SubSeq(e.do, 1, k) \in Seq(W) /\ Len(SubSeq(e.do, 1, k)) = k
  BY <1>1, <1>3
<1>5. \A i \in 1..k : SubSeq(e.do, 1, k)[i] = e.do[i]
  BY <1>1, <1>3
<1>6. DOMAIN SubSeq(e.do, 1, k) = 1..k
  BY <1>3, <1>4
<1> QED  BY <1>2, <1>4, <1>5, <1>6 DEF W

\* What was written, whatever comes next, is the whole once nothing is left.
LEMMA UptoAll ==
  ASSUME NEW e, IsEffect(e)
  PROVE  Upto(e, Len(e.do)) = e /\ Since(e, 0) = e
<1> DEFINE W == Range(e.do)
<1>1. e = [do |-> e.do, status |-> e.status, fails |-> e.fails] /\ Len(e.do) \in Nat /\ e.do \in Seq(W)
  BY EffectType
<1> HIDE DEF W
<1>2. SubSeq(e.do, 1, Len(e.do)) = e.do
  BY <1>1
<1>3. SubSeq(e.do, 0 + 1, Len(e.do)) = e.do
  BY <1>1
<1>4. Upto(e, Len(e.do)) = [do |-> SubSeq(e.do, 1, Len(e.do)), status |-> e.status, fails |-> e.fails]
  BY <1>1 DEF Upto
<1>5. Since(e, 0) = [do |-> SubSeq(e.do, 0 + 1, Len(e.do)), status |-> e.status, fails |-> e.fails]
  BY <1>1 DEF Since
<1> QED  BY <1>1, <1>2, <1>3, <1>4, <1>5

LEMMA LessIs ==
  ASSUME NEW f, NEW d, NEW s, NEW g, f = [do |-> d, status |-> s, fails |-> g]
  PROVE  [f EXCEPT !.do = Tail(@)] = [do |-> Tail(d), status |-> s, fails |-> g]
<1>1. f.do = d
  OBVIOUS
<1> DEFINE t == Tail(d)
<1>2. Tail(f.do) = t
  BY <1>1
<1> HIDE DEF t
<1>3. [f EXCEPT !.do = t] = [do |-> t, status |-> s, fails |-> g]
  OBVIOUS
<1>4. [f EXCEPT !.do = Tail(@)] = [f EXCEPT !.do = t]
  BY <1>2, Zenon
<1> QED  BY <1>3, <1>4 DEF t

LEMMA SinceIs ==
  ASSUME NEW e, IsEffect(e), NEW k \in 0..Len(e.do)
  PROVE  /\ Since(e, k).status = e.status /\ Since(e, k).fails = e.fails
         /\ Since(e, k).do # << >> <=> k < Len(e.do)
         /\ k < Len(e.do) => /\ Head(Since(e, k).do) = e.do[k + 1]
                             /\ [Since(e, k) EXCEPT !.do = Tail(@)] = Since(e, k + 1)
<1> DEFINE W == Range(e.do)
           d == e.do
<1>1. e = [do |-> d, status |-> e.status, fails |-> e.fails] /\ Len(d) \in Nat /\ d \in Seq(W)
  BY EffectType
<1>2. \A j : Since(e, j) = [do |-> SubSeq(d, j + 1, Len(d)), status |-> e.status, fails |-> e.fails]
  BY <1>1 DEF Since
<1>3. k \in Nat /\ k <= Len(d)
  BY <1>1
<1> HIDE DEF W, d
<1> DEFINE t == SubSeq(d, k + 1, Len(d))
<1>4. t \in Seq(W) /\ Len(t) = Len(d) - k /\ \A i \in 1..Len(t) : t[i] = d[k + i]
  BY <1>1, <1>3
<1>5. t # << >> <=> k < Len(d)
  BY <1>1, <1>3, <1>4
<1>6. ASSUME k < Len(d)
      PROVE  Head(t) = d[k + 1] /\ Tail(t) = SubSeq(d, k + 1 + 1, Len(d))
  <2>1. Head(t) = d[k + 1]
    BY <1>1, <1>3, <1>4, <1>6
  <2>2. k + 1 <= Len(d)
    BY <1>1, <1>3, <1>6
  <2>3. Tail(t) = [i \in 1..Len(t) - 1 |-> t[i + 1]]
    BY <1>1, <1>3, <1>4, <1>5, <1>6
  <2>4. SubSeq(d, k + 1 + 1, Len(d)) = [i \in 1..Len(d) - (k + 1) |-> d[k + 1 + i]]
    BY <1>1, <1>3, <2>2
  <2>5. Len(t) - 1 = Len(d) - (k + 1)
    BY <1>1, <1>3, <1>4
  <2>6. \A i \in 1..Len(t) - 1 : t[i + 1] = d[k + 1 + i]
    BY <1>1, <1>3, <1>4
  <2> HIDE DEF t
  <2> QED  BY <2>1, <2>3, <2>4, <2>5, <2>6
<1>7. Since(e, k) = [do |-> t, status |-> e.status, fails |-> e.fails]
  BY <1>2
<1>8. Since(e, k + 1) = [do |-> SubSeq(d, k + 1 + 1, Len(d)), status |-> e.status, fails |-> e.fails]
  BY <1>2
<1> HIDE DEF t
<1>9. ASSUME k < Len(d)
      PROVE  Head(Since(e, k).do) = d[k + 1] /\ [Since(e, k) EXCEPT !.do = Tail(@)] = Since(e, k + 1)
  <2>1. Since(e, k).do = t
    BY <1>7
  <2> DEFINE f == Since(e, k)
  <2>2. f = [do |-> t, status |-> e.status, fails |-> e.fails]
    BY <1>7
  <2> HIDE DEF f
  <2>3. [f EXCEPT !.do = Tail(@)] = [do |-> Tail(t), status |-> e.status, fails |-> e.fails]
    BY <2>2, LessIs
  <2>4. [f EXCEPT !.do = Tail(@)] = Since(e, k + 1)
    BY <2>3, <1>6, <1>8, <1>9
  <2> QED  BY <2>1, <2>4, <1>6, <1>9 DEF f
<1>10. /\ Since(e, k).status = e.status /\ Since(e, k).fails = e.fails
       /\ Since(e, k).do # << >> <=> k < Len(d)
  BY <1>5, <1>7
<1> QED  BY <1>9, <1>10 DEF d

\* A set of numbers has a lowest one, a bounded one has a highest one.
LEMMA LowestNumber ==
  ASSUME NEW S \in SUBSET Nat, S # {}
  PROVE  \E i \in S : \A j \in S : i <= j
<1> DEFINE R == {ss \in Nat \X Nat : ss[1] < ss[2]}
<1>1. IsWellFoundedOn(R, Nat)
  BY NatLessThanWellFounded DEF OpToRel
<1>2. \E i \in S : \A j \in S : ~(<<j, i>> \in R)
  <2> HIDE DEF R
  <2> QED  BY <1>1, WFMin
<1>3. \A i, j \in S : <<j, i>> \in R <=> j < i
  OBVIOUS
<1> HIDE DEF R
<1>4. PICK i \in S : \A j \in S : ~(<<j, i>> \in R)
  BY <1>2
<1>5. \A j \in S : ~(j < i)
  BY <1>3, <1>4
<1>6. ASSUME NEW j \in S PROVE i <= j
  <2>1. i \in Nat /\ j \in Nat /\ ~(j < i)
    BY <1>5
  <2> QED  BY <2>1
<1> QED  BY <1>6

LEMMA LatestIs ==
  ASSUME NEW n \in Nat, NEW I \in SUBSET (1..n), I # {}
  PROVE  Latest(I) \in I /\ \A j \in I : j <= Latest(I)
<1> DEFINE T == {n - i : i \in I}
<1>0. \A i \in I : n - i \in Nat
  OBVIOUS
<1>1. T \in SUBSET Nat /\ T # {}
  BY <1>0
<1>2. PICK k \in T : \A j \in T : k <= j
  <2> HIDE DEF T
  <2> QED  BY <1>1, LowestNumber
<1>3. PICK i \in I : k = n - i
  BY <1>2
<1>4. \A j \in I : n - j \in T
  OBVIOUS
<1> HIDE DEF T
<1>5. \A j \in I : j <= i
  BY <1>2, <1>3, <1>4
<1> QED  BY <1>5 DEF Latest

\* An effect without a write leaves the machine.
LEMMA AfterNone ==
  ASSUME NEW m, IsMachine(m), NEW e, e.do = << >>
  PROVE  After(m, e) = m
<1>1. DOMAIN e.do = {}
  OBVIOUS
<1>2. \A r : Writes(e, r) = {}
  BY <1>1 DEF Writes
<1>3. UNION {DOMAIN e.do[i] : i \in DOMAIN e.do} = {}
  BY <1>1
<1>4. DOMAIN m \cup UNION {DOMAIN e.do[i] : i \in DOMAIN e.do} = DOMAIN m
  BY <1>3
<1> QED  BY <1>2, <1>4 DEF After, IsMachine

\* One more write is one more Put.
LEMMA AfterNext ==
  ASSUME NEW m, NEW e, IsEffect(e), NEW k \in 0..(Len(e.do) - 1)
  PROVE  After(m, Upto(e, k + 1)) = Put(After(m, Upto(e, k)), e.do[k + 1])
<1> DEFINE u == Upto(e, k)
           v == Upto(e, k + 1)
           d == e.do[k + 1]
           U == UNION {DOMAIN u.do[i] : i \in DOMAIN u.do}
           V == UNION {DOMAIN v.do[i] : i \in DOMAIN v.do}
<1>0. Len(e.do) \in Nat /\ k \in Nat /\ k \in 0..Len(e.do) /\ k + 1 \in 0..Len(e.do)
  BY EffectType
<1>1. DOMAIN u.do = 1..k /\ \A i \in 1..k : u.do[i] = e.do[i]
  BY <1>0, UptoIs
<1>2. DOMAIN v.do = 1..(k + 1) /\ \A i \in 1..(k + 1) : v.do[i] = e.do[i]
  BY <1>0, UptoIs
<1> HIDE DEF u, v, d
<1>3. 1..(k + 1) = 1..k \cup {k + 1} /\ k + 1 \notin 1..k
  BY <1>0
<1>4. V = U \cup DOMAIN d
  BY <1>1, <1>2, <1>3 DEF d
<1>5. \A r : Writes(v, r) = Writes(u, r) \cup (IF r \in DOMAIN d THEN {k + 1} ELSE {})
  BY <1>1, <1>2, <1>3 DEF Writes, d
<1>6. \A r : Writes(u, r) \subseteq 1..k
  BY <1>1 DEF Writes
<1> HIDE DEF U, V
<1>7. ASSUME NEW r, r \in DOMAIN d
      PROVE  Writes(v, r) # {} /\ v.do[Latest(Writes(v, r))][r] = d[r]
  <2>1. k + 1 \in Writes(v, r) /\ Writes(v, r) \subseteq 1..(k + 1)
    <3>1. Writes(v, r) = Writes(u, r) \cup {k + 1}
      BY <1>5, <1>7
    <3>2. Writes(u, r) \subseteq 1..k
      BY <1>6
    <3> QED
      <4> DEFINE X == Writes(u, r)
                 Y == 1..k
                 Z == 1..(k + 1)
      <4>1. X \subseteq Y /\ Z = Y \cup {k + 1} /\ Writes(v, r) = X \cup {k + 1}
        BY <1>3, <3>1, <3>2
      <4> HIDE DEF X, Y, Z
      <4>2. k + 1 \in Writes(v, r) /\ Writes(v, r) \subseteq Z
        BY <4>1
      <4> QED  BY <4>2 DEF Z
  <2>0. k + 1 \in Nat /\ Writes(v, r) \in SUBSET (1..(k + 1)) /\ Writes(v, r) # {}
    BY <1>0, <2>1
  <2>2. Latest(Writes(v, r)) \in Writes(v, r) /\ \A j \in Writes(v, r) : j <= Latest(Writes(v, r))
    <3> DEFINE S == Writes(v, r)
               n == k + 1
    <3>1. n \in Nat /\ S \in SUBSET (1..n) /\ S # {}
      BY <2>0
    <3> HIDE DEF S, n
    <3>2. Latest(S) \in S /\ \A j \in S : j <= Latest(S)
      BY <3>1, LatestIs
    <3> QED  BY <3>2 DEF S
  <2>3. Latest(Writes(v, r)) = k + 1
    BY <1>0, <2>1, <2>2
  <2>4. k + 1 \in 1..(k + 1)
    BY <1>0
  <2> QED  BY <1>2, <2>1, <2>3, <2>4 DEF d
<1>8. ASSUME NEW r, r \notin DOMAIN d
      PROVE  /\ Writes(v, r) = Writes(u, r)
             /\ Writes(u, r) # {} => v.do[Latest(Writes(v, r))][r] = u.do[Latest(Writes(u, r))][r]
  <2>1. Writes(v, r) = Writes(u, r)
    BY <1>5, <1>8
  <2>2. ASSUME Writes(u, r) # {} PROVE Latest(Writes(u, r)) \in 1..k
    BY <1>0, <1>6, <2>2, LatestIs
  <2> QED  BY <1>1, <1>2, <1>3, <2>1, <2>2
<1> DEFINE A == After(m, u)
<1>9. A = [r \in DOMAIN m \cup U |-> IF Writes(u, r) = {} THEN m[r] ELSE u.do[Latest(Writes(u, r))][r]]
  BY DEF After, U
<1>10. After(m, v) =
         [r \in DOMAIN m \cup V |-> IF Writes(v, r) = {} THEN m[r] ELSE v.do[Latest(Writes(v, r))][r]]
  BY DEF After, V
<1> HIDE DEF A
<1>11. Put(A, d) = [r \in DOMAIN d \cup DOMAIN A |-> IF r \in DOMAIN d THEN d[r] ELSE A[r]]
  BY DEF Put, ++
<1>12. DOMAIN d \cup DOMAIN A = DOMAIN m \cup V
  BY <1>4, <1>9
<1>13. ASSUME NEW r \in DOMAIN m \cup V
       PROVE  (IF Writes(v, r) = {} THEN m[r] ELSE v.do[Latest(Writes(v, r))][r])
                = IF r \in DOMAIN d THEN d[r] ELSE A[r]
  <2>1. CASE r \in DOMAIN d
    BY <1>7, <2>1
  <2>2. CASE r \notin DOMAIN d
    <3>1. r \in DOMAIN m \cup U
      BY <1>4, <1>13, <2>2
    <3>2. A[r] = IF Writes(u, r) = {} THEN m[r] ELSE u.do[Latest(Writes(u, r))][r]
      BY <1>9, <3>1
    <3> QED  BY <1>8, <2>2, <3>2
  <2> QED  BY <2>1, <2>2
<1>14. After(m, v) = Put(A, d)
  BY <1>10, <1>11, <1>12, <1>13
<1> QED  BY <1>14 DEF A, u, v, d

LEMMA AfterIs ==
  ASSUME NEW m, NEW e
  PROVE  IsMachine(After(m, e))
BY DEF After, IsMachine

LEMMA UptoNone ==
  ASSUME NEW m, IsMachine(m), NEW e, IsEffect(e)
  PROVE  /\ Upto(e, 0).do = << >> /\ After(m, Upto(e, 0)) = m /\ m \in Cuts(m, e)
         /\ After(m, e) \in Cuts(m, e)
         /\ e.do = << >> <=> Len(e.do) = 0
<1>1. Len(e.do) \in Nat /\ 0 \in 0..Len(e.do) /\ Len(e.do) \in 0..Len(e.do)
  BY EffectType
<1>2. Upto(e, 0).do = << >> /\ (e.do = << >> <=> Len(e.do) = 0)
  <2> DEFINE W == Range(e.do)
             d == Upto(e, 0).do
  <2>1. d \in Seq(W) /\ Len(d) = 0 /\ e.do \in Seq(W)
    BY <1>1, UptoIs, EffectType
  <2> HIDE DEF W, d
  <2>2. d = << >> /\ (e.do = << >> <=> Len(e.do) = 0)
    BY <2>1
  <2> QED  BY <2>2 DEF d
<1>3. After(m, Upto(e, 0)) = m
  BY <1>2, AfterNone
<1>4. m \in Cuts(m, e)
  BY <1>1, <1>3 DEF Cuts
<1>5. Upto(e, Len(e.do)) = e
  BY UptoAll
<1>6. After(m, e) \in Cuts(m, e)
  BY <1>1, <1>5 DEF Cuts
<1> QED  BY <1>2, <1>3, <1>4, <1>6

-----------------------------------------------------------------------------
(***************************************************************************)
(* What a handler must be for its runs to be cut anywhere: it looks at the *)
(* machine a cut run left and does what is left to do, no less, no more.   *)
(***************************************************************************)
Final(c, m) == After(m, Handler(c, m))

Resumes(c, w) ==
  /\ IsMachine(w)
  /\ IsEffect(Handler(c, w))
  /\ \A m \in Cuts(w, Handler(c, w)) :
       /\ IsEffect(Handler(c, m))
       /\ Handler(c, m).fails = Handler(c, w).fails
       /\ Cuts(m, Handler(c, m)) \subseteq Cuts(w, Handler(c, w))
       /\ Final(c, m) = Final(c, w)

\* Its status tells whether there was something left to do.
Tells(c, w) ==
  "StatusTells" \notin Except(c, w) /\ ~Handler(c, w).fails =>
    \A m \in Cuts(w, Handler(c, w)) : Handler(c, m).status <=> ~SameMachine(Final(c, w), m)

\* It gets what it promises, and does not fail when it could have it.
Gets(c, w) ==
  /\ ~Handler(c, w).fails =>
       \/ Goal(c, w, Final(c, w))
       \/ /\ "Delivers" \in Except(c, w)
          /\ "Converges" \in Except(c, w) \/ Handler(c, w).do = << >>
  /\ Handler(c, w).fails /\ c.kind \in Assertions /\ "Delivers" \notin Except(c, w) =>
       ~Goal(c, w, Final(c, w))

\* It touches nothing else, the first time and the next ones.
Keeps(c, w) ==
  "LeavesTheRest" \notin Except(c, w) /\ ~Handler(c, w).fails =>
    Spares(c, w, Final(c, w)) /\ Spares(c, Final(c, w), Final(c, w))

(***************************************************************************)
(* The inductive invariant: the machine is one that the first run, cut or  *)
(* not, would have left, and the current run goes from one of them to the  *)
(* last.                                                                   *)
(***************************************************************************)
FirstRun == Handler(job, case.machine)
Outcome == Final(job, case.machine)

Resumable == Resumes(job, case.machine)

InRun ==
  phase = "running" =>
    \E k \in 0..Len(Handler(job, before).do) :
      /\ effect = Since(Handler(job, before), k)
      /\ machine = After(before, Upto(Handler(job, before), k))

AtRest ==
  /\ phase = "idle" => machine = case.machine /\ cuts = 0
  /\ phase = "fulfilled" => machine = Outcome /\ ~FirstRun.fails /\ effect.status = Handler(job, before).status
  /\ phase = "rejected" /\ cuts = 0 => machine = Outcome /\ FirstRun.fails

RunInv ==
  /\ cuts \in Nat
  /\ phase \in {"idle", "running", "fulfilled", "rejected"}
  /\ machine \in Cuts(case.machine, FirstRun) /\ before \in Cuts(case.machine, FirstRun)
  /\ InRun
  /\ AtRest
  /\ able /\ phase # "idle" => ~FirstRun.fails
  /\ cuts = 0 => before \in {case.machine, Outcome}
  /\ cuts > 0 => FirstRun.do # << >>


LEMMA RunStarts ==
  ASSUME Resumable, Init
  PROVE  RunInv
<1>1. machine \in Cuts(case.machine, FirstRun)
  BY UptoNone DEF Init, Resumable, Resumes, FirstRun
<1> QED  BY <1>1 DEF Init, RunInv, InRun, AtRest

LEMMA RunStart ==
  ASSUME Resumable, RunInv, Start
  PROVE  RunInv'
<1> DEFINE e == Handler(job, machine)
<1>1. /\ effect' = e /\ before' = machine /\ machine' = machine /\ phase' = "running" /\ cuts' = cuts
      /\ case' = case /\ phase # "running"
      /\ able' = IF phase = "idle" THEN ~e.fails ELSE able
  BY DEF Start
<1>2. FirstRun' = FirstRun /\ Outcome' = Outcome /\ job' = job
  BY <1>1 DEF FirstRun, Outcome, job
<1>3. machine \in Cuts(case.machine, FirstRun) /\ IsMachine(machine) /\ IsEffect(e)
  BY AfterIs DEF RunInv, Cuts, Resumable, Resumes, FirstRun
<1>4. e = Since(e, 0) /\ machine = After(machine, Upto(e, 0)) /\ 0 \in 0..Len(e.do)
  BY <1>3, UptoAll, UptoNone, EffectType
<1> HIDE DEF e
<1>5. InRun'
  <2>1. Handler(job, before)' = e
    BY <1>1, <1>2 DEF e
  <2> QED  BY <1>1, <1>2, <1>4, <2>1 DEF InRun
<1>6. AtRest'
  BY <1>1 DEF AtRest
<1>7. able' /\ phase' # "idle" => ~FirstRun'.fails
  <2>1. phase = "idle" => e = FirstRun
    BY DEF RunInv, AtRest, e, FirstRun
  <2> QED  BY <1>1, <1>2, <2>1 DEF RunInv
<1>8. cuts' = 0 => before' \in {case.machine, Outcome}'
  BY <1>1, <1>2 DEF RunInv, AtRest
<1> QED  BY <1>1, <1>2, <1>3, <1>5, <1>6, <1>7, <1>8 DEF RunInv

\* Where a running action stands.
LEMMA RunAt ==
  ASSUME Resumable, RunInv, phase = "running"
  PROVE  /\ IsEffect(Handler(job, before)) /\ IsMachine(before)
         /\ Len(Handler(job, before).do) \in Nat
         /\ Cuts(before, Handler(job, before)) \subseteq Cuts(case.machine, FirstRun)
         /\ Handler(job, before).fails = FirstRun.fails
         /\ After(before, Handler(job, before)) = Outcome
         /\ \E k \in 0..Len(Handler(job, before).do) :
              /\ effect = Since(Handler(job, before), k)
              /\ machine = After(before, Upto(Handler(job, before), k))
<1>1. before \in Cuts(case.machine, FirstRun)
  BY DEF RunInv
<1>2. /\ IsEffect(Handler(job, before))
      /\ Cuts(before, Handler(job, before)) \subseteq Cuts(case.machine, FirstRun)
      /\ Handler(job, before).fails = FirstRun.fails
      /\ After(before, Handler(job, before)) = Outcome
  BY <1>1 DEF Resumable, Resumes, FirstRun, Final, Outcome
<1>3. IsMachine(before)
  BY <1>1, AfterIs DEF Cuts
<1>4. Len(Handler(job, before).do) \in Nat
  BY <1>2, EffectType
<1> QED  BY <1>2, <1>3, <1>4 DEF RunInv, InRun

LEMMA RunCommand ==
  ASSUME Resumable, RunInv, Command
  PROVE  RunInv'
<1> DEFINE e == Handler(job, before)
<1>1. /\ phase = "running" /\ effect.do # << >>
      /\ machine' = Put(machine, Head(effect.do)) /\ effect' = [effect EXCEPT !.do = Tail(@)]
      /\ case' = case /\ before' = before /\ phase' = phase /\ able' = able /\ cuts' = cuts
  BY DEF Command
<1>2. FirstRun' = FirstRun /\ Outcome' = Outcome /\ job' = job
  BY <1>1 DEF FirstRun, Outcome, job
<1>3. /\ IsEffect(e) /\ Len(e.do) \in Nat /\ Cuts(before, e) \subseteq Cuts(case.machine, FirstRun)
      /\ \E k \in 0..Len(e.do) : effect = Since(e, k) /\ machine = After(before, Upto(e, k))
  BY <1>1, RunAt
<1>4. Handler(job, before)' = e
  BY <1>1, <1>2
<1> HIDE DEF e
<1>5. PICK k \in 0..Len(e.do) : effect = Since(e, k) /\ machine = After(before, Upto(e, k))
  BY <1>3
<1>6. k < Len(e.do) /\ Head(effect.do) = e.do[k + 1] /\ effect' = Since(e, k + 1)
  BY <1>1, <1>3, <1>5, SinceIs
<1>7. k + 1 \in 0..Len(e.do) /\ k \in 0..(Len(e.do) - 1)
  BY <1>3, <1>6
<1>8. machine' = After(before, Upto(e, k + 1))
  BY <1>1, <1>3, <1>5, <1>6, <1>7, AfterNext
<1>9. machine' \in Cuts(case.machine, FirstRun)
  BY <1>3, <1>7, <1>8 DEF Cuts
<1>10. InRun'
  BY <1>1, <1>4, <1>6, <1>7, <1>8 DEF InRun
<1>11. AtRest'
  BY <1>1 DEF AtRest
<1> QED  BY <1>1, <1>2, <1>9, <1>10, <1>11 DEF RunInv

LEMMA RunSettle ==
  ASSUME Resumable, RunInv, Settle
  PROVE  RunInv'
<1> DEFINE e == Handler(job, before)
<1>1. /\ phase = "running" /\ effect.do = << >>
      /\ phase' = IF effect.fails THEN "rejected" ELSE "fulfilled"
      /\ case' = case /\ before' = before /\ machine' = machine /\ effect' = effect /\ able' = able
      /\ cuts' = cuts
  BY DEF Settle
<1>2. FirstRun' = FirstRun /\ Outcome' = Outcome /\ job' = job
  BY <1>1 DEF FirstRun, Outcome, job
<1>3. /\ IsEffect(e) /\ Len(e.do) \in Nat /\ e.fails = FirstRun.fails /\ After(before, e) = Outcome
      /\ \E k \in 0..Len(e.do) : effect = Since(e, k) /\ machine = After(before, Upto(e, k))
  BY <1>1, RunAt
<1>4. Handler(job, before)' = e
  BY <1>1, <1>2
<1> HIDE DEF e
<1>5. PICK k \in 0..Len(e.do) : effect = Since(e, k) /\ machine = After(before, Upto(e, k))
  BY <1>3
<1>6. effect.status = e.status /\ effect.fails = e.fails /\ k = Len(e.do)
  <2>1. effect.status = e.status /\ effect.fails = e.fails /\ ~(k < Len(e.do))
    BY <1>1, <1>3, <1>5, SinceIs
  <2> QED  BY <1>3, <2>1
<1>7. machine = Outcome
  BY <1>3, <1>5, <1>6, UptoAll
<1>8. AtRest'
  BY <1>1, <1>2, <1>3, <1>4, <1>6, <1>7 DEF AtRest
<1> QED  BY <1>1, <1>2, <1>8 DEF RunInv, InRun

LEMMA RunCut ==
  ASSUME Resumable, RunInv, Cut
  PROVE  RunInv'
<1> DEFINE e == Handler(job, before)
<1>1. /\ phase = "running" /\ effect.do # << >> /\ cuts' = cuts + 1 /\ phase' = "rejected"
      /\ case' = case /\ before' = before /\ machine' = machine /\ able' = able
  BY DEF Cut
<1>2. FirstRun' = FirstRun /\ Outcome' = Outcome /\ job' = job
  BY <1>1 DEF FirstRun, Outcome, job
<1>3. cuts \in Nat /\ cuts' \in Nat /\ cuts' # 0
  BY <1>1 DEF RunInv
<1>4. /\ IsEffect(e) /\ Len(e.do) \in Nat
      /\ \E k \in 0..Len(e.do) : effect = Since(e, k)
  BY <1>1, RunAt
<1>5. e.do # << >>
  <2> HIDE DEF e
  <2>1. PICK k \in 0..Len(e.do) : effect = Since(e, k)
    BY <1>4
  <2>2. k < Len(e.do)
    BY <1>1, <1>4, <2>1, SinceIs
  <2>3. Len(e.do) # 0
    BY <1>4, <2>2
  <2> QED  BY <1>4, <2>3
<1>6. FirstRun.do # << >>
  <2> SUFFICES ASSUME FirstRun.do = << >> PROVE FALSE
    OBVIOUS
  <2>1. IsMachine(case.machine) /\ IsEffect(FirstRun) /\ before \in Cuts(case.machine, FirstRun)
    BY DEF Resumable, Resumes, FirstRun, RunInv
  <2>2. Len(FirstRun.do) = 0
    OBVIOUS
  <2>3. before = case.machine
    <3>1. \A k \in 0..0 : k = 0
      OBVIOUS
    <3>2. before = After(case.machine, Upto(FirstRun, 0))
      BY <2>1, <2>2, <3>1 DEF Cuts
    <3> QED  BY <2>1, <3>2, UptoNone
  <2> QED  BY <1>5, <2>3 DEF FirstRun
<1>7. InRun' /\ AtRest'
  BY <1>1, <1>3 DEF InRun, AtRest
<1> QED  BY <1>1, <1>2, <1>3, <1>6, <1>7 DEF RunInv

LEMMA RunNext ==
  ASSUME Resumable, RunInv, [Next]_vars
  PROVE  RunInv' /\ Resumable'
<1>1. case' = case
  BY DEF Next, Start, Command, Settle, Cut, vars
<1>2. Resumable'
  BY <1>1 DEF Resumable, job
<1>3. CASE UNCHANGED vars
  <2>1. /\ case' = case /\ machine' = machine /\ before' = before /\ effect' = effect /\ phase' = phase
        /\ able' = able /\ cuts' = cuts
    BY <1>3 DEF vars
  <2>2. FirstRun' = FirstRun /\ Outcome' = Outcome /\ job' = job
    BY <2>1 DEF FirstRun, Outcome, job
  <2> DEFINE e == Handler(job, before)
  <2>3. Handler(job, before)' = e
    BY <2>1, <2>2
  <2> HIDE DEF e
  <2>4. InRun' /\ AtRest'
    <3>1. InRun
      BY DEF RunInv
    <3>2. AtRest
      BY DEF RunInv
    <3>3. InRun'
      BY <2>1, <2>2, <2>3, <3>1 DEF InRun, e
    <3>4. AtRest'
      BY <2>1, <2>2, <2>3, <3>2 DEF AtRest, e
    <3> QED  BY <3>3, <3>4
  <2> QED  BY <1>2, <2>1, <2>2, <2>4 DEF RunInv
<1>4. CASE Next
  <2>1. CASE Start    BY <1>2, <2>1, RunStart
  <2>2. CASE Command  BY <1>2, <2>2, RunCommand
  <2>3. CASE Settle   BY <1>2, <2>3, RunSettle
  <2>4. CASE Cut      BY <1>2, <2>4, RunCut
  <2> QED  BY <1>4, <2>1, <2>2, <2>3, <2>4 DEF Next
<1> QED  BY <1>2, <1>3, <1>4

\* A run that is cut anywhere stays on the way of the first one.
THEOREM RunsResume == Resumable /\ Spec => [](RunInv /\ Resumable)
<1>1. Resumable /\ Init => RunInv /\ Resumable
  BY RunStarts
<1>2. RunInv /\ Resumable /\ [Next]_vars => (RunInv /\ Resumable)'
  BY RunNext
<1> QED  BY <1>1, <1>2, PTL DEF Spec

-----------------------------------------------------------------------------
(***************************************************************************)
(* The properties of Provision, whatever the handler, the machine and the  *)
(* number of cuts, of the actions that resume.                             *)
(***************************************************************************)
Telling == Tells(job, case.machine)
Getting == Gets(job, case.machine)
Keeping == Keeps(job, case.machine)

LEMMA CaseStays ==
  ASSUME [Next]_vars
  PROVE  case' = case
BY DEF Next, Start, Command, Settle, Cut, vars

\* Delivers: what a fulfilled action promises holds, and what a rejected
\* assertion asserts does not.
THEOREM ProvisionDelivers == Resumable /\ Getting /\ Spec => []Delivers
<1>1. RunInv /\ Getting => Delivers
  BY DEF RunInv, AtRest, Getting, Gets, Delivers, Promised, FirstRun, Outcome, Final
<1>2. Getting /\ [Next]_vars => Getting'
  BY CaseStays DEF Getting, job
<1> QED  BY <1>1, <1>2, RunsResume, PTL DEF Spec

\* Converges: an action that is fulfilled after runs that were cut anywhere
\* has what it promises.
THEOREM ProvisionConverges == Resumable /\ Getting /\ Spec => []Converges
<1>1. RunInv /\ Getting => Converges
  <2> SUFFICES ASSUME RunInv, Getting, phase = "fulfilled", cuts > 0, Promised("Converges")
               PROVE  Goal(job, case.machine, machine)
    BY DEF Converges
  <2>1. machine = Outcome /\ ~FirstRun.fails /\ FirstRun.do # << >>
    BY DEF RunInv, AtRest
  <2> QED  BY <2>1 DEF Getting, Gets, Promised, FirstRun, Outcome
<1>2. Getting /\ [Next]_vars => Getting'
  BY CaseStays DEF Getting, job
<1> QED  BY <1>1, <1>2, RunsResume, PTL DEF Spec

\* StatusTells: the status of a fulfilled action tells whether this run, and
\* not the ones that were cut before it, changed the machine.
THEOREM ProvisionStatusTells == Resumable /\ Telling /\ Spec => []StatusTells
<1>1. RunInv /\ Telling => StatusTells
  <2> SUFFICES ASSUME RunInv, Telling, phase = "fulfilled", Promised("StatusTells")
               PROVE  effect.status <=> ~SameMachine(machine, before)
    BY DEF StatusTells
  <2>1. /\ machine = Outcome /\ ~FirstRun.fails /\ effect.status = Handler(job, before).status
        /\ before \in Cuts(case.machine, FirstRun)
    BY DEF RunInv, AtRest
  <2>2. Handler(job, before).status <=> ~SameMachine(Outcome, before)
    BY <2>1 DEF Telling, Tells, Promised, FirstRun, Outcome
  <2> QED  BY <2>1, <2>2
<1>2. Telling /\ [Next]_vars => Telling'
  BY CaseStays DEF Telling, job
<1> QED  BY <1>1, <1>2, RunsResume, PTL DEF Spec

\* What is run at rest is run on the outcome of the first run, or on what a cut
\* one left of it.
LEMMA StartAgain ==
  ASSUME Resumable, RunInv, phase # "running", phase' = "running", [Next]_vars
  PROVE  /\ effect' = Handler(job, machine) /\ effect'.fails = FirstRun.fails
         /\ After(machine, effect') = Outcome
<1>1. effect' = Handler(job, machine)
  BY DEF Next, Start, Command, Settle, Cut, vars
<1>2. machine \in Cuts(case.machine, FirstRun)
  BY DEF RunInv
<1> QED  BY <1>1, <1>2 DEF Resumable, Resumes, FirstRun, Outcome, Final

\* QuietAgain: run again, an action that was fulfilled, even after cut runs,
\* changes nothing and is fulfilled.
THEOREM ProvisionQuietAgain == Resumable /\ Spec => QuietAgain
<1>1. ASSUME Resumable, RunInv, [Next]_vars, phase = "fulfilled", phase' = "running"
      PROVE  ~effect'.fails /\ SameMachine(After(machine, effect'), machine)
  <2>1. machine = Outcome /\ ~FirstRun.fails
    BY <1>1 DEF RunInv, AtRest
  <2>2. effect'.fails = FirstRun.fails /\ After(machine, effect') = Outcome
    BY <1>1, StartAgain
  <2>3. SameMachine(machine, machine)
    BY DEF SameMachine
  <2> QED  BY <2>1, <2>2, <2>3
<1>2. RunInv /\ Resumable /\ [Next]_vars =>
        [phase = "fulfilled" /\ phase' = "running" /\ Promised("QuietAgain") =>
           ~effect'.fails /\ SameMachine(After(machine, effect'), machine)]_vars
  BY <1>1
<1> QED  BY <1>2, RunsResume, PTL DEF Spec, QuietAgain

\* Repairable: an action that could be run at first can be run after a failure.
THEOREM ProvisionRepairable == Resumable /\ Spec => Repairable
<1>1. ASSUME Resumable, RunInv, [Next]_vars, phase = "rejected", phase' = "running", able
      PROVE  ~effect'.fails
  <2>1. ~FirstRun.fails
    BY <1>1 DEF RunInv
  <2>2. effect'.fails = FirstRun.fails
    BY <1>1, StartAgain
  <2> QED  BY <2>1, <2>2
<1>2. RunInv /\ Resumable /\ [Next]_vars =>
        [phase = "rejected" /\ phase' = "running" /\ Promised("Repairable") /\ able => ~effect'.fails]_vars
  BY <1>1
<1> QED  BY <1>2, RunsResume, PTL DEF Spec, Repairable

\* LeavesTheRest: what an action is not asked to change is as it was.
THEOREM ProvisionLeavesTheRest == Resumable /\ Keeping /\ Spec => []LeavesTheRest
<1>1. RunInv /\ Keeping => LeavesTheRest
  <2> SUFFICES ASSUME RunInv, Keeping, phase = "fulfilled", cuts = 0, Promised("LeavesTheRest")
               PROVE  Spares(job, before, machine)
    BY DEF LeavesTheRest
  <2>1. machine = Outcome /\ ~FirstRun.fails /\ before \in {case.machine, Outcome}
    BY DEF RunInv, AtRest
  <2> QED  BY <2>1 DEF Keeping, Keeps, Promised, FirstRun, Outcome
<1>2. Keeping /\ [Next]_vars => Keeping'
  BY CaseStays DEF Keeping, job
<1> QED  BY <1>1, <1>2, RunsResume, PTL DEF Spec

-----------------------------------------------------------------------------
(***************************************************************************)
(* Effects of no write, of one and of two.                                 *)
(***************************************************************************)
Sound(c, w) == Resumes(c, w) /\ Tells(c, w) /\ Gets(c, w) /\ Keeps(c, w)

LEMMA PutTwice ==
  ASSUME NEW m, NEW W
  PROVE  Put(Put(m, W), W) = Put(m, W)
<1>1. Put(m, W) = [x \in DOMAIN W \cup DOMAIN m |-> IF x \in DOMAIN W THEN W[x] ELSE m[x]]
  BY DEF Put, ++
<1> DEFINE n == Put(m, W)
<1>2. Put(n, W) = [x \in DOMAIN W \cup DOMAIN n |-> IF x \in DOMAIN W THEN W[x] ELSE n[x]]
  BY DEF Put, ++
<1>3. DOMAIN W \cup DOMAIN n = DOMAIN W \cup DOMAIN m
  BY <1>1
<1>4. \A x \in DOMAIN W \cup DOMAIN m : (IF x \in DOMAIN W THEN W[x] ELSE n[x]) = IF x \in DOMAIN W THEN W[x] ELSE m[x]
  BY <1>1
<1> HIDE DEF n
<1>5. Put(n, W) = Put(m, W)
  BY <1>1, <1>2, <1>3, <1>4
<1> QED  BY <1>5 DEF n

LEMMA CutsNone ==
  ASSUME NEW m, IsMachine(m), NEW e, IsEffect(e), e.do = << >>
  PROVE  Cuts(m, e) = {m} /\ After(m, e) = m
<1>2. Len(e.do) = 0
  OBVIOUS
<1>3. After(m, e) = m /\ After(m, Upto(e, 0)) = m
  BY AfterNone, UptoNone
<1>4. 0..Len(e.do) = {0}
  BY <1>2
<1>5. Cuts(m, e) = {m}
  BY <1>3, <1>4 DEF Cuts
<1> QED  BY <1>3, <1>5

LEMMA NextWrite ==
  ASSUME NEW m, NEW e, IsEffect(e), NEW k \in Nat, NEW j, j = k + 1, k < Len(e.do)
  PROVE  After(m, Upto(e, j)) = Put(After(m, Upto(e, k)), e.do[j])
<1>1. Len(e.do) \in Nat
  BY EffectType
<1>2. k \in 0..(Len(e.do) - 1)
  BY <1>1
<1> QED  BY <1>2, AfterNext

LEMMA CutsOne ==
  ASSUME NEW m, IsMachine(m), NEW W, NEW e, IsEffect(e), e.do = <<W>>
  PROVE  Cuts(m, e) = {m, Put(m, W)} /\ After(m, e) = Put(m, W)
<1>1. Len(e.do) = 1 /\ e.do[1] = W
  OBVIOUS
<1>2. 0..Len(e.do) = {0, 1}
  BY <1>1
<1>3. After(m, Upto(e, 0)) = m
  BY UptoNone
<1>4. After(m, Upto(e, 1)) = Put(m, W)
  <2> DEFINE k == 0
             j == 1
  <2>1. k \in Nat /\ j = k + 1 /\ k < Len(e.do) /\ After(m, Upto(e, k)) = m /\ e.do[j] = W
    BY <1>1, <1>3
  <2> HIDE DEF k, j
  <2>2. After(m, Upto(e, j)) = Put(m, W)
    BY <2>1, NextWrite
  <2> QED  BY <2>2 DEF j
<1>5. Upto(e, 1) = e
  BY <1>1, UptoAll
<1> QED  BY <1>2, <1>3, <1>4, <1>5 DEF Cuts

LEMMA CutsTwo ==
  ASSUME NEW m, IsMachine(m), NEW V, NEW W, NEW e, IsEffect(e), e.do = <<V, W>>
  PROVE  /\ Cuts(m, e) = {m, Put(m, V), Put(Put(m, V), W)}
         /\ After(m, e) = Put(Put(m, V), W)
<1>1. Len(e.do) = 2 /\ e.do[1] = V /\ e.do[2] = W
  OBVIOUS
<1>2. 0..Len(e.do) = {0, 1, 2}
  BY <1>1
<1>3. After(m, Upto(e, 0)) = m
  BY UptoNone
<1> DEFINE k == 0
           j == 1
           l == 2
<1>4. /\ k \in Nat /\ j \in Nat /\ j = k + 1 /\ l = j + 1 /\ k < Len(e.do) /\ j < Len(e.do)
      /\ After(m, Upto(e, k)) = m /\ e.do[j] = V /\ e.do[l] = W
  BY <1>1, <1>3
<1> HIDE DEF k, j, l
<1>5. After(m, Upto(e, j)) = Put(m, V)
  BY <1>4, NextWrite
<1>6. After(m, Upto(e, l)) = Put(Put(m, V), W)
  <2>1. After(m, Upto(e, l)) = Put(After(m, Upto(e, j)), e.do[l])
    <3>1. j \in Nat /\ l = j + 1 /\ j < Len(e.do)
      BY <1>4
    <3> QED  BY <3>1, NextWrite
  <2> QED  BY <1>4, <1>5, <2>1
<1>7. Upto(e, 2) = e
  BY <1>1, UptoAll
<1> QED  BY <1>2, <1>3, <1>5, <1>6, <1>7 DEF Cuts, j, l

\* What is a write, or nothing.
LEMMA WithIs ==
  ASSUME NEW f, NEW d, NEW s, NEW g, f = [do |-> d, status |-> s, fails |-> g], NEW t
  PROVE  /\ [f EXCEPT !.status = t] = [do |-> d, status |-> t, fails |-> g]
         /\ [f EXCEPT !.fails = t] = [do |-> d, status |-> s, fails |-> t]
         /\ [f EXCEPT !.do = t] = [do |-> t, status |-> s, fails |-> g]
OBVIOUS

LEMMA Forms ==
  /\ Nothing = [do |-> << >>, status |-> FALSE, fails |-> FALSE]
  /\ Throw = [do |-> << >>, status |-> FALSE, fails |-> TRUE]
  /\ Look = [do |-> << >>, status |-> TRUE, fails |-> FALSE]
  /\ \A W : Run(W) = [do |-> <<W>>, status |-> TRUE, fails |-> FALSE]
  /\ \A W : Write(W) = [do |-> <<W>>, status |-> FALSE, fails |-> FALSE]
<1> DEFINE none == << >>
           no   == FALSE
           yes  == TRUE
           N    == Nothing
<1>1. N = [do |-> none, status |-> no, fails |-> no]
  BY DEF Nothing
<1>2. Throw = [N EXCEPT !.fails = yes] /\ Look = [N EXCEPT !.status = yes]
  BY DEF Throw, Look, Returns
<1>3. \A W : Write(W) = [N EXCEPT !.do = <<W>>] /\ Run(W) = [Write(W) EXCEPT !.status = yes]
  BY DEF Write, Run, Returns
<1> HIDE DEF none, no, yes, N
<1>4. Throw = [do |-> none, status |-> no, fails |-> yes]
  BY <1>1, <1>2, WithIs
<1>5. Look = [do |-> none, status |-> yes, fails |-> no]
  BY <1>1, <1>2, WithIs
<1>6. ASSUME NEW W
      PROVE  /\ Run(W) = [do |-> <<W>>, status |-> yes, fails |-> no]
             /\ Write(W) = [do |-> <<W>>, status |-> no, fails |-> no]
  <2> DEFINE d == <<W>>
             V == Write(W)
  <2>1. V = [N EXCEPT !.do = d] /\ Run(W) = [V EXCEPT !.status = yes]
    BY <1>3
  <2> HIDE DEF d, V
  <2>2. V = [do |-> d, status |-> no, fails |-> no]
    BY <1>1, <2>1, WithIs
  <2>3. Run(W) = [do |-> d, status |-> yes, fails |-> no]
    <3>1. [V EXCEPT !.status = yes] = [do |-> d, status |-> yes, fails |-> no]
      BY <2>2, WithIs
    <3> QED  BY <2>1, <3>1
  <2> QED  BY <2>2, <2>3 DEF d, V
<1> QED  BY <1>1, <1>4, <1>5, <1>6 DEF none, no, yes, N

LEMMA NothingIs ==
  /\ IsEffect(Nothing) /\ Nothing.do = << >> /\ ~Nothing.status /\ ~Nothing.fails
  /\ IsEffect(Throw) /\ Throw.do = << >> /\ ~Throw.status /\ Throw.fails
  /\ IsEffect(Look) /\ Look.do = << >> /\ Look.status /\ ~Look.fails
<1> DEFINE N == Nothing
           T == Throw
           L == Look
<1>1. /\ N \in [do : Seq({}), status : BOOLEAN, fails : BOOLEAN]
      /\ T \in [do : Seq({}), status : BOOLEAN, fails : BOOLEAN]
      /\ L \in [do : Seq({}), status : BOOLEAN, fails : BOOLEAN]
      /\ N.do = << >> /\ ~N.status /\ ~N.fails
      /\ T.do = << >> /\ ~T.status /\ T.fails
      /\ L.do = << >> /\ L.status /\ ~L.fails
  BY Forms
<1> HIDE DEF N, T, L
<1>2. IsEffect(N) /\ IsEffect(T) /\ IsEffect(L)
  BY <1>1, EffectIs
<1> QED  BY <1>1, <1>2 DEF N, T, L

LEMMA RunIs ==
  ASSUME NEW W
  PROVE  /\ IsEffect(Run(W)) /\ Run(W).do = <<W>> /\ Run(W).status /\ ~Run(W).fails
         /\ IsEffect(Write(W)) /\ Write(W).do = <<W>> /\ ~Write(W).status /\ ~Write(W).fails
<1> DEFINE R == Run(W)
           V == Write(W)
<1>0. R = [do |-> <<W>>, status |-> TRUE, fails |-> FALSE] /\ V = [do |-> <<W>>, status |-> FALSE, fails |-> FALSE]
  BY Forms
<1>1. /\ R \in [do : Seq({W}), status : BOOLEAN, fails : BOOLEAN]
      /\ V \in [do : Seq({W}), status : BOOLEAN, fails : BOOLEAN]
      /\ R.do = <<W>> /\ R.status /\ ~R.fails
      /\ V.do = <<W>> /\ ~V.status /\ ~V.fails
  BY <1>0
<1> HIDE DEF R, V
<1>2. IsEffect(R) /\ IsEffect(V)
  BY <1>1, EffectIs
<1> QED  BY <1>1, <1>2 DEF R, V

LEMMA ReturnsIs ==
  ASSUME NEW e, IsEffect(e), NEW s \in BOOLEAN
  PROVE  LET f == Returns(e, s)
         IN  IsEffect(f) /\ f.do = e.do /\ f.status = s /\ f.fails = e.fails
<1>1. e = [do |-> e.do, status |-> e.status, fails |-> e.fails]
  BY EffectType
<1>2. Returns(e, s) = [do |-> e.do, status |-> s, fails |-> e.fails]
  BY <1>1, WithIs DEF Returns
<1> DEFINE W == Range(e.do)
           f == Returns(e, s)
<1>3. e.do \in Seq(W) /\ e.fails \in BOOLEAN
  BY EffectType
<1> HIDE DEF W, f
<1>4. f \in [do : Seq(W), status : BOOLEAN, fails : BOOLEAN]
  BY <1>2, <1>3 DEF f
<1>5. IsEffect(f)
  BY <1>4, EffectIs
<1> QED  BY <1>2, <1>5 DEF f

\* An action that writes nothing.
LEMMA SoundIdle ==
  ASSUME NEW c, NEW w, IsMachine(w), NEW e, e = Handler(c, w), IsEffect(e), e.do = << >>,
         "StatusTells" \notin Except(c, w) /\ ~e.fails => ~e.status,
         ~e.fails /\ "Delivers" \notin Except(c, w) => Goal(c, w, w),
         e.fails /\ c.kind \in Assertions /\ "Delivers" \notin Except(c, w) => ~Goal(c, w, w),
         ~e.fails /\ "LeavesTheRest" \notin Except(c, w) => Spares(c, w, w)
  PROVE  Sound(c, w)
<1>1. Cuts(w, e) = {w} /\ After(w, e) = w
  BY CutsNone
<1>2. SameMachine(w, w)
  BY DEF SameMachine
<1>3. Resumes(c, w)
  BY <1>1 DEF Resumes, Final
<1>4. Tells(c, w)
  BY <1>1, <1>2, EffectType DEF Tells, Final
<1>5. Gets(c, w)
  BY <1>1 DEF Gets, Final
<1>6. Keeps(c, w)
  BY <1>1 DEF Keeps, Final
<1> QED  BY <1>3, <1>4, <1>5, <1>6 DEF Sound

\* One that writes once, and then has nothing to write but the same.
LEMMA SoundOnce ==
  ASSUME NEW c, NEW w, IsMachine(w), NEW W, NEW n, n = Put(w, W),
         NEW e, e = Handler(c, w), IsEffect(e), e.do = <<W>>, ~e.fails,
         NEW f, f = Handler(c, n), IsEffect(f), f.do = << >> \/ f.do = <<W>>, ~f.fails,
         "StatusTells" \notin Except(c, w) => ~f.status /\ (e.status <=> ~SameMachine(n, w)),
         Goal(c, w, n) \/ {"Delivers", "Converges"} \subseteq Except(c, w),
         "LeavesTheRest" \notin Except(c, w) => Spares(c, w, n) /\ Spares(c, n, n)
  PROVE  Sound(c, w)
<1>1. IsMachine(n)
  BY DEF Put, ++, IsMachine
<1>2. Cuts(w, e) = {w, n} /\ After(w, e) = n
  BY CutsOne
<1>3. Cuts(n, f) = {n} /\ After(n, f) = n
  <2>1. CASE f.do = << >>
    BY <1>1, <2>1, CutsNone
  <2>2. CASE f.do = <<W>>
    <3>1. Put(n, W) = n
      BY PutTwice
    <3>2. Cuts(n, f) = {n, Put(n, W)} /\ After(n, f) = Put(n, W)
      BY <1>1, <2>2, CutsOne
    <3> QED  BY <3>1, <3>2
  <2> QED  BY <2>1, <2>2
<1>4. SameMachine(n, n)
  BY DEF SameMachine
<1>5. e.fails \in BOOLEAN /\ f.fails \in BOOLEAN /\ e.status \in BOOLEAN /\ f.status \in BOOLEAN
  BY EffectType
<1>6. Resumes(c, w)
  BY <1>2, <1>3, <1>5 DEF Resumes, Final
<1>7. Tells(c, w)
  BY <1>2, <1>4, <1>5 DEF Tells, Final
<1>8. Gets(c, w)
  BY <1>2 DEF Gets, Final
<1>9. Keeps(c, w)
  BY <1>2 DEF Keeps, Final
<1> QED  BY <1>6, <1>7, <1>8, <1>9 DEF Sound

\* The same, of one resource.
LEMMA SoundSet ==
  ASSUME NEW c, NEW w, IsMachine(w), NEW r, Last(r) # Staged, NEW v, NEW n, n = Put(w, r := v),
         NEW e, e = Handler(c, w), IsEffect(e), e.do = <<r := v>>, ~e.fails,
         NEW f, f = Handler(c, n), IsEffect(f), f.do = << >> \/ f.do = <<r := v>>, ~f.fails,
         "StatusTells" \notin Except(c, w) => ~f.status /\ (e.status <=> StateOf(w, r) # v),
         Goal(c, w, n) \/ {"Delivers", "Converges"} \subseteq Except(c, w),
         "LeavesTheRest" \notin Except(c, w) => Spares(c, w, n) /\ Spares(c, n, n)
  PROVE  Sound(c, w)
<1>1. n = Put(w, r := v)
  OBVIOUS
<1>2. /\ DOMAIN n = DOMAIN w \cup {r} /\ StateOf(n, r) = v
      /\ \A x : x # r => StateOf(n, x) = StateOf(w, x)
  BY <1>1 DEF Put, ++, :=, StateOf
<1>3. SameMachine(n, w) <=> StateOf(w, r) = v
  BY <1>2 DEF SameMachine
<1> DEFINE W == r := v
<1>4. n = Put(w, W) /\ e.do = <<W>> /\ (f.do = << >> \/ f.do = <<W>>)
  OBVIOUS
<1> HIDE DEF W
<1> QED  BY <1>3, <1>4, SoundOnce

-----------------------------------------------------------------------------
(***************************************************************************)
(* The families of the actions: no kind is of two of them.                 *)
(***************************************************************************)

LEMMA Apart ==
  ASSUME NEW k
  PROVE  /\ k \in FsKinds => k \notin FileKinds \cup FormatKinds \cup ServiceKinds \cup SystemKinds \cup
           ToolsKinds \cup DockerKinds \cup DbKinds \cup DirectoryKinds \cup KerberosKinds \cup LxdKinds \cup
           AssertKinds \cup NetworkKinds
         /\ k \in DbKinds => k \notin FsKinds \cup FileKinds \cup FormatKinds \cup ServiceKinds \cup
           SystemKinds \cup ToolsKinds \cup DockerKinds \cup DirectoryKinds \cup KerberosKinds \cup LxdKinds
           \cup AssertKinds \cup NetworkKinds
         /\ k \in DockerKinds => k \notin FsKinds \cup FileKinds \cup FormatKinds \cup ServiceKinds \cup
           SystemKinds \cup ToolsKinds \cup DbKinds \cup DirectoryKinds \cup KerberosKinds \cup LxdKinds \cup
           AssertKinds \cup NetworkKinds
         /\ k \in SystemKinds => k \notin FsKinds \cup FileKinds \cup FormatKinds \cup ServiceKinds \cup
           ToolsKinds \cup DockerKinds \cup DbKinds \cup DirectoryKinds \cup KerberosKinds \cup LxdKinds \cup
           AssertKinds \cup NetworkKinds
         /\ k \in ServiceKinds => k \notin FsKinds \cup FileKinds \cup FormatKinds \cup SystemKinds \cup
           ToolsKinds \cup DockerKinds \cup DbKinds \cup DirectoryKinds \cup KerberosKinds \cup LxdKinds \cup
           AssertKinds \cup NetworkKinds
         /\ k \in DirectoryKinds => k \notin FsKinds \cup FileKinds \cup FormatKinds \cup ServiceKinds \cup
           SystemKinds \cup ToolsKinds \cup DockerKinds \cup DbKinds \cup KerberosKinds \cup LxdKinds \cup
           AssertKinds \cup NetworkKinds
         /\ k \in LxdKinds => k \notin FsKinds \cup FileKinds \cup FormatKinds \cup ServiceKinds \cup
           SystemKinds \cup ToolsKinds \cup DockerKinds \cup DbKinds \cup DirectoryKinds \cup KerberosKinds
           \cup AssertKinds \cup NetworkKinds
         /\ k \in AssertKinds => k \notin FsKinds \cup FileKinds \cup FormatKinds \cup ServiceKinds \cup
           SystemKinds \cup ToolsKinds \cup DockerKinds \cup DbKinds \cup DirectoryKinds \cup KerberosKinds
           \cup LxdKinds \cup NetworkKinds
         /\ k \in NetworkKinds => k \notin FsKinds \cup FileKinds \cup FormatKinds \cup ServiceKinds \cup
           SystemKinds \cup ToolsKinds \cup DockerKinds \cup DbKinds \cup DirectoryKinds \cup KerberosKinds
           \cup LxdKinds \cup AssertKinds
<1> USE DEF FsKinds, FileKinds, FormatKinds, Documents, IniTypes, Daemons, ServiceKinds, SystemKinds,
            ToolsKinds, DockerKinds, DockerNameKinds, DockerLookKinds, DbKinds, DbLookKinds,
            DirectoryKinds, LdapKinds, LdapLookKinds, IpaKinds, IpaGroupKinds, IpaUserKinds,
            IpaServiceKinds, KerberosKinds, LxdKinds, LxdCloserKinds, LxdLookKinds, AssertKinds,
            NetworkKinds
<1>1. k \in FsKinds => k \notin FileKinds \cup FormatKinds \cup ServiceKinds \cup SystemKinds \cup ToolsKinds
  \cup DockerKinds \cup DbKinds \cup DirectoryKinds \cup KerberosKinds \cup LxdKinds \cup AssertKinds \cup
  NetworkKinds
  OBVIOUS
<1>2. k \in DbKinds => k \notin FsKinds \cup FileKinds \cup FormatKinds \cup ServiceKinds \cup SystemKinds
  \cup ToolsKinds \cup DockerKinds \cup DirectoryKinds \cup KerberosKinds \cup LxdKinds \cup AssertKinds \cup
  NetworkKinds
  OBVIOUS
<1>3. k \in DockerKinds => k \notin FsKinds \cup FileKinds \cup FormatKinds \cup ServiceKinds \cup SystemKinds
  \cup ToolsKinds \cup DbKinds \cup DirectoryKinds \cup KerberosKinds \cup LxdKinds \cup AssertKinds \cup
  NetworkKinds
  OBVIOUS
<1>4. k \in SystemKinds => k \notin FsKinds \cup FileKinds \cup FormatKinds \cup ServiceKinds \cup ToolsKinds
  \cup DockerKinds \cup DbKinds \cup DirectoryKinds \cup KerberosKinds \cup LxdKinds \cup AssertKinds \cup
  NetworkKinds
  OBVIOUS
<1>5. k \in ServiceKinds => k \notin FsKinds \cup FileKinds \cup FormatKinds \cup SystemKinds \cup ToolsKinds
  \cup DockerKinds \cup DbKinds \cup DirectoryKinds \cup KerberosKinds \cup LxdKinds \cup AssertKinds \cup
  NetworkKinds
  OBVIOUS
<1>6. k \in DirectoryKinds => k \notin FsKinds \cup FileKinds \cup FormatKinds \cup ServiceKinds \cup
  SystemKinds \cup ToolsKinds \cup DockerKinds \cup DbKinds \cup KerberosKinds \cup LxdKinds \cup AssertKinds
  \cup NetworkKinds
  OBVIOUS
<1>7. k \in LxdKinds => k \notin FsKinds \cup FileKinds \cup FormatKinds \cup ServiceKinds \cup SystemKinds
  \cup ToolsKinds \cup DockerKinds \cup DbKinds \cup DirectoryKinds \cup KerberosKinds \cup AssertKinds \cup
  NetworkKinds
  OBVIOUS
<1>8. k \in AssertKinds => k \notin FsKinds \cup FileKinds \cup FormatKinds \cup ServiceKinds \cup SystemKinds
  \cup ToolsKinds \cup DockerKinds \cup DbKinds \cup DirectoryKinds \cup KerberosKinds \cup LxdKinds \cup
  NetworkKinds
  OBVIOUS
<1>9. k \in NetworkKinds => k \notin FsKinds \cup FileKinds \cup FormatKinds \cup ServiceKinds \cup
  SystemKinds \cup ToolsKinds \cup DockerKinds \cup DbKinds \cup DirectoryKinds \cup KerberosKinds \cup
  LxdKinds \cup AssertKinds
  OBVIOUS
<1> HIDE DEF FsKinds, FileKinds, FormatKinds, Documents, IniTypes, Daemons, ServiceKinds, SystemKinds,
            ToolsKinds, DockerKinds, DockerNameKinds, DockerLookKinds, DbKinds, DbLookKinds,
            DirectoryKinds, LdapKinds, LdapLookKinds, IpaKinds, IpaGroupKinds, IpaUserKinds,
            IpaServiceKinds, KerberosKinds, LxdKinds, LxdCloserKinds, LxdLookKinds, AssertKinds,
            NetworkKinds
<1> QED  BY <1>1, <1>2, <1>3, <1>4, <1>5, <1>6, <1>7, <1>8, <1>9

LEMMA FsFamily ==
  ASSUME NEW c, c.kind \in FsKinds, NEW w, NEW m
  PROVE  /\ Handler(c, m) = FsHandler(c, m) /\ Goal(c, w, m) = FsGoal(c, w, m)
         /\ Except(c, w) = FsExcept(c, w) /\ Spares(c, w, m)
<1>1. c.kind \notin FileKinds \cup FormatKinds \cup ServiceKinds \cup SystemKinds \cup ToolsKinds \cup
  DockerKinds \cup DbKinds \cup DirectoryKinds \cup KerberosKinds \cup LxdKinds \cup AssertKinds \cup
  NetworkKinds
  BY Apart
<1>2. Handler(c, m) = FsHandler(c, m)
  BY <1>1 DEF Handler
<1>3. Goal(c, w, m) = FsGoal(c, w, m)
  BY <1>1 DEF Goal
<1>4. Except(c, w) = FsExcept(c, w)
  BY <1>1 DEF Except
<1>5. Spares(c, w, m)
  BY <1>1 DEF Spares
<1> QED  BY <1>2, <1>3, <1>4, <1>5

LEMMA DbFamily ==
  ASSUME NEW c, c.kind \in DbKinds, NEW w, NEW m
  PROVE  /\ Handler(c, m) = DbHandler(c, m) /\ Goal(c, w, m) = DbGoal(c, w, m)
         /\ Except(c, w) = DbExcept(c, w) /\ Spares(c, w, m) = DbSpares(c, w, m)
<1>1. c.kind \notin FsKinds \cup FileKinds \cup FormatKinds \cup ServiceKinds \cup SystemKinds \cup ToolsKinds
  \cup DockerKinds \cup DirectoryKinds \cup KerberosKinds \cup LxdKinds \cup AssertKinds \cup NetworkKinds
  BY Apart
<1>2. Handler(c, m) = DbHandler(c, m)
  BY <1>1 DEF Handler
<1>3. Goal(c, w, m) = DbGoal(c, w, m)
  BY <1>1 DEF Goal
<1>4. Except(c, w) = DbExcept(c, w)
  BY <1>1 DEF Except
<1>5. Spares(c, w, m) = DbSpares(c, w, m)
  BY <1>1 DEF Spares
<1> QED  BY <1>2, <1>3, <1>4, <1>5

LEMMA DockerFamily ==
  ASSUME NEW c, c.kind \in DockerKinds, NEW w, NEW m
  PROVE  /\ Handler(c, m) = DockerHandler(c, m) /\ Goal(c, w, m) = DockerGoal(c, w, m)
         /\ Except(c, w) = DockerExcept(c, w) /\ Spares(c, w, m) = DockerSpares(c, w, m)
<1>1. c.kind \notin FsKinds \cup FileKinds \cup FormatKinds \cup ServiceKinds \cup SystemKinds \cup ToolsKinds
  \cup DbKinds \cup DirectoryKinds \cup KerberosKinds \cup LxdKinds \cup AssertKinds \cup NetworkKinds
  BY Apart
<1>2. Handler(c, m) = DockerHandler(c, m)
  BY <1>1 DEF Handler
<1>3. Goal(c, w, m) = DockerGoal(c, w, m)
  BY <1>1 DEF Goal
<1>4. Except(c, w) = DockerExcept(c, w)
  BY <1>1 DEF Except
<1>5. Spares(c, w, m) = DockerSpares(c, w, m)
  BY <1>1 DEF Spares
<1> QED  BY <1>2, <1>3, <1>4, <1>5

LEMMA SystemFamily ==
  ASSUME NEW c, c.kind \in SystemKinds, NEW w, NEW m
  PROVE  /\ Handler(c, m) = SystemHandler(c, m) /\ Goal(c, w, m) = SystemGoal(c, w, m)
         /\ Except(c, w) = SystemExcept(c, w) /\ Spares(c, w, m) = SystemSpares(c, w, m)
<1>1. c.kind \notin FsKinds \cup FileKinds \cup FormatKinds \cup ServiceKinds \cup ToolsKinds \cup DockerKinds
  \cup DbKinds \cup DirectoryKinds \cup KerberosKinds \cup LxdKinds \cup AssertKinds \cup NetworkKinds
  BY Apart
<1>2. Handler(c, m) = SystemHandler(c, m)
  BY <1>1 DEF Handler
<1>3. Goal(c, w, m) = SystemGoal(c, w, m)
  BY <1>1 DEF Goal
<1>4. Except(c, w) = SystemExcept(c, w)
  BY <1>1 DEF Except
<1>5. Spares(c, w, m) = SystemSpares(c, w, m)
  BY <1>1 DEF Spares
<1> QED  BY <1>2, <1>3, <1>4, <1>5

LEMMA ServiceFamily ==
  ASSUME NEW c, c.kind \in ServiceKinds, NEW w, NEW m
  PROVE  /\ Handler(c, m) = ServiceHandler(c, m) /\ Goal(c, w, m) = ServiceGoal(c, w, m)
         /\ Except(c, w) = ServiceExcept(c, w) /\ Spares(c, w, m) = ServiceSpares(c, w, m)
<1>1. c.kind \notin FsKinds \cup FileKinds \cup FormatKinds \cup SystemKinds \cup ToolsKinds \cup DockerKinds
  \cup DbKinds \cup DirectoryKinds \cup KerberosKinds \cup LxdKinds \cup AssertKinds \cup NetworkKinds
  BY Apart
<1>2. Handler(c, m) = ServiceHandler(c, m)
  BY <1>1 DEF Handler
<1>3. Goal(c, w, m) = ServiceGoal(c, w, m)
  BY <1>1 DEF Goal
<1>4. Except(c, w) = ServiceExcept(c, w)
  BY <1>1 DEF Except
<1>5. Spares(c, w, m) = ServiceSpares(c, w, m)
  BY <1>1 DEF Spares
<1> QED  BY <1>2, <1>3, <1>4, <1>5

LEMMA DirectoryFamily ==
  ASSUME NEW c, c.kind \in DirectoryKinds, NEW w, NEW m
  PROVE  /\ Handler(c, m) = DirectoryHandler(c, m) /\ Goal(c, w, m) = DirectoryGoal(c, w, m)
         /\ Except(c, w) = DirectoryExcept(c, w) /\ Spares(c, w, m) = DirectorySpares(c, w, m)
<1>1. c.kind \notin FsKinds \cup FileKinds \cup FormatKinds \cup ServiceKinds \cup SystemKinds \cup ToolsKinds
  \cup DockerKinds \cup DbKinds \cup KerberosKinds \cup LxdKinds \cup AssertKinds \cup NetworkKinds
  BY Apart
<1>2. Handler(c, m) = DirectoryHandler(c, m)
  BY <1>1 DEF Handler
<1>3. Goal(c, w, m) = DirectoryGoal(c, w, m)
  BY <1>1 DEF Goal
<1>4. Except(c, w) = DirectoryExcept(c, w)
  BY <1>1 DEF Except
<1>5. Spares(c, w, m) = DirectorySpares(c, w, m)
  BY <1>1 DEF Spares
<1> QED  BY <1>2, <1>3, <1>4, <1>5

LEMMA LxdFamily ==
  ASSUME NEW c, c.kind \in LxdKinds, NEW w, NEW m
  PROVE  /\ Handler(c, m) = LxdHandler(c, m) /\ Goal(c, w, m) = LxdGoal(c, w, m)
         /\ Except(c, w) = LxdExcept(c, w) /\ Spares(c, w, m) = LxdSpares(c, w, m)
<1>1. c.kind \notin FsKinds \cup FileKinds \cup FormatKinds \cup ServiceKinds \cup SystemKinds \cup ToolsKinds
  \cup DockerKinds \cup DbKinds \cup DirectoryKinds \cup KerberosKinds \cup AssertKinds \cup NetworkKinds
  BY Apart
<1>2. Handler(c, m) = LxdHandler(c, m)
  BY <1>1 DEF Handler
<1>3. Goal(c, w, m) = LxdGoal(c, w, m)
  BY <1>1 DEF Goal
<1>4. Except(c, w) = LxdExcept(c, w)
  BY <1>1 DEF Except
<1>5. Spares(c, w, m) = LxdSpares(c, w, m)
  BY <1>1 DEF Spares
<1> QED  BY <1>2, <1>3, <1>4, <1>5

LEMMA AssertFamily ==
  ASSUME NEW c, c.kind \in AssertKinds, NEW w, NEW m
  PROVE  /\ Handler(c, m) = AssertHandler(c, m) /\ Goal(c, w, m) = AssertGoal(c, m)
         /\ Except(c, w) = AssertExcept(c, w) /\ Spares(c, w, m)
<1>1. c.kind \notin FsKinds \cup FileKinds \cup FormatKinds \cup ServiceKinds \cup SystemKinds \cup ToolsKinds
  \cup DockerKinds \cup DbKinds \cup DirectoryKinds \cup KerberosKinds \cup LxdKinds \cup NetworkKinds
  BY Apart
<1>2. Handler(c, m) = AssertHandler(c, m)
  BY <1>1 DEF Handler
<1>3. Goal(c, w, m) = AssertGoal(c, m)
  BY <1>1 DEF Goal
<1>4. Except(c, w) = AssertExcept(c, w)
  BY <1>1 DEF Except
<1>5. Spares(c, w, m)
  BY <1>1 DEF Spares
<1> QED  BY <1>2, <1>3, <1>4, <1>5

LEMMA NetworkFamily ==
  ASSUME NEW c, c.kind \in NetworkKinds, NEW w, NEW m
  PROVE  /\ Handler(c, m) = NetworkHandler(c, m) /\ Goal(c, w, m) = NetworkGoal(c, m)
         /\ Except(c, w) = NetworkExcept(c, w) /\ Spares(c, w, m) = NetworkSpares(c, w, m)
<1>1. c.kind \notin FsKinds \cup FileKinds \cup FormatKinds \cup ServiceKinds \cup SystemKinds \cup ToolsKinds
  \cup DockerKinds \cup DbKinds \cup DirectoryKinds \cup KerberosKinds \cup LxdKinds \cup AssertKinds
  BY Apart
<1>2. Handler(c, m) = NetworkHandler(c, m)
  BY <1>1 DEF Handler
<1>3. Goal(c, w, m) = NetworkGoal(c, m)
  BY <1>1 DEF Goal
<1>4. Except(c, w) = NetworkExcept(c, w)
  BY <1>1 DEF Except
<1>5. Spares(c, w, m) = NetworkSpares(c, w, m)
  BY <1>1 DEF Spares
<1> QED  BY <1>2, <1>3, <1>4, <1>5
-----------------------------------------------------------------------------
(***************************************************************************)
(* File systems: a node is what commands make of it, and no link leads to  *)
(* a link.                                                                 *)
(***************************************************************************)
IsNode(n) ==
  \/ n = Absent
  \/ n.type = "file" /\ n = File(n.body, n.mode, n.owner)
  \/ n.type = "dir" /\ n = Dir(n.mode, n.owner)
  \/ n.type = "link" /\ n = Link(n.dest)

IsFileSystem(m) == IsMachine(m) /\ \A p \in DOMAIN m : IsNode(m[p])

Leads(m, p) == p # << >> /\ At(m, p).type # "link" /\ Last(Real(m, p)) # Staged

LEMMA AtIs ==
  ASSUME NEW m, IsFileSystem(m), NEW p, Leads(m, p)
  PROVE  /\ At(m, p) = StateOf(m, Real(m, p))
         /\ At(m, p) = Absent \/ ({"type", "mode", "owner"} \subseteq DOMAIN At(m, p) /\ At(m, p).type # "absent")
<1>1. At(m, p) = StateOf(m, Real(m, p))
  BY DEF At, Leads
<1>2. IsNode(At(m, p))
  BY <1>1 DEF StateOf, IsFileSystem, IsNode
<1>3. At(m, p).type # "link"
  BY DEF Leads
<1> DEFINE a == At(m, p)
<1> HIDE DEF a
<1>4. a = Absent \/ ({"type", "mode", "owner"} \subseteq DOMAIN a /\ a.type # "absent")
  BY <1>2, <1>3 DEF IsNode, File, Dir, Link, a
<1> QED  BY <1>1, <1>4 DEF a

LEMMA AtPut ==
  ASSUME NEW m, NEW p, p # << >>, At(m, p).type # "link",
         NEW v, v.type # "link", NEW n, n = Put(m, Real(m, p) := v)
  PROVE  Real(n, p) = Real(m, p) /\ At(n, p) = v
<1> DEFINE r == Real(m, p)
<1>0. n = Put(m, r := v)
  OBVIOUS
<1>1. /\ DOMAIN n = DOMAIN m \cup {r} /\ n[r] = v /\ StateOf(n, r) = v
      /\ \A x \in DOMAIN m : x # r => n[x] = m[x]
  BY <1>0 DEF Put, ++, :=, StateOf
<1>2. CASE p \in DOMAIN m /\ m[p].type = "link"
  <2>1. r = m[p].dest
    BY <1>2 DEF Real
  <2>2. r # p
    BY <1>2, <2>1 DEF At, Real, StateOf
  <2>3. n[p] = m[p] /\ p \in DOMAIN n
    BY <1>1, <1>2, <2>2
  <2>4. Real(n, p) = r
    BY <1>2, <2>1, <2>3 DEF Real
  <2> QED  BY <1>1, <2>4 DEF At
<1>3. CASE ~(p \in DOMAIN m /\ m[p].type = "link")
  <2>1. r = p
    BY <1>3 DEF Real
  <2>2. Real(n, p) = p
    BY <1>1, <2>1 DEF Real
  <2> QED  BY <1>1, <2>1, <2>2 DEF At
<1> QED  BY <1>2, <1>3

\* What fs.* do is that of FsHandler.
LEMMA FsSound ==
  ASSUME NEW c, c.kind \in FsKinds, NEW w
  PROVE  /\ \A m : Handler(c, m) = FsHandler(c, m) /\ Goal(c, w, m) = FsGoal(c, w, m)
         /\ \A u, m : Spares(c, u, m)
         /\ Except(c, w) = FsExcept(c, w)
         /\ c.kind \notin Assertions
<1>1. c.kind \notin Assertions
  BY DEF FsKinds, Assertions, AssertKinds
<1> QED  BY <1>1, FsFamily

LEMMA ChmodSound ==
  ASSUME NEW c, c.kind = "fs.chmod", NEW w, IsFileSystem(w), Leads(w, c.target)
  PROVE  Sound(c, w)
<1> DEFINE p == c.target
           a == At(w, p)
           r == Real(w, p)
<1>1. /\ \A m : Handler(c, m) = FsHandler(c, m) /\ Goal(c, w, m) = FsGoal(c, w, m)
      /\ Except(c, w) = {} /\ \A u, m : Spares(c, u, m)
      /\ c.kind \notin Assertions
  <2>1. c.kind \in FsKinds
    BY DEF FsKinds
  <2>2. FsExcept(c, w) = {}
    BY DEF FsExcept
  <2> QED  BY <2>1, <2>2, FsSound
<1>2. \A m : FsHandler(c, m) = FsChmod(m, p, c.mode, Absent)
  BY DEF FsHandler
<1>3. \A m : FsGoal(c, w, m) <=> HasMode(m, p, c.mode)
  BY DEF FsGoal
<1>4. /\ IsMachine(w) /\ a = StateOf(w, r) /\ Last(r) # Staged
      /\ a = Absent \/ ({"type", "mode", "owner"} \subseteq DOMAIN a /\ a.type # "absent")
  BY AtIs DEF IsFileSystem, Leads
<1>5. \A m : FsChmod(m, p, c.mode, Absent) =
        IF At(m, p) = Absent THEN Throw
        ELSE IF At(m, p).mode = c.mode THEN Nothing ELSE Run(Real(m, p) := [At(m, p) EXCEPT !.mode = c.mode])
  BY DEF FsChmod, When, BaseChmod, Exists
<1>0. \A m : At(m, p) # Absent /\ At(m, p).mode = c.mode => FsChmod(m, p, c.mode, Absent) = Nothing
  BY <1>5
<1> HIDE DEF p, a, r
<1>6. CASE a = Absent
  <2>1. Throw = Handler(c, w)
    BY <1>1, <1>2, <1>5, <1>6 DEF a
  <2> QED  BY <1>1, <1>4, <2>1, NothingIs, SoundIdle
<1>7. CASE a # Absent /\ a.mode = c.mode
  <2>1. Nothing = Handler(c, w)
    BY <1>1, <1>2, <1>5, <1>7 DEF a
  <2>2. Goal(c, w, w)
    BY <1>1, <1>3, <1>7 DEF HasMode, a
  <2> QED  BY <1>1, <1>4, <2>1, <2>2, NothingIs, SoundIdle
<1>8. CASE a # Absent /\ a.mode # c.mode
  <2> DEFINE v == [a EXCEPT !.mode = c.mode]
             n == Put(w, r := v)
  <2>0. {"type", "mode", "owner"} \subseteq DOMAIN a /\ a.type # "absent"
    BY <1>4, <1>8
  <2>1. v.mode = c.mode /\ v.type = a.type
    BY <2>0
  <2> HIDE DEF v
  <2>2. Run(r := v) = Handler(c, w)
    BY <1>1, <1>2, <1>5, <1>8 DEF a, v, r
  <2>3. At(n, p) = v
    BY <2>1, AtPut DEF Leads, r, p, a
  <2> HIDE DEF n
  <2>4. Nothing = Handler(c, n)
    <3>1. At(n, p) # Absent
      BY <2>0, <2>1, <2>3 DEF Absent
    <3> QED  BY <1>0, <1>1, <1>2, <2>1, <2>3, <3>1
  <2>5. Goal(c, w, n)
    BY <1>1, <1>3, <2>1, <2>3 DEF HasMode
  <2>6. a # v
    BY <1>8, <2>1
  <2>7. n = Put(w, r := v)
    BY DEF n
  <2> QED  BY <1>1, <1>4, <2>2, <2>4, <2>5, <2>6, <2>7, RunIs, NothingIs, SoundSet
<1> QED  BY <1>6, <1>7, <1>8

LEMMA ChownSound ==
  ASSUME NEW c, c.kind = "fs.chown", NEW w, IsFileSystem(w), Leads(w, c.target)
  PROVE  Sound(c, w)
<1> DEFINE p == c.target
           a == At(w, p)
           r == Real(w, p)
<1>1. /\ \A m : Handler(c, m) = FsHandler(c, m) /\ Goal(c, w, m) = FsGoal(c, w, m)
      /\ Except(c, w) = {} /\ \A u, m : Spares(c, u, m)
      /\ c.kind \notin Assertions
  <2>1. c.kind \in FsKinds
    BY DEF FsKinds
  <2>2. FsExcept(c, w) = {}
    BY DEF FsExcept
  <2> QED  BY <2>1, <2>2, FsSound
<1>2. \A m : FsHandler(c, m) = FsChown(m, p, c.owner, Absent)
  BY DEF FsHandler
<1>3. \A m : FsGoal(c, w, m) <=> HasOwner(m, p, c.owner)
  BY DEF FsGoal
<1>4. /\ IsMachine(w) /\ a = StateOf(w, r) /\ Last(r) # Staged
      /\ a = Absent \/ ({"type", "mode", "owner"} \subseteq DOMAIN a /\ a.type # "absent")
  BY AtIs DEF IsFileSystem, Leads
<1>5. \A m : FsChown(m, p, c.owner, Absent) =
        IF At(m, p) = Absent THEN Throw
        ELSE IF At(m, p).owner = c.owner THEN Nothing ELSE Run(Real(m, p) := [At(m, p) EXCEPT !.owner = c.owner])
  BY DEF FsChown, When, BaseChown, Exists
<1>0. \A m : At(m, p) # Absent /\ At(m, p).owner = c.owner => FsChown(m, p, c.owner, Absent) = Nothing
  BY <1>5
<1> HIDE DEF p, a, r
<1>6. CASE a = Absent
  <2>1. Throw = Handler(c, w)
    BY <1>1, <1>2, <1>5, <1>6 DEF a
  <2> QED  BY <1>1, <1>4, <2>1, NothingIs, SoundIdle
<1>7. CASE a # Absent /\ a.owner = c.owner
  <2>1. Nothing = Handler(c, w)
    BY <1>1, <1>2, <1>5, <1>7 DEF a
  <2>2. Goal(c, w, w)
    BY <1>1, <1>3, <1>7 DEF HasOwner, a
  <2> QED  BY <1>1, <1>4, <2>1, <2>2, NothingIs, SoundIdle
<1>8. CASE a # Absent /\ a.owner # c.owner
  <2> DEFINE v == [a EXCEPT !.owner = c.owner]
             n == Put(w, r := v)
  <2>0. {"type", "mode", "owner"} \subseteq DOMAIN a /\ a.type # "absent"
    BY <1>4, <1>8
  <2>1. v.owner = c.owner /\ v.type = a.type
    BY <2>0
  <2> HIDE DEF v
  <2>2. Run(r := v) = Handler(c, w)
    BY <1>1, <1>2, <1>5, <1>8 DEF a, v, r
  <2>3. At(n, p) = v
    BY <2>1, AtPut DEF Leads, r, p, a
  <2> HIDE DEF n
  <2>4. Nothing = Handler(c, n)
    <3>1. At(n, p) # Absent
      BY <2>0, <2>1, <2>3 DEF Absent
    <3> QED  BY <1>0, <1>1, <1>2, <2>1, <2>3, <3>1
  <2>5. Goal(c, w, n)
    BY <1>1, <1>3, <2>1, <2>3 DEF HasOwner
  <2>6. a # v
    BY <1>8, <2>1
  <2>7. n = Put(w, r := v)
    BY DEF n
  <2> QED  BY <1>1, <1>4, <2>2, <2>4, <2>5, <2>6, <2>7, RunIs, NothingIs, SoundSet
<1> QED  BY <1>6, <1>7, <1>8

LEMMA RemoveSound ==
  ASSUME NEW c, c.kind = "fs.remove", NEW w, IsMachine(w), c.target # << >>, Last(c.target) # Staged
  PROVE  Sound(c, w)
<1> DEFINE p == c.target
           W == IF IsDir(w, p) THEN [q \in {p} \cup Within(w, p) |-> Absent] ELSE p := Absent
           n == Put(w, W)
<1>1. /\ \A m : Handler(c, m) = FsRemove(m, p, c.recursive) /\ (Goal(c, w, m) <=> ~Exists(m, p))
      /\ Except(c, w) = {} /\ \A u, m : Spares(c, u, m)
      /\ c.kind \notin Assertions
  <2>1. c.kind \in FsKinds
    BY DEF FsKinds
  <2>2. FsExcept(c, w) = {}
    BY DEF FsExcept
  <2>3. \A m : FsHandler(c, m) = FsRemove(m, p, c.recursive)
    BY DEF FsHandler
  <2>4. \A m : FsGoal(c, w, m) = ~Exists(m, p)
    BY DEF FsGoal
  <2> QED  BY <2>1, <2>2, <2>3, <2>4, FsSound
<1>2. \A m : ~Exists(m, p) => FsRemove(m, p, c.recursive) = Nothing
  <2>1. \A m : ~Exists(m, p) => At(m, p) = [type |-> "absent"]
    BY DEF Exists, Absent
  <2>2. \A m : ~Exists(m, p) => ~IsDir(m, p)
    BY <2>1 DEF IsDir
  <2> QED  BY <2>2 DEF FsRemove
<1>3. Exists(w, p) => FsRemove(w, p, c.recursive) \in {Throw, Run(W)}
  <2>1. Exists(w, p) /\ IsDir(w, p) => FsRemove(w, p, c.recursive) = BaseRmdir(w, p, c.recursive)
    BY DEF FsRemove
  <2>2. Exists(w, p) /\ ~IsDir(w, p) => FsRemove(w, p, c.recursive) = Run(p := Absent)
    BY DEF FsRemove
  <2>3. IsDir(w, p) => BaseRmdir(w, p, c.recursive) \in {Throw, Run(W)}
    BY DEF BaseRmdir
  <2> QED  BY <2>1, <2>2, <2>3
<1>4. p \in DOMAIN W /\ W[p] = Absent
  BY DEF :=
<1> HIDE DEF W
<1>5. p \in DOMAIN n /\ n[p] = Absent
  BY <1>4 DEF Put, ++
<1>6. ~Exists(n, p)
  <2>1. n[p].type # "link"
    BY <1>5 DEF Absent
  <2> QED  BY <1>5, <2>1 DEF Exists, At, Real, StateOf
<1>7. Exists(w, p) => ~SameMachine(n, w)
  <2> SUFFICES ASSUME Exists(w, p) PROVE StateOf(w, p) # Absent /\ p \in DOMAIN n /\ StateOf(n, p) = Absent
    BY DEF SameMachine
  <2>1. CASE p \in DOMAIN w /\ w[p].type = "link"
    BY <1>5, <2>1 DEF StateOf, Absent
  <2>2. CASE ~(p \in DOMAIN w /\ w[p].type = "link")
    BY <1>5, <2>2 DEF Exists, At, Real, StateOf
  <2> QED  BY <2>1, <2>2
<1>8. n = Put(w, W)
  OBVIOUS
<1> HIDE DEF n, p
<1>9. CASE ~Exists(w, p)
  <2>1. Nothing = Handler(c, w)
    BY <1>1, <1>2, <1>9
  <2> QED  BY <1>1, <1>9, <2>1, NothingIs, SoundIdle
<1>10. CASE Exists(w, p) /\ Handler(c, w) = Throw
  BY <1>1, <1>10, NothingIs, SoundIdle
<1>11. CASE Exists(w, p) /\ Handler(c, w) = Run(W)
  <2>1. Nothing = Handler(c, n)
    BY <1>1, <1>2, <1>6
  <2>2. Run(W) = Handler(c, w)
    BY <1>11
  <2> QED  BY <1>1, <1>6, <1>7, <1>8, <1>11, <2>1, <2>2, RunIs, NothingIs, SoundOnce
<1> QED  BY <1>1, <1>3, <1>9, <1>10, <1>11

-----------------------------------------------------------------------------
(***************************************************************************)
(* Actions that set one resource, or look at the machine.                  *)
(***************************************************************************)

\* Where it fails, where there is nothing to do, where there is.
LEMMA SoundStep ==
  ASSUME NEW c, c.kind \notin Assertions,
         NEW w, IsMachine(w), NEW r, Last(r) # Staged, NEW v, NEW n, n = Put(w, r := v),
         NEW e, e = Handler(c, w), NEW f, f = Handler(c, n),
         \/ e = Throw
         \/ /\ e = Nothing
            /\ Goal(c, w, w) \/ "Delivers" \in Except(c, w)
            /\ Spares(c, w, w)
         \/ /\ e = Run(r := v) /\ f = Nothing
            /\ StateOf(w, r) # v
            /\ Goal(c, w, n) \/ {"Delivers", "Converges"} \subseteq Except(c, w)
            /\ Spares(c, w, n) /\ Spares(c, n, n)
  PROVE  Sound(c, w)
<1>1. CASE e = Throw
  BY <1>1, NothingIs, SoundIdle
<1>2. CASE e = Nothing /\ (Goal(c, w, w) \/ "Delivers" \in Except(c, w)) /\ Spares(c, w, w)
  BY <1>2, NothingIs, SoundIdle
<1>3. CASE /\ e = Run(r := v) /\ f = Nothing
           /\ StateOf(w, r) # v
           /\ Goal(c, w, n) \/ {"Delivers", "Converges"} \subseteq Except(c, w)
           /\ Spares(c, w, n) /\ Spares(c, n, n)
  <2> DEFINE W == r := v
  <2>1. IsEffect(Run(W)) /\ Run(W).do = <<W>> /\ Run(W).status /\ ~Run(W).fails
    BY RunIs
  <2>2. e = Run(W) /\ W = (r := v)
    BY <1>3
  <2> HIDE DEF W
  <2> QED  BY <1>3, <2>1, <2>2, NothingIs, SoundSet
<1> QED  BY <1>1, <1>2, <1>3

\* Its status is that of the command that looks.
LEMMA SoundLook ==
  ASSUME NEW c, c.kind \notin Assertions,
         NEW w, IsMachine(w), NEW e, e = Handler(c, w), IsEffect(e), e.do = << >>,
         "StatusTells" \in Except(c, w) \/ ~e.status,
         Goal(c, w, w) \/ "Delivers" \in Except(c, w), Spares(c, w, w)
  PROVE  Sound(c, w)
BY SoundIdle

\* What tells only that something is there.
LEMMA LooksAre ==
  ASSUME NEW b \in BOOLEAN
  PROVE  /\ IsEffect(Returns(Nothing, b)) /\ Returns(Nothing, b).do = << >>
         /\ Returns(Nothing, b).status = b /\ ~Returns(Nothing, b).fails
BY NothingIs, ReturnsIs

-----------------------------------------------------------------------------
(***************************************************************************)
(* Databases.                                                              *)
(***************************************************************************)

LEMMA DbLookSound ==
  ASSUME NEW c, c.kind \in DbLookKinds, NEW w, IsMachine(w)
  PROVE  Sound(c, w)
<1>1. c.kind \in DbKinds /\ c.kind \notin Assertions
  BY DEF DbKinds, DbLookKinds, Assertions, AssertKinds
<1>2. Handler(c, w) = DbHandler(c, w) /\ Goal(c, w, w) = DbGoal(c, w, w) /\ Except(c, w) = DbExcept(c, w)
      /\ Spares(c, w, w) = DbSpares(c, w, w)
  BY <1>1, DbFamily
<1>3. DbHandler(c, w) \in {Look, Throw} \/ \E b \in BOOLEAN : DbHandler(c, w) = Returns(Nothing, b)
  <2>1. There(w, Db(c.name)) \in BOOLEAN /\ There(w, DbSchema(c.db, c.name)) \in BOOLEAN
    BY DEF There
  <2>2. CASE c.kind = "db.database.exists"
    BY <2>1, <2>2 DEF DbHandler, DbDatabaseExists
  <2>3. CASE c.kind = "db.user.exists"
    BY <2>3 DEF DbHandler, DbUserExists
  <2>4. CASE c.kind = "db.schema.exists"
    BY <2>1, <2>4 DEF DbHandler, DbSchemaExists
  <2>5. CASE c.kind = "db.schema.list"
    BY <2>5 DEF DbHandler, DbSchemaList
  <2> QED  BY <2>2, <2>3, <2>4, <2>5 DEF DbLookKinds
<1>4. DbGoal(c, w, w)
  BY DEF DbGoal, DbLookKinds
<1>5. DbExcept(c, w) = {"StatusTells"}
  BY DEF DbExcept, DbLookKinds
<1>6. DbSpares(c, w, w)
  BY DEF DbSpares, StateOf
<1>7. IsEffect(DbHandler(c, w)) /\ DbHandler(c, w).do = << >>
  BY <1>3, NothingIs, LooksAre
<1> QED  BY <1>1, <1>2, <1>4, <1>5, <1>6, <1>7, SoundLook

LEMMA DbUserSound ==
  ASSUME NEW c, c \in DbUserConfig, c.name # Staged, NEW w, IsMachine(w)
  PROVE  Sound(c, w)
<1> DEFINE r == DbRole(c.name)
           v == Secret(c.password)
           n == Put(w, r := v)
<1>1. c.kind = "db.user" /\ "name" \in DOMAIN c
  BY DEF DbUserConfig
<1>2. c.kind \in DbKinds /\ c.kind \notin Assertions
  BY <1>1 DEF DbKinds, Assertions, AssertKinds
<1>3. \A m : /\ Handler(c, m) = When(StateOf(m, r) # v, Run(r := v))
             /\ Goal(c, w, m) <=> StateOf(m, r) = v
  <2>1. \A m : Handler(c, m) = DbHandler(c, m) /\ Goal(c, w, m) = DbGoal(c, w, m)
    BY <1>2, DbFamily
  <2>2. \A m : DbHandler(c, m) = DbUser(m, c)
    BY <1>1 DEF DbHandler
  <2>3. \A m : DbGoal(c, w, m) <=> StateOf(m, r) = v
    BY <1>1 DEF DbGoal, DbLookKinds
  <2>4. \A m : DbUser(m, c) = When(StateOf(m, r) # v, Run(r := v))
    BY DEF DbUser
  <2> QED  BY <2>1, <2>2, <2>3, <2>4
<1>4. Last(r) # Staged
  BY DEF DbRole, Last
<1> HIDE DEF v
<1>5. StateOf(n, r) = v /\ \A x : x # r => StateOf(n, x) = StateOf(w, x)
  BY DEF Put, ++, :=, StateOf
<1>6. Spares(c, w, w) /\ Spares(c, w, n) /\ Spares(c, n, n)
  <2>1. \A u, m : Spares(c, u, m) = DbSpares(c, u, m)
    BY <1>2, DbFamily
  <2>2. DbSpares(c, w, w) /\ DbSpares(c, n, n)
    BY DEF DbSpares, StateOf
  <2>3. DbSpares(c, w, n)
    BY <1>1, <1>5 DEF DbSpares, StateOf
  <2> QED  BY <2>1, <2>2, <2>3
<1> HIDE DEF n, r
<1>7. n = Put(w, r := v)
  BY DEF n
<1>8. CASE StateOf(w, r) = v
  <2>1. Nothing = Handler(c, w)
    BY <1>3, <1>8 DEF When
  <2> QED  BY <1>2, <1>3, <1>4, <1>6, <1>7, <1>8, <2>1, SoundStep
<1>9. CASE StateOf(w, r) # v
  <2>1. Run(r := v) = Handler(c, w) /\ Nothing = Handler(c, n)
    BY <1>3, <1>5, <1>9 DEF When
  <2> QED  BY <1>2, <1>3, <1>4, <1>5, <1>6, <1>7, <1>9, <2>1, SoundStep
<1> QED  BY <1>8, <1>9

LEMMA ThenLookIs ==
  ASSUME NEW e, IsEffect(e), ~e.fails, NEW f, f = e \bullet Look
  PROVE  IsEffect(f) /\ f.do = e.do /\ f.status /\ ~f.fails
<1> DEFINE d == e.do
           L == Look
           W == Range(d)
<1>1. f = [do |-> d \o L.do, status |-> e.status \/ L.status, fails |-> L.fails]
  BY DEF \bullet
<1>2. L.do = << >> /\ L.status /\ ~L.fails /\ L.fails \in BOOLEAN /\ L.status \in BOOLEAN
  BY NothingIs, EffectType
<1>3. d \in Seq(W) /\ e.status \in BOOLEAN
  BY EffectType
<1> HIDE DEF d, L, W
<1>4. d \o L.do = d
  BY <1>2, <1>3
<1>5. f \in [do : Seq(W), status : BOOLEAN, fails : BOOLEAN]
  BY <1>1, <1>2, <1>3, <1>4
<1>6. IsEffect(f)
  BY <1>5, EffectIs
<1>7. f.do = d /\ f.status /\ ~f.fails
  <2>1. f.do = d
    BY <1>1, <1>4
  <2>2. f.status = (e.status \/ L.status)
    BY <1>1
  <2>3. f.fails = L.fails
    BY <1>1
  <2> QED  BY <1>2, <1>3, <2>1, <2>2, <2>3
<1> QED  BY <1>6, <1>7 DEF d

\* What drops a resource if it is there, and what goes with it.
LEMMA SoundDrop ==
  ASSUME NEW c, c.kind \notin Assertions, NEW w, IsMachine(w), "StatusTells" \in Except(c, w),
         NEW r, NEW W, NEW n, n = Put(w, W),
         Handler(c, w) = When(There(w, r), Run(W)) \bullet Look,
         ~There(w, r) => Goal(c, w, w) /\ Spares(c, w, w),
         There(w, r) => /\ Handler(c, n) = Nothing \bullet Look
                        /\ Goal(c, w, n) /\ Spares(c, w, n) /\ Spares(c, n, n)
  PROVE  Sound(c, w)
<1> DEFINE e == Handler(c, w)
           f == Handler(c, n)
<1>1. CASE ~There(w, r)
  <2>1. e = Nothing \bullet Look
    BY <1>1 DEF When
  <2>2. IsEffect(e) /\ e.do = << >> /\ ~e.fails
    BY <2>1, NothingIs, ThenLookIs
  <2> QED  BY <1>1, <2>2, SoundIdle
<1>2. CASE There(w, r)
  <2>1. e = Run(W) \bullet Look
    BY <1>2 DEF When
  <2>2. IsEffect(e) /\ e.do = <<W>> /\ ~e.fails
    BY <2>1, RunIs, ThenLookIs
  <2>3. IsEffect(f) /\ f.do = << >> /\ ~f.fails
    BY <1>2, NothingIs, ThenLookIs
  <2> QED  BY <1>2, <2>2, <2>3, SoundOnce
<1> QED  BY <1>1, <1>2

LEMMA DbUserRemoveSound ==
  ASSUME NEW c, c \in DbUserNameConfig, c.kind = "db.user.remove", NEW w, IsMachine(w)
  PROVE  Sound(c, w)
<1> DEFINE r == DbRole(c.name)
           holds(m) == {x \in DOMAIN m : x[1] = "db" /\ m[x] # Absent /\ c.name \in m[x].users}
           W(m) == [x \in holds(m) |-> Granted(m[x].users \ {c.name})] ++ (r := Absent)
           n == Put(w, W(w))
<1>1. "name" \in DOMAIN c /\ c.kind \in DbKinds /\ c.kind \notin Assertions
  BY DEF DbUserNameConfig, DbKinds, Assertions, AssertKinds
<1>2. \A m : /\ Handler(c, m) = IF c.engine = "postgresql" /\ holds(m) # {} THEN Throw
                                ELSE When(There(m, r), Run(W(m))) \bullet Look
             /\ Goal(c, w, m) <=> ~There(m, r)
  <2>1. \A m : Handler(c, m) = DbHandler(c, m) /\ Goal(c, w, m) = DbGoal(c, w, m)
    BY <1>1, DbFamily
  <2>2. \A m : DbHandler(c, m) = DbUserRemove(m, c)
    BY DEF DbHandler
  <2>3. \A m : DbGoal(c, w, m) <=> ~There(m, r)
    BY DEF DbGoal, DbLookKinds
  <2>4. \A m : DbUserRemove(m, c) = IF c.engine = "postgresql" /\ holds(m) # {} THEN Throw
                                    ELSE When(There(m, r), Run(W(m))) \bullet Look
    BY DEF DbUserRemove
  <2> QED  BY <2>1, <2>2, <2>3, <2>4
<1>3. "StatusTells" \in Except(c, w)
  BY <1>1, DbFamily DEF DbExcept
<1>4. \A x \in DOMAIN W(w) : W(w)[x] = IF x = r THEN Absent ELSE Granted(w[x].users \ {c.name})
  BY DEF ++, :=
<1>5. DOMAIN W(w) = holds(w) \cup {r}
  BY DEF ++, :=
<1>6. /\ DOMAIN n = DOMAIN w \cup {r}
      /\ n[r] = Absent
      /\ \A x \in DOMAIN w \ {r} : n[x] = IF x \in holds(w) THEN Granted(w[x].users \ {c.name}) ELSE w[x]
  BY <1>4, <1>5 DEF Put, ++
<1>7. ~There(n, r)
  BY <1>6 DEF There, StateOf
<1>8. holds(w) = {} => holds(n) = {}
  BY <1>6
<1>9. Spares(c, w, w) /\ Spares(c, w, n) /\ Spares(c, n, n)
  <2>1. \A u, m : Spares(c, u, m) = DbSpares(c, u, m)
    BY <1>1, DbFamily
  <2>2. DbSpares(c, w, w) /\ DbSpares(c, n, n)
    BY DEF DbSpares, StateOf
  <2>3. DbSpares(c, w, n)
    BY <1>1, <1>6 DEF DbSpares, StateOf
  <2> QED  BY <2>1, <2>2, <2>3
<1>10. CASE c.engine = "postgresql" /\ holds(w) # {}
  <2>1. Throw = Handler(c, w)
    BY <1>2, <1>10
  <2> QED  BY <1>1, <2>1, NothingIs, SoundIdle
<1>11. CASE ~(c.engine = "postgresql" /\ holds(w) # {})
  <2> DEFINE V == W(w)
  <2>1. Handler(c, w) = When(There(w, r), Run(V)) \bullet Look
    BY <1>2, <1>11
  <2>2. Handler(c, n) = When(There(n, r), Run(W(n))) \bullet Look
    BY <1>2, <1>8, <1>11
  <2>3. Handler(c, n) = Nothing \bullet Look
    BY <1>7, <2>2 DEF When
  <2>4. n = Put(w, V)
    OBVIOUS
  <2>5. (Goal(c, w, w) <=> ~There(w, r)) /\ Goal(c, w, n)
    BY <1>2, <1>7
  <2> HIDE DEF n, r, V
  <2> QED  BY <1>1, <1>3, <1>9, <2>1, <2>3, <2>4, <2>5, SoundDrop
<1> QED  BY <1>10, <1>11

LEMMA DbDatabaseRemoveSound ==
  ASSUME NEW c, c \in DbDatabaseNameConfig, c.kind = "db.database.remove", NEW w, IsMachine(w)
  PROVE  Sound(c, w)
<1> DEFINE r == Db(c.name)
           W(m) == [x \in {q \in DOMAIN m : q = r \/ (q[1] = "schema" /\ q[2] = c.name)} |-> Absent]
           n == Put(w, W(w))
<1>1. "name" \in DOMAIN c /\ c.kind \in DbKinds /\ c.kind \notin Assertions
  BY DEF DbDatabaseNameConfig, DbKinds, Assertions, AssertKinds
<1>2. \A m : /\ Handler(c, m) = When(There(m, r), Run(W(m))) \bullet Look
             /\ Goal(c, w, m) <=> ~There(m, r)
  <2>1. \A m : Handler(c, m) = DbHandler(c, m) /\ Goal(c, w, m) = DbGoal(c, w, m)
    BY <1>1, DbFamily
  <2>2. \A m : DbHandler(c, m) = DbDatabaseRemove(m, c)
    BY DEF DbHandler
  <2>3. \A m : DbGoal(c, w, m) <=> ~There(m, r)
    BY DEF DbGoal, DbLookKinds
  <2>4. \A m : DbDatabaseRemove(m, c) = When(There(m, r), Run(W(m))) \bullet Look
    BY DEF DbDatabaseRemove
  <2> QED  BY <2>1, <2>2, <2>3, <2>4
<1>3. "StatusTells" \in Except(c, w)
  BY <1>1, DbFamily DEF DbExcept
<1>4. /\ DOMAIN n = DOMAIN w
      /\ \A x \in DOMAIN w : n[x] = IF x \in DOMAIN W(w) THEN Absent ELSE w[x]
  BY DEF Put, ++
<1>5. ~There(n, r)
  BY <1>4 DEF There, StateOf
<1>6. Spares(c, w, w) /\ Spares(c, w, n) /\ Spares(c, n, n)
  <2>1. \A u, m : Spares(c, u, m) = DbSpares(c, u, m)
    BY <1>1, DbFamily
  <2>2. DbSpares(c, w, w) /\ DbSpares(c, n, n)
    BY DEF DbSpares, StateOf
  <2>3. DbSpares(c, w, n)
    BY <1>1, <1>4 DEF DbSpares, StateOf
  <2> QED  BY <2>1, <2>2, <2>3
<1> DEFINE V == W(w)
<1>7. Handler(c, w) = When(There(w, r), Run(V)) \bullet Look /\ Handler(c, n) = Nothing \bullet Look
  BY <1>2, <1>5 DEF When
<1>8. n = Put(w, V) /\ (Goal(c, w, w) <=> ~There(w, r)) /\ Goal(c, w, n)
  BY <1>2, <1>5
<1> HIDE DEF n, r, V
<1> QED  BY <1>1, <1>3, <1>6, <1>7, <1>8, SoundDrop

\* The resource that is set, and the others.
\* What a write of one resource leaves.
LEMMA StateSet ==
  ASSUME NEW m, NEW r, NEW v, NEW x
  PROVE  StateOf(Put(m, r := v), x) = IF x = r THEN v ELSE StateOf(m, x)
BY DEF Put, ++, :=, StateOf

LEMMA ValueSet ==
  ASSUME NEW m, NEW r, NEW v
  PROVE  Put(m, r := v)[r] = v /\ \A x \in DOMAIN m \ {r} : Put(m, r := v)[x] = m[x]
BY DEF Put, ++, :=

LEMMA DbSchemaRemoveSound ==
  ASSUME NEW c, c \in DbSchemaNameConfig, c.kind = "db.schema.remove", c.name # Staged, NEW w, IsMachine(w)
  PROVE  Sound(c, w)
<1> DEFINE r == DbSchema(c.db, c.name)
           v == Absent
           n == Put(w, r := v)
<1>1. "name" \in DOMAIN c /\ c.kind \in DbKinds /\ c.kind \notin Assertions
  BY DEF DbSchemaNameConfig, DbKinds, Assertions, AssertKinds
<1>2. \A m : /\ Handler(c, m) = When(There(m, r), Run(r := v))
             /\ Goal(c, w, m) <=> ~There(m, r)
  <2>1. \A m : Handler(c, m) = DbHandler(c, m) /\ Goal(c, w, m) = DbGoal(c, w, m)
    BY <1>1, DbFamily
  <2>2. \A m : DbHandler(c, m) = DbSchemaRemove(m, c)
    BY DEF DbHandler
  <2>3. \A m : DbGoal(c, w, m) <=> ~There(m, r)
    BY DEF DbGoal, DbLookKinds
  <2>4. \A m : DbSchemaRemove(m, c) = When(There(m, r), Run(r := v))
    BY DEF DbSchemaRemove
  <2> QED  BY <2>1, <2>2, <2>3, <2>4
<1>3. Last(r) # Staged /\ r[1] = "schema" /\ r[3] = c.name
  BY DEF DbSchema, Last
<1>4. n = Put(w, r := v) /\ \A m : There(m, r) <=> StateOf(m, r) # v
  BY DEF There
<1> HIDE DEF n, r, v
<1>5. StateOf(n, r) = v /\ \A x : x # r => StateOf(n, x) = StateOf(w, x)
  BY <1>4, StateSet
<1>6. Spares(c, w, w) /\ Spares(c, w, n) /\ Spares(c, n, n)
  <2>1. \A u, m : Spares(c, u, m) = DbSpares(c, u, m)
    BY <1>1, DbFamily
  <2>2. DbSpares(c, w, w) /\ DbSpares(c, n, n)
    BY DEF DbSpares, StateOf
  <2>3. DbSpares(c, w, n)
    BY <1>1, <1>3, <1>5 DEF DbSpares, StateOf
  <2> QED  BY <2>1, <2>2, <2>3
<1>7. Nothing = Handler(c, n) /\ Goal(c, w, n)
  BY <1>2, <1>4, <1>5 DEF When
<1>8. \/ Nothing = Handler(c, w) /\ Goal(c, w, w)
      \/ Run(r := v) = Handler(c, w) /\ StateOf(w, r) # v
  BY <1>2, <1>4 DEF When
<1> QED  BY <1>1, <1>3, <1>4, <1>6, <1>7, <1>8, SoundStep

-----------------------------------------------------------------------------
(***************************************************************************)
(* Containers.                                                             *)
(***************************************************************************)
HasBoxes(m) ==
  \A r \in DOMAIN m : r[1] = "container" /\ m[r] # Absent =>
    m[r] = Box(m[r].image, m[r].run) /\ m[r].run \in {"up", "paused", "exited"}

LEMMA DockerLookSound ==
  ASSUME NEW c, c.kind \in DockerLookKinds, NEW w, IsMachine(w)
  PROVE  Sound(c, w)
<1>1. c.kind \in DockerKinds /\ c.kind \notin Assertions
  BY DEF DockerKinds, DockerLookKinds, Assertions, AssertKinds
<1>2. Handler(c, w) = DockerHandler(c, w) /\ Goal(c, w, w) = DockerGoal(c, w, w) /\ Except(c, w) = DockerExcept(c, w)
      /\ Spares(c, w, w) = DockerSpares(c, w, w)
  BY <1>1, DockerFamily
<1>3. DockerHandler(c, w) \in {Look, Throw} \/ \E b \in BOOLEAN : DockerHandler(c, w) = Returns(Nothing, b)
  <2>1. CASE c.kind = "docker.inspect"
    BY <2>1 DEF DockerHandler, DockerInspect
  <2>2. CASE c.kind = "docker.tools.status"
    <3>1. Lists(w, c.name) \in BOOLEAN
      BY DEF Lists
    <3> QED  BY <2>2, <3>1 DEF DockerHandler, DockerStatus
  <2>3. CASE c.kind = "docker.exec"
    BY <2>3 DEF DockerHandler, DockerExec
  <2>4. CASE c.kind = "docker.wait"
    BY <2>4 DEF DockerHandler, DockerWait
  <2> QED  BY <2>1, <2>2, <2>3, <2>4 DEF DockerLookKinds
<1>4. DockerGoal(c, w, w)
  BY DEF DockerGoal, DockerLookKinds
<1>5. DockerExcept(c, w) = {"StatusTells"}
  BY DEF DockerExcept, DockerLookKinds
<1>6. DockerSpares(c, w, w)
  BY DEF DockerSpares, StateOf
<1>7. IsEffect(DockerHandler(c, w)) /\ DockerHandler(c, w).do = << >>
  BY <1>3, NothingIs, LooksAre
<1> QED  BY <1>1, <1>2, <1>4, <1>5, <1>6, <1>7, SoundLook

\* What an action does to what it names leaves the rest.
LEMMA DockerSpared ==
  ASSUME NEW c, c.kind \in DockerKinds, "name" \in DOMAIN c,
         NEW w, NEW r, r[2] = c.name, NEW v, NEW n, n = Put(w, r := v)
  PROVE  Spares(c, w, w) /\ Spares(c, w, n) /\ Spares(c, n, n)
<1>1. \A u, m : Spares(c, u, m) = DockerSpares(c, u, m)
  BY DockerFamily
<1>2. \A x : x # r => StateOf(n, x) = StateOf(w, x)
  BY StateSet
<1>3. DockerSpares(c, w, w) /\ DockerSpares(c, n, n)
  BY DEF DockerSpares, StateOf
<1>4. DockerSpares(c, w, n)
  BY <1>2 DEF DockerSpares, StateOf
<1> QED  BY <1>1, <1>3, <1>4

LEMMA DockerVolumeSound ==
  ASSUME NEW c, c \in DockerVolConfig, c.name # Staged, NEW w, IsMachine(w)
  PROVE  Sound(c, w)
<1> DEFINE r == Volume(c.name)
<1>1. "name" \in DOMAIN c /\ c.kind \in DockerKinds /\ c.kind \notin Assertions
  BY DEF DockerVolConfig, DockerKinds, Assertions, AssertKinds
<1>2. \A m : /\ Handler(c, m) = DockerHandler(c, m) /\ Goal(c, w, m) = DockerGoal(c, w, m)
             /\ Except(c, w) = DockerExcept(c, w)
  BY <1>1, DockerFamily
<1>3. Last(r) # Staged /\ r[2] = c.name
  BY DEF Volume, Last
<1> HIDE DEF r
<1>4. CASE c.kind = "docker.volume_create"
  <2> DEFINE v == Vol(FALSE)
             n == Put(w, r := v)
  <2>1. \A m : Handler(c, m) = When(~There(m, r), Run(r := v)) /\ (Goal(c, w, m) <=> There(m, r))
    <3>1. \A m : DockerHandler(c, m) = DockerVolumeCreate(m, c) /\ DockerGoal(c, w, m) = There(m, r)
      BY <1>4 DEF DockerHandler, DockerGoal, r
    <3> QED  BY <1>2, <3>1 DEF DockerVolumeCreate, r
  <2>2. n = Put(w, r := v) /\ v # Absent
    BY DEF Vol, Absent
  <2> HIDE DEF n, v
  <2>3. There(n, r) /\ StateOf(n, r) = v
    <3>1. StateOf(n, r) = v
      BY <2>2, StateSet
    <3> QED  BY <2>2, <3>1 DEF There
  <2>4. Spares(c, w, w) /\ Spares(c, w, n) /\ Spares(c, n, n)
    BY <1>1, <1>3, <2>2, DockerSpared
  <2>5. Nothing = Handler(c, n) /\ Goal(c, w, n)
    BY <2>1, <2>3 DEF When
  <2>6. \/ Nothing = Handler(c, w) /\ Goal(c, w, w)
        \/ Run(r := v) = Handler(c, w) /\ StateOf(w, r) # v
    BY <2>1, <2>2 DEF When, There
  <2> QED  BY <1>1, <1>3, <2>2, <2>4, <2>5, <2>6, SoundStep
<1>5. CASE c.kind = "docker.volume_rm"
  <2> DEFINE v == Absent
             n == Put(w, r := v)
  <2>1. \A m : /\ Handler(c, m) = When(There(m, r) /\ ~m[r].used, Run(r := v))
               /\ Goal(c, w, m) <=> ~There(m, r)
    <3>1. \A m : DockerHandler(c, m) = DockerVolumeRm(m, c) /\ DockerGoal(c, w, m) = ~There(m, r)
      BY <1>5 DEF DockerHandler, DockerGoal, r
    <3> QED  BY <1>2, <3>1 DEF DockerVolumeRm, r
  <2>2. n = Put(w, r := v) /\ \A m : There(m, r) <=> StateOf(m, r) # v
    BY DEF There
  <2> HIDE DEF n, v
  <2>3. ~There(n, r)
    <3>1. StateOf(n, r) = v
      BY <2>2, StateSet
    <3> QED  BY <2>2, <3>1
  <2>4. Spares(c, w, w) /\ Spares(c, w, n) /\ Spares(c, n, n)
    BY <1>1, <1>3, <2>2, DockerSpared
  <2>5. Nothing = Handler(c, n) /\ Goal(c, w, n)
    BY <2>1, <2>3 DEF When
  <2>6. There(w, r) /\ w[r].used => "Delivers" \in Except(c, w)
    BY <1>2, <1>5 DEF DockerExcept, r
  <2>7. \/ Nothing = Handler(c, w) /\ (Goal(c, w, w) \/ "Delivers" \in Except(c, w))
        \/ Run(r := v) = Handler(c, w) /\ StateOf(w, r) # v
    BY <2>1, <2>2, <2>6 DEF When
  <2> QED  BY <1>1, <1>3, <2>2, <2>4, <2>5, <2>7, SoundStep
<1> QED  BY <1>4, <1>5 DEF DockerVolConfig

LEMMA BoxIs ==
  ASSUME NEW image, NEW run, NEW b, NEW to, b = Box(image, run)
  PROVE  [b EXCEPT !.run = to] = Box(image, to) /\ b.run = run /\ b # Absent
<1>1. b = [type |-> "container", image |-> image, run |-> run]
  BY DEF Box
<1>2. b.type # Absent.type
  BY <1>1 DEF Absent
<1> QED  BY <1>1, <1>2 DEF Box

\* The container that an action names: it is not there, or what it becomes.
LEMMA BecomesIs ==
  ASSUME NEW w, HasBoxes(w), NEW name, NEW run, There(w, Container(name)),
         NEW v, v = [w[Container(name)] EXCEPT !.run = run],
         NEW n, n = Put(w, Container(name) := v)
  PROVE  /\ Becomes(w, name, run) = Run(Container(name) := v)
         /\ RunOf(w, name) \in {"up", "paused", "exited"} /\ RunOf(n, name) = run
         /\ StateOf(w, Container(name)) = v <=> RunOf(w, name) = run
         /\ Becomes(n, name, run) = Run(Container(name) := v)
<1> DEFINE r == Container(name)
           b == w[r]
           image == b.image
           now == b.run
<1>1. r \in DOMAIN w /\ r[1] = "container" /\ b # Absent
  BY DEF There, StateOf, Container
<1>2. b = Box(image, now) /\ now \in {"up", "paused", "exited"}
  BY <1>1 DEF HasBoxes
<1>3. StateOf(w, r) = b
  BY DEF There, StateOf
<1>4. n[r] = v /\ StateOf(n, r) = v
  <2> DEFINE s == r
  <2>1. n = Put(w, s := v)
    OBVIOUS
  <2> HIDE DEF s
  <2>2. n[s] = v /\ StateOf(n, s) = v
    BY <2>1 DEF Put, ++, :=, StateOf
  <2> QED  BY <2>2 DEF s
<1> HIDE DEF b, image, now
<1>5. v = Box(image, run) /\ b.run = now /\ v.run = run /\ v # Absent
  <2>1. v = [b EXCEPT !.run = run]
    BY DEF b
  <2> QED  BY <1>2, <2>1, BoxIs
<1>6. [v EXCEPT !.run = run] = v
  BY <1>5, BoxIs
<1>7. RunOf(w, name) = now
  BY <1>5 DEF RunOf, b
<1>8. RunOf(n, name) = run
  BY <1>4, <1>5 DEF RunOf, There
<1>9. b = v <=> now = run
  BY <1>2, <1>5
<1>10. Becomes(w, name, run) = Run(r := v)
  BY DEF Becomes
<1>11. Becomes(n, name, run) = Run(r := v)
  BY <1>4, <1>6 DEF Becomes
<1> QED  BY <1>2, <1>3, <1>7, <1>8, <1>9, <1>10, <1>11

LEMMA NoBox ==
  ASSUME NEW m, NEW name, ~There(m, Container(name))
  PROVE  RunOf(m, name) = "none"
BY DEF RunOf

\* The branches of what acts on a container that is named.
LEMMA DockerIs ==
  ASSUME NEW c, NEW w, NEW m
  PROVE  /\ c.kind = "docker.start" => DockerHandler(c, m) = DockerStart(m, c.name) /\ (DockerGoal(c, w, m) <=> RunOf(m, c.name) = "up")
         /\ c.kind = "docker.restart" => DockerHandler(c, m) = DockerRestart(m, c.name) /\ (DockerGoal(c, w, m) <=> RunOf(m, c.name) = "up")
         /\ c.kind = "docker.stop" => DockerHandler(c, m) = DockerStop(m, c.name) /\ (DockerGoal(c, w, m) <=> ~Lists(m, c.name))
         /\ c.kind = "docker.kill" => DockerHandler(c, m) = DockerKill(m, c.name) /\ (DockerGoal(c, w, m) <=> ~Lists(m, c.name))
         /\ c.kind = "docker.rm" => DockerHandler(c, m) = DockerRm(m, c) /\ (DockerGoal(c, w, m) <=> ~There(m, Container(c.name)))
         /\ c.kind = "docker.start" /\ RunOf(w, c.name) = "paused" => "Delivers" \in DockerExcept(c, w)
         /\ c.kind = "docker.restart" => "StatusTells" \in DockerExcept(c, w)
<1>1. ASSUME c.kind = "docker.start" PROVE DockerHandler(c, m) = DockerStart(m, c.name) /\ (DockerGoal(c, w, m) <=> RunOf(m, c.name) = "up")
  <2>1. DockerHandler(c, m) = DockerStart(m, c.name)
    BY <1>1 DEF DockerHandler
  <2>2. DockerGoal(c, w, m) <=> RunOf(m, c.name) = "up"
    BY <1>1 DEF DockerGoal, DockerLookKinds
  <2> QED  BY <2>1, <2>2
<1>2. ASSUME c.kind = "docker.restart" PROVE DockerHandler(c, m) = DockerRestart(m, c.name) /\ (DockerGoal(c, w, m) <=> RunOf(m, c.name) = "up")
  <2>1. DockerHandler(c, m) = DockerRestart(m, c.name)
    BY <1>2 DEF DockerHandler
  <2>2. DockerGoal(c, w, m) <=> RunOf(m, c.name) = "up"
    BY <1>2 DEF DockerGoal, DockerLookKinds
  <2> QED  BY <2>1, <2>2
<1>3. ASSUME c.kind = "docker.stop" PROVE DockerHandler(c, m) = DockerStop(m, c.name) /\ (DockerGoal(c, w, m) <=> ~Lists(m, c.name))
  <2>1. DockerHandler(c, m) = DockerStop(m, c.name)
    BY <1>3 DEF DockerHandler
  <2>2. DockerGoal(c, w, m) <=> ~Lists(m, c.name)
    BY <1>3 DEF DockerGoal, DockerLookKinds
  <2> QED  BY <2>1, <2>2
<1>4. ASSUME c.kind = "docker.kill" PROVE DockerHandler(c, m) = DockerKill(m, c.name) /\ (DockerGoal(c, w, m) <=> ~Lists(m, c.name))
  <2>1. DockerHandler(c, m) = DockerKill(m, c.name)
    BY <1>4 DEF DockerHandler
  <2>2. DockerGoal(c, w, m) <=> ~Lists(m, c.name)
    BY <1>4 DEF DockerGoal, DockerLookKinds
  <2> QED  BY <2>1, <2>2
<1>5. ASSUME c.kind = "docker.rm" PROVE DockerHandler(c, m) = DockerRm(m, c) /\ (DockerGoal(c, w, m) <=> ~There(m, Container(c.name)))
  <2>1. DockerHandler(c, m) = DockerRm(m, c)
    BY <1>5 DEF DockerHandler
  <2>2. DockerGoal(c, w, m) <=> ~There(m, Container(c.name))
    BY <1>5 DEF DockerGoal, DockerLookKinds
  <2> QED  BY <2>1, <2>2
<1>6. ASSUME c.kind = "docker.start", RunOf(w, c.name) = "paused" PROVE "Delivers" \in DockerExcept(c, w)
  <2>1. DockerExcept(c, w) = IF RunOf(w, c.name) = "paused" THEN {"Delivers"} ELSE {}
    BY <1>6 DEF DockerExcept, DockerLookKinds
  <2> QED  BY <1>6, <2>1
<1>7. ASSUME c.kind = "docker.restart" PROVE "StatusTells" \in DockerExcept(c, w)
  <2>1. DockerExcept(c, w) = {"StatusTells"}
    BY <1>7 DEF DockerExcept, DockerLookKinds
  <2> QED  BY <2>1
<1> QED  BY <1>1, <1>2, <1>3, <1>4, <1>5, <1>6, <1>7

LEMMA DockerNameSound ==
  ASSUME NEW c, c \in DockerNameConfig, c.kind \in {"docker.start", "docker.stop", "docker.kill", "docker.restart"},
         c.name # Staged, NEW w, IsMachine(w), HasBoxes(w)
  PROVE  Sound(c, w)
<1> DEFINE r == Container(c.name)
           to == IF c.kind \in {"docker.start", "docker.restart"} THEN "up" ELSE "exited"
           v == [w[r] EXCEPT !.run = to]
           n == Put(w, r := v)
<1>1. "name" \in DOMAIN c /\ c.kind \in DockerKinds /\ c.kind \notin Assertions
  BY DEF DockerNameConfig, DockerKinds, DockerNameKinds, Assertions, AssertKinds
<1>2. \A m : Handler(c, m) = DockerHandler(c, m) /\ Goal(c, w, m) = DockerGoal(c, w, m)
  BY <1>1, DockerFamily
<1>3. Except(c, w) = DockerExcept(c, w)
  BY <1>1, DockerFamily
<1>4. Last(r) # Staged /\ r[2] = c.name
  BY DEF Container, Last
<1>5. n = Put(w, r := v)
  OBVIOUS
<1> HIDE DEF n
<1>6. Spares(c, w, w) /\ Spares(c, w, n) /\ Spares(c, n, n)
  <2> HIDE DEF v, r
  <2> QED  BY <1>1, <1>4, <1>5, DockerSpared
<1>7. There(w, r) =>
         /\ Becomes(w, c.name, to) = Run(r := v)
         /\ RunOf(w, c.name) \in {"up", "paused", "exited"} /\ RunOf(n, c.name) = to
         /\ StateOf(w, r) = v <=> RunOf(w, c.name) = to
         /\ Becomes(n, c.name, to) = Run(r := v)
  <2> HIDE DEF to
  <2> QED  BY <1>5, BecomesIs
<1>8. ~There(w, r) => RunOf(w, c.name) = "none"
  BY NoBox
<1> HIDE DEF v, r
<1>9. CASE c.kind = "docker.start"
  <2>0. to = "up"
    BY <1>9
  <2>1. \A m : Handler(c, m) = DockerStart(m, c.name) /\ (Goal(c, w, m) <=> RunOf(m, c.name) = "up")
    BY <1>2, <1>9, DockerIs
  <2>2. RunOf(w, c.name) = "paused" => "Delivers" \in Except(c, w)
    BY <1>3, <1>9, DockerIs
  <2>3. CASE RunOf(w, c.name) \in {"up", "paused"}
    <3>1. Nothing = Handler(c, w) /\ (Goal(c, w, w) \/ "Delivers" \in Except(c, w))
      BY <2>1, <2>2, <2>3 DEF DockerStart, Lists
    <3> QED  BY <1>1, <1>4, <1>5, <1>6, <3>1, SoundStep
  <2>4. CASE RunOf(w, c.name) = "none"
    <3>1. Throw = Handler(c, w)
      BY <2>1, <2>4 DEF DockerStart, Lists
    <3> QED  BY <1>1, <1>4, <1>5, <3>1, SoundStep
  <2>5. CASE RunOf(w, c.name) = "exited"
    <3>1. Handler(c, w) = Becomes(w, c.name, "up")
      BY <2>1, <2>5 DEF DockerStart, Lists
    <3>2. Run(r := v) = Handler(c, w) /\ RunOf(n, c.name) = "up" /\ StateOf(w, r) # v
      BY <1>7, <1>8, <2>0, <2>5, <3>1
    <3>3. Nothing = Handler(c, n) /\ Goal(c, w, n)
      BY <2>1, <3>2 DEF DockerStart, Lists
    <3> QED  BY <1>1, <1>4, <1>5, <1>6, <3>2, <3>3, SoundStep
  <2> QED  BY <1>7, <1>8, <2>3, <2>4, <2>5
<1>10. CASE c.kind \in {"docker.stop", "docker.kill"}
  <2>0. to = "exited"
    BY <1>10
  <2>1. \A m : Handler(c, m) = When(Lists(m, c.name), Becomes(m, c.name, "exited")) /\ (Goal(c, w, m) <=> ~Lists(m, c.name))
    BY <1>2, <1>10, DockerIs DEF DockerStop, DockerKill
  <2>2. CASE ~Lists(w, c.name)
    <3>1. Nothing = Handler(c, w) /\ Goal(c, w, w)
      BY <2>1, <2>2 DEF When
    <3> QED  BY <1>1, <1>4, <1>5, <1>6, <3>1, SoundStep
  <2>3. CASE Lists(w, c.name)
    <3>1. Handler(c, w) = Becomes(w, c.name, "exited") /\ RunOf(w, c.name) \in {"up", "paused"}
      BY <2>1, <2>3 DEF When, Lists
    <3>2. Run(r := v) = Handler(c, w) /\ RunOf(n, c.name) = "exited" /\ StateOf(w, r) # v
      BY <1>7, <1>8, <2>0, <3>1
    <3>3. Nothing = Handler(c, n) /\ Goal(c, w, n)
      BY <2>1, <3>2 DEF When, Lists
    <3> QED  BY <1>1, <1>4, <1>5, <1>6, <3>2, <3>3, SoundStep
  <2> QED  BY <2>2, <2>3
<1>11. CASE c.kind = "docker.restart"
  <2>0. to = "up"
    BY <1>11
  <2>1. \A m : Handler(c, m) = DockerRestart(m, c.name) /\ (Goal(c, w, m) <=> RunOf(m, c.name) = "up")
    BY <1>2, <1>11, DockerIs
  <2>2. "StatusTells" \in Except(c, w)
    BY <1>3, <1>11, DockerIs
  <2>3. CASE RunOf(w, c.name) = "none"
    <3>1. Throw = Handler(c, w)
      BY <2>1, <2>3 DEF DockerRestart
    <3> QED  BY <1>1, <1>4, <1>5, <3>1, SoundStep
  <2>4. CASE RunOf(w, c.name) # "none"
    <3>1. Handler(c, w) = Becomes(w, c.name, "up")
      BY <2>1, <2>4 DEF DockerRestart
    <3>2. Run(r := v) = Handler(c, w) /\ RunOf(n, c.name) = "up" /\ Becomes(n, c.name, "up") = Run(r := v)
      BY <1>7, <1>8, <2>0, <2>4, <3>1
    <3>3. Run(r := v) = Handler(c, n) /\ Goal(c, w, n)
      BY <2>1, <3>2 DEF DockerRestart
    <3> DEFINE W == r := v
    <3>4. W = (r := v) /\ Run(W) = Handler(c, w) /\ Run(W) = Handler(c, n)
      BY <3>2, <3>3
    <3> HIDE DEF W
    <3> QED  BY <1>4, <1>5, <1>6, <2>2, <3>3, <3>4, RunIs, SoundSet
  <2> QED  BY <2>3, <2>4
<1> QED  BY <1>9, <1>10, <1>11

LEMMA DockerRmSound ==
  ASSUME NEW c, c \in DockerRmConfig, c.name # Staged, NEW w, IsMachine(w)
  PROVE  Sound(c, w)
<1> DEFINE r == Container(c.name)
           v == Absent
           n == Put(w, r := v)
<1>1. "name" \in DOMAIN c /\ c.kind = "docker.rm" /\ c.kind \in DockerKinds /\ c.kind \notin Assertions
  BY DEF DockerRmConfig, DockerKinds, Assertions, AssertKinds
<1>2. \A m : Handler(c, m) = DockerRm(m, c) /\ (Goal(c, w, m) <=> ~There(m, r))
  <2>1. \A m : Handler(c, m) = DockerHandler(c, m) /\ Goal(c, w, m) = DockerGoal(c, w, m)
    BY <1>1, DockerFamily
  <2> QED  BY <1>1, <2>1, DockerIs
<1>3. Last(r) # Staged /\ r[2] = c.name
  BY DEF Container, Last
<1>4. n = Put(w, r := v) /\ \A m : There(m, r) <=> StateOf(m, r) # v
  BY DEF There
<1>5. \A m : /\ ~There(m, r) => DockerRm(m, c) = Nothing
             /\ There(m, r) => DockerRm(m, c) \in {Throw, Run(r := v)}
  BY DEF DockerRm
<1> HIDE DEF n, r, v
<1>6. ~There(n, r)
  <2>1. StateOf(n, r) = v
    BY <1>4, StateSet
  <2> QED  BY <1>4, <2>1
<1>7. Spares(c, w, w) /\ Spares(c, w, n) /\ Spares(c, n, n)
  BY <1>1, <1>3, <1>4, DockerSpared
<1>8. Nothing = Handler(c, n) /\ Goal(c, w, n)
  BY <1>2, <1>5, <1>6
<1>9. \/ Throw = Handler(c, w)
      \/ Nothing = Handler(c, w) /\ Goal(c, w, w)
      \/ Run(r := v) = Handler(c, w) /\ StateOf(w, r) # v
  BY <1>2, <1>4, <1>5
<1> QED  BY <1>1, <1>3, <1>4, <1>7, <1>8, <1>9, SoundStep

-----------------------------------------------------------------------------
(***************************************************************************)
(* Accounts.                                                               *)
(***************************************************************************)
AccountKinds == {"system.group", "system.user.remove", "system.group.remove"}

\* The other accounts.
LEMMA AccountSpared ==
  ASSUME NEW c, c.kind \in AccountKinds,
         NEW w, NEW r, r[2] = c.name, NEW v, NEW n, n = Put(w, r := v)
  PROVE  Spares(c, w, w) /\ Spares(c, w, n) /\ Spares(c, n, n)
<1>1. c.kind \in SystemKinds
  BY DEF AccountKinds, SystemKinds
<1>2. \A u, m : Spares(c, u, m) <=> \A x \in DOMAIN u : x[1] \in {"user", "group"} /\ x[2] # c.name => m[x] = u[x]
  <2>1. \A u, m : Spares(c, u, m) = SystemSpares(c, u, m)
    BY <1>1, SystemFamily
  <2>2. c.kind \in {"system.group", "system.user", "system.user.remove", "system.group.remove"}
    BY DEF AccountKinds
  <2>3. \A u, m : SystemSpares(c, u, m) <=>
          \A x \in DOMAIN u : x[1] \in {"user", "group"} /\ x[2] # c.name => m[x] = u[x]
    BY <2>2 DEF SystemSpares
  <2> QED  BY <2>1, <2>3
<1>3. \A x \in DOMAIN w \ {r} : n[x] = w[x]
  BY ValueSet
<1> QED  BY <1>2, <1>3

LEMMA AccountRemoveSound ==
  ASSUME NEW c, c \in RemoveAccountConfig, c.name # Staged, NEW w, IsMachine(w)
  PROVE  Sound(c, w)
<1> DEFINE r == IF c.kind = "system.user.remove" THEN User(c.name) ELSE Group(c.name)
           v == Absent
           n == Put(w, r := v)
<1>1. c.kind \in {"system.user.remove", "system.group.remove"}
  BY DEF RemoveAccountConfig
<1>2. c.kind \in AccountKinds /\ c.kind \in SystemKinds /\ c.kind \notin Assertions
  BY <1>1 DEF AccountKinds, SystemKinds, Assertions, AssertKinds
<1>3. \A m : Handler(c, m) = SystemRemove(m, r) /\ (Goal(c, w, m) <=> ~Has(m, r))
  <2>1. \A m : Handler(c, m) = SystemHandler(c, m) /\ Goal(c, w, m) = SystemGoal(c, w, m)
    BY <1>2, SystemFamily
  <2>2. CASE c.kind = "system.user.remove"
    BY <2>1, <2>2 DEF SystemHandler, SystemGoal
  <2>3. CASE c.kind = "system.group.remove"
    BY <2>1, <2>3 DEF SystemHandler, SystemGoal
  <2> QED  BY <1>1, <2>2, <2>3
<1>4. Last(r) # Staged /\ r[2] = c.name
  BY DEF User, Group, Last
<1>5. n = Put(w, r := v) /\ \A m : Has(m, r) <=> StateOf(m, r) # v
  BY DEF Has
<1>6. \A m : SystemRemove(m, r) = When(Has(m, r), Run(r := v))
  BY DEF SystemRemove
<1> HIDE DEF n, r, v
<1>7. ~Has(n, r)
  <2>1. StateOf(n, r) = v
    BY <1>5, StateSet
  <2> QED  BY <1>5, <2>1
<1>8. Spares(c, w, w) /\ Spares(c, w, n) /\ Spares(c, n, n)
  BY <1>2, <1>4, <1>5, AccountSpared
<1>9. Nothing = Handler(c, n) /\ Goal(c, w, n)
  BY <1>3, <1>6, <1>7 DEF When
<1>10. \/ Nothing = Handler(c, w) /\ Goal(c, w, w)
       \/ Run(r := v) = Handler(c, w) /\ StateOf(w, r) # v
  BY <1>3, <1>5, <1>6 DEF When
<1> QED  BY <1>2, <1>4, <1>5, <1>8, <1>9, <1>10, SoundStep

LEMMA GroupSound ==
  ASSUME NEW c, c \in GroupConfig, c.name # Staged, NEW w, IsMachine(w)
  PROVE  Sound(c, w)
<1> DEFINE r == Group(c.name)
           to == IF ~Has(w, r) THEN Or(c.gid, "auto") ELSE IF c.gid = "0" THEN w[r].gid ELSE c.gid
           v == GroupOf(to)
           n == Put(w, r := v)
<1>1. c.kind = "system.group"
  BY DEF GroupConfig
<1>2. c.kind \in AccountKinds /\ c.kind \in SystemKinds /\ c.kind \notin Assertions
  BY <1>1 DEF AccountKinds, SystemKinds, Assertions, AssertKinds
<1>3. \A m : /\ Handler(c, m) = SystemGroup(m, c)
             /\ Goal(c, w, m) <=> Has(m, r) /\ HasId(c.gid, m[r].gid)
  <2>1. \A m : Handler(c, m) = SystemHandler(c, m) /\ Goal(c, w, m) = SystemGoal(c, w, m)
    BY <1>2, SystemFamily
  <2> QED  BY <1>1, <2>1 DEF SystemHandler, SystemGoal
<1>4. c.gid = "0" => {"Delivers", "Converges", "StatusTells"} \subseteq Except(c, w)
  BY <1>1, <1>2, SystemFamily DEF SystemExcept
<1>5. Last(r) # Staged /\ r[2] = c.name
  BY DEF Group, Last
<1>6. n = Put(w, r := v) /\ v.gid = to /\ v # Absent
  BY DEF GroupOf, Absent
<1>7. \A m : /\ ~Has(m, r) => SystemGroup(m, c) = Run(r := GroupOf(Or(c.gid, "auto")))
             /\ Has(m, r) /\ c.gid \in {Unset, m[r].gid} => SystemGroup(m, c) = Nothing
             /\ Has(m, r) /\ c.gid \notin {Unset, m[r].gid} =>
                  SystemGroup(m, c) = Run(r := GroupOf(IF c.gid = "0" THEN m[r].gid ELSE c.gid))
  BY DEF SystemGroup
<1> HIDE DEF n, r
<1>8. Has(n, r) /\ n[r] = v /\ n[r].gid = to
  <2> HIDE DEF v
  <2>1. StateOf(n, r) = v
    BY <1>6, StateSet
  <2>2. n[r] = v
    BY <1>6, ValueSet
  <2> QED  BY <1>6, <2>1, <2>2 DEF Has
<1>9. Spares(c, w, w) /\ Spares(c, w, n) /\ Spares(c, n, n)
  <2> HIDE DEF v
  <2> QED  BY <1>2, <1>5, <1>6, AccountSpared
<1>10. CASE Has(w, r) /\ c.gid \in {Unset, w[r].gid}
  <2>1. Nothing = Handler(c, w) /\ Goal(c, w, w)
    BY <1>3, <1>7, <1>10 DEF HasId
  <2> HIDE DEF v
  <2> QED  BY <1>2, <1>5, <1>6, <1>9, <2>1, SoundStep
<1>11. CASE ~(Has(w, r) /\ c.gid \in {Unset, w[r].gid})
  <2>1. Run(r := v) = Handler(c, w)
    BY <1>3, <1>7, <1>11
  <2>2. CASE c.gid \in {Unset, to}
    <3>1. Nothing = Handler(c, n) /\ Goal(c, w, n)
      BY <1>3, <1>7, <1>8, <2>2 DEF HasId
    <3>2. StateOf(w, r) # v
      <4>1. CASE Has(w, r)
        <5>1. StateOf(w, r) = w[r] /\ w[r].gid # to
          BY <1>11, <2>2, <4>1 DEF Has, StateOf
        <5> QED  BY <1>6, <5>1
      <4>2. CASE ~Has(w, r)
        BY <1>6, <4>2 DEF Has
      <4> QED  BY <4>1, <4>2
    <3> HIDE DEF v
    <3> QED  BY <1>2, <1>5, <1>6, <1>9, <2>1, <3>1, <3>2, SoundStep
  <2>3. CASE c.gid \notin {Unset, to}
    <3>1. c.gid = "0"
      BY <1>11, <2>3 DEF Or
    <3>2. Run(r := v) = Handler(c, n)
      BY <1>3, <1>7, <1>8, <2>3, <3>1
    <3> DEFINE W == r := v
    <3>3. W = (r := v) /\ Run(W) = Handler(c, w) /\ Run(W) = Handler(c, n)
      BY <2>1, <3>2
    <3> HIDE DEF W, v
    <3> QED  BY <1>4, <1>5, <1>6, <1>9, <3>1, <3>3, RunIs, SoundSet
  <2> QED  BY <2>2, <2>3
<1> QED  BY <1>10, <1>11

LEMMA UidGidSound ==
  ASSUME NEW c, c \in UidGidConfig, NEW w, IsMachine(w)
  PROVE  Sound(c, w)
<1> DEFINE e == Handler(c, w)
<1>1. c.kind = "system.uid_gid"
  BY DEF UidGidConfig
<1>2. c.kind \in SystemKinds /\ c.kind \notin Assertions
  BY <1>1 DEF SystemKinds, Assertions, AssertKinds
<1>3. /\ Handler(c, w) = SystemUidGid(w, c)
      /\ Goal(c, w, w) <=> (c.user # Unset => Has(w, User(c.user))) /\ (c.group # Unset => Has(w, Group(c.group)))
      /\ Spares(c, w, w)
  <2>1. Handler(c, w) = SystemHandler(c, w) /\ Goal(c, w, w) = SystemGoal(c, w, w) /\ Spares(c, w, w) = SystemSpares(c, w, w)
    BY <1>2, SystemFamily
  <2>2. SystemHandler(c, w) = SystemUidGid(w, c)
    BY <1>1 DEF SystemHandler
  <2>3. SystemGoal(c, w, w) <=> (c.user # Unset => Has(w, User(c.user))) /\ (c.group # Unset => Has(w, Group(c.group)))
    BY <1>1 DEF SystemGoal
  <2>4. SystemSpares(c, w, w)
    BY <1>1 DEF SystemSpares
  <2> QED  BY <2>1, <2>2, <2>3, <2>4
<1>4. e = Throw \/ (e = Nothing /\ Goal(c, w, w))
  BY <1>3 DEF SystemUidGid, When, SystemRead
<1> QED  BY <1>2, <1>3, <1>4, NothingIs, SoundIdle

-----------------------------------------------------------------------------
(***************************************************************************)
(* Services.                                                               *)
(***************************************************************************)
HasServices(m) ==
  \A r \in DOMAIN m : r[1] = "srv" /\ m[r] # Absent =>
    /\ m[r] = Service(m[r].started, m[r].levels, m[r].broken)
    /\ m[r].started \in BOOLEAN /\ m[r].broken \in BOOLEAN

\* A service once it is started, or stopped.
Switched(s, to) == [s EXCEPT !.started = to]

LEMMA ServiceIs ==
  ASSUME NEW m, HasServices(m), NEW name, IsService(m, name), NEW to
  PROVE  /\ m[Srv(name)].started \in BOOLEAN
         /\ Switched(m[Srv(name)], to).started = to /\ Switched(m[Srv(name)], to) # Absent
         /\ Switched(m[Srv(name)], to).broken = m[Srv(name)].broken
         /\ Switched(m[Srv(name)], to) = m[Srv(name)] <=> m[Srv(name)].started = to
         /\ \A again : Switched(Switched(m[Srv(name)], to), again) = Switched(m[Srv(name)], again)
<1> DEFINE b == m[Srv(name)]
           s == Switched(b, to)
           started == b.started
           levels == b.levels
           broken == b.broken
<1>1. Srv(name) \in DOMAIN m /\ Srv(name)[1] = "srv" /\ b # Absent
  BY DEF IsService, StateOf, Srv
<1>2. b = Service(started, levels, broken) /\ started \in BOOLEAN /\ broken \in BOOLEAN
  BY <1>1 DEF HasServices
<1> HIDE DEF started, levels, broken
<1>4. b = [type |-> "service", started |-> started, levels |-> levels, broken |-> broken]
  BY <1>2 DEF Service
<1> HIDE DEF b
<1>5. s = [type |-> "service", started |-> to, levels |-> levels, broken |-> broken]
  BY <1>4 DEF Switched
<1> HIDE DEF s
<1>6. s # Absent
  <2>1. s.type # Absent.type
    BY <1>5 DEF Absent
  <2> QED  BY <2>1
<1>7. ASSUME NEW again PROVE Switched(s, again) = Switched(b, again)
  <2>1. [s EXCEPT !.started = again] = [type |-> "service", started |-> again, levels |-> levels, broken |-> broken]
    BY <1>5
  <2>2. [b EXCEPT !.started = again] = [type |-> "service", started |-> again, levels |-> levels, broken |-> broken]
    BY <1>4
  <2> QED  BY <2>1, <2>2 DEF Switched
<1>8. b.started \in BOOLEAN /\ s.started = to /\ s.broken = b.broken /\ (s = b <=> b.started = to)
  BY <1>2, <1>4, <1>5
<1> QED  BY <1>6, <1>7, <1>8 DEF b, s

\* The service that an action starts or stops.
LEMMA SrvSet ==
  ASSUME NEW w, NEW name, NEW v, v # Absent, NEW n, n = Put(w, Srv(name) := v)
  PROVE  /\ IsService(n, name) /\ n[Srv(name)] = v /\ Tool(n, Loader) = Tool(w, Loader)
         /\ \A x \in DOMAIN w \ {Srv(name)} : n[x] = w[x]
<1> DEFINE r == Srv(name)
<1>1. Loader # r
  BY DEF Loader, Srv
<1> HIDE DEF r
<1>2. n = Put(w, r := v)
  BY DEF r
<1>3. /\ n[r] = v /\ StateOf(n, r) = v /\ DOMAIN n = DOMAIN w \cup {r}
      /\ \A x \in DOMAIN w \ {r} : n[x] = w[x]
  BY <1>2 DEF Put, ++, :=, StateOf
<1> QED  BY <1>1, <1>3 DEF IsService, Tool, r

LEMMA ServiceSpared ==
  ASSUME NEW c, c.kind \in ServiceKinds, NEW w, NEW n,
         \A x \in DOMAIN w \ {Srv(c.name)} : n[x] = w[x]
  PROVE  Spares(c, w, w) /\ Spares(c, w, n) /\ Spares(c, n, n)
<1>1. \A u, m : Spares(c, u, m) = ServiceSpares(c, u, m)
  BY ServiceFamily
<1>2. ServiceSpares(c, w, w) /\ ServiceSpares(c, n, n)
  BY DEF ServiceSpares
<1>3. ServiceSpares(c, w, n)
  BY DEF ServiceSpares, Srv
<1> QED  BY <1>1, <1>2, <1>3

\* What the status of a service is.
LEMMA StatusIs ==
  ASSUME NEW m, NEW name
  PROVE  /\ ~IsService(m, name) => ServiceStatus(m, name) = Nothing
         /\ IsService(m, name) /\ Tool(m, Loader) = "none" => ServiceStatus(m, name) = Throw
         /\ IsService(m, name) /\ Tool(m, Loader) # "none" =>
              ServiceStatus(m, name) = Returns(Nothing, m[Srv(name)].started)
BY DEF ServiceStatus

LEMMA ReturnsFalse ==
  ASSUME NEW e, e \in {Nothing, Throw}
  PROVE  Returns(e, FALSE) = e
<1>1. Nothing = [do |-> << >>, status |-> FALSE, fails |-> FALSE] /\ Throw = [do |-> << >>, status |-> FALSE, fails |-> TRUE]
  BY Forms
<1> DEFINE E == e
<1>2. E = [do |-> << >>, status |-> FALSE, fails |-> FALSE] \/ E = [do |-> << >>, status |-> FALSE, fails |-> TRUE]
  BY <1>1
<1> HIDE DEF E
<1>3. [E EXCEPT !.status = FALSE] = E
  BY <1>2
<1> QED  BY <1>3 DEF Returns, E

LEMMA ReturnsTwice ==
  ASSUME NEW a, NEW b
  PROVE  Returns(Returns(Nothing, a), b) = Returns(Nothing, b)
<1>1. Nothing = [do |-> << >>, status |-> FALSE, fails |-> FALSE]
  BY Forms
<1> DEFINE N == Nothing
<1> HIDE DEF N
<1>2. [[N EXCEPT !.status = a] EXCEPT !.status = b] = [N EXCEPT !.status = b]
  BY <1>1 DEF N
<1> QED  BY <1>2 DEF Returns, N

LEMMA ServiceStatusSound ==
  ASSUME NEW c, c \in ServiceNameConfig, c.kind = "service.status", NEW w, IsMachine(w), HasServices(w)
  PROVE  Sound(c, w)
<1>1. c.kind \in ServiceKinds /\ c.kind \notin Assertions
  BY DEF ServiceKinds, Assertions, AssertKinds
<1>2. Handler(c, w) = ServiceStatus(w, c.name) /\ Goal(c, w, w) /\ "StatusTells" \in Except(c, w)
  <2>1. /\ Handler(c, w) = ServiceHandler(c, w) /\ Goal(c, w, w) = ServiceGoal(c, w, w)
        /\ Except(c, w) = ServiceExcept(c, w)
    BY <1>1, ServiceFamily
  <2>2. ServiceHandler(c, w) = ServiceStatus(w, c.name)
    BY DEF ServiceHandler
  <2>3. ServiceGoal(c, w, w)
    BY DEF ServiceGoal
  <2>4. ServiceExcept(c, w) = {"StatusTells"}
    BY DEF ServiceExcept
  <2> QED  BY <2>1, <2>2, <2>3, <2>4
<1>3. Spares(c, w, w)
  BY <1>1, ServiceSpared
<1>4. Handler(c, w) \in {Nothing, Throw} \/ \E b \in BOOLEAN : Handler(c, w) = Returns(Nothing, b)
  BY <1>2, StatusIs, ServiceIs
<1>5. IsEffect(Handler(c, w)) /\ Handler(c, w).do = << >>
  BY <1>4, NothingIs, LooksAre
<1> QED  BY <1>1, <1>2, <1>3, <1>5, SoundLook

LEMMA StartStopIs ==
  ASSUME NEW m, NEW name,
         NEW u, u = Returns(Nothing, m[Srv(name)].started),
         IsService(m, name) /\ Tool(m, Loader) # "none" => m[Srv(name)].started \in BOOLEAN
  PROVE  /\ ~IsService(m, name) => ServiceStart(m, name) = Nothing /\ ServiceStop(m, name) = Nothing
         /\ IsService(m, name) /\ Tool(m, Loader) = "none" =>
              ServiceStart(m, name) = Throw /\ ServiceStop(m, name) = Throw
         /\ IsService(m, name) /\ Tool(m, Loader) # "none" /\ m[Srv(name)].started =>
              /\ ServiceStart(m, name) = Nothing
              /\ ServiceStop(m, name) = Run(Srv(name) := [m[Srv(name)] EXCEPT !.started = FALSE])
         /\ IsService(m, name) /\ Tool(m, Loader) # "none" /\ ~m[Srv(name)].started =>
              /\ ServiceStart(m, name) =
                   When(~m[Srv(name)].broken, Run(Srv(name) := [m[Srv(name)] EXCEPT !.started = TRUE]))
              /\ ServiceStop(m, name) = Nothing
<1> DEFINE s == ServiceStatus(m, name)
           up == Run(Srv(name) := [m[Srv(name)] EXCEPT !.started = TRUE])
           down == Run(Srv(name) := [m[Srv(name)] EXCEPT !.started = FALSE])
<1>1. /\ ServiceStart(m, name) = IF ~IsService(m, name) \/ s.fails \/ s.status
                                 THEN Returns(s, FALSE) ELSE When(~m[Srv(name)].broken, up)
      /\ ServiceStop(m, name) = IF ~IsService(m, name) \/ s.fails \/ ~s.status THEN Returns(s, FALSE) ELSE down
  BY DEF ServiceStart, ServiceStop
<1> HIDE DEF s, up, down
<1>2. CASE ~IsService(m, name)
  BY <1>1, <1>2, StatusIs, ReturnsFalse DEF s
<1>3. CASE IsService(m, name) /\ Tool(m, Loader) = "none"
  <2>1. s = Throw
    BY <1>3, StatusIs DEF s
  <2>2. s.fails
    BY <2>1, NothingIs
  <2> QED  BY <1>1, <1>3, <2>1, <2>2, ReturnsFalse
<1>4. CASE IsService(m, name) /\ Tool(m, Loader) # "none"
  <2>1. s = u
    BY <1>4, StatusIs DEF s
  <2>2. s.status = m[Srv(name)].started /\ ~s.fails
    BY <1>4, <2>1, NothingIs, ReturnsIs
  <2>3. Returns(s, FALSE) = Nothing
    BY <2>1, ReturnsTwice, ReturnsFalse
  <2> QED  BY <1>1, <1>4, <2>2, <2>3 DEF up, down
<1> QED  BY <1>2, <1>3, <1>4

LEMMA ServiceSwitchSound ==
  ASSUME NEW c, c \in ServiceNameConfig, c.kind \in {"service.start", "service.stop"}, c.name # Staged,
         NEW w, IsMachine(w), HasServices(w)
  PROVE  Sound(c, w)
<1> DEFINE r == Srv(c.name)
           on == c.kind = "service.start"
           v == [w[r] EXCEPT !.started = on]
           n == Put(w, r := v)
<1>1. c.kind \in ServiceKinds /\ c.kind \notin Assertions
  BY DEF ServiceKinds, Assertions, AssertKinds
<1>2. \A m : /\ Handler(c, m) = IF on THEN ServiceStart(m, c.name) ELSE ServiceStop(m, c.name)
             /\ Goal(c, w, m) <=> (IsService(m, c.name) => (m[r].started <=> on))
  <2>1. \A m : Handler(c, m) = ServiceHandler(c, m) /\ Goal(c, w, m) = ServiceGoal(c, w, m)
    BY <1>1, ServiceFamily
  <2>2. CASE on
    <3>1. \A m : ServiceHandler(c, m) = ServiceStart(m, c.name) /\ ServiceGoal(c, w, m) = Started(m, c.name)
      BY <2>2 DEF ServiceHandler, ServiceGoal
    <3> QED  BY <2>1, <2>2, <3>1 DEF Started
  <2>3. CASE ~on
    <3>1. c.kind = "service.stop"
      BY <2>3
    <3>2. \A m : /\ ServiceHandler(c, m) = ServiceStop(m, c.name)
                 /\ ServiceGoal(c, w, m) = (IsService(m, c.name) => ~m[r].started)
      BY <3>1 DEF ServiceHandler, ServiceGoal
    <3> QED  BY <2>1, <2>3, <3>2
  <2> QED  BY <2>2, <2>3
<1>3. on /\ IsService(w, c.name) /\ w[r].broken => "Delivers" \in Except(c, w)
  BY <1>1, ServiceFamily DEF ServiceExcept
<1>4. Last(r) # Staged
  BY DEF Srv, Last
<1>5. n = Put(w, r := v) /\ on \in BOOLEAN
  OBVIOUS
<1>6. CASE ~IsService(w, c.name)
  <2>1. Nothing = Handler(c, w) /\ Goal(c, w, w)
    BY <1>2, <1>6, StartStopIs
  <2>2. Spares(c, w, w)
    BY <1>1, ServiceSpared
  <2> QED  BY <1>1, <2>1, <2>2, NothingIs, SoundIdle
<1>7. CASE IsService(w, c.name) /\ Tool(w, Loader) = "none"
  <2>1. Throw = Handler(c, w)
    BY <1>2, <1>7, StartStopIs
  <2> QED  BY <1>1, <2>1, NothingIs, SoundIdle
<1>8. CASE IsService(w, c.name) /\ Tool(w, Loader) # "none"
  <2>1. /\ w[r].started \in BOOLEAN
        /\ v.started = on /\ v # Absent /\ v.broken = w[r].broken /\ (v = w[r] <=> w[r].started = on)
    <3>1. v = Switched(w[r], on)
      BY DEF Switched
    <3> HIDE DEF v, on
    <3> QED  BY <1>8, <3>1, ServiceIs
  <2>2. StateOf(w, r) = w[r]
    BY <1>8 DEF IsService, StateOf
  <2> HIDE DEF on, v, n
  <2>3. IsService(n, c.name) /\ n[r] = v /\ Tool(n, Loader) # "none" /\ \A x \in DOMAIN w \ {r} : n[x] = w[x]
    BY <1>5, <1>8, <2>1, SrvSet
  <2>4. Spares(c, w, w) /\ Spares(c, w, n) /\ Spares(c, n, n)
    BY <1>1, <2>3, ServiceSpared
  <2>5. n[r].started = on /\ n[r].started \in BOOLEAN
    BY <1>5, <2>1, <2>3
  <2>6. Nothing = Handler(c, n) /\ Goal(c, w, n)
    BY <1>2, <1>5, <2>3, <2>5, StartStopIs
  <2>7. CASE w[r].started = on
    <3>1. Nothing = Handler(c, w) /\ Goal(c, w, w)
      BY <1>2, <1>5, <1>8, <2>1, <2>7, StartStopIs
    <3> QED  BY <1>1, <2>4, <3>1, NothingIs, SoundIdle
  <2>8. CASE w[r].started # on
    <3>1. Handler(c, w) = IF on THEN When(~w[r].broken, Run(r := v)) ELSE Run(r := v)
      BY <1>2, <1>5, <1>8, <2>1, <2>8, StartStopIs DEF v
    <3> HIDE DEF r
    <3>2. \/ Nothing = Handler(c, w) /\ "Delivers" \in Except(c, w)
          \/ Run(r := v) = Handler(c, w) /\ StateOf(w, r) # v
      BY <1>3, <1>8, <2>1, <2>2, <2>8, <3>1 DEF When
    <3> QED  BY <1>1, <1>4, <1>5, <2>4, <2>6, <3>2, SoundStep
  <2> QED  BY <2>7, <2>8
<1> QED  BY <1>6, <1>7, <1>8

-----------------------------------------------------------------------------
(***************************************************************************)
(* Actions that write twice.                                               *)
(***************************************************************************)

LEMMA BothAre ==
  ASSUME NEW e, NEW V, IsEffect(e), e.do = <<V>>, ~e.fails, NEW f, IsEffect(f), NEW g, g = e \bullet f
  PROVE  /\ IsEffect(g) /\ g.fails = f.fails /\ g.status = (e.status \/ f.status)
         /\ f.do = << >> => g.do = <<V>>
         /\ \A W : f.do = <<W>> => g.do = <<V, W>>
<1> DEFINE S == Range(f.do) \cup {V}
           d == f.do
<1>1. g = [do |-> <<V>> \o d, status |-> e.status \/ f.status, fails |-> f.fails]
  BY DEF \bullet
<1>2. d \in Seq(S) /\ f.status \in BOOLEAN /\ f.fails \in BOOLEAN /\ e.status \in BOOLEAN
  <2>1. d \in Seq(Range(f.do)) /\ f.status \in BOOLEAN /\ f.fails \in BOOLEAN /\ e.status \in BOOLEAN
    BY EffectType
  <2> DEFINE R == Range(f.do)
  <2>2. S = R \cup {V} /\ d \in Seq(R)
    BY <2>1
  <2> HIDE DEF R, S, d
  <2> QED  BY <2>1, <2>2
<1> HIDE DEF d
<1>3. <<V>> \o d \in Seq(S)
  <2> DEFINE T == S
  <2>1. V \in T /\ d \in Seq(T)
    BY <1>2
  <2> HIDE DEF T, S
  <2>2. <<V>> \o d \in Seq(T)
    BY <2>1
  <2> QED  BY <2>2 DEF T
<1> HIDE DEF S
<1>4. g \in [do : Seq(S), status : BOOLEAN, fails : BOOLEAN]
  BY <1>1, <1>2, <1>3
<1>5. IsEffect(g)
  BY <1>4, EffectIs
<1>6. d = << >> => g.do = <<V>>
  BY <1>1
<1>7. ASSUME NEW W, d = <<W>> PROVE g.do = <<V, W>>
  <2>1. <<V>> \o <<W>> = <<V, W>>
    <3> DEFINE T == {V, W}
               s == <<V>>
               u == <<W>>
    <3>1. /\ s \in Seq(T) /\ u \in Seq(T) /\ Len(s) = 1 /\ Len(u) = 1 /\ s[1] = V /\ u[1] = W
      OBVIOUS
    <3> DEFINE d2 == <<V, W>>
    <3>2. d2 \in Seq(T) /\ Len(d2) = 2 /\ d2[1] = V /\ d2[2] = W
      OBVIOUS
    <3> HIDE DEF T, s, u, d2
    <3>3. /\ s \o u \in Seq(T) /\ Len(s \o u) = Len(s) + Len(u)
          /\ \A i \in 1..Len(s) + Len(u) : (s \o u)[i] = IF i <= Len(s) THEN s[i] ELSE u[i - Len(s)]
      BY <3>1, ConcatProperties
    <3>4. Len(s \o u) = 2 /\ (s \o u)[1] = V /\ (s \o u)[2] = W
      BY <3>1, <3>3
    <3>5. s \o u = d2
      <4>1. \A i \in 1..Len(s \o u) : (s \o u)[i] = d2[i]
        BY <3>2, <3>4
      <4> QED  BY <3>2, <3>3, <3>4, <4>1, SeqEqual
    <3> QED  BY <3>5 DEF s, u, d2
  <2> QED  BY <1>1, <1>7, <2>1
<1> QED  BY <1>1, <1>5, <1>6, <1>7 DEF d

\* What it writes before it fails is written once.
LEMMA SoundFail ==
  ASSUME NEW c, c.kind \notin Assertions, NEW w, IsMachine(w), NEW W, NEW n, n = Put(w, W),
         NEW e, e = Handler(c, w), IsEffect(e), e.do = <<W>>, e.fails,
         NEW f, f = Handler(c, n), IsEffect(f), f.do = << >> \/ f.do = <<W>>, f.fails
  PROVE  Sound(c, w)
<1>1. IsMachine(n)
  BY DEF Put, ++, IsMachine
<1>2. Cuts(w, e) = {w, n} /\ After(w, e) = n
  BY CutsOne
<1>3. Cuts(n, f) = {n} /\ After(n, f) = n
  <2>1. CASE f.do = << >>
    BY <1>1, <2>1, CutsNone
  <2>2. CASE f.do = <<W>>
    <3>1. Put(n, W) = n
      BY PutTwice
    <3>2. Cuts(n, f) = {n, Put(n, W)} /\ After(n, f) = Put(n, W)
      BY <1>1, <2>2, CutsOne
    <3> QED  BY <3>1, <3>2
  <2> QED  BY <2>1, <2>2
<1>4. e.fails \in BOOLEAN /\ f.fails \in BOOLEAN
  BY EffectType
<1>5. Resumes(c, w)
  BY <1>2, <1>3, <1>4 DEF Resumes, Final
<1> QED  BY <1>5 DEF Sound, Tells, Gets, Keeps

\* Once the first write is done the second is left, or both are done again.
LEMMA SoundTwo ==
  ASSUME NEW c, NEW w, IsMachine(w),
         NEW V, NEW m, m = Put(w, V), NEW W, NEW n, n = Put(m, W),
         NEW e, e = Handler(c, w), IsEffect(e), e.do = <<V, W>>, ~e.fails,
         NEW f, f = Handler(c, m), IsEffect(f), f.do = <<W>> \/ f.do = <<V, W>>, ~f.fails,
         NEW g, g = Handler(c, n), IsEffect(g), ~g.fails,
         g.do = << >> \/ (g.do = <<V, W>> /\ Put(n, V) = m),
         "StatusTells" \notin Except(c, w) =>
           /\ e.status <=> ~SameMachine(n, w)
           /\ f.status <=> ~SameMachine(n, m)
           /\ ~g.status,
         Goal(c, w, n) \/ {"Delivers", "Converges"} \subseteq Except(c, w),
         "LeavesTheRest" \notin Except(c, w) => Spares(c, w, n) /\ Spares(c, n, n)
  PROVE  Sound(c, w)
<1>1. IsMachine(m) /\ IsMachine(n)
  BY DEF Put, ++, IsMachine
<1>2. Cuts(w, e) = {w, m, n} /\ After(w, e) = n
  BY CutsTwo
<1>3. Put(m, V) = m
  BY PutTwice
<1>4. Cuts(m, f) = {m, n} /\ After(m, f) = n
  <2>1. CASE f.do = <<W>>
    BY <1>1, <2>1, CutsOne
  <2>2. CASE f.do = <<V, W>>
    <3>1. Cuts(m, f) = {m, Put(m, V), Put(Put(m, V), W)} /\ After(m, f) = Put(Put(m, V), W)
      BY <1>1, <2>2, CutsTwo
    <3> QED  BY <1>3, <3>1
  <2> QED  BY <2>1, <2>2
<1>5. Cuts(n, g) \subseteq {m, n} /\ After(n, g) = n
  <2>1. CASE g.do = << >>
    <3>1. Cuts(n, g) = {n} /\ After(n, g) = n
      BY <1>1, <2>1, CutsNone
    <3> QED  BY <3>1
  <2>2. CASE g.do = <<V, W>> /\ Put(n, V) = m
    <3>1. Cuts(n, g) = {n, Put(n, V), Put(Put(n, V), W)} /\ After(n, g) = Put(Put(n, V), W)
      BY <1>1, <2>2, CutsTwo
    <3> QED  BY <2>2, <3>1
  <2> QED  BY <2>1, <2>2
<1>6. /\ e.fails \in BOOLEAN /\ f.fails \in BOOLEAN /\ g.fails \in BOOLEAN
      /\ e.status \in BOOLEAN /\ f.status \in BOOLEAN /\ g.status \in BOOLEAN
  BY EffectType
<1>7. SameMachine(n, n)
  BY DEF SameMachine
<1>8. Resumes(c, w)
  <2>1. Final(c, w) = n /\ Final(c, m) = n /\ Final(c, n) = n
    BY <1>2, <1>4, <1>5 DEF Final
  <2>2. ASSUME NEW x \in {w, m, n}
        PROVE  /\ IsEffect(Handler(c, x)) /\ Handler(c, x).fails = e.fails
               /\ Cuts(x, Handler(c, x)) \subseteq {w, m, n} /\ Final(c, x) = n
    BY <1>2, <1>4, <1>5, <1>6, <2>1, <2>2
  <2> QED  BY <1>2, <2>1, <2>2 DEF Resumes
<1>9. Tells(c, w)
  BY <1>2, <1>6, <1>7 DEF Tells, Final
<1>10. Gets(c, w)
  BY <1>2 DEF Gets, Final
<1>11. Keeps(c, w)
  BY <1>2 DEF Keeps, Final
<1> QED  BY <1>8, <1>9, <1>10, <1>11 DEF Sound

LEMMA PutOver ==
  ASSUME NEW w, NEW V, NEW W, DOMAIN W = DOMAIN V, NEW m, m = Put(w, V), NEW n, n = Put(m, W)
  PROVE  Put(n, V) = m
<1>1. m = [x \in DOMAIN V \cup DOMAIN w |-> IF x \in DOMAIN V THEN V[x] ELSE w[x]]
  BY DEF Put, ++
<1>2. n = [x \in DOMAIN V \cup DOMAIN w |-> IF x \in DOMAIN V THEN W[x] ELSE w[x]]
  <2>1. n = [x \in DOMAIN W \cup DOMAIN m |-> IF x \in DOMAIN W THEN W[x] ELSE m[x]]
    BY DEF Put, ++
  <2> QED  BY <1>1, <2>1
<1>3. Put(n, V) = [x \in DOMAIN V \cup DOMAIN n |-> IF x \in DOMAIN V THEN V[x] ELSE n[x]]
  BY DEF Put, ++
<1> QED  BY <1>1, <1>2, <1>3

LEMMA ServiceRestartSound ==
  ASSUME NEW c, c \in ServiceNameConfig, c.kind = "service.restart", NEW w, IsMachine(w), HasServices(w)
  PROVE  Sound(c, w)
<1> DEFINE r == Srv(c.name)
           a == [w[r] EXCEPT !.started = FALSE]
           b == [a EXCEPT !.started = TRUE]
           V == r := a
           W == r := b
           m == Put(w, V)
           n == Put(m, W)
<1>1. c.kind \in ServiceKinds /\ c.kind \notin Assertions
  BY DEF ServiceKinds, Assertions, AssertKinds
<1>2. \A x : Handler(c, x) = ServiceRestart(x, c.name) /\ (Goal(c, w, x) <=> Started(x, c.name))
  <2>1. \A x : Handler(c, x) = ServiceHandler(c, x) /\ Goal(c, w, x) = ServiceGoal(c, w, x)
    BY <1>1, ServiceFamily
  <2> QED  BY <2>1 DEF ServiceHandler, ServiceGoal
<1>3. "StatusTells" \in Except(c, w)
  BY <1>1, ServiceFamily DEF ServiceExcept
<1>4. CASE Tool(w, Loader) = "none" \/ ~IsService(w, c.name)
  <2>1. Throw = Handler(c, w)
    BY <1>2, <1>4 DEF ServiceRestart
  <2> QED  BY <1>1, <2>1, NothingIs, SoundIdle
<1>5. CASE ~(Tool(w, Loader) = "none" \/ ~IsService(w, c.name))
  <2> DEFINE off(x) == [x[r] EXCEPT !.started = FALSE]
             up(s) == [s EXCEPT !.started = TRUE]
  <2>0. \A x : Tool(x, Loader) # "none" /\ IsService(x, c.name) =>
          ServiceRestart(x, c.name) =
            Run(r := off(x)) \bullet
              IF off(x).broken THEN Throw ELSE Run(r := up(off(x)))
    BY DEF ServiceRestart
  <2>1. /\ a # Absent /\ a.broken = w[r].broken
        /\ [a EXCEPT !.started = FALSE] = a
        /\ b.started = TRUE /\ b # Absent
        /\ [b EXCEPT !.started = FALSE] = a
    <3> DEFINE no == FALSE
               yes == TRUE
               z == w[r]
    <3>1. a = Switched(z, no) /\ b = Switched(a, yes)
      BY DEF Switched
    <3> HIDE DEF a, b, z
    <3> HIDE DEF no, yes
    <3>2. /\ a # Absent /\ a.broken = z.broken /\ \A again : Switched(a, again) = Switched(z, again)
      BY <1>5, <3>1, ServiceIs DEF z
    <3>3. b = Switched(z, yes)
      BY <3>1, <3>2
    <3>4. b.started = yes /\ b # Absent /\ \A again : Switched(b, again) = Switched(z, again)
      BY <1>5, <3>3, ServiceIs DEF z
    <3>5. Switched(a, no) = a /\ Switched(b, no) = a
      BY <3>1, <3>2, <3>4
    <3>6. [a EXCEPT !.started = FALSE] = a /\ [b EXCEPT !.started = FALSE] = a
      BY <3>5 DEF Switched, no
    <3> QED  BY <3>2, <3>4, <3>6 DEF z, yes
  <2> HIDE DEF a, b
  <2>3. IsService(m, c.name) /\ m[r] = a /\ Tool(m, Loader) # "none" /\ \A x \in DOMAIN w \ {r} : m[x] = w[x]
    BY <1>5, <2>1, SrvSet
  <2>4. IsService(n, c.name) /\ n[r] = b /\ Tool(n, Loader) # "none" /\ \A x \in DOMAIN m \ {r} : n[x] = m[x]
    BY <2>1, <2>3, SrvSet
  <2>5. off(w) = a /\ off(m) = a /\ off(n) = a
    BY <2>1, <2>3, <2>4 DEF a
  <2>6. \A x \in {w, m, n} : Handler(c, x) = Run(V) \bullet IF a.broken THEN Throw ELSE Run(W)
    <3>1. b = up(a)
      BY DEF b
    <3> HIDE DEF off, up
    <3>2. \A x : Tool(x, Loader) # "none" /\ IsService(x, c.name) /\ off(x) = a =>
            Handler(c, x) = Run(V) \bullet IF a.broken THEN Throw ELSE Run(W)
      BY <1>2, <2>0, <3>1
    <3> QED  BY <1>5, <2>3, <2>4, <2>5, <3>2
  <2>7. DOMAIN V = {r} /\ DOMAIN W = {r} /\ DOMAIN m = DOMAIN w \cup {r}
    BY DEF :=, Put, ++
  <2>8. Put(n, V) = m
    <3>1. DOMAIN W = DOMAIN V /\ m = Put(w, V) /\ n = Put(m, W)
      BY <2>7
    <3> HIDE DEF V, W, m, n
    <3> QED  BY <3>1, PutOver
  <2>9. Spares(c, w, n) /\ Spares(c, n, n)
    <3>1. \A x \in DOMAIN w \ {Srv(c.name)} : n[x] = w[x]
      BY <2>3, <2>4, <2>7
    <3> HIDE DEF r, n
    <3> QED  BY <1>1, <3>1, ServiceSpared
  <2>10. m = Put(w, V) /\ n = Put(m, W)
    OBVIOUS
  <2>11. Goal(c, w, n)
    BY <1>2, <2>1, <2>4 DEF Started
  <2> HIDE DEF V, W, m, n
  <2> DEFINE e == Handler(c, w)
             f == Handler(c, m)
             g == Handler(c, n)
  <2>12. CASE a.broken
    <3>1. e = Run(V) \bullet Throw /\ f = e
      BY <2>6, <2>12
    <3>2. IsEffect(e) /\ e.do = <<V>> /\ e.fails
      BY <3>1, RunIs, NothingIs, BothAre
    <3> QED  BY <1>1, <2>10, <3>1, <3>2, SoundFail
  <2>13. CASE ~a.broken
    <3>1. e = Run(V) \bullet Run(W) /\ f = e /\ g = e
      BY <2>6, <2>13
    <3>2. IsEffect(e) /\ e.do = <<V, W>> /\ ~e.fails
      BY <3>1, RunIs, BothAre
    <3> HIDE DEF e, f, g
    <3>3. e = Handler(c, w) /\ f = Handler(c, m) /\ g = Handler(c, n)
      BY DEF e, f, g
    <3> QED  BY <1>3, <2>8, <2>9, <2>10, <2>11, <3>1, <3>2, <3>3, SoundTwo
  <2> QED  BY <2>12, <2>13
<1> QED  BY <1>4, <1>5

-----------------------------------------------------------------------------
(***************************************************************************)
(* Directories.                                                            *)
(***************************************************************************)

LEMMA IpaLookSound ==
  ASSUME NEW c, c.kind \in IpaLookKinds, NEW w, IsMachine(w)
  PROVE  Sound(c, w)
<1>1. c.kind \in DirectoryKinds /\ c.kind \notin Assertions
  BY DEF DirectoryKinds, IpaKinds, IpaLookKinds, IpaServiceKinds, IpaUserKinds, IpaGroupKinds, Assertions, AssertKinds
<1>2. Handler(c, w) = DirectoryHandler(c, w) /\ Goal(c, w, w) = DirectoryGoal(c, w, w)
      /\ Except(c, w) = DirectoryExcept(c, w) /\ Spares(c, w, w) = DirectorySpares(c, w, w)
  BY <1>1, DirectoryFamily
<1>3. \A r : /\ IpaShow(w, r) \in {Look, Throw}
             /\ \E b \in BOOLEAN : IpaExists(w, r) = Returns(Nothing, b)
  BY DEF IpaShow, IpaExists, There
<1>4. DirectoryHandler(c, w) \in {Look, Throw} \/ \E b \in BOOLEAN : DirectoryHandler(c, w) = Returns(Nothing, b)
  <2>1. CASE c.kind = "ipa.service.exists"
    BY <1>3, <2>1 DEF DirectoryHandler, IpaServiceExists
  <2>2. CASE c.kind = "ipa.service.show"
    BY <1>3, <2>2 DEF DirectoryHandler, IpaServiceShow
  <2>3. CASE c.kind = "ipa.user.exists"
    BY <1>3, <2>3 DEF DirectoryHandler, IpaUserExists
  <2>4. CASE c.kind = "ipa.user.find"
    BY <2>4 DEF DirectoryHandler, IpaUserFind
  <2>5. CASE c.kind = "ipa.user.show"
    BY <1>3, <2>5 DEF DirectoryHandler, IpaUserShow
  <2>6. CASE c.kind = "ipa.user.status"
    BY <1>3, <2>6 DEF DirectoryHandler, IpaUserStatus
  <2>7. CASE c.kind = "ipa.group.exists"
    BY <1>3, <2>7 DEF DirectoryHandler, IpaGroupExists
  <2>8. CASE c.kind = "ipa.group.show"
    BY <1>3, <2>8 DEF DirectoryHandler, IpaGroupShow
  <2> QED  BY <2>1, <2>2, <2>3, <2>4, <2>5, <2>6, <2>7, <2>8 DEF IpaLookKinds
<1>5. DirectoryGoal(c, w, w)
  BY DEF DirectoryGoal, LdapLookKinds, IpaLookKinds
<1>6. DirectoryExcept(c, w) = {"StatusTells"}
  BY DEF DirectoryExcept, IpaLookKinds
<1>7. DirectorySpares(c, w, w)
  BY DEF DirectorySpares, StateOf, IpaLookKinds
<1>8. IsEffect(DirectoryHandler(c, w)) /\ DirectoryHandler(c, w).do = << >>
  BY <1>4, NothingIs, LooksAre
<1> QED  BY <1>1, <1>2, <1>5, <1>6, <1>7, <1>8, SoundLook

\* What an action does to the entry it names leaves the others.
LEMMA IpaSpared ==
  ASSUME NEW c, c.kind \in IpaServiceKinds \cup IpaUserKinds \cup IpaGroupKinds, "name" \in DOMAIN c,
         NEW w, NEW r, r[1] = "ipa", r[3] = c.name, NEW v, NEW n, n = Put(w, r := v)
  PROVE  Spares(c, w, w) /\ Spares(c, w, n) /\ Spares(c, n, n)
<1>1. c.kind \in DirectoryKinds /\ c.kind \notin {"ldap.acl", "ldap.index"}
  BY DEF DirectoryKinds, IpaKinds, IpaServiceKinds, IpaUserKinds, IpaGroupKinds
<1>2. \A u, m : Spares(c, u, m) = DirectorySpares(c, u, m)
  BY <1>1, DirectoryFamily
<1>3. \A x : x # r => StateOf(n, x) = StateOf(w, x)
  BY StateSet
<1>4. DirectorySpares(c, w, w) /\ DirectorySpares(c, n, n)
  BY <1>1 DEF DirectorySpares, StateOf
<1>5. DirectorySpares(c, w, n)
  BY <1>1, <1>3 DEF DirectorySpares, StateOf, Target
<1> QED  BY <1>2, <1>4, <1>5

IpaDelKinds == {"ipa.group.del", "ipa.user.del", "ipa.service.del"}

\* The branches of what acts on an entry that is named.
LEMMA IpaIs ==
  ASSUME NEW c, NEW w, NEW m
  PROVE  /\ c.kind = "ipa.group.del" =>
              /\ DirectoryHandler(c, m) = IpaDel(m, Ipa("group", c.name))
              /\ DirectoryGoal(c, w, m) <=> ~There(m, Ipa("group", c.name))
         /\ c.kind = "ipa.user.del" =>
              /\ DirectoryHandler(c, m) = IpaDel(m, Ipa("user", c.name))
              /\ DirectoryGoal(c, w, m) <=> ~There(m, Ipa("user", c.name))
         /\ c.kind = "ipa.service.del" =>
              /\ DirectoryHandler(c, m) = IpaDel(m, Ipa("service", c.name))
              /\ DirectoryGoal(c, w, m) <=> ~There(m, Ipa("service", c.name))
         /\ c.kind = "ipa.service" =>
              /\ DirectoryHandler(c, m) = When(~There(m, Ipa("service", c.name)), Run(Ipa("service", c.name) := IpaEntry(<< >>, FALSE)))
              /\ DirectoryGoal(c, w, m) <=> There(m, Ipa("service", c.name))
         /\ c.kind \in IpaDelKinds =>
              DirectoryExcept(c, w) = IF \E x \in DOMAIN w : Target(c, x) /\ w[x] # Absent /\ w[x].kept
                                      THEN {"Delivers", "StatusTells"} ELSE {}
<1>1. ASSUME c.kind = "ipa.group.del"
      PROVE  /\ DirectoryHandler(c, m) = IpaDel(m, Ipa("group", c.name))
             /\ DirectoryGoal(c, w, m) <=> ~There(m, Ipa("group", c.name))
  <2>1. DirectoryHandler(c, m) = IpaGroupDel(m, c)
    BY <1>1 DEF DirectoryHandler
  <2>2. DirectoryGoal(c, w, m) <=> ~There(m, Ipa("group", c.name))
    BY <1>1 DEF DirectoryGoal, LdapLookKinds, IpaLookKinds
  <2> QED  BY <2>1, <2>2 DEF IpaGroupDel
<1>2. ASSUME c.kind = "ipa.user.del"
      PROVE  /\ DirectoryHandler(c, m) = IpaDel(m, Ipa("user", c.name))
             /\ DirectoryGoal(c, w, m) <=> ~There(m, Ipa("user", c.name))
  <2>1. DirectoryHandler(c, m) = IpaUserDel(m, c)
    BY <1>2 DEF DirectoryHandler
  <2>2. DirectoryGoal(c, w, m) <=> ~There(m, Ipa("user", c.name))
    BY <1>2 DEF DirectoryGoal, LdapLookKinds, IpaLookKinds
  <2> QED  BY <2>1, <2>2 DEF IpaUserDel
<1>3. ASSUME c.kind = "ipa.service.del"
      PROVE  /\ DirectoryHandler(c, m) = IpaDel(m, Ipa("service", c.name))
             /\ DirectoryGoal(c, w, m) <=> ~There(m, Ipa("service", c.name))
  <2>1. DirectoryHandler(c, m) = IpaServiceDel(m, c)
    BY <1>3 DEF DirectoryHandler
  <2>2. DirectoryGoal(c, w, m) <=> ~There(m, Ipa("service", c.name))
    BY <1>3 DEF DirectoryGoal, LdapLookKinds, IpaLookKinds
  <2> QED  BY <2>1, <2>2 DEF IpaServiceDel
<1>4. ASSUME c.kind = "ipa.service"
      PROVE  /\ DirectoryHandler(c, m) = When(~There(m, Ipa("service", c.name)), Run(Ipa("service", c.name) := IpaEntry(<< >>, FALSE)))
             /\ DirectoryGoal(c, w, m) <=> There(m, Ipa("service", c.name))
  <2>1. DirectoryHandler(c, m) = IpaService(m, c)
    BY <1>4 DEF DirectoryHandler
  <2>2. DirectoryGoal(c, w, m) <=> There(m, Ipa("service", c.name))
    BY <1>4 DEF DirectoryGoal, LdapLookKinds, IpaLookKinds
  <2> QED  BY <2>1, <2>2 DEF IpaService
<1>5. ASSUME c.kind \in IpaDelKinds
      PROVE  DirectoryExcept(c, w) = IF \E x \in DOMAIN w : Target(c, x) /\ w[x] # Absent /\ w[x].kept
                                     THEN {"Delivers", "StatusTells"} ELSE {}
  BY <1>5 DEF DirectoryExcept, IpaLookKinds, IpaDelKinds
<1> QED  BY <1>1, <1>2, <1>3, <1>4, <1>5

LEMMA IpaDelSound ==
  ASSUME NEW c, c \in IpaNameConfig, c.kind \in IpaDelKinds, c.name # Staged, NEW w, IsMachine(w)
  PROVE  Sound(c, w)
<1> DEFINE r == Ipa(IF c.kind = "ipa.group.del" THEN "group"
                    ELSE IF c.kind = "ipa.user.del" THEN "user" ELSE "service", c.name)
           v == Absent
           n == Put(w, r := v)
<1>1. "name" \in DOMAIN c /\ c.kind \in IpaServiceKinds \cup IpaUserKinds \cup IpaGroupKinds
      /\ c.kind \in DirectoryKinds /\ c.kind \notin Assertions
  BY DEF IpaNameConfig, IpaDelKinds, DirectoryKinds, IpaKinds, IpaServiceKinds, IpaUserKinds, IpaGroupKinds,
         Assertions, AssertKinds
<1>2. \A m : Handler(c, m) = IpaDel(m, r) /\ (Goal(c, w, m) <=> ~There(m, r))
  <2>1. \A m : Handler(c, m) = DirectoryHandler(c, m) /\ Goal(c, w, m) = DirectoryGoal(c, w, m)
    BY <1>1, DirectoryFamily
  <2>2. CASE c.kind = "ipa.group.del"
    BY <2>1, <2>2, IpaIs
  <2>3. CASE c.kind = "ipa.user.del"
    BY <2>1, <2>3, IpaIs
  <2>4. CASE c.kind = "ipa.service.del"
    BY <2>1, <2>4, IpaIs
  <2> QED  BY <2>2, <2>3, <2>4 DEF IpaDelKinds
<1>3. Last(r) # Staged /\ r[1] = "ipa" /\ r[3] = c.name
  BY DEF Ipa, Last
<1>4. n = Put(w, r := v) /\ \A m : There(m, r) <=> StateOf(m, r) # v
  BY DEF There
<1> HIDE DEF n, r, v
<1>5. Spares(c, w, w) /\ Spares(c, w, n) /\ Spares(c, n, n)
  BY <1>1, <1>3, <1>4, IpaSpared
<1>6. Nothing = Handler(c, n) /\ Goal(c, w, n)
  <2>1. StateOf(n, r) = v
    BY <1>4, StateSet
  <2> QED  BY <1>2, <1>4, <2>1 DEF IpaDel, When
<1>7. CASE ~There(w, r)
  <2>1. Nothing = Handler(c, w) /\ Goal(c, w, w)
    BY <1>2, <1>7 DEF IpaDel, When
  <2> QED  BY <1>1, <1>3, <1>4, <1>5, <2>1, SoundStep
<1>8. CASE There(w, r) /\ w[r].kept
  <2>1. Returns(Nothing, TRUE) = Handler(c, w)
    BY <1>2, <1>8 DEF IpaDel, When
  <2>2. r \in DOMAIN w /\ w[r] # Absent
    BY <1>8 DEF There, StateOf
  <2>3. Target(c, r)
    BY <1>1, <1>3 DEF Target
  <2>4. {"Delivers", "StatusTells"} \subseteq Except(c, w)
    BY <1>1, <1>8, <2>2, <2>3, DirectoryFamily, IpaIs
  <2>5. IsEffect(Handler(c, w)) /\ Handler(c, w).do = << >>
    BY <2>1, LooksAre
  <2> QED  BY <1>1, <1>5, <2>4, <2>5, SoundLook
<1>9. CASE There(w, r) /\ ~w[r].kept
  <2> DEFINE W == r := v
             e == Handler(c, w)
  <2>1. e = Returns(Run(W), TRUE)
    BY <1>2, <1>9 DEF IpaDel, When, v
  <2>2. IsEffect(e) /\ e.do = <<W>> /\ e.status /\ ~e.fails
    BY <2>1, RunIs, ReturnsIs
  <2>3. StateOf(w, r) # v
    BY <1>4, <1>9
  <2> HIDE DEF e
  <2>4. e = Handler(c, w)
    BY DEF e
  <2> QED  BY <1>1, <1>3, <1>4, <1>5, <1>6, <2>2, <2>3, <2>4, NothingIs, SoundSet
<1> QED  BY <1>7, <1>8, <1>9

LEMMA IpaServiceSound ==
  ASSUME NEW c, c \in IpaNameConfig, c.kind = "ipa.service", c.name # Staged, NEW w, IsMachine(w)
  PROVE  Sound(c, w)
<1> DEFINE r == Ipa("service", c.name)
           v == IpaEntry(<< >>, FALSE)
           n == Put(w, r := v)
<1>1. "name" \in DOMAIN c /\ c.kind \in IpaServiceKinds \cup IpaUserKinds \cup IpaGroupKinds
      /\ c.kind \in DirectoryKinds /\ c.kind \notin Assertions
  BY DEF IpaNameConfig, DirectoryKinds, IpaKinds, IpaServiceKinds, IpaUserKinds, IpaGroupKinds,
         Assertions, AssertKinds
<1>2. \A m : Handler(c, m) = When(~There(m, r), Run(r := v)) /\ (Goal(c, w, m) <=> There(m, r))
  <2>1. \A m : Handler(c, m) = DirectoryHandler(c, m) /\ Goal(c, w, m) = DirectoryGoal(c, w, m)
    BY <1>1, DirectoryFamily
  <2> QED  BY <2>1, IpaIs
<1>3. Last(r) # Staged /\ r[1] = "ipa" /\ r[3] = c.name
  BY DEF Ipa, Last
<1>4. n = Put(w, r := v) /\ v # Absent
  BY DEF IpaEntry, Absent
<1> HIDE DEF n, r, v
<1>5. Spares(c, w, w) /\ Spares(c, w, n) /\ Spares(c, n, n)
  BY <1>1, <1>3, <1>4, IpaSpared
<1>6. Nothing = Handler(c, n) /\ Goal(c, w, n)
  <2>1. StateOf(n, r) = v
    BY <1>4, StateSet
  <2> QED  BY <1>2, <1>4, <2>1 DEF There, When
<1>7. \/ Nothing = Handler(c, w) /\ Goal(c, w, w)
      \/ Run(r := v) = Handler(c, w) /\ StateOf(w, r) # v
  BY <1>2, <1>4 DEF There, When
<1> QED  BY <1>1, <1>3, <1>4, <1>5, <1>6, <1>7, SoundStep

\* An entry of the server, whatever it holds.
IsIpaEntry(x) ==
  x = [type |-> "ipa", attrs |-> x.attrs, locked |-> x.locked, members |-> x.members, kept |-> x.kept]
    /\ x.locked \in BOOLEAN

LEMMA IpaLockSound ==
  ASSUME NEW c, c \in IpaNameConfig, c.kind \in {"ipa.user.disable", "ipa.user.enable"}, c.name # Staged,
         NEW w, IsMachine(w), There(w, Ipa("user", c.name)) => IsIpaEntry(w[Ipa("user", c.name)])
  PROVE  Sound(c, w)
<1> DEFINE r == Ipa("user", c.name)
           locked == c.kind = "ipa.user.disable"
           b == w[r]
           v == [b EXCEPT !.locked = locked]
           n == Put(w, r := v)
<1>1. "name" \in DOMAIN c /\ c.kind \in IpaServiceKinds \cup IpaUserKinds \cup IpaGroupKinds
      /\ c.kind \in DirectoryKinds /\ c.kind \notin Assertions
  BY DEF IpaNameConfig, DirectoryKinds, IpaKinds, IpaServiceKinds, IpaUserKinds, IpaGroupKinds,
         Assertions, AssertKinds
<1>2. \A m : Handler(c, m) = IpaLock(m, c.name, locked) /\ (Goal(c, w, m) <=> (m[r].locked <=> locked))
  <2>1. \A m : Handler(c, m) = DirectoryHandler(c, m) /\ Goal(c, w, m) = DirectoryGoal(c, w, m)
    BY <1>1, DirectoryFamily
  <2>2. CASE c.kind = "ipa.user.disable"
    <3>1. \A m : DirectoryHandler(c, m) = IpaLock(m, c.name, TRUE) /\ DirectoryGoal(c, w, m) = m[r].locked
      BY <2>2 DEF DirectoryHandler, DirectoryGoal, IpaUserDisable
    <3> QED  BY <2>1, <2>2, <3>1
  <2>3. CASE c.kind = "ipa.user.enable"
    <3>1. \A m : DirectoryHandler(c, m) = IpaLock(m, c.name, FALSE) /\ DirectoryGoal(c, w, m) = ~m[r].locked
      BY <2>3 DEF DirectoryHandler, DirectoryGoal, IpaUserEnable
    <3> QED  BY <2>1, <2>3, <3>1
  <2> QED  BY <2>2, <2>3
<1>3. Last(r) # Staged /\ r[1] = "ipa" /\ r[3] = c.name
  BY DEF Ipa, Last
<1>4. n = Put(w, r := v) /\ locked \in BOOLEAN
  OBVIOUS
<1>5. Spares(c, w, w) /\ Spares(c, w, n) /\ Spares(c, n, n)
  <2> HIDE DEF n, r, v
  <2> QED  BY <1>1, <1>3, <1>4, IpaSpared
<1>6. \A m : /\ ~There(m, r) => IpaLock(m, c.name, locked) = Throw
             /\ There(m, r) /\ m[r].locked = locked => IpaLock(m, c.name, locked) = Nothing
             /\ There(m, r) /\ m[r].locked # locked =>
                  IpaLock(m, c.name, locked) = Run(r := [m[r] EXCEPT !.locked = locked])
  BY DEF IpaLock, When
<1>7. CASE ~There(w, r)
  <2>1. Throw = Handler(c, w)
    BY <1>2, <1>6, <1>7
  <2> QED  BY <1>1, <2>1, NothingIs, SoundIdle
<1>8. CASE There(w, r)
  <2>0. IsIpaEntry(b) /\ StateOf(w, r) = b
    BY <1>8 DEF There, StateOf
  <2> HIDE DEF b, locked
  <2>1. v.locked = locked /\ v.type = "ipa"
    BY <2>0 DEF IsIpaEntry
  <2>2. v # Absent
    BY <2>1 DEF Absent
  <2> HIDE DEF v
  <2>3. There(n, r) /\ n[r] = v
    <3> HIDE DEF r
    <3>1. StateOf(n, r) = v
      BY <1>4, StateSet
    <3>2. n[r] = v
      BY <1>4, ValueSet
    <3> QED  BY <2>2, <3>1, <3>2 DEF There
  <2>4. Nothing = Handler(c, n) /\ Goal(c, w, n)
    BY <1>2, <1>4, <1>6, <2>1, <2>3
  <2>5. CASE b.locked = locked
    <3>1. Nothing = Handler(c, w) /\ Goal(c, w, w)
      BY <1>2, <1>4, <1>6, <1>8, <2>5 DEF b
    <3> QED  BY <1>1, <1>5, <3>1, NothingIs, SoundIdle
  <2>6. CASE b.locked # locked
    <3>1. Run(r := v) = Handler(c, w)
      BY <1>2, <1>6, <1>8, <2>6 DEF b, v
    <3>2. StateOf(w, r) # v
      BY <2>0, <2>1, <2>6
    <3> HIDE DEF r, n
    <3>3. n = Put(w, r := v)
      BY <1>4
    <3> QED  BY <1>1, <1>3, <1>5, <2>4, <3>1, <3>2, <3>3, SoundStep
  <2> QED  BY <2>5, <2>6
<1> QED  BY <1>7, <1>8

-----------------------------------------------------------------------------
(***************************************************************************)
(* Assertions.                                                             *)
(***************************************************************************)

\* What throws when, and only when, what it asserts is not so.
LEMMA SoundAssert ==
  ASSUME NEW c, NEW w, IsMachine(w), NEW ok \in BOOLEAN, NEW e, e = Handler(c, w), IsEffect(e), e.do = << >>,
         e.fails <=> ~ok, "StatusTells" \in Except(c, w) \/ ~e.status,
         "Delivers" \notin Except(c, w) => (Goal(c, w, w) <=> ok), Spares(c, w, w)
  PROVE  Sound(c, w)
BY SoundIdle

\* One output: it is rejected, or what is told of its value is so.
LEMMA ValueIs ==
  ASSUME NEW v \in Returned, v # "-1", NEW strict \in BOOLEAN, NEW not \in BOOLEAN, ~(strict /\ not)
  PROVE  AssertValue(v, strict) = {~not} <=> (strict \/ v # "function") /\ ~(IsTrue(v, strict) = not)
<1> DEFINE yes == v = "true" \/ (~strict /\ v \in {"1", "'x'", "{k}"})
           no  == v = "false" \/ (~strict /\ v \in {"undefined", "null", "0", "-1", "''", "{}"})
<1>1. ~(yes /\ no)
  OBVIOUS
<1>2. AssertValue(v, strict) = IF yes THEN {TRUE} ELSE IF no THEN {FALSE} ELSE {}
  <2>1. CASE yes
    BY <1>1, <2>1 DEF AssertValue
  <2>2. CASE ~yes /\ no
    BY <1>1, <2>2 DEF AssertValue
  <2>3. CASE ~yes /\ ~no
    BY <1>1, <2>3 DEF AssertValue
  <2> QED  BY <2>1, <2>2, <2>3
<1>3. IsTrue(v, strict) \in BOOLEAN /\ (IsTrue(v, strict) <=> yes)
  <2>1. Cast(v) <=> v = "true" \/ v \in {"1", "'x'", "{k}"}
    BY DEF Cast
  <2>2. CASE strict
    <3>1. IsTrue(v, strict) = (v = "true")
      BY <2>2 DEF IsTrue
    <3> QED  BY <2>2, <3>1
  <2>3. CASE ~strict
    <3>1. IsTrue(v, strict) = Cast(v) /\ Cast(v) \in BOOLEAN
      BY <2>3 DEF IsTrue, Cast
    <3> QED  BY <2>1, <2>3, <3>1
  <2> QED  BY <2>2, <2>3
<1>4. ~strict => (v = "function" <=> ~yes /\ ~no)
  BY DEF Returned
<1>5. /\ {TRUE} = {~not} <=> ~not
      /\ {FALSE} = {~not} <=> not
      /\ {} # {~not}
  OBVIOUS
<1> HIDE DEF yes, no
<1>6. IsTrue(v, strict) = not <=> (yes <=> not)
  BY <1>3
<1> QED  BY <1>1, <1>2, <1>4, <1>5, <1>6

LEMMA AssertSound ==
  ASSUME NEW c, c \in AssertConfig, NEW w, IsMachine(w)
  PROVE  Sound(c, w)
<1> DEFINE ok == ~((~c.strict /\ "function" \in ToSet(c.output)) \/ \E v \in ToSet(c.output) : IsTrue(v, c.strict) = c.not)
           goal == \A v \in ToSet(c.output) : AssertValue(v, c.strict) = {~c.not}
<1>1. c.kind = "assert" /\ c.kind \in AssertKinds /\ c.strict \in BOOLEAN /\ c.not \in BOOLEAN
  BY DEF AssertConfig, AssertKinds
<1>2. /\ Handler(c, w) = AssertHandler(c, w) /\ Goal(c, w, w) = AssertGoal(c, w)
      /\ Except(c, w) = AssertExcept(c, w) /\ Spares(c, w, w)
  BY <1>1, AssertFamily
<1>3. AssertHandler(c, w) = IF ok THEN Nothing ELSE Throw
  <2>1. AssertHandler(c, w) = AssertOutput(c)
    BY <1>1 DEF AssertHandler
  <2>2. AssertOutput(c) = IF ~ok THEN Throw ELSE Nothing
    BY DEF AssertOutput
  <2> HIDE DEF ok
  <2> QED  BY <2>1, <2>2
<1>4. AssertGoal(c, w) <=> goal
  BY <1>1 DEF AssertGoal
<1>5. AssertExcept(c, w) = IF "-1" \in ToSet(c.output) \/ (c.strict /\ c.not) THEN {"Delivers"} ELSE {}
  BY <1>1 DEF AssertExcept
<1>6. "Delivers" \notin Except(c, w) => (goal <=> ok)
  <2> SUFFICES ASSUME "Delivers" \notin Except(c, w) PROVE goal <=> ok
    OBVIOUS
  <2>1. "-1" \notin ToSet(c.output) /\ ~(c.strict /\ c.not)
    BY <1>2, <1>5
  <2>2. ToSet(c.output) \subseteq Returned
    BY DEF AssertConfig, ToSet
  <2>3. \A v \in ToSet(c.output) :
          AssertValue(v, c.strict) = {~c.not} <=> (c.strict \/ v # "function") /\ ~(IsTrue(v, c.strict) = c.not)
    BY <1>1, <2>1, <2>2, ValueIs
  <2> QED  BY <2>3
<1> HIDE DEF ok, goal
<1>7. /\ IsEffect(Handler(c, w)) /\ Handler(c, w).do = << >> /\ ~Handler(c, w).status
      /\ Handler(c, w).fails <=> ~ok
  BY <1>2, <1>3, NothingIs
<1>8. ok \in BOOLEAN
  BY DEF ok
<1> QED  BY <1>2, <1>4, <1>6, <1>7, <1>8, SoundAssert

LEMMA TcpAssertSound ==
  ASSUME NEW c, c \in TcpAssertConfig, NEW w, IsMachine(w)
  PROVE  Sound(c, w)
<1> DEFINE ok == ~\E n \in c.server : There(w, Server(n)) = c.not
<1>1. c.kind = "network.tcp.assert" /\ c.kind \in NetworkKinds /\ c.not \in BOOLEAN
  BY DEF TcpAssertConfig, NetworkKinds
<1>2. /\ Handler(c, w) = NetworkHandler(c, w) /\ Goal(c, w, w) = NetworkGoal(c, w)
      /\ Except(c, w) = {"StatusTells"} /\ Spares(c, w, w)
  BY <1>1, NetworkFamily DEF NetworkExcept, NetworkSpares
<1>3. NetworkHandler(c, w) = IF ok THEN Returns(Nothing, TRUE) ELSE Throw
  <2>1. NetworkHandler(c, w) = TcpAssert(w, c)
    BY <1>1 DEF NetworkHandler
  <2>2. TcpAssert(w, c) = IF ~ok THEN Throw ELSE Returns(Nothing, TRUE)
    BY DEF TcpAssert
  <2> HIDE DEF ok
  <2> QED  BY <2>1, <2>2
<1>4. NetworkGoal(c, w) <=> ok
  <2>1. NetworkGoal(c, w) <=> \A n \in c.server : There(w, Server(n)) # c.not
    BY <1>1 DEF NetworkGoal
  <2> QED  BY <2>1
<1> DEFINE b == TRUE
<1>a. b \in BOOLEAN
  OBVIOUS
<1>b. NetworkHandler(c, w) = IF ok THEN Returns(Nothing, b) ELSE Throw
  BY <1>3
<1> HIDE DEF ok, b
<1>5. IsEffect(Handler(c, w)) /\ Handler(c, w).do = << >> /\ (Handler(c, w).fails <=> ~ok)
  BY <1>2, <1>a, <1>b, NothingIs, LooksAre
<1>6. ok \in BOOLEAN
  BY DEF ok
<1> QED  BY <1>2, <1>4, <1>5, <1>6, SoundAssert

-----------------------------------------------------------------------------
(***************************************************************************)
(* Instances, networks and volumes.                                        *)
(***************************************************************************)
InstanceOf(b) == [type |-> "instance", run |-> b.run, config |-> b.config, devices |-> b.devices, files |-> b.files,
                  users |-> b.users, openssl |-> b.openssl]

HasInstances(m) ==
  \A r \in DOMAIN m : r[1] = "instance" /\ m[r] # Absent =>
    m[r] = InstanceOf(m[r]) /\ m[r].run \in {"RUNNING", "STOPPED"}

LEMMA LxdLookSound ==
  ASSUME NEW c, c.kind \in LxdCloserKinds, NEW w, IsMachine(w)
  PROVE  Sound(c, w)
<1>1. c.kind \in LxdKinds /\ c.kind \notin Assertions
  BY DEF LxdKinds, LxdCloserKinds, LxdLookKinds, Assertions, AssertKinds
<1>2. Handler(c, w) = LxdHandler(c, w) /\ Goal(c, w, w) = LxdGoal(c, w, w) /\ Except(c, w) = LxdExcept(c, w)
      /\ Spares(c, w, w) = LxdSpares(c, w, w)
  BY <1>1, LxdFamily
<1>3. \/ c.kind \in {"lxc.config.device.exists", "lxc.file.exists"} /\ LxdHandler(c, w) \in {Nothing, Throw}
      \/ /\ c.kind \notin {"lxc.config.device.exists", "lxc.file.exists"}
         /\ LxdHandler(c, w) \in {Look, Throw} \/ \E b \in BOOLEAN : LxdHandler(c, w) = Returns(Nothing, b)
  <2>1. CASE c.kind = "lxc.running"
    <3>1. ListedAs(w, c.name, "RUNNING") \in BOOLEAN
      BY DEF ListedAs
    <3>2. LxdHandler(c, w) = LxcRunning(w, c.name)
      BY <2>1 DEF LxdHandler
    <3> QED  BY <2>1, <3>1, <3>2 DEF LxcRunning
  <2>2. CASE c.kind = "lxc.state"
    <3>1. LxdHandler(c, w) = LxcState(w, c.name)
      BY <2>2 DEF LxdHandler
    <3>2. There(w, Instance(c.name)) \in BOOLEAN
      BY DEF There
    <3> QED  BY <2>2, <3>1, <3>2 DEF LxcState
  <2>3. CASE c.kind = "lxc.query"
    <3>1. LxdHandler(c, w) = LxcQuery(w, c.name)
      BY <2>3 DEF LxdHandler
    <3>2. There(w, Instance(c.name)) \in BOOLEAN
      BY DEF There
    <3> QED  BY <2>3, <3>1, <3>2 DEF LxcQuery
  <2>4. CASE c.kind = "lxc.list"
    <3>1. LxdHandler(c, w) = LxcList(w, c.name)
      BY <2>4 DEF LxdHandler
    <3> QED  BY <2>4, <3>1 DEF LxcList
  <2>5. CASE c.kind = "lxc.resources"
    <3>1. LxdHandler(c, w) = LxcResources(w, c.name)
      BY <2>5 DEF LxdHandler
    <3> QED  BY <2>5, <3>1 DEF LxcResources
  <2>6. CASE c.kind = "lxc.goodies.prlimit"
    <3>1. LxdHandler(c, w) = LxcPrlimit(w, c.name)
      BY <2>6 DEF LxdHandler
    <3> QED  BY <2>6, <3>1 DEF LxcPrlimit
  <2>7. CASE c.kind = "lxc.exec"
    <3>1. LxdHandler(c, w) = LxcExec(w, c.name)
      BY <2>7 DEF LxdHandler
    <3> QED  BY <2>7, <3>1 DEF LxcExec
  <2>8. CASE c.kind = "lxc.wait.ready"
    <3>1. LxdHandler(c, w) = LxcReady(w, c.name)
      BY <2>8 DEF LxdHandler
    <3> QED  BY <2>8, <3>1 DEF LxcReady
  <2>9. CASE c.kind = "lxc.config.device.show"
    <3>1. LxdHandler(c, w) = LxcDeviceShow(w, c)
      BY <2>9 DEF LxdHandler
    <3> QED  BY <2>9, <3>1 DEF LxcDeviceShow
  <2>10. CASE c.kind = "lxc.config.device.exists"
    <3>1. LxdHandler(c, w) = LxcDeviceExists(w, c)
      BY <2>10 DEF LxdHandler
    <3> QED  BY <2>10, <3>1 DEF LxcDeviceExists
  <2>11. CASE c.kind = "lxc.network.list"
    <3>1. LxdHandler(c, w) = LxcNetworkList(w, c)
      BY <2>11 DEF LxdHandler
    <3> QED  BY <2>11, <3>1 DEF LxcNetworkList
  <2>12. CASE c.kind = "lxc.storage.volume.list"
    <3>1. LxdHandler(c, w) = LxcVolumeList(w, c)
      BY <2>12 DEF LxdHandler
    <3>2. There(w, Pool(c.pool)) \in BOOLEAN
      BY DEF There
    <3> QED  BY <2>12, <3>1, <3>2 DEF LxcVolumeList
  <2>13. CASE c.kind = "lxc.storage.volume.get"
    <3>1. LxdHandler(c, w) = LxcVolumeGet(w, c)
      BY <2>13 DEF LxdHandler
    <3>2. There(w, LxdVolume(c.pool, c.volume)) \in BOOLEAN
      BY DEF There
    <3> QED  BY <2>13, <3>1, <3>2 DEF LxcVolumeGet
  <2>14. CASE c.kind = "lxc.file.exists"
    <3>1. LxdHandler(c, w) = LxcFileExists(w, c)
      BY <2>14 DEF LxdHandler
    <3> QED  BY <2>14, <3>1 DEF LxcFileExists
  <2> QED  BY <2>1, <2>2, <2>3, <2>4, <2>5, <2>6, <2>7, <2>8, <2>9, <2>10, <2>11, <2>12, <2>13, <2>14
           DEF LxdCloserKinds, LxdLookKinds
<1>4. LxdGoal(c, w, w)
  BY DEF LxdGoal, LxdCloserKinds, LxdLookKinds
<1>5. c.kind \notin {"lxc.config.device.exists", "lxc.file.exists"} => LxdExcept(c, w) = {"StatusTells"}
  BY DEF LxdExcept, LxdCloserKinds, LxdLookKinds
<1>6. LxdSpares(c, w, w)
  BY DEF LxdSpares, StateOf
<1>7. /\ IsEffect(LxdHandler(c, w)) /\ LxdHandler(c, w).do = << >>
      /\ c.kind \in {"lxc.config.device.exists", "lxc.file.exists"} => ~LxdHandler(c, w).status
  BY <1>3, NothingIs, LooksAre
<1> QED  BY <1>1, <1>2, <1>4, <1>5, <1>6, <1>7, SoundLook

\* What an action does to what it names leaves the rest.
LEMMA LxdSpared ==
  ASSUME NEW c, c.kind \in LxdKinds, NEW w, NEW r,
         \/ "name" \in DOMAIN c /\ r = Instance(c.name)
         \/ "network" \in DOMAIN c /\ r = Network(c.network)
         \/ "pool" \in DOMAIN c /\ r[2] = c.pool,
         NEW v, NEW n, n = Put(w, r := v)
  PROVE  Spares(c, w, w) /\ Spares(c, w, n) /\ Spares(c, n, n)
<1>1. \A u, m : Spares(c, u, m) = LxdSpares(c, u, m)
  BY LxdFamily
<1>2. \A x : x # r => StateOf(n, x) = StateOf(w, x)
  BY StateSet
<1>3. LxdSpares(c, w, w) /\ LxdSpares(c, n, n)
  BY DEF LxdSpares, StateOf
<1>4. LxdSpares(c, w, n)
  BY <1>2 DEF LxdSpares, StateOf
<1> QED  BY <1>1, <1>3, <1>4

\* The instance that an action names, before and after its state is changed.
LEMMA InstanceIs ==
  ASSUME NEW w, HasInstances(w), NEW name, There(w, Instance(name)), NEW run,
         NEW v, v = [w[Instance(name)] EXCEPT !["run"] = run], NEW n, n = Put(w, Instance(name) := v)
  PROVE  /\ InstanceState(w, name) \in {"RUNNING", "STOPPED"} /\ InstanceState(n, name) = run
         /\ StateOf(w, Instance(name)) = v <=> InstanceState(w, name) = run
<1> DEFINE r == Instance(name)
           b == w[r]
<1>1. r \in DOMAIN w /\ r[1] = "instance" /\ b # Absent
  BY DEF There, StateOf, Instance
<1>2. b = InstanceOf(b) /\ b.run \in {"RUNNING", "STOPPED"}
  BY <1>1 DEF HasInstances
<1>3. InstanceState(w, name) = b.run /\ StateOf(w, r) = b
  BY <1>1 DEF InstanceState, StateOf
<1>4. v = [b EXCEPT !["run"] = run]
  OBVIOUS
<1>5. StateOf(n, r) = v /\ n[r] = v
  <2> HIDE DEF r, b
  <2>1. n = Put(w, r := v)
    BY DEF r
  <2> QED  BY <2>1, StateSet, ValueSet
<1> HIDE DEF b, r
<1>6. v = [type |-> "instance", run |-> run, config |-> b.config, devices |-> b.devices, files |-> b.files,
                  users |-> b.users, openssl |-> b.openssl]
  BY <1>2, <1>4 DEF InstanceOf
<1>7. v.run = run /\ (v = b <=> b.run = run) /\ v # Absent
  BY <1>2, <1>6 DEF InstanceOf, Absent
<1> QED  BY <1>2, <1>3, <1>5, <1>7 DEF InstanceState, There, r

\* An instance that is so is listed so; what is listed so is it or a namesake.
LEMMA ListedIs ==
  ASSUME NEW m, NEW name, NEW run, run # "none"
  PROVE  /\ InstanceState(m, name) = run => ListedAs(m, name, run)
         /\ ListedAs(m, name, run) => InstanceState(m, name) = run \/ LxdNamesake(m, name)
<1>1. ASSUME InstanceState(m, name) = run PROVE ListedAs(m, name, run)
  <2>1. Instance(name) \in {q \in DOMAIN m : q[1] = "instance" /\ m[q] # Absent} /\ Instance(name)[2] = name
    BY <1>1 DEF InstanceState, There, StateOf, Instance
  <2>2. name \in InstancesOf(m)
    BY <2>1 DEF InstancesOf
  <2> QED  BY <1>1, <2>2 DEF ListedAs, GrepName
<1> QED  BY <1>1 DEF ListedAs, LxdNamesake

LEMMA LxdNameIs ==
  ASSUME NEW c, NEW w, NEW m
  PROVE  /\ c.kind = "lxc.start" => /\ LxdHandler(c, m) = LxcStart(m, c.name)
                                    /\ LxdGoal(c, w, m) <=> InstanceState(m, c.name) = "RUNNING"
         /\ c.kind = "lxc.stop" => /\ LxdHandler(c, m) = LxcStop(m, c)
                                   /\ LxdGoal(c, w, m) <=> InstanceState(m, c.name) = "STOPPED"
         /\ c.kind \in {"lxc.start", "lxc.stop"} /\ LxdNamesake(w, c.name) => "Delivers" \in LxdExcept(c, w)
         /\ c.kind = "lxc.delete" => /\ LxdHandler(c, m) = LxcDelete(m, c)
                                     /\ LxdGoal(c, w, m) <=> ~There(m, Instance(c.name))
<1>1. ASSUME c.kind = "lxc.start"
      PROVE  LxdHandler(c, m) = LxcStart(m, c.name) /\ (LxdGoal(c, w, m) <=> InstanceState(m, c.name) = "RUNNING")
  <2>1. LxdHandler(c, m) = LxcStart(m, c.name)
    BY <1>1 DEF LxdHandler
  <2>2. LxdGoal(c, w, m) <=> InstanceState(m, c.name) = "RUNNING"
    BY <1>1 DEF LxdGoal, LxdCloserKinds, LxdLookKinds
  <2> QED  BY <2>1, <2>2
<1>2. ASSUME c.kind = "lxc.stop"
      PROVE  LxdHandler(c, m) = LxcStop(m, c) /\ (LxdGoal(c, w, m) <=> InstanceState(m, c.name) = "STOPPED")
  <2>1. LxdHandler(c, m) = LxcStop(m, c)
    BY <1>2 DEF LxdHandler
  <2>2. LxdGoal(c, w, m) <=> InstanceState(m, c.name) = "STOPPED"
    BY <1>2 DEF LxdGoal, LxdCloserKinds, LxdLookKinds
  <2> QED  BY <2>1, <2>2
<1>3. ASSUME c.kind = "lxc.delete"
      PROVE  LxdHandler(c, m) = LxcDelete(m, c) /\ (LxdGoal(c, w, m) <=> ~There(m, Instance(c.name)))
  <2>1. LxdHandler(c, m) = LxcDelete(m, c)
    BY <1>3 DEF LxdHandler
  <2>2. LxdGoal(c, w, m) <=> ~There(m, Instance(c.name))
    BY <1>3 DEF LxdGoal, LxdCloserKinds, LxdLookKinds
  <2> QED  BY <2>1, <2>2
<1>4. ASSUME c.kind \in {"lxc.start", "lxc.stop"}, LxdNamesake(w, c.name) PROVE "Delivers" \in LxdExcept(c, w)
  <2>1. LxdExcept(c, w) = IF LxdNamesake(w, c.name) THEN {"Delivers"} ELSE {}
    BY <1>4 DEF LxdExcept, LxdCloserKinds, LxdLookKinds
  <2> QED  BY <1>4, <2>1
<1> QED  BY <1>1, <1>2, <1>3, <1>4

\* It starts one that does not run.
LEMMA LxcStartSound ==
  ASSUME NEW c, c \in LxcNameConfig, c.kind = "lxc.start", c.name # Staged, NEW w, IsMachine(w), HasInstances(w)
  PROVE  Sound(c, w)
<1> DEFINE r == Instance(c.name)
           run == "RUNNING"
           v == [w[r] EXCEPT !["run"] = run]
           n == Put(w, r := v)
<1>1. "name" \in DOMAIN c /\ c.kind \in LxdKinds /\ c.kind \notin Assertions
  BY DEF LxcNameConfig, LxdKinds, Assertions, AssertKinds
<1>2. /\ \A m : Handler(c, m) = LxcStart(m, c.name) /\ (Goal(c, w, m) <=> InstanceState(m, c.name) = run)
      /\ LxdNamesake(w, c.name) => "Delivers" \in Except(c, w)
  BY <1>1, LxdFamily, LxdNameIs
<1>3. Last(r) # Staged
  BY DEF Instance, Last
<1>4. n = Put(w, r := v)
  OBVIOUS
<1>5. There(w, r) => InstanceState(n, c.name) = run /\ (StateOf(w, r) = v <=> InstanceState(w, c.name) = run)
  <2> HIDE DEF run
  <2> QED  BY InstanceIs
<1>6. \A m : /\ ListedAs(m, c.name, run) => LxcStart(m, c.name) = Nothing
             /\ ~ListedAs(m, c.name, run) =>
                  LxcStart(m, c.name) = IF There(m, r) THEN Change(m, c.name, "run", run) ELSE Throw
  BY DEF LxcStart
<1>7. Change(w, c.name, "run", run) = Run(r := v)
  BY DEF Change
<1>8. run # "none"
  OBVIOUS
<1> HIDE DEF n
<1>9. Spares(c, w, w) /\ Spares(c, w, n) /\ Spares(c, n, n)
  <2>1. r = Instance(c.name)
    OBVIOUS
  <2> HIDE DEF v, r
  <2> QED  BY <1>1, <1>4, <2>1, LxdSpared
<1> HIDE DEF v, r, run
<1>10. CASE ListedAs(w, c.name, run)
  <2>1. Nothing = Handler(c, w) /\ (Goal(c, w, w) \/ "Delivers" \in Except(c, w))
    BY <1>2, <1>6, <1>8, <1>10, ListedIs
  <2> QED  BY <1>1, <1>3, <1>4, <1>9, <2>1, SoundStep
<1>11. CASE ~ListedAs(w, c.name, run) /\ ~There(w, r)
  <2>1. Throw = Handler(c, w)
    BY <1>2, <1>6, <1>11
  <2> QED  BY <1>1, <1>3, <1>4, <2>1, SoundStep
<1>12. CASE ~ListedAs(w, c.name, run) /\ There(w, r)
  <2>1. Run(r := v) = Handler(c, w) /\ StateOf(w, r) # v /\ InstanceState(n, c.name) = run
    BY <1>2, <1>5, <1>6, <1>7, <1>8, <1>12, ListedIs
  <2>2. Nothing = Handler(c, n) /\ Goal(c, w, n)
    BY <1>2, <1>6, <1>8, <2>1, ListedIs
  <2> QED  BY <1>1, <1>3, <1>4, <1>9, <2>1, <2>2, SoundStep
<1> QED  BY <1>10, <1>11, <1>12

LEMMA LxcStopSound ==
  ASSUME NEW c, c \in LxcStopConfig, c.name # Staged, NEW w, IsMachine(w), HasInstances(w)
  PROVE  Sound(c, w)
<1> DEFINE r == Instance(c.name)
           run == "STOPPED"
           v == [w[r] EXCEPT !["run"] = run]
           n == Put(w, r := v)
<1>1. "name" \in DOMAIN c /\ c.kind = "lxc.stop" /\ c.kind \in LxdKinds /\ c.kind \notin Assertions
  BY DEF LxcStopConfig, LxdKinds, Assertions, AssertKinds
<1>2. /\ \A m : Handler(c, m) = LxcStop(m, c) /\ (Goal(c, w, m) <=> InstanceState(m, c.name) = run)
      /\ LxdNamesake(w, c.name) => "Delivers" \in Except(c, w)
  BY <1>1, LxdFamily, LxdNameIs
<1>3. Last(r) # Staged
  BY DEF Instance, Last
<1>4. n = Put(w, r := v)
  OBVIOUS
<1>5. There(w, r) => InstanceState(n, c.name) = run /\ (StateOf(w, r) = v <=> InstanceState(w, c.name) = run)
  <2> HIDE DEF run
  <2> QED  BY InstanceIs
<1>6. \A m : /\ ListedAs(m, c.name, run) => LxcStop(m, c) = Nothing
             /\ ~ListedAs(m, c.name, run) =>
                  LxcStop(m, c) = IF InstanceState(m, c.name) = "RUNNING" THEN Change(m, c.name, "run", run) ELSE Throw
  BY DEF LxcStop
<1>7. Change(w, c.name, "run", run) = Run(r := v)
  BY DEF Change
<1>8. run # "none" /\ run # "RUNNING"
  OBVIOUS
<1>a. InstanceState(w, c.name) = "RUNNING" => There(w, r)
  BY DEF InstanceState
<1> HIDE DEF n
<1>9. Spares(c, w, w) /\ Spares(c, w, n) /\ Spares(c, n, n)
  <2>1. r = Instance(c.name)
    OBVIOUS
  <2> HIDE DEF v, r
  <2> QED  BY <1>1, <1>4, <2>1, LxdSpared
<1> HIDE DEF v, r, run
<1>10. CASE ListedAs(w, c.name, run)
  <2>1. Nothing = Handler(c, w) /\ (Goal(c, w, w) \/ "Delivers" \in Except(c, w))
    BY <1>2, <1>6, <1>8, <1>10, ListedIs
  <2> QED  BY <1>1, <1>3, <1>4, <1>9, <2>1, SoundStep
<1>11. CASE ~ListedAs(w, c.name, run) /\ InstanceState(w, c.name) # "RUNNING"
  <2>1. Throw = Handler(c, w)
    BY <1>2, <1>6, <1>11
  <2> QED  BY <1>1, <1>3, <1>4, <2>1, SoundStep
<1>12. CASE ~ListedAs(w, c.name, run) /\ InstanceState(w, c.name) = "RUNNING"
  <2>1. Run(r := v) = Handler(c, w) /\ StateOf(w, r) # v /\ InstanceState(n, c.name) = run
    BY <1>2, <1>5, <1>6, <1>7, <1>8, <1>a, <1>12
  <2>2. Nothing = Handler(c, n) /\ Goal(c, w, n)
    BY <1>2, <1>6, <1>8, <2>1, ListedIs
  <2> QED  BY <1>1, <1>3, <1>4, <1>9, <2>1, <2>2, SoundStep
<1> QED  BY <1>10, <1>11, <1>12

LEMMA LxcDeleteSound ==
  ASSUME NEW c, c \in LxcDeleteConfig, c.name # Staged, NEW w, IsMachine(w)
  PROVE  Sound(c, w)
<1> DEFINE r == Instance(c.name)
           v == Absent
           n == Put(w, r := v)
<1>1. "name" \in DOMAIN c /\ c.kind = "lxc.delete" /\ c.kind \in LxdKinds /\ c.kind \notin Assertions
  BY DEF LxcDeleteConfig, LxdKinds, Assertions, AssertKinds
<1>2. \A m : Handler(c, m) = LxcDelete(m, c) /\ (Goal(c, w, m) <=> ~There(m, r))
  BY <1>1, LxdFamily, LxdNameIs
<1>3. Last(r) # Staged /\ r = Instance(c.name)
  BY DEF Instance, Last
<1>4. n = Put(w, r := v)
  OBVIOUS
<1>5. \A m : /\ ~There(m, r) => LxcDelete(m, c) = Nothing
             /\ There(m, r) => LxcDelete(m, c) \in {Throw, Run(r := v)}
  <2> TAKE m
  <2>1. ASSUME ~There(m, r) PROVE LxcDelete(m, c) = Nothing
    BY <2>1 DEF LxcDelete
  <2>2. ASSUME There(m, r), InstanceState(m, c.name) = "RUNNING", ~c.force PROVE LxcDelete(m, c) = Throw
    BY <2>2 DEF LxcDelete
  <2>3. ASSUME There(m, r), InstanceState(m, c.name) = "RUNNING" => c.force PROVE LxcDelete(m, c) = Run(r := v)
    BY <2>3 DEF LxcDelete
  <2> QED  BY <2>1, <2>2, <2>3
<1>6. v = Absent
  OBVIOUS
<1> HIDE DEF n, v, r
<1>7. Spares(c, w, w) /\ Spares(c, w, n) /\ Spares(c, n, n)
  BY <1>1, <1>3, <1>4, LxdSpared
<1>8. ~There(n, r)
  BY <1>4, <1>6, StateSet DEF There
<1>9. There(w, r) => StateOf(w, r) # v
  BY <1>6 DEF There
<1>10. CASE ~There(w, r)
  <2>1. Nothing = Handler(c, w) /\ Goal(c, w, w)
    BY <1>2, <1>5, <1>10
  <2> QED  BY <1>1, <1>3, <1>4, <1>7, <2>1, SoundStep
<1>11. CASE There(w, r) /\ Handler(c, w) = Throw
  <2>1. Throw = Handler(c, w)
    BY <1>11
  <2> QED  BY <1>1, <1>3, <1>4, <2>1, SoundStep
<1>12. CASE There(w, r) /\ Handler(c, w) = Run(r := v)
  <2>1. Run(r := v) = Handler(c, w) /\ Nothing = Handler(c, n) /\ Goal(c, w, n)
    BY <1>2, <1>5, <1>8, <1>12
  <2> QED  BY <1>1, <1>3, <1>4, <1>7, <1>9, <1>12, <2>1, SoundStep
<1> QED  BY <1>2, <1>5, <1>10, <1>11, <1>12

LEMMA LxdOtherIs ==
  ASSUME NEW c, NEW w, NEW m
  PROVE  /\ c.kind = "lxc.network.delete" =>
              /\ LxdHandler(c, m) = LxcNetworkDelete(m, c)
              /\ LxdGoal(c, w, m) <=> ~There(m, Network(c.network))
              /\ LxcNetworkUsed(w, c.network) => "Delivers" \in LxdExcept(c, w)
         /\ c.kind = "lxc.storage.volume.delete" =>
              /\ LxdHandler(c, m) = LxcVolumeDelete(m, c)
              /\ LxdGoal(c, w, m) <=> ~There(m, LxdVolume(c.pool, c.volume))
              /\ VolumeUsed(w, c) => "Delivers" \in LxdExcept(c, w)
         /\ c.kind = "lxc.storage.volume" =>
              /\ LxdHandler(c, m) = LxcVolume(m, c)
              /\ LxdGoal(c, w, m) <=> StateOf(m, LxdVolume(c.pool, c.volume)) = VolumeOf(c.content)
              /\ ~There(w, Pool(c.pool)) \/ There(w, LxdVolume(c.pool, c.volume)) => "Delivers" \in LxdExcept(c, w)
<1>1. ASSUME c.kind = "lxc.network.delete"
      PROVE  /\ LxdHandler(c, m) = LxcNetworkDelete(m, c)
             /\ LxdGoal(c, w, m) <=> ~There(m, Network(c.network))
             /\ LxcNetworkUsed(w, c.network) => "Delivers" \in LxdExcept(c, w)
  <2>1. LxdHandler(c, m) = LxcNetworkDelete(m, c)
    BY <1>1 DEF LxdHandler
  <2>2. LxdGoal(c, w, m) <=> ~There(m, Network(c.network))
    BY <1>1 DEF LxdGoal, LxdCloserKinds, LxdLookKinds
  <2>3. LxdExcept(c, w) = IF LxcNetworkUsed(w, c.network) THEN {"Delivers"} ELSE {}
    BY <1>1 DEF LxdExcept, LxdCloserKinds, LxdLookKinds
  <2> QED  BY <2>1, <2>2, <2>3
<1>2. ASSUME c.kind = "lxc.storage.volume.delete"
      PROVE  /\ LxdHandler(c, m) = LxcVolumeDelete(m, c)
             /\ LxdGoal(c, w, m) <=> ~There(m, LxdVolume(c.pool, c.volume))
             /\ VolumeUsed(w, c) => "Delivers" \in LxdExcept(c, w)
  <2>1. LxdHandler(c, m) = LxcVolumeDelete(m, c)
    BY <1>2 DEF LxdHandler
  <2>2. LxdGoal(c, w, m) <=> ~There(m, LxdVolume(c.pool, c.volume))
    BY <1>2 DEF LxdGoal, LxdCloserKinds, LxdLookKinds
  <2>3. LxdExcept(c, w) = IF VolumeUsed(w, c) THEN {"Delivers"} ELSE {}
    BY <1>2 DEF LxdExcept, LxdCloserKinds, LxdLookKinds
  <2> QED  BY <2>1, <2>2, <2>3
<1>3. ASSUME c.kind = "lxc.storage.volume"
      PROVE  /\ LxdHandler(c, m) = LxcVolume(m, c)
             /\ LxdGoal(c, w, m) <=> StateOf(m, LxdVolume(c.pool, c.volume)) = VolumeOf(c.content)
             /\ ~There(w, Pool(c.pool)) \/ There(w, LxdVolume(c.pool, c.volume)) => "Delivers" \in LxdExcept(c, w)
  <2>1. LxdHandler(c, m) = LxcVolume(m, c)
    BY <1>3 DEF LxdHandler
  <2>2. LxdGoal(c, w, m) <=> StateOf(m, LxdVolume(c.pool, c.volume)) = VolumeOf(c.content)
    BY <1>3 DEF LxdGoal, LxdCloserKinds, LxdLookKinds
  <2>3. LxdExcept(c, w) = IF ~There(w, Pool(c.pool)) \/ There(w, LxdVolume(c.pool, c.volume)) THEN {"Delivers"} ELSE {}
    BY <1>3 DEF LxdExcept, LxdCloserKinds, LxdLookKinds
  <2> QED  BY <2>1, <2>2, <2>3
<1> QED  BY <1>1, <1>2, <1>3

\* A network, or a volume, that is used is left where it is.
LEMMA LxdUnusedSound ==
  ASSUME NEW c, c.kind \in LxdKinds, c.kind \notin Assertions, NEW w, IsMachine(w), NEW r, Last(r) # Staged,
         NEW used, used => "Delivers" \in Except(c, w),
         Handler(c, w) = When(There(w, r) /\ ~used, Run(r := Absent)),
         \A m : (~There(m, r) => Handler(c, m) = Nothing) /\ (Goal(c, w, m) <=> ~There(m, r)),
         \/ "network" \in DOMAIN c /\ r = Network(c.network)
         \/ "pool" \in DOMAIN c /\ r[2] = c.pool
  PROVE  Sound(c, w)
<1> DEFINE v == Absent
           n == Put(w, r := v)
<1>1. n = Put(w, r := v) /\ v = Absent
  OBVIOUS
<1> HIDE DEF n, v
<1>2. Spares(c, w, w) /\ Spares(c, w, n) /\ Spares(c, n, n)
  BY <1>1, LxdSpared
<1>3. ~There(n, r)
  BY <1>1, StateSet DEF There
<1>4. There(w, r) => StateOf(w, r) # v
  BY <1>1 DEF There
<1>5. CASE ~There(w, r) \/ used
  <2>1. Nothing = Handler(c, w) /\ (Goal(c, w, w) \/ "Delivers" \in Except(c, w))
    BY <1>5 DEF When
  <2> QED  BY <1>1, <1>2, <2>1, SoundStep
<1>6. CASE There(w, r) /\ ~used
  <2>1. Run(r := v) = Handler(c, w) /\ Nothing = Handler(c, n) /\ Goal(c, w, n)
    BY <1>1, <1>3, <1>6 DEF When
  <2> QED  BY <1>1, <1>2, <1>4, <1>6, <2>1, SoundStep
<1> QED  BY <1>5, <1>6

LEMMA LxcNetworkDeleteSound ==
  ASSUME NEW c, c \in LxcNetworkNameConfig, c.kind = "lxc.network.delete", c.network # Staged, NEW w, IsMachine(w)
  PROVE  Sound(c, w)
<1> DEFINE r == Network(c.network)
           used == LxcNetworkUsed(w, c.network)
<1>1. "network" \in DOMAIN c /\ c.kind \in LxdKinds /\ c.kind \notin Assertions
  BY DEF LxcNetworkNameConfig, LxdKinds, Assertions, AssertKinds
<1>2. /\ used => "Delivers" \in Except(c, w)
      /\ \A m : Handler(c, m) = LxcNetworkDelete(m, c) /\ (Goal(c, w, m) <=> ~There(m, r))
  BY <1>1, LxdFamily, LxdOtherIs
<1>3. Last(r) # Staged /\ r = Network(c.network)
  BY DEF Network, Last
<1>4. /\ Handler(c, w) = When(There(w, r) /\ ~used, Run(r := Absent))
      /\ \A m : ~There(m, r) => Handler(c, m) = Nothing
  BY <1>2 DEF LxcNetworkDelete, When
<1> HIDE DEF r, used
<1> QED  BY <1>1, <1>2, <1>3, <1>4, LxdUnusedSound

LEMMA LxcVolumeDeleteSound ==
  ASSUME NEW c, c \in LxcVolumeNameConfig, c.kind = "lxc.storage.volume.delete", c.volume # Staged,
         NEW w, IsMachine(w)
  PROVE  Sound(c, w)
<1> DEFINE r == LxdVolume(c.pool, c.volume)
           used == VolumeUsed(w, c)
<1>1. "pool" \in DOMAIN c /\ c.kind \in LxdKinds /\ c.kind \notin Assertions
  BY DEF LxcVolumeNameConfig, LxdKinds, Assertions, AssertKinds
<1>2. /\ used => "Delivers" \in Except(c, w)
      /\ \A m : Handler(c, m) = LxcVolumeDelete(m, c) /\ (Goal(c, w, m) <=> ~There(m, r))
  BY <1>1, LxdFamily, LxdOtherIs
<1>3. Last(r) # Staged /\ r[2] = c.pool
  BY DEF LxdVolume, Last
<1>4. /\ Handler(c, w) = When(There(w, r) /\ ~used, Run(r := Absent))
      /\ \A m : ~There(m, r) => Handler(c, m) = Nothing
  BY <1>2 DEF LxcVolumeDelete, When
<1> HIDE DEF r, used
<1> QED  BY <1>1, <1>2, <1>3, <1>4, LxdUnusedSound

LEMMA LxcVolumeSound ==
  ASSUME NEW c, c \in LxcVolumeConfig, c.volume # Staged, NEW w, IsMachine(w)
  PROVE  Sound(c, w)
<1> DEFINE r == LxdVolume(c.pool, c.volume)
           v == VolumeOf(c.content)
           n == Put(w, r := v)
<1>1. "pool" \in DOMAIN c /\ c.kind = "lxc.storage.volume" /\ c.kind \in LxdKinds /\ c.kind \notin Assertions
  BY DEF LxcVolumeConfig, LxdKinds, Assertions, AssertKinds
<1>2. /\ ~There(w, Pool(c.pool)) \/ There(w, r) => "Delivers" \in Except(c, w)
      /\ \A m : Handler(c, m) = LxcVolume(m, c) /\ (Goal(c, w, m) <=> StateOf(m, r) = v)
  BY <1>1, LxdFamily, LxdOtherIs
<1>3. \A m : LxcVolume(m, c) = When(There(m, Pool(c.pool)) /\ ~There(m, r), Run(r := v))
  BY DEF LxcVolume
<1>4. Last(r) # Staged /\ r[2] = c.pool
  BY DEF LxdVolume, Last
<1>5. n = Put(w, r := v)
  OBVIOUS
<1>6. v # Absent
  BY DEF VolumeOf, Absent
<1> HIDE DEF n, v, r
<1>7. Spares(c, w, w) /\ Spares(c, w, n) /\ Spares(c, n, n)
  BY <1>1, <1>4, <1>5, LxdSpared
<1>8. There(n, r) /\ StateOf(n, r) = v
  BY <1>5, <1>6, StateSet DEF There
<1>9. ~There(w, r) => StateOf(w, r) # v
  BY <1>6 DEF There
<1>10. CASE ~There(w, Pool(c.pool)) \/ There(w, r)
  <2>1. Nothing = Handler(c, w) /\ "Delivers" \in Except(c, w)
    BY <1>2, <1>3, <1>10 DEF When
  <2> QED  BY <1>1, <1>4, <1>5, <1>7, <2>1, SoundStep
<1>11. CASE There(w, Pool(c.pool)) /\ ~There(w, r)
  <2>1. Run(r := v) = Handler(c, w) /\ Nothing = Handler(c, n) /\ Goal(c, w, n)
    BY <1>2, <1>3, <1>8, <1>11 DEF When
  <2> QED  BY <1>1, <1>4, <1>5, <1>7, <1>9, <1>11, <2>1, SoundStep
<1> QED  BY <1>10, <1>11

\* The instance that an action names, before and after its devices are changed.
LEMMA DevicesIs ==
  ASSUME NEW w, HasInstances(w), NEW name, There(w, Instance(name)), NEW d,
         NEW v, v = [w[Instance(name)] EXCEPT !["devices"] = d], NEW n, n = Put(w, Instance(name) := v)
  PROVE  /\ There(n, Instance(name)) /\ DevicesOf(n, name) = d
         /\ StateOf(w, Instance(name)) = v => DevicesOf(w, name) = d
<1> DEFINE r == Instance(name)
           b == w[r]
<1>1. r \in DOMAIN w /\ r[1] = "instance" /\ b # Absent
  BY DEF There, StateOf, Instance
<1>2. b = InstanceOf(b)
  BY <1>1 DEF HasInstances
<1>3. DevicesOf(w, name) = b.devices /\ StateOf(w, r) = b
  BY <1>1 DEF DevicesOf, StateOf
<1>4. v = [b EXCEPT !["devices"] = d]
  OBVIOUS
<1>5. StateOf(n, r) = v /\ n[r] = v
  <2> HIDE DEF r, b
  <2>1. n = Put(w, r := v)
    BY DEF r
  <2> QED  BY <2>1, StateSet, ValueSet
<1> HIDE DEF b, r
<1>6. v = [type |-> "instance", run |-> b.run, config |-> b.config, devices |-> d, files |-> b.files,
                  users |-> b.users, openssl |-> b.openssl]
  BY <1>2, <1>4 DEF InstanceOf
<1>7. v.devices = d /\ v # Absent
  BY <1>6 DEF Absent
<1> QED  BY <1>3, <1>5, <1>7 DEF DevicesOf, There, r

LEMMA LxdDeviceIs ==
  ASSUME NEW c, NEW w, NEW m
  PROVE  /\ c.kind = "lxc.config.device.delete" =>
              /\ LxdHandler(c, m) = LxcDeviceDelete(m, c)
              /\ LxdGoal(c, w, m) <=> c.device \notin DOMAIN DevicesOf(m, c.name)
         /\ c.kind = "lxc.network.attach" =>
              /\ LxdHandler(c, m) = LxcNetworkAttach(m, c)
              /\ LxdGoal(c, w, m) <=> c.network \in DOMAIN DevicesOf(m, c.name)
              /\ LxdExcept(c, w) = IF There(w, Instance(c.name))
                                      /\ \E d \in DOMAIN DevicesOf(w, c.name) : d # c.network /\ GrepName(d, c.network)
                                   THEN {"Delivers"} ELSE {}
<1>1. ASSUME c.kind = "lxc.config.device.delete"
      PROVE  LxdHandler(c, m) = LxcDeviceDelete(m, c) /\ (LxdGoal(c, w, m) <=> c.device \notin DOMAIN DevicesOf(m, c.name))
  <2>1. LxdHandler(c, m) = LxcDeviceDelete(m, c)
    BY <1>1 DEF LxdHandler
  <2>2. LxdGoal(c, w, m) <=> c.device \notin DOMAIN DevicesOf(m, c.name)
    BY <1>1 DEF LxdGoal, LxdCloserKinds, LxdLookKinds
  <2> QED  BY <2>1, <2>2
<1>2. ASSUME c.kind = "lxc.network.attach"
      PROVE  /\ LxdHandler(c, m) = LxcNetworkAttach(m, c)
             /\ LxdGoal(c, w, m) <=> c.network \in DOMAIN DevicesOf(m, c.name)
             /\ LxdExcept(c, w) = IF There(w, Instance(c.name))
                                     /\ \E d \in DOMAIN DevicesOf(w, c.name) : d # c.network /\ GrepName(d, c.network)
                                  THEN {"Delivers"} ELSE {}
  <2>1. LxdHandler(c, m) = LxcNetworkAttach(m, c)
    BY <1>2 DEF LxdHandler
  <2>2. LxdGoal(c, w, m) <=> c.network \in DOMAIN DevicesOf(m, c.name)
    BY <1>2 DEF LxdGoal, LxdCloserKinds, LxdLookKinds
  <2>3. LxdExcept(c, w) = IF There(w, Instance(c.name))
                             /\ \E d \in DOMAIN DevicesOf(w, c.name) : d # c.network /\ GrepName(d, c.network)
                          THEN {"Delivers"} ELSE {}
    BY <1>2 DEF LxdExcept, LxdCloserKinds, LxdLookKinds
  <2> QED  BY <2>1, <2>2, <2>3
<1> QED  BY <1>1, <1>2

LEMMA LxcDeviceDeleteSound ==
  ASSUME NEW c, c \in LxcDeviceNameConfig, c.kind = "lxc.config.device.delete", c.name # Staged,
         NEW w, IsMachine(w), HasInstances(w)
  PROVE  Sound(c, w)
<1> DEFINE r == Instance(c.name)
           D == DevicesOf(w, c.name)
           d == [x \in DOMAIN D \ {c.device} |-> D[x]]
           v == [w[r] EXCEPT !["devices"] = d]
           n == Put(w, r := v)
           has(m) == c.device \in DOMAIN DevicesOf(m, c.name)
<1>1. "name" \in DOMAIN c /\ c.kind \in LxdKinds /\ c.kind \notin Assertions
  BY DEF LxcDeviceNameConfig, LxdKinds, Assertions, AssertKinds
<1>2. \A m : Handler(c, m) = LxcDeviceDelete(m, c) /\ (Goal(c, w, m) <=> ~has(m))
  BY <1>1, LxdFamily, LxdDeviceIs
<1>3. Last(r) # Staged /\ r = Instance(c.name)
  BY DEF Instance, Last
<1>4. n = Put(w, r := v)
  OBVIOUS
<1>5. \A m : /\ ~There(m, r) => LxcDeviceDelete(m, c) = Throw
             /\ There(m, r) => LxcDeviceDelete(m, c) = When(has(m), WithoutDevice(m, c.name, c.device))
  BY DEF LxcDeviceDelete
<1>6. WithoutDevice(w, c.name, c.device) = Run(r := v)
  BY DEF WithoutDevice, Change
<1>7. There(w, r) => There(n, r) /\ DevicesOf(n, c.name) = d /\ (StateOf(w, r) = v => D = d)
  <2> HIDE DEF d
  <2> QED  BY DevicesIs
<1>8. There(w, r) => ~has(n)
  BY <1>7
<1>9. There(w, r) /\ has(w) => StateOf(w, r) # v
  BY <1>7, <1>8
<1> HIDE DEF n, v, r, has
<1>10. Spares(c, w, w) /\ Spares(c, w, n) /\ Spares(c, n, n)
  BY <1>1, <1>3, <1>4, LxdSpared
<1>11. CASE ~There(w, r)
  <2>1. Throw = Handler(c, w)
    BY <1>2, <1>5, <1>11
  <2> QED  BY <1>1, <1>3, <1>4, <2>1, SoundStep
<1>12. CASE There(w, r) /\ ~has(w)
  <2>1. Nothing = Handler(c, w) /\ Goal(c, w, w)
    BY <1>2, <1>5, <1>12 DEF When
  <2> QED  BY <1>1, <1>3, <1>4, <1>10, <2>1, SoundStep
<1>13. CASE There(w, r) /\ has(w)
  <2>1. Run(r := v) = Handler(c, w)
    BY <1>2, <1>5, <1>6, <1>13 DEF When
  <2>2. Nothing = Handler(c, n) /\ Goal(c, w, n)
    BY <1>2, <1>5, <1>7, <1>8, <1>13 DEF When
  <2> QED  BY <1>1, <1>3, <1>4, <1>9, <1>10, <1>13, <2>1, <2>2, SoundStep
<1> QED  BY <1>11, <1>12, <1>13

\* Another device is taken for the one of the network.
LEMMA LxcNetworkAttachSound ==
  ASSUME NEW c, c \in LxcNicConfig, c.kind = "lxc.network.attach", c.name # Staged,
         NEW w, IsMachine(w), HasInstances(w)
  PROVE  Sound(c, w)
<1> DEFINE r == Instance(c.name)
           D == DevicesOf(w, c.name)
           d == D ++ (c.network := [type |-> "nic"])
           v == [w[r] EXCEPT !["devices"] = d]
           n == Put(w, r := v)
           has(m) == c.network \in DOMAIN DevicesOf(m, c.name)
<1>1. "name" \in DOMAIN c /\ c.kind \in LxdKinds /\ c.kind \notin Assertions
  BY DEF LxcNicConfig, LxdKinds, Assertions, AssertKinds
<1>2. /\ \A m : Handler(c, m) = LxcNetworkAttach(m, c) /\ (Goal(c, w, m) <=> has(m))
      /\ HasDevice(w, c) => has(w) \/ "Delivers" \in Except(c, w)
  <2>1. \A m : Handler(c, m) = LxcNetworkAttach(m, c) /\ (Goal(c, w, m) <=> has(m))
    BY <1>1, LxdFamily, LxdDeviceIs
  <2>2. Except(c, w) = IF There(w, r) /\ \E x \in DOMAIN D : x # c.network /\ GrepName(x, c.network)
                       THEN {"Delivers"} ELSE {}
    BY <1>1, LxdFamily, LxdDeviceIs
  <2> QED  BY <2>1, <2>2 DEF HasDevice
<1>3. Last(r) # Staged /\ r = Instance(c.name)
  BY DEF Instance, Last
<1>4. n = Put(w, r := v)
  OBVIOUS
<1>5. \A m : /\ HasDevice(m, c) => LxcNetworkAttach(m, c) = Nothing
             /\ ~HasDevice(m, c) => LxcNetworkAttach(m, c) =
                  IF There(m, r) /\ There(m, Network(c.network))
                  THEN Change(m, c.name, "devices", DevicesOf(m, c.name) ++ (c.network := [type |-> "nic"])) ELSE Throw
  BY DEF LxcNetworkAttach
<1>6. Change(w, c.name, "devices", d) = Run(r := v)
  BY DEF Change
<1>7. There(w, r) => There(n, r) /\ DevicesOf(n, c.name) = d /\ (StateOf(w, r) = v => D = d)
  <2> HIDE DEF d
  <2> QED  BY DevicesIs
<1>8. There(w, r) => has(n)
  <2>1. c.network \in DOMAIN d
    BY DEF ++, :=
  <2> QED  BY <1>7, <2>1
<1>9. There(w, r) /\ ~has(w) => StateOf(w, r) # v
  BY <1>7, <1>8
<1>a. \A m : There(m, r) /\ has(m) => HasDevice(m, c)
  BY DEF HasDevice, GrepName
<1>b. ~HasDevice(w, c) => LxcNetworkAttach(w, c) \in {Throw, Change(w, c.name, "devices", d)}
                          /\ (There(w, r) \/ LxcNetworkAttach(w, c) = Throw)
  BY <1>5
<1> HIDE DEF n, v, r, d, has
<1>10. Spares(c, w, w) /\ Spares(c, w, n) /\ Spares(c, n, n)
  BY <1>1, <1>3, <1>4, LxdSpared
<1>11. CASE HasDevice(w, c)
  <2>1. Nothing = Handler(c, w) /\ (Goal(c, w, w) \/ "Delivers" \in Except(c, w))
    BY <1>2, <1>5, <1>11
  <2> QED  BY <1>1, <1>3, <1>4, <1>10, <2>1, SoundStep
<1>12. CASE ~HasDevice(w, c) /\ Handler(c, w) = Throw
  <2>1. Throw = Handler(c, w)
    BY <1>12
  <2> QED  BY <1>1, <1>3, <1>4, <2>1, SoundStep
<1>13. CASE ~HasDevice(w, c) /\ Handler(c, w) # Throw
  <2>1. Run(r := v) = Handler(c, w) /\ There(w, r) /\ ~has(w)
    BY <1>2, <1>6, <1>a, <1>b, <1>13
  <2>2. Nothing = Handler(c, n) /\ Goal(c, w, n)
    BY <1>2, <1>5, <1>7, <1>8, <1>a, <2>1
  <2> QED  BY <1>1, <1>3, <1>4, <1>9, <1>10, <2>1, <2>2, SoundStep
<1> QED  BY <1>11, <1>12, <1>13

-----------------------------------------------------------------------------
(***************************************************************************)
(* A run of any length, which each cut leaves with the same writes to do.  *)
(***************************************************************************)

LEMMA AfterLast ==
  ASSUME NEW m, NEW f, IsEffect(f), NEW j \in 1..Len(f.do)
  PROVE  After(m, Upto(f, j)) = Put(After(m, Upto(f, j - 1)), f.do[j])
<1> DEFINE l == j - 1
<1>1. l \in 0..(Len(f.do) - 1) /\ l + 1 = j
  BY EffectType
<1> HIDE DEF l
<1>2. After(m, Upto(f, l + 1)) = Put(After(m, Upto(f, l)), f.do[l + 1])
  BY <1>1, AfterNext
<1> QED  BY <1>1, <1>2 DEF l

\* What a run has left to do, done after what it has done.
LEMMA AfterRest ==
  ASSUME NEW w, NEW e, IsEffect(e), NEW k \in 0..Len(e.do), NEW m, m = After(w, Upto(e, k)),
         NEW f, IsEffect(f), Len(f.do) = Len(e.do) - k, \A j \in 1..Len(f.do) : f.do[j] = e.do[k + j],
         NEW i \in 0..Len(f.do)
  PROVE  After(m, Upto(f, i)) = After(w, Upto(e, k + i))
<1> DEFINE S == {j \in 0..Len(f.do) : After(m, Upto(f, j)) # After(w, Upto(e, k + j))}
<1>0. Len(e.do) \in Nat /\ Len(f.do) \in Nat /\ k \in Nat
  BY EffectType
<1>1. ASSUME S # {} PROVE FALSE
  <2>1. S \in SUBSET Nat
    BY <1>0
  <2>2. PICK j \in S : \A l \in S : j <= l
    <3> HIDE DEF S
    <3> QED  BY <1>1, <2>1, LowestNumber
  <2>3. j \in 0..Len(f.do) /\ j \in Nat /\ After(m, Upto(f, j)) # After(w, Upto(e, k + j))
    BY <1>0
  <2>4. j # 0
    <3>1. After(m, Upto(f, 0)) = m
      <4>1. IsMachine(m)
        BY AfterIs
      <4> QED  BY <4>1, UptoNone
    <3>2. k + 0 = k
      BY <1>0
    <3> QED  BY <2>3, <3>1, <3>2
  <2> DEFINE l == j - 1
  <2>5. l \in Nat /\ l + 1 = j /\ l \in 0..(Len(f.do) - 1) /\ l \in 0..Len(f.do) /\ ~(j <= l)
        /\ k + l \in 0..(Len(e.do) - 1) /\ (k + l) + 1 = k + j /\ j \in 1..Len(f.do)
    BY <1>0, <2>3, <2>4
  <2>6. l \notin S
    BY <2>2, <2>5
  <2>7. After(m, Upto(f, l)) = After(w, Upto(e, k + l))
    BY <2>5, <2>6
  <2> HIDE DEF S, l
  <2>8. After(m, Upto(f, j)) = Put(After(m, Upto(f, l)), f.do[j])
    <3>1. IsEffect(f) /\ j \in 1..Len(f.do)
      BY <2>5, Zenon
    <3>2. After(m, Upto(f, j)) = Put(After(m, Upto(f, j - 1)), f.do[j])
      BY <3>1, AfterLast, Zenon
    <3> QED  BY <3>2, Zenon DEF l
  <2>9. After(w, Upto(e, (k + l) + 1)) = Put(After(w, Upto(e, k + l)), e.do[(k + l) + 1])
    <3> DEFINE h == k + l
    <3>1. h \in 0..(Len(e.do) - 1)
      BY <2>5
    <3> HIDE DEF h
    <3>2. After(w, Upto(e, h + 1)) = Put(After(w, Upto(e, h)), e.do[h + 1])
      BY <3>1, AfterNext
    <3> QED  BY <3>2 DEF h
  <2>10. f.do[j] = e.do[k + j]
    BY <2>5
  <2> QED  BY <2>3, <2>5, <2>7, <2>8, <2>9, <2>10
<1> QED  BY <1>1

\* It has the writes of e to do that come after the first k ones.
Remains(f, e, k) == Len(f.do) = Len(e.do) - k /\ \A j \in 1..Len(f.do) : f.do[j] = e.do[k + j]

LEMMA RestOf ==
  ASSUME NEW w, NEW e, IsEffect(e), NEW k \in 0..Len(e.do), NEW m, m = After(w, Upto(e, k)),
         NEW f, IsEffect(f), Remains(f, e, k)
  PROVE  Cuts(m, f) \subseteq Cuts(w, e) /\ After(m, f) = After(w, e)
<1>0. Len(e.do) \in Nat
  BY EffectType
<1>1. \A i \in 0..Len(f.do) : After(m, Upto(f, i)) = After(w, Upto(e, k + i))
  BY AfterRest DEF Remains
<1>2. ASSUME NEW n \in Cuts(m, f) PROVE n \in Cuts(w, e)
  <2>1. PICK i \in 0..Len(f.do) : n = After(m, Upto(f, i))
    BY <1>2 DEF Cuts
  <2>2. k + i \in 0..Len(e.do)
    BY <1>0 DEF Remains
  <2> QED  BY <1>1, <2>1, <2>2 DEF Cuts
<1>3. After(m, f) = After(w, e)
  <2>1. Len(f.do) \in 0..Len(f.do) /\ k + Len(f.do) = Len(e.do)
    BY <1>0 DEF Remains
  <2>2. Upto(f, Len(f.do)) = f /\ Upto(e, Len(e.do)) = e
    BY UptoAll
  <2> QED  BY <1>1, <2>1, <2>2
<1> QED  BY <1>2, <1>3

\* It resumes, wherever it is cut.
RestsOf(c, w, e) ==
  \A k \in 0..Len(e.do) : \E f : /\ f = Handler(c, After(w, Upto(e, k))) /\ IsEffect(f)
                                /\ f.fails = e.fails /\ Remains(f, e, k)

LEMMA SoundRest ==
  ASSUME NEW c, NEW w, IsMachine(w), NEW e, e = Handler(c, w), IsEffect(e), RestsOf(c, w, e)
  PROVE  Resumes(c, w)
<1>0. Len(e.do) \in Nat
  BY EffectType
<1>1. ASSUME NEW k \in 0..Len(e.do), NEW m, m = After(w, Upto(e, k))
      PROVE  /\ IsEffect(Handler(c, m)) /\ Handler(c, m).fails = e.fails
             /\ Cuts(m, Handler(c, m)) \subseteq Cuts(w, e)
             /\ Final(c, m) = After(w, e)
  <2>1. PICK f : f = Handler(c, m) /\ IsEffect(f) /\ f.fails = e.fails /\ Remains(f, e, k)
    BY <1>1 DEF RestsOf
  <2>2. Cuts(m, f) \subseteq Cuts(w, e) /\ After(m, f) = After(w, e)
    BY <1>1, <2>1, RestOf
  <2> QED  BY <2>1, <2>2 DEF Final
<1>2. After(w, Handler(c, w)) = After(w, e)
  OBVIOUS
<1>3. ASSUME NEW m \in Cuts(w, e)
      PROVE  /\ IsEffect(Handler(c, m)) /\ Handler(c, m).fails = e.fails
             /\ Cuts(m, Handler(c, m)) \subseteq Cuts(w, e)
             /\ Final(c, m) = After(w, e)
  <2>1. PICK k \in 0..Len(e.do) : m = After(w, Upto(e, k))
    BY <1>3 DEF Cuts
  <2> QED  BY <1>1, <2>1
<1>4. Final(c, w) = After(w, e)
  BY DEF Final
<1> QED  BY <1>3, <1>4 DEF Resumes

\* A chain of writes, each of another resource: what a part of it leaves.
IsChain(e, p, v) ==
  /\ \A i \in 1..Len(e.do) : e.do[i] = (p[i] := v[i])
  /\ \A i, j \in 1..Len(e.do) : p[i] = p[j] => i = j

ChainLeft(w, n, p, v, k) ==
  /\ \A i \in 1..k : p[i] \in DOMAIN n /\ n[p[i]] = v[i]
  /\ \A x : (\A i \in 1..k : x # p[i]) => (x \in DOMAIN n <=> x \in DOMAIN w) /\ (x \in DOMAIN w => n[x] = w[x])

LEMMA ChainIs ==
  ASSUME NEW w, NEW e, IsEffect(e), NEW p, NEW v, IsChain(e, p, v),
         NEW k \in 0..Len(e.do), NEW n, n = After(w, Upto(e, k))
  PROVE  ChainLeft(w, n, p, v, k)
<1> DEFINE u == Upto(e, k)
<1>0. /\ \A i \in 1..Len(e.do) : e.do[i] = (p[i] := v[i])
      /\ \A i, j \in 1..Len(e.do) : p[i] = p[j] => i = j
  BY DEF IsChain
<1>1. DOMAIN u.do = 1..k /\ k \in Nat /\ \A i \in 1..k : u.do[i] = e.do[i] /\ i \in 1..Len(e.do)
  BY EffectType, UptoIs
<1>2. n = [r \in DOMAIN w \cup UNION {DOMAIN u.do[i] : i \in DOMAIN u.do} |->
             IF Writes(u, r) = {} THEN w[r] ELSE u.do[Latest(Writes(u, r))][r]]
  BY DEF After
<1> HIDE DEF u
<1>3. ASSUME NEW i \in 1..k PROVE DOMAIN u.do[i] = {p[i]} /\ u.do[i][p[i]] = v[i]
  <2> DEFINE a == p[i]
             b == v[i]
             d == u.do[i]
  <2>1. d = (a := b)
    BY <1>0, <1>1
  <2> HIDE DEF a, b, d
  <2>2. DOMAIN d = {a} /\ d[a] = b
    BY <2>1 DEF :=
  <2> QED  BY <2>2 DEF a, b, d
<1>4. ASSUME NEW i \in 1..k PROVE p[i] \in DOMAIN n /\ n[p[i]] = v[i]
  <2>1. Writes(u, p[i]) = {i}
    BY <1>0, <1>1, <1>3 DEF Writes
  <2>2. Latest({i}) = i
    <3>1. {i} \in SUBSET (1..k) /\ {i} # {}
      OBVIOUS
    <3> QED  BY <1>1, <3>1, LatestIs
  <2> DEFINE a == p[i]
  <2>3. DOMAIN u.do[i] = {a} /\ u.do[i][a] = v[i] /\ i \in DOMAIN u.do /\ Writes(u, a) = {i}
    BY <1>1, <1>3, <2>1
  <2> HIDE DEF a
  <2>4. a \in DOMAIN w \cup UNION {DOMAIN u.do[j] : j \in DOMAIN u.do}
    BY <2>3
  <2>5. a \in DOMAIN n /\ n[a] = IF Writes(u, a) = {} THEN w[a] ELSE u.do[Latest(Writes(u, a))][a]
    BY <1>2, <2>4
  <2>6. a \in DOMAIN n /\ n[a] = v[i]
    BY <2>2, <2>3, <2>5
  <2> QED  BY <2>6 DEF a
<1>5. ASSUME NEW x, \A i \in 1..k : x # p[i]
      PROVE  (x \in DOMAIN n <=> x \in DOMAIN w) /\ (x \in DOMAIN w => n[x] = w[x])
  <2>1. Writes(u, x) = {}
    BY <1>1, <1>3, <1>5 DEF Writes
  <2>2. x \notin UNION {DOMAIN u.do[i] : i \in DOMAIN u.do}
    BY <1>1, <1>3, <1>5
  <2> QED  BY <1>2, <2>1, <2>2
<1> QED  BY <1>4, <1>5 DEF ChainLeft

-----------------------------------------------------------------------------
(***************************************************************************)
(* Directories: the missing ones are created one after the other.          *)
(***************************************************************************)
Pre(t, j) == SubSeq(t, 1, j)

MkdirDir(c, j) ==
  IF j = Len(c.target) THEN Dir(Or(c.mode, DirMode), Or(c.owner, Me)) ELSE Dir(Or(c.parent, DirMode), Me)

\* The directories that are created, and what is done when there is none.
Creates(m, c) == {j \in 1..Len(c.target) : \A i \in j..Len(c.target) : ~Exists(m, SubSeq(c.target, 1, i))}

MkdirThere(m, c) ==
  When(c.force,
    Then(m, Chowned(m, c.target, c.owner, At(m, c.target)), LAMBDA n :
      Chmoded(n, c.target, c.mode, At(m, c.target))))

\* The directories from the first one that is missing to the last one that is
\* not excluded.
Made(c, f, g) ==
  [do     |-> [i \in 1..(g - f + 1) |-> Pre(c.target, f + i - 1) := MkdirDir(c, f + i - 1)],
   status |-> g >= f, fails |-> FALSE]

\* The writes that do so, and what they leave after the first k ones.
Makes(e, c, f, g) ==
  /\ Len(e.do) = g - f + 1
  /\ \A i \in 1..Len(e.do) : e.do[i] = (Pre(c.target, f + i - 1) := MkdirDir(c, f + i - 1))

HasMade(w, n, c, f, k) ==
  /\ \A i \in 1..k : Pre(c.target, f + i - 1) \in DOMAIN n /\ n[Pre(c.target, f + i - 1)] = MkdirDir(c, f + i - 1)
  /\ \A x : (\A i \in 1..k : x # Pre(c.target, f + i - 1)) =>
             (x \in DOMAIN n <=> x \in DOMAIN w) /\ (x \in DOMAIN w => n[x] = w[x])

\* The path exists up to the one before f, and not from f on.
Missing(m, t, f) ==
  /\ \A j \in f..Len(t) : ~Exists(m, Pre(t, j))
  /\ f > 1 => Exists(m, Pre(t, f - 1))

\* The directories from f to g are created, those after g are excluded.
Allowed(c, f, g) ==
  /\ \A j \in f..g : c.target[j] \notin c.exclude
  /\ g < Len(c.target) => c.target[g + 1] \in c.exclude

LEMMA PreIs ==
  ASSUME NEW t \in Seq(STRING)
  PROVE  /\ \A j \in 1..Len(t) : Pre(t, j) # << >> /\ Len(Pre(t, j)) = j /\ Last(Pre(t, j)) = t[j]
         /\ \A i, j \in 1..Len(t) : Pre(t, i) = Pre(t, j) => i = j
         /\ Pre(t, Len(t)) = t
<1>0. Len(t) \in Nat
  OBVIOUS
<1>1. ASSUME NEW j \in 1..Len(t)
      PROVE  Pre(t, j) # << >> /\ Len(Pre(t, j)) = j /\ Last(Pre(t, j)) = t[j]
  <2> DEFINE s == SubSeq(t, 1, j)
  <2>1. s \in Seq(STRING) /\ Len(s) = j /\ \A i \in 1..j : s[i] = t[i]
    BY <1>0, <1>1
  <2> HIDE DEF s
  <2>2. s # << >> /\ Last(s) = t[j]
    BY <2>1 DEF Last
  <2> QED  BY <2>1, <2>2 DEF Pre, s
<1>2. Pre(t, Len(t)) = t
  BY DEF Pre
<1> QED  BY <1>1, <1>2

LEMMA IntervalIs ==
  ASSUME NEW a \in Int, NEW b \in Int, a <= b + 1
  PROVE  Cardinality(a..b) = b - a + 1 /\ (a..b # {} <=> b >= a)
<1>1. Cardinality(a..b) = IF a > b THEN 0 ELSE b - a + 1
  BY FS_Interval
<1> DEFINE n == Cardinality(a..b)
<1>2. n = IF a > b THEN 0 ELSE b - a + 1
  BY <1>1
<1> HIDE DEF n
<1>3. n = b - a + 1
  BY <1>2
<1>4. a..b # {} <=> b >= a
  OBVIOUS
<1> QED  BY <1>3, <1>4 DEF n

LEMMA MissingIs ==
  ASSUME NEW m, NEW c, NEW f \in Nat, NEW L \in Nat, L = Len(c.target), f >= 1, f <= L + 1, Missing(m, c.target, f)
  PROVE  Creates(m, c) = f..L /\ L - Cardinality(Creates(m, c)) + 1 = f
<1> DEFINE E(j) == Exists(m, Pre(c.target, j))
<1>1. Creates(m, c) = {j \in 1..L : \A i \in j..L : ~E(i)}
  BY DEF Creates, Pre
<1>2. (\A j \in f..L : ~E(j)) /\ (f > 1 => E(f - 1))
  BY DEF Missing
<1> HIDE DEF E
<1>3. ASSUME NEW j \in 1..L, \A i \in j..L : ~E(i), j < f PROVE FALSE
  <2>1. f > 1 /\ f - 1 \in j..L
    BY <1>3
  <2> QED  BY <1>2, <1>3, <2>1
<1>4. Creates(m, c) = f..L
  BY <1>1, <1>2, <1>3
<1>5. f \in Int /\ L \in Int /\ f <= L + 1
  OBVIOUS
<1>6. Cardinality(f..L) = L - f + 1
  BY <1>5, IntervalIs
<1>7. L - (L - f + 1) + 1 = f
  OBVIOUS
<1> QED  BY <1>4, <1>6, <1>7

LEMMA MkdirIs ==
  ASSUME NEW m, NEW c, c.target \in Seq(STRING), NEW f \in Nat, NEW L \in Nat, L = Len(c.target),
         f >= 1, f <= L + 1, Missing(m, c.target, f)
  PROVE  /\ f > 1 /\ ~IsDir(m, Pre(c.target, f - 1)) => FsMkdir(m, c) = Throw
         /\ (f > 1 => IsDir(m, Pre(c.target, f - 1))) /\ f = L + 1 =>
              FsMkdir(m, c) = MkdirThere(m, c)
         /\ (f > 1 => IsDir(m, Pre(c.target, f - 1))) /\ f <= L =>
              \A g \in (f - 1)..L : Allowed(c, f, g) =>
                FsMkdir(m, c) = Made(c, f, g)
<1> DEFINE creates == Creates(m, c)
           first   == L - Cardinality(creates) + 1
           kept    == {j \in creates : \A i \in first..j : c.target[i] \notin c.exclude}
           made    == [do     |-> [i \in 1..Cardinality(kept) |-> SubSeq(c.target, 1, first + i - 1) := MkdirDir(c, first + i - 1)],
                       status |-> kept # {}, fails |-> FALSE]
<1>1. FsMkdir(m, c) = IF first > 1 /\ ~IsDir(m, SubSeq(c.target, 1, first - 1)) THEN Throw
                      ELSE IF creates # {} THEN made ELSE MkdirThere(m, c)
  BY DEF FsMkdir, MkdirDir, MkdirThere, Creates
<1>2. creates = f..L /\ first = f
  BY MissingIs
<1> HIDE DEF creates, first
<1>3. ASSUME NEW g \in (f - 1)..L, Allowed(c, f, g)
      PROVE  kept = f..g /\ Cardinality(kept) = g - f + 1 /\ (kept # {} <=> g >= f)
  <2>1. \A j \in f..L : (\A i \in f..j : c.target[i] \notin c.exclude) <=> j <= g
    <3> TAKE j \in f..L
    <3>1. CASE j <= g
      BY <1>3, <3>1 DEF Allowed
    <3>2. CASE j > g
      <4>1. g < L /\ g + 1 \in f..j
        BY <1>3, <3>2
      <4> QED  BY <1>3, <3>2, <4>1 DEF Allowed
    <3> QED  BY <3>1, <3>2
  <2>2. kept = f..g
    BY <1>2, <1>3, <2>1
  <2>0. g \in Int /\ f \in Int
    BY <1>3
  <2> HIDE DEF kept
  <2>3. f <= g + 1
    BY <1>3
  <2> QED  BY <2>0, <2>2, <2>3, IntervalIs
<1>4. f <= L <=> creates # {}
  BY <1>2
<1>5. SubSeq(c.target, 1, first - 1) = Pre(c.target, f - 1)
  BY <1>2 DEF Pre
<1>6. ASSUME NEW g \in (f - 1)..L, Allowed(c, f, g)
      PROVE  made = Made(c, f, g)
  <2>1. Cardinality(kept) = g - f + 1 /\ (kept # {} <=> g >= f)
    BY <1>3, <1>6
  <2> HIDE DEF kept
  <2>2. \A i \in 1..(g - f + 1) :
          (SubSeq(c.target, 1, first + i - 1) := MkdirDir(c, first + i - 1)) = (Pre(c.target, f + i - 1) := MkdirDir(c, f + i - 1))
    BY <1>2 DEF Pre
  <2>3. [i \in 1..Cardinality(kept) |-> SubSeq(c.target, 1, first + i - 1) := MkdirDir(c, first + i - 1)]
          = [i \in 1..(g - f + 1) |-> Pre(c.target, f + i - 1) := MkdirDir(c, f + i - 1)]
    BY <2>1, <2>2
  <2>4. (kept # {}) = (g >= f)
    BY <2>1
  <2> QED  BY <2>3, <2>4 DEF Made
<1> HIDE DEF made
<1> DEFINE P == Pre(c.target, f - 1)
           e == FsMkdir(m, c)
<1>7. e = IF f > 1 /\ ~IsDir(m, P) THEN Throw ELSE IF f <= L THEN made ELSE MkdirThere(m, c)
  BY <1>1, <1>2, <1>4, <1>5
<1> HIDE DEF e, P
<1>8. f > 1 /\ ~IsDir(m, P) => e = Throw
  BY <1>7
<1>9. (f > 1 => IsDir(m, P)) /\ f = L + 1 => e = MkdirThere(m, c)
  BY <1>7
<1>10. (f > 1 => IsDir(m, P)) /\ f <= L => e = made
  BY <1>7
<1> QED  BY <1>6, <1>8, <1>9, <1>10 DEF e, P

\* One after nothing is that one.
LEMMA NothingFirst ==
  ASSUME NEW f, IsEffect(f), NEW e, e = Nothing \bullet f
  PROVE  IsEffect(e) /\ e.do = f.do /\ e.status = f.status /\ e.fails = f.fails
<1> DEFINE N == Nothing
           d == f.do
           W == Range(d)
<1>1. ~N.fails /\ N.do = << >> /\ ~N.status /\ N.status \in BOOLEAN
  BY NothingIs, EffectType
<1>2. d \in Seq(W) /\ f.status \in BOOLEAN /\ f.fails \in BOOLEAN
  BY EffectType
<1>3. e = [do |-> N.do \o d, status |-> N.status \/ f.status, fails |-> f.fails]
  BY <1>1 DEF \bullet
<1> HIDE DEF N, d, W
<1>4. N.do \o d = d
  BY <1>1, <1>2
<1>5. (N.status \/ f.status) = f.status
  BY <1>1, <1>2
<1>6. e = [do |-> d, status |-> f.status, fails |-> f.fails]
  BY <1>3, <1>4, <1>5
<1>7. e \in [do : Seq(W), status : BOOLEAN, fails : BOOLEAN] /\ e.do = d /\ e.status = f.status /\ e.fails = f.fails
  BY <1>2, <1>6
<1>8. IsEffect(e)
  BY <1>7, EffectIs
<1> QED  BY <1>7, <1>8 DEF d

\* A directory that has the attributes asked for is left as it is.
LEMMA MkdirThereIs ==
  ASSUME NEW m, IsMachine(m), NEW c, At(m, c.target) # Absent,
         c.owner # Unset => At(m, c.target).owner = c.owner, c.mode # Unset => At(m, c.target).mode = c.mode,
         NEW e, e = MkdirThere(m, c)
  PROVE  IsEffect(e) /\ e.do = << >> /\ ~e.status /\ ~e.fails
<1> DEFINE a == At(m, c.target)
<1>0. a # Absent /\ (c.owner # Unset => a.owner = c.owner) /\ (c.mode # Unset => a.mode = c.mode)
  OBVIOUS
<1>1. Chowned(m, c.target, c.owner, a) = Nothing
  <2> HIDE DEF a
  <2> QED  BY <1>0 DEF Chowned, FsChown, When
<1>2. Chmoded(m, c.target, c.mode, a) = Nothing
  <2> HIDE DEF a
  <2> QED  BY <1>0 DEF Chmoded, FsChmod, When
<1>3. ~Nothing.fails /\ After(m, Nothing) = m
  BY NothingIs, AfterNone
<1>4. e = When(c.force, Nothing \bullet Nothing)
  BY <1>1, <1>2, <1>3 DEF MkdirThere, Then
<1>5. e = Nothing \bullet Nothing \/ e = Nothing
  BY <1>4 DEF When
<1> QED  BY <1>5, NothingIs, NothingFirst

LEMMA MadeIs ==
  ASSUME NEW c, NEW f \in Nat, NEW g \in Nat, f <= g + 1, NEW e, e = Made(c, f, g)
  PROVE  IsEffect(e) /\ Makes(e, c, f, g) /\ ~e.fails /\ (e.status <=> g >= f)
<1> DEFINE K == g - f + 1
           d == [i \in 1..K |-> Pre(c.target, f + i - 1) := MkdirDir(c, f + i - 1)]
           W == Range(d)
<1>1. K \in Nat
  OBVIOUS
<1>2. DOMAIN d = 1..K /\ \A i \in 1..K : d[i] = (Pre(c.target, f + i - 1) := MkdirDir(c, f + i - 1)) /\ d[i] \in W
  BY DEF Range
<1>3. d = [i \in 1..K |-> d[i]]
  OBVIOUS
<1>4. e = [do |-> d, status |-> g >= f, fails |-> FALSE]
  BY DEF Made
<1> HIDE DEF K, d, W
<1>5. d \in [1..K -> W]
  BY <1>2, <1>3
<1>6. d \in Seq(W) /\ Len(d) = K
  BY <1>1, <1>5
<1>7. e \in [do : Seq(W), status : BOOLEAN, fails : BOOLEAN]
  BY <1>4, <1>6
<1>8. IsEffect(e)
  BY <1>7, EffectIs
<1>9. e.do = d /\ e.status = (g >= f) /\ e.fails = FALSE
  BY <1>4
<1>10. Len(e.do) = K
  BY <1>6, <1>9
<1>11. \A i \in 1..Len(e.do) : e.do[i] = (Pre(c.target, f + i - 1) := MkdirDir(c, f + i - 1))
  BY <1>2, <1>9, <1>10
<1>12. (e.status <=> g >= f) /\ ~e.fails
  BY <1>9
<1>13. Len(e.do) = g - f + 1
  BY <1>10 DEF K
<1> QED  BY <1>8, <1>11, <1>12, <1>13 DEF Makes

\* No link on the way leads to nothing.
Solid(m, t) == \A j \in 1..Len(t) : ~Exists(m, Pre(t, j)) => Real(m, Pre(t, j)) = Pre(t, j)

\* The directories from f on, as they are created.
Stands(n, c, f, g) == \A j \in f..g : At(n, Pre(c.target, j)) = MkdirDir(c, j)

\* What is missing once some of the directories are created.
LEMMA MkdirCut ==
  ASSUME NEW w, NEW c, c.target \in Seq(STRING), Solid(w, c.target),
         NEW f \in Nat, f >= 1, Missing(w, c.target, f), NEW k \in Nat, k >= 1, f + k <= Len(c.target) + 1,
         NEW n, HasMade(w, n, c, f, k)
  PROVE  Missing(n, c.target, f + k) /\ IsDir(n, Pre(c.target, f + k - 1)) /\ Stands(n, c, f, f + k - 1)
<1> DEFINE t == c.target
           L == Len(t)
<1>0. L \in Nat
  OBVIOUS
<1>1. /\ \A j \in 1..L : Pre(t, j) # << >>
      /\ \A i, j \in 1..L : Pre(t, i) = Pre(t, j) => i = j
  BY PreIs
<1>2. \A j : MkdirDir(c, j).type = "dir" /\ MkdirDir(c, j) # Absent
  BY DEF MkdirDir, Dir, Absent
<1>3. ASSUME NEW j \in f..(f + k - 1) PROVE At(n, Pre(t, j)) = MkdirDir(c, j)
  <2> DEFINE x == Pre(t, j)
             i == j - f + 1
  <2>1. i \in 1..k /\ f + i - 1 = j /\ j \in 1..L
    BY <1>0, <1>3
  <2>2. x \in DOMAIN n /\ n[x] = MkdirDir(c, j) /\ x # << >>
    BY <1>1, <2>1 DEF HasMade
  <2> HIDE DEF x
  <2>3. Real(n, x) = x
    BY <1>2, <2>2 DEF Real
  <2>4. At(n, x) = MkdirDir(c, j)
    BY <2>2, <2>3 DEF At, StateOf
  <2> QED  BY <2>4 DEF x
<1>4. ASSUME NEW j \in (f + k)..L PROVE ~Exists(n, Pre(t, j))
  <2> DEFINE x == Pre(t, j)
  <2>1. j \in 1..L /\ j \in f..L /\ \A i \in 1..k : f + i - 1 \in 1..L /\ f + i - 1 # j
    BY <1>0, <1>4
  <2>2. x # << >> /\ \A i \in 1..k : x # Pre(t, f + i - 1)
    BY <1>1, <2>1
  <2>3. At(w, x) = Absent /\ Real(w, x) = x
    BY <2>1 DEF Missing, Exists, Solid
  <2>4. (x \in DOMAIN n <=> x \in DOMAIN w) /\ (x \in DOMAIN w => n[x] = w[x])
    BY <2>2 DEF HasMade
  <2> HIDE DEF x
  <2>5. x \in DOMAIN w => w[x] = Absent
    BY <2>2, <2>3 DEF At, StateOf
  <2>6. Absent.type # "link"
    BY DEF Absent
  <2>7. Real(n, x) = x
    BY <2>4, <2>5, <2>6 DEF Real
  <2>8. At(n, x) = Absent
    BY <2>2, <2>4, <2>5, <2>7 DEF At, StateOf
  <2> QED  BY <2>8 DEF x, Exists
<1>5. f + k - 1 \in f..(f + k - 1) /\ f + k > 1 /\ (f + k) - 1 = f + k - 1
  OBVIOUS
<1>6. At(n, Pre(t, f + k - 1)) = MkdirDir(c, f + k - 1)
  BY <1>3, <1>5
<1>7. Exists(n, Pre(t, f + k - 1)) /\ IsDir(n, Pre(t, f + k - 1))
  BY <1>2, <1>6 DEF Exists, IsDir
<1> QED  BY <1>3, <1>4, <1>5, <1>7 DEF Missing, Stands

\* What a user may ask of it: no name is that of a staged file.
IsMkdir(c) == c \in MkdirConfig /\ c.target # << >> /\ \A j \in 1..Len(c.target) : c.target[j] # Staged

\* The first that is missing, the last that is not excluded.
LEMMA MissingFrom ==
  ASSUME NEW m, NEW c, c.target \in Seq(STRING)
  PROVE  \E f \in 1..(Len(c.target) + 1) : Missing(m, c.target, f)
<1> DEFINE L == Len(c.target)
           S == {f \in 1..(L + 1) : \A j \in f..L : ~Exists(m, Pre(c.target, j))}
<1>0. L \in Nat
  OBVIOUS
<1>1. S \in SUBSET Nat /\ L + 1 \in S
  BY <1>0
<1>2. PICK f \in S : \A g \in S : f <= g
  <2> HIDE DEF S
  <2> QED  BY <1>1, LowestNumber
<1>3. ASSUME f > 1 PROVE Exists(m, Pre(c.target, f - 1))
  <2>1. f - 1 \in 1..(L + 1) /\ f - 1 \notin S
    BY <1>0, <1>2, <1>3
  <2>2. PICK j \in (f - 1)..L : Exists(m, Pre(c.target, j))
    BY <2>1
  <2>3. j \notin f..L
    BY <1>2, <2>2
  <2>4. j = f - 1
    BY <1>0, <1>2, <2>2, <2>3
  <2> QED  BY <2>2, <2>4
<1>4. f \in 1..(L + 1) /\ \A j \in f..L : ~Exists(m, Pre(c.target, j))
  BY <1>2
<1> QED  BY <1>3, <1>4 DEF Missing

LEMMA AllowedTo ==
  ASSUME NEW c, NEW L \in Nat, L = Len(c.target), NEW f \in 1..(L + 1)
  PROVE  \E g \in (f - 1)..L : Allowed(c, f, g)
<1> DEFINE S == {h \in f..(L + 1) : h = L + 1 \/ c.target[h] \in c.exclude}
<1>1. S \in SUBSET Nat /\ L + 1 \in S
  OBVIOUS
<1>2. PICK h \in S : \A i \in S : h <= i
  <2> HIDE DEF S
  <2> QED  BY <1>1, LowestNumber
<1>3. h - 1 \in (f - 1)..L /\ (h - 1 < L => c.target[(h - 1) + 1] \in c.exclude)
  BY <1>2
<1>4. ASSUME NEW j \in f..(h - 1) PROVE c.target[j] \notin c.exclude
  BY <1>2, <1>4
<1> QED  BY <1>3, <1>4 DEF Allowed

MkdirGot(c, w, m) ==
  /\ c.exclude = {} => IsDir(m, c.target)
  /\ (c.exclude = {} /\ (c.force \/ ~Exists(w, c.target)))
       => HasMode(m, c.target, c.mode) /\ HasOwner(m, c.target, c.owner)

LEMMA MkdirGoalIs ==
  ASSUME NEW c, c.kind = "fs.mkdir", NEW w, NEW m
  PROVE  FsHandler(c, m) = FsMkdir(m, c) /\ FsExcept(c, w) = {} /\ (FsGoal(c, w, m) <=> MkdirGot(c, w, m))
<1>1. FsHandler(c, m) = FsMkdir(m, c)
  BY DEF FsHandler
<1>2. FsExcept(c, w) = {}
  BY DEF FsExcept
<1>3. FsGoal(c, w, m) <=> MkdirGot(c, w, m)
  BY DEF FsGoal, MkdirGot
<1> QED  BY <1>1, <1>2, <1>3

\* What is left after k of these writes.
LEMMA MadeLeft ==
  ASSUME NEW w, NEW c, c.target \in Seq(STRING), NEW f \in Nat, f >= 1, NEW g \in Nat, g <= Len(c.target), f <= g + 1,
         NEW e, IsEffect(e), Makes(e, c, f, g), NEW k \in 0..(g - f + 1), NEW n, n = After(w, Upto(e, k))
  PROVE  HasMade(w, n, c, f, k)
<1> DEFINE K == g - f + 1
           p == [i \in 1..K |-> Pre(c.target, f + i - 1)]
           v == [i \in 1..K |-> MkdirDir(c, f + i - 1)]
<1>0. K \in Nat /\ k \in Nat /\ k <= K /\ Len(e.do) = K /\ k \in 0..Len(e.do)
  BY DEF Makes
<1>1. \A i \in 1..K : p[i] = Pre(c.target, f + i - 1) /\ v[i] = MkdirDir(c, f + i - 1)
  OBVIOUS
<1> HIDE DEF p, v
<1>2. \A i \in 1..Len(e.do) : e.do[i] = (p[i] := v[i])
  BY <1>0, <1>1 DEF Makes
<1>3. \A i, j \in 1..Len(e.do) : p[i] = p[j] => i = j
  <2> SUFFICES ASSUME NEW i \in 1..K, NEW j \in 1..K, p[i] = p[j] PROVE i = j
    BY <1>0
  <2>1. f + i - 1 \in 1..Len(c.target) /\ f + j - 1 \in 1..Len(c.target) /\ Pre(c.target, f + i - 1) = Pre(c.target, f + j - 1)
    BY <1>1
  <2> DEFINE a == f + i - 1
             b == f + j - 1
  <2> HIDE DEF a, b
  <2>2. a \in 1..Len(c.target) /\ b \in 1..Len(c.target) /\ Pre(c.target, a) = Pre(c.target, b)
    BY <2>1 DEF a, b
  <2>3. a = b
    BY <2>2, PreIs
  <2> QED  BY <2>3 DEF a, b
<1> HIDE DEF K
<1>4. ChainLeft(w, n, p, v, k)
  <2>1. IsChain(e, p, v)
    BY <1>2, <1>3 DEF IsChain
  <2> QED  BY <1>0, <2>1, ChainIs
<1>5. \A i \in 1..k : i \in 1..K
  BY <1>0
<1> QED  BY <1>1, <1>4, <1>5 DEF HasMade, ChainLeft

\* Wherever its creation is cut, the next run creates the rest.
LEMMA MkdirRest ==
  ASSUME NEW w, IsMachine(w), NEW c, c.target \in Seq(STRING), Solid(w, c.target),
         NEW L \in Nat, L = Len(c.target), NEW f \in 1..L, Missing(w, c.target, f),
         f > 1 => IsDir(w, Pre(c.target, f - 1)),
         NEW g \in (f - 1)..L, Allowed(c, f, g), NEW e, e = Made(c, f, g),
         NEW k \in 0..(g - f + 1), NEW n, n = After(w, Upto(e, k))
  PROVE  /\ IsEffect(FsMkdir(n, c)) /\ Remains(FsMkdir(n, c), e, k) /\ ~FsMkdir(n, c).fails
         /\ FsMkdir(n, c).status <=> k < g - f + 1
         /\ Stands(n, c, f, f + k - 1) /\ HasMade(w, n, c, f, k)
<1> DEFINE t == c.target
           K == g - f + 1
           h == f + k
<1>0. f \in Nat /\ g \in Nat /\ f <= g + 1 /\ K \in Nat /\ k \in Nat /\ k <= K /\ f + K = g + 1 /\ g <= L /\ f >= 1
  OBVIOUS
<1>1. IsEffect(e) /\ Makes(e, c, f, g) /\ ~e.fails /\ (e.status <=> g >= f)
  BY <1>0, MadeIs
<1>2. Len(e.do) = K
  BY <1>1 DEF Makes
<1>3. HasMade(w, n, c, f, k)
  BY <1>0, <1>1, MadeLeft
<1>4. CASE k = 0
  <2>1. n = w
    BY <1>1, <1>4, UptoNone
  <2>2. FsMkdir(w, c) = e
    <3>1. f <= L /\ f <= L + 1
      BY <1>0
    <3> QED  BY <1>0, <3>1, MkdirIs
  <2>3. Stands(n, c, f, f + k - 1)
    <3>1. f..(f + k - 1) = {}
      BY <1>0, <1>4
    <3> QED  BY <3>1 DEF Stands
  <2>4. Remains(e, e, k)
    BY <1>1, <1>2, <1>4 DEF Remains
  <2>5. e.status <=> k < g - f + 1
    BY <1>0, <1>1, <1>4
  <2> QED  BY <1>1, <1>3, <2>1, <2>2, <2>3, <2>4, <2>5
<1>5. CASE k >= 1
  <2>2. Missing(n, t, h) /\ IsDir(n, Pre(t, h - 1)) /\ Stands(n, c, f, f + k - 1)
    <3>1. f + k <= Len(c.target) + 1 /\ k \in Nat /\ f \in Nat /\ f >= 1 /\ k >= 1
      BY <1>0, <1>5
    <3> HIDE DEF K
    <3> QED  BY <1>3, <3>1, MkdirCut
  <2>3. h \in Nat /\ h >= 1 /\ h <= L + 1
    BY <1>0
  <2>5. CASE h <= L
    <3>1. g \in (h - 1)..L /\ h <= g + 1
      BY <1>0
    <3>2. Allowed(c, h, g)
      BY <1>0, <2>3 DEF Allowed
    <3> DEFINE u == Made(c, h, g)
    <3>3. FsMkdir(n, c) = u
      <4> HIDE DEF h, K
      <4> QED  BY <2>2, <2>3, <2>5, <3>1, <3>2, MkdirIs
    <3>4. IsEffect(u) /\ Makes(u, c, h, g) /\ ~u.fails /\ (u.status <=> g >= h)
      <4> HIDE DEF h, K
      <4> QED  BY <1>0, <2>3, <3>1, MadeIs
    <3> HIDE DEF u
    <3>5. Len(u.do) = Len(e.do) - k
      BY <1>0, <1>2, <3>4 DEF Makes
    <3>6. ASSUME NEW i \in 1..Len(u.do) PROVE u.do[i] = e.do[k + i]
      <4>1. k + i \in 1..K /\ h + i - 1 = f + (k + i) - 1
        BY <1>0, <1>2, <3>5, <3>6
      <4>2. k + i \in 1..Len(e.do)
        BY <1>2, <4>1
      <4> QED  BY <1>1, <3>4, <3>6, <4>1, <4>2 DEF Makes
    <3>7. Remains(u, e, k)
      BY <3>5, <3>6 DEF Remains
    <3>8. u.status <=> k < g - f + 1
      BY <1>0, <3>4
    <3>9. u = FsMkdir(n, c)
      BY <3>3
    <3> QED  BY <1>3, <2>2, <3>4, <3>7, <3>8, <3>9
  <2>6. CASE h = L + 1
    <3>1. k = K /\ g = L
      BY <1>0, <2>6
    <3>2. FsMkdir(n, c) = MkdirThere(n, c)
      <4>1. h - 1 = L
        BY <2>6
      <4> HIDE DEF h, K
      <4> QED  BY <2>2, <2>3, <2>6, MkdirIs
    <3>3. At(n, t) = Dir(Or(c.mode, DirMode), Or(c.owner, Me))
      <4>1. L \in f..(f + k - 1) /\ Pre(t, L) = t
        BY <1>0, <2>6, PreIs
      <4> QED  BY <2>2, <4>1 DEF MkdirDir, Stands
    <3>4. /\ At(n, t) # Absent /\ (c.owner # Unset => At(n, t).owner = c.owner)
          /\ c.mode # Unset => At(n, t).mode = c.mode
      BY <3>3 DEF Dir, Absent, Or
    <3> DEFINE u == FsMkdir(n, c)
    <3>5. IsEffect(u) /\ u.do = << >> /\ ~u.status /\ ~u.fails
      <4>1. IsMachine(n)
        BY AfterIs
      <4> QED  BY <3>2, <3>4, <4>1, MkdirThereIs
    <3> HIDE DEF u
    <3>6. Len(u.do) = 0
      BY <3>5
    <3>7. Remains(u, e, k)
      BY <1>0, <1>2, <3>1, <3>6 DEF Remains
    <3> QED  BY <1>3, <2>2, <3>1, <3>5, <3>7 DEF u
  <2> QED  BY <2>3, <2>5, <2>6
<1> QED  BY <1>0, <1>4, <1>5

\* What a cut left to do makes a difference: a directory that is missing.
LEMMA MkdirDiffers ==
  ASSUME NEW w, NEW c, c.target \in Seq(STRING), Solid(w, c.target), \A j \in 1..Len(c.target) : c.target[j] # Staged,
         NEW f \in 1..Len(c.target), NEW g \in (f - 1)..Len(c.target), Missing(w, c.target, f),
         NEW k \in 0..(g - f + 1), NEW m, HasMade(w, m, c, f, k), NEW n, HasMade(w, n, c, f, g - f + 1)
  PROVE  k < g - f + 1 => ~SameMachine(n, m)
<1> SUFFICES ASSUME k < g - f + 1 PROVE ~SameMachine(n, m)
  OBVIOUS
<1> DEFINE t == c.target
           x == Pre(t, f + k)
<1>0. /\ f \in Nat /\ g \in Nat /\ k \in Nat /\ Len(t) \in Nat /\ f + k \in 1..Len(t) /\ f + k \in f..Len(t)
      /\ k + 1 \in 1..(g - f + 1) /\ f + (k + 1) - 1 = f + k
  OBVIOUS
<1>1. x # << >> /\ Last(x) # Staged
  BY <1>0, PreIs
<1>2. MkdirDir(c, f + k) # Absent
  BY DEF MkdirDir, Dir, Absent
<1>3. StateOf(n, x) = MkdirDir(c, f + k) /\ x \in DOMAIN n
  BY <1>0 DEF HasMade, StateOf
<1>4. \A i \in 1..k : x # Pre(t, f + i - 1)
  <2> SUFFICES ASSUME NEW i \in 1..k PROVE x # Pre(t, f + i - 1)
    OBVIOUS
  <2> DEFINE a == f + k
             b == f + i - 1
  <2>1. a \in 1..Len(t) /\ b \in 1..Len(t) /\ a # b
    BY <1>0
  <2> HIDE DEF a, b
  <2>2. Pre(t, a) # Pre(t, b)
    BY <2>1, PreIs
  <2> QED  BY <2>2 DEF a, b
<1>5. At(w, x) = Absent /\ Real(w, x) = x
  BY <1>0 DEF Missing, Exists, Solid
<1> HIDE DEF x
<1>6. StateOf(w, x) = Absent
  BY <1>1, <1>5 DEF At
<1>7. StateOf(m, x) = Absent
  BY <1>4, <1>6 DEF HasMade, StateOf, x
<1> QED  BY <1>1, <1>2, <1>3, <1>7 DEF SameMachine

\* A directory that is missing is created, with its parents that are missing.
LEMMA MkdirNewSound ==
  ASSUME NEW c, IsMkdir(c), NEW w, IsMachine(w), Solid(w, c.target), ~Exists(w, c.target)
  PROVE  Sound(c, w)
<1> DEFINE t == c.target
           L == Len(t)
<1>0. c.kind = "fs.mkdir" /\ t \in Seq(STRING) /\ t # << >> /\ L \in Nat /\ L >= 1 /\ \A j \in 1..L : t[j] # Staged
  BY DEF IsMkdir, MkdirConfig, Path
<1>1. /\ \A m : Handler(c, m) = FsMkdir(m, c) /\ (Goal(c, w, m) <=> MkdirGot(c, w, m))
      /\ Except(c, w) = {} /\ \A u, m : Spares(c, u, m)
      /\ c.kind \notin Assertions
  <2>1. c.kind \in FsKinds
    BY <1>0 DEF FsKinds
  <2> QED  BY <1>0, <2>1, FsSound, MkdirGoalIs
<1>2. PICK f \in 1..L : Missing(w, t, f)
  <2>1. PICK f \in 1..(L + 1) : Missing(w, t, f)
    BY <1>0, MissingFrom
  <2>2. f # L + 1
    <3>1. Pre(t, L) = t
      BY <1>0, PreIs
    <3>2. (L + 1) - 1 = L /\ L + 1 > 1
      BY <1>0
    <3> QED  BY <2>1, <3>1, <3>2 DEF Missing
  <2> QED  BY <2>1, <2>2
<1>3. f \in Nat /\ f >= 1 /\ f <= L + 1 /\ f <= L
  BY <1>0, <1>2
<1>4. CASE f > 1 /\ ~IsDir(w, Pre(t, f - 1))
  <2>1. Throw = Handler(c, w)
    BY <1>0, <1>1, <1>2, <1>3, <1>4, MkdirIs
  <2> QED  BY <1>1, <2>1, NothingIs, SoundIdle
<1>5. CASE f > 1 => IsDir(w, Pre(t, f - 1))
  <2>1. PICK g \in (f - 1)..L : Allowed(c, f, g)
    BY <1>0, <1>2, AllowedTo
  <2> DEFINE e == Made(c, f, g)
             K == g - f + 1
             End == After(w, e)
  <2>2. e = FsMkdir(w, c) /\ e = Handler(c, w)
    BY <1>0, <1>1, <1>2, <1>3, <1>5, <2>1, MkdirIs
  <2>3. g \in Nat /\ f <= g + 1 /\ K \in Nat /\ f + K - 1 = g
    BY <1>3, <2>1
  <2>4. IsEffect(e) /\ Makes(e, c, f, g) /\ ~e.fails
    BY <1>3, <2>3, MadeIs
  <2>5. Len(e.do) = K
    BY <2>4 DEF Makes
  <2>6. ASSUME NEW k \in 0..K, NEW n, n = After(w, Upto(e, k))
        PROVE  /\ IsEffect(FsMkdir(n, c)) /\ Remains(FsMkdir(n, c), e, k) /\ ~FsMkdir(n, c).fails
               /\ FsMkdir(n, c).status <=> k < K
               /\ Stands(n, c, f, f + k - 1) /\ HasMade(w, n, c, f, k)
    BY <1>0, <1>2, <1>5, <2>1, <2>6, MkdirRest
  <2> HIDE DEF e
  <2>7. RestsOf(c, w, e)
    <3> SUFFICES ASSUME NEW k \in 0..Len(e.do)
                 PROVE  \E x : /\ x = Handler(c, After(w, Upto(e, k))) /\ IsEffect(x)
                               /\ x.fails = e.fails /\ Remains(x, e, k)
      BY DEF RestsOf
    <3> DEFINE n == After(w, Upto(e, k))
               x == FsMkdir(n, c)
    <3>1. k \in 0..K
      BY <2>5
    <3>2. IsEffect(x) /\ Remains(x, e, k) /\ ~x.fails
      BY <2>6, <3>1
    <3>3. x = Handler(c, n)
      BY <1>1
    <3> HIDE DEF x, K
    <3>4. x.fails \in BOOLEAN /\ e.fails \in BOOLEAN
      BY <2>4, <3>2, EffectType
    <3>5. x.fails = e.fails
      BY <2>4, <3>2, <3>4
    <3> QED  BY <3>2, <3>3, <3>5
  <2>8. Resumes(c, w)
    BY <2>2, <2>4, <2>7, SoundRest
  <2>9. End = After(w, Upto(e, K))
    BY <2>4, <2>5, UptoAll
  <2>10. Stands(End, c, f, g) /\ HasMade(w, End, c, f, K)
    BY <2>3, <2>6, <2>9
  <2>11. Final(c, w) = End
    BY <2>2 DEF Final
  <2>12. Tells(c, w)
    <3> SUFFICES ASSUME NEW m \in Cuts(w, e) PROVE Handler(c, m).status <=> ~SameMachine(End, m)
      BY <2>2, <2>11 DEF Tells
    <3>1. PICK k \in 0..K : m = After(w, Upto(e, k))
      BY <2>5 DEF Cuts
    <3>2. (Handler(c, m).status <=> k < K) /\ HasMade(w, m, c, f, k)
      BY <1>1, <2>6, <3>1
    <3>3. k < K => ~SameMachine(End, m)
      <4> HIDE DEF End
      <4> QED  BY <1>0, <1>2, <2>1, <2>10, <3>2, MkdirDiffers
    <3>4. k = K => SameMachine(End, m)
      BY <2>9, <3>1 DEF SameMachine
    <3> QED  BY <2>3, <3>2, <3>3, <3>4
  <2>13. MkdirGot(c, w, End)
    <3> SUFFICES ASSUME c.exclude = {} PROVE IsDir(End, t) /\ HasMode(End, t, c.mode) /\ HasOwner(End, t, c.owner)
      BY DEF MkdirGot
    <3>1. g = L
      BY <2>1, <2>3 DEF Allowed
    <3>2. At(End, t) = Dir(Or(c.mode, DirMode), Or(c.owner, Me))
      <4>1. L \in f..g /\ Pre(t, L) = t
        BY <1>0, <1>3, <3>1, PreIs
      <4> QED  BY <2>10, <4>1 DEF Stands, MkdirDir
    <3> HIDE DEF End
    <3> QED  BY <3>2 DEF IsDir, HasMode, HasOwner, Dir, Or
  <2>14. Gets(c, w)
    BY <1>1, <2>2, <2>4, <2>11, <2>13 DEF Gets
  <2>15. Keeps(c, w)
    BY <1>1 DEF Keeps
  <2> QED  BY <2>8, <2>12, <2>14, <2>15 DEF Sound
<1> QED  BY <1>4, <1>5

\* A directory that is there gets the owner and the mode asked for, each when
\* it has another.
LEMMA ChownedIs ==
  ASSUME NEW m, NEW p, NEW x, NEW y, At(m, p) = Dir(x, y), NEW o, NEW e, e = Chowned(m, p, o, Dir(x, y))
  PROVE  /\ o = Unset \/ y = o => e = Nothing
         /\ o # Unset /\ y # o => e = Run(Real(m, p) := Dir(x, o))
<1> DEFINE d == Dir(x, y)
           R == Run(Real(m, p) := Dir(x, o))
<1>1. d # Absent /\ d.owner = y /\ [d EXCEPT !.owner = o] = Dir(x, o)
  BY DEF Dir, Absent
<1>2. BaseChown(m, p, o) = R
  BY <1>1 DEF BaseChown, Exists
<1> HIDE DEF d, R
<1>3. FsChown(m, p, o, d) = When(y # o, R)
  BY <1>1, <1>2 DEF FsChown
<1>4. /\ o = Unset \/ y = o => Chowned(m, p, o, d) = Nothing
      /\ o # Unset /\ y # o => Chowned(m, p, o, d) = R
  BY <1>3 DEF Chowned, When
<1> QED  BY <1>4 DEF R, d

LEMMA ChmodedIs ==
  ASSUME NEW m, NEW p, NEW x, NEW y, At(m, p) = Dir(x, y), NEW z, NEW q, NEW o, NEW e, e = Chmoded(m, p, o, Dir(z, q))
  PROVE  /\ o = Unset \/ z = o => e = Nothing
         /\ o # Unset /\ z # o => e = Run(Real(m, p) := Dir(o, y))
<1> DEFINE d == Dir(x, y)
           k == Dir(z, q)
           R == Run(Real(m, p) := Dir(o, y))
<1>1. d # Absent /\ [d EXCEPT !.mode = o] = Dir(o, y) /\ k # Absent /\ k.mode = z
  BY DEF Dir, Absent
<1>2. BaseChmod(m, p, o) = R
  BY <1>1 DEF BaseChmod, Exists
<1> HIDE DEF d, R, k
<1>3. FsChmod(m, p, o, k) = When(z # o, R)
  BY <1>1, <1>2 DEF FsChmod
<1>4. /\ o = Unset \/ z = o => Chmoded(m, p, o, k) = Nothing
      /\ o # Unset /\ z # o => Chmoded(m, p, o, k) = R
  BY <1>3 DEF Chmoded, When
<1> QED  BY <1>4 DEF R, k

\* What is written, when the mode and the owner are known.
Wanting(option, is) == option # Unset /\ is # option

LEMMA MkdirSets ==
  ASSUME NEW m, IsMachine(m), NEW c, c.target # << >>, c.force, NEW x, NEW y, At(m, c.target) = Dir(x, y),
         NEW r, r = Real(m, c.target), NEW e, e = MkdirThere(m, c)
  PROVE  /\ IsEffect(e) /\ ~e.fails
         /\ ~Wanting(c.owner, y) /\ ~Wanting(c.mode, x) => e.do = << >> /\ ~e.status
         /\ Wanting(c.owner, y) /\ ~Wanting(c.mode, x) => e.do = <<r := Dir(x, c.owner)>> /\ e.status
         /\ ~Wanting(c.owner, y) /\ Wanting(c.mode, x) => e.do = <<r := Dir(c.mode, y)>> /\ e.status
         /\ Wanting(c.owner, y) /\ Wanting(c.mode, x) =>
              e.do = <<r := Dir(x, c.owner), r := Dir(c.mode, c.owner)>> /\ e.status
<1> DEFINE p == c.target
           d == Dir(x, y)
           f == Chowned(m, p, c.owner, d)
           n == After(m, f)
           g == Chmoded(n, p, c.mode, d)
           v == Dir(x, c.owner)
           V == r := v
<1>1. e = Then(m, f, LAMBDA u : Chmoded(u, p, c.mode, d))
  BY DEF MkdirThere, When
<1>2. ~f.fails => e = f \bullet g
  BY <1>1 DEF Then
<1>3. CASE ~Wanting(c.owner, y)
  <2>1. f = Nothing
    <3>1. c.owner = Unset \/ y = c.owner
      BY <1>3 DEF Wanting
    <3> QED  BY <3>1, ChownedIs
  <2>2. n = m /\ ~Nothing.fails
    BY <2>1, NothingIs, AfterNone
  <2>3. /\ ~Wanting(c.mode, x) => g = Nothing
        /\ Wanting(c.mode, x) => g = Run(r := Dir(c.mode, y))
    BY <2>2, ChmodedIs DEF Wanting
  <2> HIDE DEF f, g, n
  <2>4. e = Nothing \bullet g
    BY <1>2, <2>1, <2>2
  <2>5. CASE ~Wanting(c.mode, x)
    BY <1>3, <2>3, <2>4, <2>5, NothingIs, NothingFirst
  <2>6. CASE Wanting(c.mode, x)
    <3> DEFINE W == r := Dir(c.mode, y)
    <3>1. g = Run(W)
      BY <2>3, <2>6
    <3> HIDE DEF W
    <3>2. IsEffect(g) /\ g.do = <<W>> /\ g.status /\ ~g.fails
      BY <3>1, RunIs
    <3>3. IsEffect(e) /\ e.do = g.do /\ e.status = g.status /\ e.fails = g.fails
      BY <2>4, <3>2, NothingFirst
    <3>4. IsEffect(e) /\ e.do = <<W>> /\ e.status /\ ~e.fails
      BY <3>2, <3>3
    <3> QED  BY <1>3, <2>6, <3>4 DEF W
  <2> QED  BY <2>5, <2>6
<1>4. CASE Wanting(c.owner, y)
  <2>1. f = Run(V)
    BY <1>4, ChownedIs DEF Wanting
  <2> HIDE DEF V
  <2>2. IsEffect(f) /\ f.do = <<V>> /\ f.status /\ ~f.fails
    BY <2>1, RunIs
  <2>3. n = Put(m, V)
    <3> HIDE DEF f
    <3> QED  BY <2>2, CutsOne
  <2>4. Real(n, p) = r /\ At(n, p) = v
    <3>1. At(m, p).type # "link" /\ v.type # "link"
      BY DEF Dir
    <3> HIDE DEF v, n
    <3>2. n = Put(m, Real(m, p) := v)
      BY <2>3 DEF V
    <3> QED  BY <3>1, <3>2, AtPut
  <2>5. /\ ~Wanting(c.mode, x) => g = Nothing
        /\ Wanting(c.mode, x) => g = Run(r := Dir(c.mode, c.owner))
    <3> HIDE DEF n
    <3> QED  BY <2>4, ChmodedIs DEF Wanting
  <2> HIDE DEF f, g, n
  <2>6. e = f \bullet g
    BY <1>2, <2>2
  <2>7. CASE ~Wanting(c.mode, x)
    <3>1. IsEffect(g) /\ g.do = << >> /\ ~g.fails /\ g.status \in BOOLEAN
      BY <2>5, <2>7, NothingIs, EffectType
    <3>2. IsEffect(e) /\ e.fails = g.fails /\ e.status = (f.status \/ g.status) /\ e.do = <<V>>
      BY <2>2, <2>6, <3>1, BothAre
    <3>3. IsEffect(e) /\ e.do = <<V>> /\ e.status /\ ~e.fails
      BY <2>2, <3>1, <3>2
    <3> QED  BY <1>4, <2>7, <3>3 DEF V
  <2>8. CASE Wanting(c.mode, x)
    <3> DEFINE W == r := Dir(c.mode, c.owner)
    <3>1. g = Run(W)
      BY <2>5, <2>8
    <3> HIDE DEF W
    <3>2. IsEffect(g) /\ g.do = <<W>> /\ g.status /\ ~g.fails
      BY <3>1, RunIs
    <3>3. IsEffect(e) /\ e.fails = g.fails /\ e.status = (f.status \/ g.status) /\ e.do = <<V, W>>
      BY <2>2, <2>6, <3>2, BothAre
    <3>4. IsEffect(e) /\ e.do = <<V, W>> /\ e.status /\ ~e.fails
      BY <2>2, <3>2, <3>3
    <3> QED  BY <1>4, <2>8, <3>4 DEF V, W
  <2> QED  BY <2>7, <2>8
<1> QED  BY <1>3, <1>4

\* A directory that is there is left, or gets the attributes asked for.
LEMMA MkdirOldSound ==
  ASSUME NEW c, IsMkdir(c), NEW w, IsFileSystem(w), Exists(w, c.target), Leads(w, c.target)
  PROVE  Sound(c, w)
<1> DEFINE t == c.target
           L == Len(t)
           a == At(w, t)
           r == Real(w, t)
           x == a.mode
           y == a.owner
<1>0. /\ c.kind = "fs.mkdir" /\ t \in Seq(STRING) /\ t # << >> /\ L \in Nat /\ L >= 1 /\ IsMachine(w) /\ Last(r) # Staged
      /\ c.force \in BOOLEAN
  BY DEF IsMkdir, MkdirConfig, Path, IsFileSystem, Leads
<1>1. /\ \A m : Handler(c, m) = FsMkdir(m, c) /\ (Goal(c, w, m) <=> MkdirGot(c, w, m))
      /\ Except(c, w) = {} /\ \A u, m : Spares(c, u, m)
      /\ c.kind \notin Assertions
  <2>1. c.kind \in FsKinds
    BY <1>0 DEF FsKinds
  <2> QED  BY <1>0, <2>1, FsSound, MkdirGoalIs
<1>2. ASSUME NEW m, Exists(m, t)
      PROVE  /\ ~IsDir(m, t) => Handler(c, m) = Throw
             /\ IsDir(m, t) => Handler(c, m) = MkdirThere(m, c)
  <2> DEFINE f == L + 1
  <2>1. Pre(t, f - 1) = t /\ f \in Nat /\ f > 1 /\ f >= 1 /\ f <= L + 1 /\ f = L + 1
    BY <1>0, PreIs
  <2>2. Missing(m, t, f)
    BY <1>2, <2>1 DEF Missing
  <2> HIDE DEF f
  <2>3. /\ ~IsDir(m, Pre(t, f - 1)) => FsMkdir(m, c) = Throw
        /\ IsDir(m, Pre(t, f - 1)) => FsMkdir(m, c) = MkdirThere(m, c)
    BY <1>0, <2>1, <2>2, MkdirIs
  <2> QED  BY <1>1, <2>1, <2>3
<1>3. CASE ~IsDir(w, t)
  <2>1. Throw = Handler(c, w)
    BY <1>2, <1>3
  <2> QED  BY <1>0, <1>1, <2>1, NothingIs, SoundIdle
<1>4. CASE IsDir(w, t)
  <2>1. a = Dir(x, y) /\ StateOf(w, r) = a
    <3>1. a = StateOf(w, r) /\ IsNode(a) /\ a.type = "dir"
      BY <1>4, AtIs DEF IsDir, IsFileSystem, StateOf, IsNode, Leads
    <3> HIDE DEF a
    <3> QED  BY <3>1 DEF IsNode, Absent
  <2>2. MkdirThere(w, c) = Handler(c, w)
    BY <1>2, <1>4
  <2>3. CASE ~c.force
    <3>1. Nothing = Handler(c, w)
      BY <2>2, <2>3 DEF MkdirThere, When
    <3>2. Goal(c, w, w)
      BY <1>1, <1>4, <2>3 DEF MkdirGot
    <3> QED  BY <1>0, <1>1, <3>1, <3>2, NothingIs, SoundIdle
  <2>4. CASE c.force
    <3> HIDE DEF a, r, x, y
    <3> DEFINE X == Or(c.mode, x)
               Y == Or(c.owner, y)
               v == Dir(X, Y)
               o == Dir(x, Y)
    <3>1. /\ X = IF Wanting(c.mode, x) THEN c.mode ELSE x
          /\ Y = IF Wanting(c.owner, y) THEN c.owner ELSE y
      BY DEF Or, Wanting
    <3>2. ~Wanting(c.mode, X) /\ ~Wanting(c.owner, Y) /\ (Wanting(c.mode, x) => X # x) /\ (Wanting(c.owner, y) => Y # y)
      BY DEF Or, Wanting
    <3>3. ASSUME NEW m, IsMachine(m), Real(m, t) = r, NEW i, NEW j, At(m, t) = Dir(i, j)
          PROVE  LET e == Handler(c, m)
                 IN  /\ IsEffect(e) /\ ~e.fails
                     /\ ~Wanting(c.owner, j) /\ ~Wanting(c.mode, i) => e.do = << >> /\ ~e.status
                     /\ Wanting(c.owner, j) /\ ~Wanting(c.mode, i) => e.do = <<r := Dir(i, c.owner)>> /\ e.status
                     /\ ~Wanting(c.owner, j) /\ Wanting(c.mode, i) => e.do = <<r := Dir(c.mode, j)>> /\ e.status
                     /\ Wanting(c.owner, j) /\ Wanting(c.mode, i) =>
                          e.do = <<r := Dir(i, c.owner), r := Dir(c.mode, c.owner)>> /\ e.status
      <4>1. Dir(i, j) # Absent /\ Dir(i, j).type = "dir"
        BY DEF Dir, Absent
      <4>2. Handler(c, m) = MkdirThere(m, c)
        BY <1>2, <3>3, <4>1 DEF Exists, IsDir
      <4> QED  BY <1>0, <2>4, <3>3, <4>2, MkdirSets
    <3>4. At(w, t) = Dir(x, y) /\ StateOf(w, r) = Dir(x, y) /\ Real(w, t) = r
      BY <2>1 DEF a, r
    <3>5. ASSUME NEW m, At(m, t) = v PROVE MkdirGot(c, w, m)
      <4>1. v.type = "dir" /\ HasMode(m, t, c.mode) /\ HasOwner(m, t, c.owner)
        BY <3>5 DEF Dir, HasMode, HasOwner, Or
      <4> QED  BY <3>5, <4>1 DEF MkdirGot, IsDir
    <3>6. ASSUME NEW m, IsMachine(m), Real(m, t) = r, At(m, t).type # "link", NEW i, NEW j, NEW n, n = Put(m, r := Dir(i, j))
          PROVE  /\ IsMachine(n) /\ Real(n, t) = r /\ At(n, t) = Dir(i, j)
                 /\ StateOf(n, r) = Dir(i, j) /\ \A q : q # r => StateOf(n, q) = StateOf(m, q)
                 /\ r \in DOMAIN n /\ \A q : q # r => (q \in DOMAIN n <=> q \in DOMAIN m)
      <4> DEFINE b == Dir(i, j)
      <4>1. b.type # "link" /\ n = Put(m, r := b)
        BY <3>6 DEF Dir
      <4> HIDE DEF b
      <4>2. /\ r \in DOMAIN n /\ StateOf(n, r) = b /\ \A q : q # r => StateOf(n, q) = StateOf(m, q)
            /\ \A q : q # r => (q \in DOMAIN n <=> q \in DOMAIN m)
            /\ IsMachine(n)
        BY <4>1 DEF Put, ++, :=, StateOf, IsMachine
      <4>3. n = Put(m, Real(m, t) := b)
        BY <3>6, <4>1
      <4>4. Real(n, t) = r /\ At(n, t) = b
        BY <1>0, <3>6, <4>1, <4>3, AtPut
      <4> QED  BY <4>2, <4>4 DEF b
    <3>7. At(w, t).type # "link" /\ \A i, j : Dir(i, j).type # "link" /\ Dir(i, j).mode = i /\ Dir(i, j).owner = j
      BY <3>4 DEF Dir
    <3>8. CASE ~Wanting(c.owner, y) /\ ~Wanting(c.mode, x)
      <4> DEFINE e == Handler(c, w)
      <4>1. IsEffect(e) /\ ~e.fails /\ e.do = << >> /\ ~e.status
        BY <1>0, <3>3, <3>4, <3>8
      <4>2. Goal(c, w, w)
        BY <1>1, <3>1, <3>4, <3>5, <3>8
      <4> HIDE DEF e
      <4> QED  BY <1>0, <1>1, <4>1, <4>2, SoundIdle DEF e
    <3>9. CASE ~(Wanting(c.owner, y) /\ Wanting(c.mode, x)) /\ (Wanting(c.owner, y) \/ Wanting(c.mode, x))
      <4> DEFINE e == Handler(c, w)
                 n == Put(w, r := v)
                 g == Handler(c, n)
      <4>1. IsEffect(e) /\ ~e.fails /\ e.do = <<r := v>> /\ e.status
        BY <1>0, <3>1, <3>3, <3>4, <3>9
      <4>2. IsMachine(n) /\ Real(n, t) = r /\ At(n, t) = v
        BY <1>0, <3>4, <3>6, <3>7
      <4>3. IsEffect(g) /\ ~g.fails /\ g.do = << >> /\ ~g.status
        <5> HIDE DEF n, X, Y
        <5> QED  BY <3>2, <3>3, <4>2
      <4>4. Goal(c, w, n)
        BY <1>1, <3>5, <4>2
      <4>5. StateOf(w, r) # v
        <5> HIDE DEF X, Y
        <5> QED  BY <3>2, <3>4, <3>7, <3>9
      <4>6. n = Put(w, r := v)
        OBVIOUS
      <4> HIDE DEF e, n, g, v
      <4> QED  BY <1>0, <1>1, <4>1, <4>3, <4>4, <4>5, <4>6, SoundSet DEF e, g
    <3>10. CASE Wanting(c.owner, y) /\ Wanting(c.mode, x)
      <4> DEFINE e == Handler(c, w)
                 V == r := o
                 W == r := v
                 m == Put(w, V)
                 n == Put(m, W)
                 f == Handler(c, m)
                 g == Handler(c, n)
      <4>1. IsEffect(e) /\ ~e.fails /\ e.do = <<V, W>> /\ e.status
        BY <1>0, <3>1, <3>3, <3>4, <3>10
      <4>2. IsMachine(m) /\ Real(m, t) = r /\ At(m, t) = o /\ StateOf(m, r) = o /\ r \in DOMAIN m
        BY <1>0, <3>4, <3>6, <3>7
      <4>3. IsMachine(n) /\ Real(n, t) = r /\ At(n, t) = v /\ StateOf(n, r) = v /\ r \in DOMAIN n
        <5>1. At(m, t).type # "link"
          BY <3>7, <4>2
        <5> HIDE DEF m
        <5> QED  BY <3>6, <4>2, <5>1
      <4>4. IsEffect(f) /\ ~f.fails /\ f.do = <<W>> /\ f.status
        <5>1. X = c.mode
          BY <3>1, <3>10
        <5> HIDE DEF m, Y, X
        <5> QED  BY <3>2, <3>3, <3>10, <4>2, <5>1
      <4>5. IsEffect(g) /\ ~g.fails /\ g.do = << >> /\ ~g.status
        <5> HIDE DEF n, X, Y
        <5> QED  BY <3>2, <3>3, <4>3
      <4>6. Goal(c, w, n)
        BY <1>1, <3>5, <4>3
      <4>7. StateOf(w, r) # v /\ StateOf(m, r) # v
        <5> HIDE DEF X, Y, m
        <5> QED  BY <3>2, <3>4, <3>7, <3>10, <4>2
      <4>8. ~SameMachine(n, w) /\ ~SameMachine(n, m)
        <5> HIDE DEF n, m, v
        <5> QED  BY <1>0, <4>3, <4>7 DEF SameMachine
      <4>9. m = Put(w, V) /\ n = Put(m, W)
        OBVIOUS
      <4> HIDE DEF e, V, W, m, n, f, g
      <4> QED  BY <1>0, <1>1, <4>1, <4>4, <4>5, <4>6, <4>8, <4>9, SoundTwo
               DEF e, f, g
    <3> QED  BY <3>8, <3>9, <3>10
  <2> QED  BY <1>0, <2>3, <2>4
<1> QED  BY <1>3, <1>4

\* A directory that is there or that is missing.
LEMMA MkdirSound ==
  ASSUME NEW c, IsMkdir(c), NEW w, IsFileSystem(w), Solid(w, c.target), Exists(w, c.target) => Leads(w, c.target)
  PROVE  Sound(c, w)
BY MkdirNewSound, MkdirOldSound DEF IsFileSystem

-----------------------------------------------------------------------------
(***************************************************************************)
(* The actions, with the machines, whose handlers are known to give all    *)
(* that they promise: no name is that of a staged file, and the resources  *)
(* of the machine have the states of their kind.                           *)
(***************************************************************************)
CoversFiles(c, w) ==
  \/ c.kind \in {"fs.chmod", "fs.chown"} /\ IsFileSystem(w) /\ Leads(w, c.target)
  \/ c.kind = "fs.remove" /\ c.target # << >> /\ Last(c.target) # Staged
  \/ /\ IsMkdir(c) /\ IsFileSystem(w) /\ Solid(w, c.target)
     /\ Exists(w, c.target) => Leads(w, c.target)

CoversDatabases(c, w) ==
  \/ c.kind \in DbLookKinds
  \/ c \in DbUserConfig /\ c.name # Staged
  \/ c \in DbUserNameConfig /\ c.kind = "db.user.remove"
  \/ c \in DbDatabaseNameConfig /\ c.kind = "db.database.remove"
  \/ c \in DbSchemaNameConfig /\ c.kind = "db.schema.remove" /\ c.name # Staged

CoversContainers(c, w) ==
  \/ c.kind \in DockerLookKinds
  \/ c \in DockerVolConfig \cup DockerRmConfig /\ c.name # Staged
  \/ /\ c \in DockerNameConfig /\ c.kind \in {"docker.start", "docker.stop", "docker.kill", "docker.restart"}
     /\ c.name # Staged /\ HasBoxes(w)

CoversAccounts(c, w) ==
  \/ c \in RemoveAccountConfig \cup GroupConfig /\ c.name # Staged
  \/ c \in UidGidConfig

CoversServices(c, w) ==
  /\ c \in ServiceNameConfig /\ HasServices(w)
  /\ \/ c.kind \in {"service.status", "service.restart"}
     \/ c.kind \in {"service.start", "service.stop"} /\ c.name # Staged

CoversDirectories(c, w) ==
  \/ c.kind \in IpaLookKinds
  \/ /\ c \in IpaNameConfig /\ c.name # Staged
     /\ \/ c.kind \in IpaDelKinds \cup {"ipa.service"}
        \/ /\ c.kind \in {"ipa.user.disable", "ipa.user.enable"}
           /\ There(w, Ipa("user", c.name)) => IsIpaEntry(w[Ipa("user", c.name)])

CoversInstances(c, w) ==
  \/ c.kind \in LxdCloserKinds
  \/ c \in LxcDeleteConfig /\ c.name # Staged
  \/ c \in LxcNetworkNameConfig /\ c.kind = "lxc.network.delete" /\ c.network # Staged
  \/ c \in LxcVolumeConfig /\ c.volume # Staged
  \/ c \in LxcVolumeNameConfig /\ c.kind = "lxc.storage.volume.delete" /\ c.volume # Staged
  \/ /\ \/ c \in LxcNameConfig /\ c.kind = "lxc.start"
        \/ c \in LxcStopConfig
        \/ c \in LxcDeviceNameConfig /\ c.kind = "lxc.config.device.delete"
        \/ c \in LxcNicConfig /\ c.kind = "lxc.network.attach"
     /\ c.name # Staged /\ HasInstances(w)

CoversAssertions(c, w) == c \in AssertConfig \cup TcpAssertConfig

Covers(c, w) ==
  /\ IsMachine(w)
  /\ \/ CoversFiles(c, w) \/ CoversDatabases(c, w) \/ CoversContainers(c, w) \/ CoversInstances(c, w)
     \/ CoversAccounts(c, w) \/ CoversServices(c, w) \/ CoversDirectories(c, w) \/ CoversAssertions(c, w)

LEMMA CoversSound ==
  ASSUME NEW c, NEW w, Covers(c, w)
  PROVE  Sound(c, w)
<1>1. IsMachine(w)
  BY DEF Covers
<1>2. CASE CoversFiles(c, w)
  BY <1>1, <1>2, ChmodSound, ChownSound, RemoveSound, MkdirSound
  DEF CoversFiles
<1>3. CASE CoversDatabases(c, w)
  BY <1>1, <1>3, DbLookSound, DbUserSound, DbUserRemoveSound,
     DbDatabaseRemoveSound, DbSchemaRemoveSound
     DEF CoversDatabases
<1>4. CASE CoversContainers(c, w)
  BY <1>1, <1>4, DockerLookSound, DockerVolumeSound, DockerRmSound,
     DockerNameSound DEF CoversContainers
<1>5. CASE CoversAccounts(c, w)
  BY <1>1, <1>5, AccountRemoveSound, GroupSound, UidGidSound DEF CoversAccounts
<1>6. CASE CoversServices(c, w)
  BY <1>1, <1>6, ServiceStatusSound, ServiceRestartSound, ServiceSwitchSound
  DEF CoversServices
<1>7. CASE CoversDirectories(c, w)
  BY <1>1, <1>7, IpaLookSound, IpaDelSound, IpaServiceSound, IpaLockSound
  DEF CoversDirectories
<1>8. CASE CoversInstances(c, w)
  BY <1>1, <1>8, LxdLookSound, LxcStartSound, LxcStopSound, LxcDeleteSound,
     LxcNetworkDeleteSound, LxcVolumeSound,
     LxcVolumeDeleteSound, LxcDeviceDeleteSound, LxcNetworkAttachSound DEF CoversInstances
<1>9. CASE CoversAssertions(c, w)
  BY <1>1, <1>9, AssertSound, TcpAssertSound DEF CoversAssertions
<1> QED  BY <1>2, <1>3, <1>4, <1>5, <1>6, <1>7, <1>8, <1>9 DEF Covers

\* The action and the machine of a behaviour are such.
Covered == Covers(job, case.machine)

LEMMA CoveredIs ==
  ASSUME Covered
  PROVE  Resumable /\ Telling /\ Getting /\ Keeping
BY CoversSound DEF Covered, Sound, Resumable, Telling, Getting, Keeping

\* Delivers, of every action that is covered, whatever its names, its options,
\* the machine and the number of cuts: what it promises holds when it is
\* fulfilled.
THEOREM CoveredDelivers == Covered /\ Spec => []Delivers
BY CoveredIs, ProvisionDelivers

\* Converges: fulfilled after runs that were cut anywhere, it has what it
\* promises.
THEOREM CoveredConverges == Covered /\ Spec => []Converges
BY CoveredIs, ProvisionConverges

\* StatusTells: its status tells whether this run changed the machine.
THEOREM CoveredStatusTells == Covered /\ Spec => []StatusTells
BY CoveredIs, ProvisionStatusTells

\* QuietAgain: run again after it was fulfilled, it changes nothing.
THEOREM CoveredQuietAgain == Covered /\ Spec => QuietAgain
BY CoveredIs, ProvisionQuietAgain

\* Repairable: a run that was cut does not make the next one fail.
THEOREM CoveredRepairable == Covered /\ Spec => Repairable
BY CoveredIs, ProvisionRepairable

\* LeavesTheRest: what it is not asked to change is as it was.
THEOREM CoveredLeavesTheRest == Covered /\ Spec => []LeavesTheRest
BY CoveredIs, ProvisionLeavesTheRest
=============================================================================
