---------------------------- MODULE WaitingProofs ----------------------------
(***************************************************************************)
(* Theorems about Waiting, for any number of things waited for and any     *)
(* configuration.                                                          *)
(***************************************************************************)
EXTENDS Waiting, FiniteSetTheorems, TLAPS

Phases ==
  /\ conf.kind = "execute" => phase \in {"look", "sleep"} \cup Over
  /\ conf.kind = "fs" => phase \in {"look", "again", "fulfilled"}
  /\ conf.kind = "http" => phase \in {"look", "sleep", "fulfilled"}
  /\ conf.kind = "tcp" => phase \in {"wait"} \cup Over

ExecuteInv ==
  conf.kind = "execute" =>
    /\ left = Slot \ seen
    /\ \A s \in left : s < next => missed
    /\ conf.retry # Unset => attempts <= conf.retry
    /\ phase # "rejected" => attempts >= 1
    /\ attempts > 1 /\ Quorum <= N => missed
    /\ attempts <= 1 /\ missed => \E s \in left : s < next
    /\ phase = "sleep" => next = N + 1 /\ Cardinality(left) > N - Quorum
    /\ phase = "fulfilled" => /\ Cardinality(left) <= N - Quorum
                              /\ status <=> attempts > 1
    /\ phase = "rejected" /\ ~conf.strict =>
         /\ attempts = conf.retry
         /\ conf.retry > 0 => Cardinality(left) > N - Quorum

FsInv ==
  conf.kind = "fs" =>
    /\ \A s \in Slot : s < next => s \in seen
    /\ phase = "again" => missed /\ next <= N
    /\ phase = "fulfilled" => next = N + 1
    /\ status => missed

HttpInv ==
  conf.kind = "http" =>
    /\ phase = "look" => (attempts > 0 <=> missed)
    /\ phase = "sleep" => missed
    /\ phase = "fulfilled" => 1 \in seen /\ (status <=> missed)

Told == {s \in Slot : proc[s] \in {"check", "flag", "exit"}}

\* No process removed the markers yet: each left its loop on its own.
MarkersStand ==
  \A s \in Slot :
    /\ proc[s] \in {"probe", "sleep"} => s \in marker
    /\ proc[s] \in {"tell", "check", "flag", "exit"} => s \in seen

TcpInv ==
  conf.kind = "tcp" =>
    /\ \A s \in Slot : tried[s] => missed
    /\ signal = 0 \/ status => missed
    /\ lines <= 1 + Cardinality(Told)
    /\ phase \in Over => \A s \in Slot : proc[s] = "exit"
    /\ ~conf.timeout => signal # 2 /\ (Cardinality(seen) >= Enough \/ MarkersStand)

IInv == TypeOK /\ Phases /\ ExecuteInv /\ FsInv /\ HttpInv /\ TcpInv

-----------------------------------------------------------------------------
LEMMA Sizes ==
  /\ N \in Nat /\ N > 0
  /\ 1 \in Slot
  /\ Slot \subseteq Nat
  /\ IsFiniteSet(Slot) /\ Cardinality(Slot) = N
<1>1. N \in Nat /\ N > 0
  BY WaitingAssumption DEF N
<1>2. IsFiniteSet(1..N) /\ Cardinality(1..N) = N
  BY <1>1, FS_Interval
<1> QED  BY <1>1, <1>2 DEF Slot

LEMMA Subsets ==
  ASSUME NEW S \in SUBSET Slot
  PROVE  /\ IsFiniteSet(S)
         /\ Cardinality(S) \in Nat /\ Cardinality(S) <= N
         /\ Cardinality(Slot \ S) = N - Cardinality(S)
<1>1. IsFiniteSet(S)
  BY Sizes, FS_Subset
<1>2. Cardinality(S) \in Nat /\ Cardinality(S) <= N
  BY <1>1, Sizes, FS_Subset, FS_CardinalityType
<1>3. Cardinality(Slot \ S) = Cardinality(Slot) - Cardinality(Slot \cap S)
  BY Sizes, FS_Difference
<1>4. Slot \cap S = S
  OBVIOUS
<1> QED  BY <1>1, <1>2, <1>3, <1>4, Sizes

LEMMA Larger ==
  ASSUME NEW S \in SUBSET Slot, NEW R \in SUBSET Slot, S \subseteq R
  PROVE  Cardinality(S) <= Cardinality(R)
BY Subsets, FS_Subset

LEMMA Options ==
  ASSUME conf \in Config
  PROVE  /\ conf.kind \in {"execute", "fs", "tcp", "http"}
         /\ conf.quorum \in Nat \cup {Unset, Majority}
         /\ conf.retry \in Nat \cup {Unset}
         /\ conf.strict \in BOOLEAN
         /\ conf.timeout \in BOOLEAN
         /\ conf.kind # "execute" => conf.retry = Unset
         /\ conf.kind \in {"fs", "http"} => Quorum = N
         /\ Quorum \in Nat
         /\ Enough \in Nat /\ (conf.kind = "tcp" => Enough <= N)
<1>1. /\ conf.kind \in {"execute", "fs", "tcp", "http"}
      /\ conf.quorum \in Nat \cup {Unset, Majority}
      /\ conf.retry \in Nat \cup {Unset}
      /\ conf.strict \in BOOLEAN
      /\ conf.timeout \in BOOLEAN
      /\ conf.kind # "execute" => conf.retry = Unset
      /\ conf.kind \in {"fs", "http"} => conf.quorum = Unset
  BY WaitingAssumption
<1>2. /\ Quorum \in Nat
      /\ conf.kind \in {"fs", "http"} => Quorum = N
  <2>1. (N + 2) \div 2 \in Nat /\ (N + 1) \div 2 \in Nat
    BY Sizes
  <2> QED  BY <1>1, <2>1, Sizes DEF Quorum, MajorityOf, TcpMajorityOf, Unset, Majority
<1>3. Enough \in Nat /\ (conf.kind = "tcp" => Enough <= N)
  BY <1>1, <1>2, Sizes DEF Enough
<1> QED  BY <1>1, <1>2, <1>3

LEMMA SameConf ==
  ASSUME conf' = conf
  PROVE  Quorum' = Quorum /\ Enough' = Enough
BY DEF Quorum, Enough

LEMMA IInvInit == Init => IInv
<1> SUFFICES ASSUME Init PROVE IInv
  OBVIOUS
<1>1. conf \in Config
  BY DEF Init
<1>2. TypeOK
  <2>1. attempts \in 0..(IF conf.retry = Unset THEN Many ELSE conf.retry + 1)
    BY <1>1, Options DEF Init, Unset, Many
  <2>2. phase \in {"look", "again", "sleep", "wait"} \cup Over
    BY <1>1, Options DEF Init, Over
  <2>3. 1 \in 1..(N + 1)
    BY Sizes
  <2>4. /\ proc \in [Slot -> {"start", "probe", "sleep", "tell", "check", "flag", "exit"}]
        /\ tried \in [Slot -> BOOLEAN]
    BY DEF Init
  <2> QED  BY <1>1, <2>1, <2>2, <2>3, <2>4 DEF Init, TypeOK
<1>3. Phases
  BY <1>1, Options DEF Init, Phases, Over
<1>4. ExecuteInv
  BY <1>1, Options, Sizes DEF Init, ExecuteInv, Unset, Slot
<1>5. FsInv
  BY <1>1, Sizes DEF Init, FsInv, Slot
<1>6. HttpInv
  BY DEF Init, HttpInv
<1>7. TcpInv
  BY <1>1, Sizes, Subsets DEF Init, TcpInv, MarkersStand, Told, Over
<1> QED  BY <1>2, <1>3, <1>4, <1>5, <1>6, <1>7 DEF IInv

\* What a step on a file, a command or an address looks at.
LEMMA LookFinds ==
  ASSUME TypeOK, NEW s \in Slot, Look(s)
  PROVE  /\ seen' = IF s \in up THEN seen \cup {s} ELSE seen
         /\ seen' \subseteq Slot /\ seen \subseteq seen'
         /\ missed' \in BOOLEAN
         /\ missed' <=> missed \/ s \notin up
BY DEF TypeOK, Look

LEMMA FlipKeeps ==
  ASSUME IInv, Flip
  PROVE  IInv'
<1>1. /\ conf' = conf /\ seen' = seen /\ missed' = missed /\ phase' = phase
      /\ status' = status /\ next' = next /\ attempts' = attempts /\ left' = left
      /\ proc' = proc /\ tried' = tried /\ marker' = marker /\ lines' = lines
      /\ signal' = signal
  BY DEF Flip, Loops, Script
<1>2. up' \subseteq Slot
  BY DEF Flip, IInv, TypeOK
<1>3. Quorum' = Quorum /\ Enough' = Enough
  BY <1>1, SameConf
<1>4. TypeOK'
  BY <1>1, <1>2 DEF IInv, TypeOK
<1>5. Told' = Told /\ MarkersStand' = MarkersStand
  BY <1>1 DEF Told, MarkersStand
<1> QED
  BY <1>1, <1>3, <1>4, <1>5
  DEF IInv, Phases, ExecuteInv, FsInv, HttpInv, TcpInv

-----------------------------------------------------------------------------
(* execute.wait                                                            *)

LEMMA ExecuteFrame ==
  ASSUME IInv, conf.kind = "execute", conf' = conf,
         TypeOK', phase' \in {"look", "sleep"} \cup Over, ExecuteInv'
  PROVE  IInv'
BY DEF IInv, Phases, FsInv, HttpInv, TcpInv

LEMMA CommandKeeps ==
  ASSUME IInv, ExecuteCommand
  PROVE  IInv'
<1>1. /\ TypeOK /\ ExecuteInv
      /\ conf.kind = "execute" /\ conf' = conf
      /\ next \in left /\ left \subseteq Slot /\ next \in Slot
      /\ left' = IF next \in up THEN left \ {next} ELSE left
      /\ next' = next + 1
      /\ phase = "look" /\ phase' = "look"
      /\ up' = up /\ status' = status /\ attempts' = attempts
      /\ Look(next)
  BY DEF IInv, TypeOK, ExecuteCommand, Common
<1>2. /\ seen' = IF next \in up THEN seen \cup {next} ELSE seen
      /\ seen' \subseteq Slot
      /\ missed' \in BOOLEAN
      /\ missed' <=> missed \/ next \notin up
  BY <1>1, LookFinds
<1>3. next' \in 1..(N + 1)
  BY <1>1, Sizes DEF Slot
<1>4. TypeOK'
  BY <1>1, <1>2, <1>3 DEF TypeOK, ExecuteCommand, Script
<1>5. Quorum' = Quorum
  BY <1>1, SameConf
<1>6. left' = Slot \ seen'
  BY <1>1, <1>2 DEF ExecuteInv
<1>7. \A s \in left' : s < next' => missed'
  <2> SUFFICES ASSUME NEW s \in left', s < next' PROVE missed'
    OBVIOUS
  <2>1. s \in left /\ s \in Nat /\ next \in Nat
    BY <1>1, Sizes
  <2>2. s < next \/ s = next
    BY <1>1, <2>1
  <2> QED  BY <1>1, <1>2, <2>1, <2>2 DEF ExecuteInv
<1>8. attempts' <= 1 /\ missed' => \E s \in left' : s < next'
  <2> SUFFICES ASSUME attempts <= 1, missed' PROVE \E s \in left' : s < next'
    BY <1>1
  <2>1. CASE next \notin up
    BY <1>1, <2>1, Sizes
  <2>2. CASE next \in up
    <3>1. PICK s \in left : s < next
      BY <1>1, <1>2, <2>2 DEF ExecuteInv
    <3>2. s \in left' /\ s < next'
      BY <1>1, <2>2, <3>1, Sizes
    <3> QED  BY <3>2
  <2> QED  BY <2>1, <2>2
<1>9. ExecuteInv'
  BY <1>1, <1>2, <1>5, <1>6, <1>7, <1>8 DEF ExecuteInv
<1> QED  BY <1>1, <1>4, <1>9, ExecuteFrame

LEMMA FailsKeeps ==
  ASSUME IInv, ExecuteFails
  PROVE  IInv'
<1>1. /\ TypeOK /\ ExecuteInv
      /\ conf.kind = "execute" /\ conf' = conf /\ conf.strict
      /\ phase' = "rejected"
      /\ seen' = seen /\ missed' = missed /\ status' = status /\ up' = up
      /\ next' = next /\ attempts' = attempts /\ left' = left
  BY DEF IInv, ExecuteFails, Common, Loops
<1>2. TypeOK'
  BY <1>1 DEF TypeOK, ExecuteFails, Script, Over
<1>3. Quorum' = Quorum
  BY <1>1, SameConf
<1>4. ExecuteInv'
  BY <1>1, <1>3 DEF ExecuteInv
<1> QED  BY <1>1, <1>2, <1>4, ExecuteFrame DEF Over

LEMMA SkipKeeps ==
  ASSUME IInv, SkipCommand
  PROVE  IInv'
<1>1. /\ TypeOK /\ ExecuteInv
      /\ conf.kind = "execute" /\ conf' = conf
      /\ next \in Slot /\ next \notin left /\ left \subseteq Slot
      /\ next' = next + 1
      /\ phase = "look" /\ phase' = "look"
      /\ seen' = seen /\ missed' = missed /\ status' = status /\ up' = up
      /\ attempts' = attempts /\ left' = left
  BY DEF IInv, TypeOK, SkipCommand, Common
<1>2. next' \in 1..(N + 1)
  BY <1>1, Sizes DEF Slot
<1>3. TypeOK'
  BY <1>1, <1>2 DEF TypeOK, SkipCommand, Script
<1>4. Quorum' = Quorum
  BY <1>1, SameConf
<1>5. \A s \in left : s < next' <=> s < next
  BY <1>1, Sizes
<1>6. ExecuteInv'
  BY <1>1, <1>4, <1>5 DEF ExecuteInv
<1> QED  BY <1>1, <1>3, <1>6, ExecuteFrame

LEMMA JudgeKeeps ==
  ASSUME IInv, JudgeQuorum
  PROVE  IInv'
<1>1. /\ TypeOK /\ ExecuteInv
      /\ conf.kind = "execute" /\ conf' = conf
      /\ next = N + 1
      /\ phase = "look"
      /\ seen' = seen /\ missed' = missed /\ up' = up
      /\ next' = next /\ attempts' = attempts /\ left' = left
  BY DEF IInv, JudgeQuorum, Common, Loops
<1>2. \/ /\ Cardinality(left) <= N - Quorum
         /\ phase' = "fulfilled"
         /\ status' = (attempts > 1)
      \/ /\ ~(Cardinality(left) <= N - Quorum)
         /\ phase' = "sleep"
         /\ status' = status
  BY DEF JudgeQuorum
<1> DEFINE again == attempts > 1
<1>3. /\ again \in BOOLEAN
      /\ status' \in BOOLEAN
      /\ phase' = "fulfilled" => (status' <=> again)
  <2>1. again \in BOOLEAN
    OBVIOUS
  <2>2. status' = again \/ (status' = status /\ phase' = "sleep")
    BY <1>2
  <2>3. status \in BOOLEAN
    BY <1>1 DEF TypeOK
  <2> HIDE DEF again
  <2> QED  BY <2>1, <2>2, <2>3
<1>4. TypeOK'
  BY <1>1, <1>2, <1>3 DEF TypeOK, JudgeQuorum, Script, Over
<1>5. Quorum' = Quorum /\ Quorum \in Nat
  BY <1>1, SameConf, Options DEF TypeOK
<1>6. Cardinality(left) \in Nat /\ N \in Nat
  BY <1>1, Sizes, Subsets DEF TypeOK
<1>7. ExecuteInv'
  BY <1>1, <1>2, <1>3, <1>5, <1>6 DEF ExecuteInv
<1> QED  BY <1>1, <1>2, <1>4, <1>7, ExecuteFrame DEF Over

LEMMA AttemptKeeps ==
  ASSUME IInv, NextAttempt
  PROVE  IInv'
<1>1. /\ TypeOK /\ ExecuteInv /\ conf \in Config
      /\ conf.kind = "execute" /\ conf' = conf
      /\ phase = "sleep"
      /\ seen' = seen /\ missed' = missed /\ status' = status /\ up' = up
      /\ left' = left
  BY DEF IInv, TypeOK, NextAttempt, Common
<1>2. /\ Quorum' = Quorum /\ Quorum \in Nat
      /\ conf.retry \in Nat \cup {Unset}
  BY <1>1, SameConf, Options
<1>3. /\ Cardinality(left) \in Nat /\ Cardinality(left) > N - Quorum
      /\ next = N + 1 /\ N \in Nat
  BY <1>1, Sizes, Subsets DEF TypeOK, ExecuteInv
<1>4. CASE attempts = conf.retry
  <2>1. phase' = "rejected" /\ next' = next /\ attempts' = attempts
    BY <1>4 DEF NextAttempt
  <2>2. TypeOK'
    BY <1>1, <2>1 DEF TypeOK, NextAttempt, Script, Over
  <2>3. ExecuteInv'
    BY <1>1, <1>2, <1>3, <1>4, <2>1 DEF ExecuteInv
  <2> QED  BY <1>1, <2>1, <2>2, <2>3, ExecuteFrame DEF Over
<1>5. CASE attempts # conf.retry
  <2>1. /\ phase' = "look" /\ next' = 1
        /\ attempts' = IF conf.retry = Unset /\ attempts = Many THEN Many ELSE attempts + 1
    BY <1>5 DEF NextAttempt
  <2>2. /\ attempts \in Nat /\ attempts >= 1
        /\ conf.retry # Unset => attempts <= conf.retry
        /\ conf.retry = Unset => attempts <= Many
    BY <1>1, <1>2 DEF TypeOK, ExecuteInv, Many, Unset
  <2>3. /\ attempts' \in 0..(IF conf.retry = Unset THEN Many ELSE conf.retry + 1)
        /\ attempts' > 1
        /\ conf.retry # Unset => attempts' <= conf.retry
    BY <1>2, <1>5, <2>1, <2>2 DEF Many, Unset
  <2>4. TypeOK'
    <3>1. 1 \in 1..(N + 1)
      BY <1>3
    <3> QED  BY <1>1, <2>1, <2>3, <3>1 DEF TypeOK, NextAttempt, Script
  <2>5. Quorum <= N => missed
    <3> HAVE Quorum <= N
    <3>1. left # {}
      <4>1. Cardinality(left) > 0
        BY <1>2, <1>3
      <4> QED  BY <4>1, FS_EmptySet
    <3>2. PICK s \in left : TRUE
      BY <3>1
    <3>3. s < next
      BY <1>1, <1>3, <3>2 DEF TypeOK, Slot
    <3> QED  BY <1>1, <3>2, <3>3 DEF ExecuteInv
  <2>6. \A s \in left : ~(s < 1)
    BY <1>1 DEF TypeOK, Slot
  <2>7. ExecuteInv'
    BY <1>1, <1>2, <2>1, <2>2, <2>3, <2>5, <2>6 DEF ExecuteInv
  <2> QED  BY <1>1, <2>1, <2>4, <2>7, ExecuteFrame
<1> QED  BY <1>4, <1>5

-----------------------------------------------------------------------------
(* fs.wait and network.http.wait                                           *)

LEMMA FsFrame ==
  ASSUME IInv, conf.kind = "fs", conf' = conf,
         TypeOK', phase' \in {"look", "again", "fulfilled"}, FsInv'
  PROVE  IInv'
BY DEF IInv, Phases, ExecuteInv, HttpInv, TcpInv

LEMMA ExistsKeeps ==
  ASSUME IInv, FsExists
  PROVE  IInv'
<1>1. /\ TypeOK /\ FsInv
      /\ conf.kind = "fs" /\ conf' = conf /\ up' = up
      /\ phase = "look" /\ status' = status
      /\ next \in 1..(N + 1) /\ N \in Nat
  BY Sizes DEF IInv, TypeOK, FsExists, Common
<1>2. CASE next > N
  <2>1. phase' = "fulfilled" /\ seen' = seen /\ missed' = missed /\ next' = next
    BY <1>2 DEF FsExists
  <2>2. TypeOK'
    BY <1>1, <2>1 DEF TypeOK, FsExists, Script, Over
  <2>3. FsInv'
    BY <1>1, <1>2, <2>1 DEF FsInv
  <2> QED  BY <1>1, <2>1, <2>2, <2>3, FsFrame
<1>3. CASE next \in Slot
  <2>1. /\ Look(next)
        /\ IF next \in up THEN next' = next + 1 /\ phase' = phase
                          ELSE phase' = "again" /\ next' = next
    BY <1>1, <1>3 DEF FsExists, Slot
  <2>2. /\ seen' = IF next \in up THEN seen \cup {next} ELSE seen
        /\ seen' \subseteq Slot
        /\ missed' \in BOOLEAN
        /\ missed' <=> missed \/ next \notin up
    BY <1>1, <1>3, <2>1, LookFinds
  <2>3. next' \in 1..(N + 1)
    BY <1>1, <1>3, <2>1 DEF Slot
  <2>4. TypeOK'
    BY <1>1, <2>1, <2>2, <2>3 DEF TypeOK, FsExists, Script
  <2>5. \A s \in Slot : s < next' => s \in seen'
    <3> SUFFICES ASSUME NEW s \in Slot, s < next' PROVE s \in seen'
      OBVIOUS
    <3>1. s < next \/ (s = next /\ next \in up)
      BY <1>1, <2>1, Sizes
    <3> QED  BY <1>1, <2>2, <3>1 DEF FsInv
  <2>6. phase' = "again" => missed' /\ next' <= N
    BY <1>1, <1>3, <2>1, <2>2 DEF Slot
  <2>7. FsInv'
    BY <1>1, <2>1, <2>2, <2>5, <2>6 DEF FsInv
  <2> QED  BY <1>1, <2>1, <2>4, <2>7, FsFrame
<1> QED  BY <1>1, <1>2, <1>3 DEF Slot

LEMMA ExistsAgainKeeps ==
  ASSUME IInv, FsExistsAgain
  PROVE  IInv'
<1>1. /\ TypeOK /\ FsInv
      /\ conf.kind = "fs" /\ conf' = conf /\ up' = up
      /\ phase = "again" /\ missed
      /\ N \in Nat /\ next \in Slot
      /\ Look(next)
  BY Sizes DEF IInv, TypeOK, FsInv, FsExistsAgain, Common, Slot
<1>2. \/ next \in up /\ next' = next + 1 /\ phase' = "look" /\ status' = status
      \/ next \notin up /\ next' = next /\ phase' = phase /\ status' = TRUE
  BY DEF FsExistsAgain
<1>3. /\ seen' = IF next \in up THEN seen \cup {next} ELSE seen
      /\ seen' \subseteq Slot
      /\ missed' \in BOOLEAN /\ missed'
  BY <1>1, LookFinds
<1>4. next' \in 1..(N + 1) /\ (next' = next => next' <= N)
  BY <1>1, <1>2 DEF Slot
<1>5. TypeOK'
  BY <1>1, <1>2, <1>3, <1>4 DEF TypeOK, FsExistsAgain, Script
<1>6. \A s \in Slot : s < next' => s \in seen'
  <2> SUFFICES ASSUME NEW s \in Slot, s < next' PROVE s \in seen'
    OBVIOUS
  <2>1. s < next \/ (s = next /\ next \in up)
    BY <1>1, <1>2, Sizes
  <2> QED  BY <1>1, <1>3, <2>1 DEF FsInv
<1>7. FsInv'
  BY <1>1, <1>2, <1>3, <1>4, <1>6 DEF FsInv
<1> QED  BY <1>1, <1>2, <1>5, <1>7, FsFrame

LEMMA HttpFrame ==
  ASSUME IInv, conf.kind = "http", conf' = conf,
         TypeOK', phase' \in {"look", "sleep", "fulfilled"}, HttpInv'
  PROVE  IInv'
BY DEF IInv, Phases, ExecuteInv, FsInv, TcpInv

LEMMA RequestKeeps ==
  ASSUME IInv, HttpRequest
  PROVE  IInv'
<1>1. /\ TypeOK /\ HttpInv
      /\ conf.kind = "http" /\ conf' = conf /\ up' = up
      /\ phase = "look"
      /\ next' = next /\ attempts' = attempts /\ left' = left
      /\ Look(1) /\ 1 \in Slot
  BY Sizes DEF IInv, HttpRequest, Common, Loops
<1>2. /\ seen' = IF 1 \in up THEN seen \cup {1} ELSE seen
      /\ seen' \subseteq Slot
      /\ missed' \in BOOLEAN
      /\ missed' <=> missed \/ 1 \notin up
  BY <1>1, LookFinds
<1> DEFINE again == attempts > 0
<1>3. \/ 1 \in up /\ phase' = "fulfilled" /\ status' = again
      \/ 1 \notin up /\ phase' = "sleep" /\ status' = status
  BY DEF HttpRequest
<1>4. again \in BOOLEAN /\ (again <=> missed)
  BY <1>1 DEF HttpInv
<1> HIDE DEF again
<1>5. status' \in BOOLEAN /\ (phase' = "fulfilled" => (status' <=> missed'))
  BY <1>1, <1>2, <1>3, <1>4 DEF TypeOK
<1>6. TypeOK'
  BY <1>1, <1>2, <1>3, <1>5 DEF TypeOK, HttpRequest, Script, Over
<1>7. HttpInv'
  BY <1>1, <1>2, <1>3, <1>5 DEF HttpInv
<1> QED  BY <1>1, <1>3, <1>6, <1>7, HttpFrame

LEMMA HttpAgainKeeps ==
  ASSUME IInv, HttpAgain
  PROVE  IInv'
<1>1. /\ TypeOK /\ HttpInv /\ conf \in Config
      /\ conf.kind = "http" /\ conf' = conf /\ up' = up
      /\ phase = "sleep" /\ phase' = "look"
      /\ seen' = seen /\ missed' = missed /\ status' = status
      /\ next' = next /\ left' = left
      /\ attempts' = IF attempts = Many THEN Many ELSE attempts + 1
  BY DEF IInv, TypeOK, HttpAgain, Common
<1>2. conf.retry = Unset
  BY <1>1, Options
<1>3. attempts' \in 0..Many /\ attempts' > 0
  BY <1>1, <1>2 DEF TypeOK, Many
<1>4. TypeOK'
  BY <1>1, <1>2, <1>3 DEF TypeOK, HttpAgain, Script
<1>5. HttpInv'
  BY <1>1, <1>3 DEF HttpInv
<1> QED  BY <1>1, <1>4, <1>5, HttpFrame

-----------------------------------------------------------------------------
(* network.tcp.wait                                                        *)

Places == {"start", "probe", "sleep", "tell", "check", "flag", "exit"}

LEMMA TcpFrame ==
  ASSUME IInv, conf.kind = "tcp", conf' = conf, TypeOK', phase' \in {"wait"} \cup Over, TcpInv'
  PROVE  IInv'
BY DEF IInv, Phases, ExecuteInv, FsInv, HttpInv

\* A process of tcp.wait moves: what does not depend on where it goes.
LEMMA ProcessFacts ==
  ASSUME IInv, NEW s \in Slot, Process(s)
  PROVE  /\ TypeOK /\ TcpInv /\ conf \in Config /\ conf.kind = "tcp"
         /\ conf' = conf /\ up' = up /\ phase = "wait" /\ phase' = phase
         /\ status' = status /\ next' = next /\ attempts' = attempts /\ left' = left
         /\ Quorum' = Quorum /\ Enough' = Enough
         /\ proc \in [Slot -> Places]
         /\ \E p \in Places : proc' = [proc EXCEPT ![s] = p]
         /\ seen \subseteq seen' /\ seen' \subseteq Slot
         /\ missed' \in BOOLEAN /\ (missed => missed')
<1>1. TypeOK /\ TcpInv /\ conf \in Config
  BY DEF IInv, TypeOK
<1>2. /\ conf.kind = "tcp" /\ conf' = conf /\ up' = up
      /\ phase = "wait" /\ phase' = phase
      /\ status' = status /\ next' = next /\ attempts' = attempts /\ left' = left
  BY DEF Process, TouchMarker, LeaveLoop, Refused, Slept, TellQuorum, CheckQuorum,
         FlagStatus, At, Common, Loops
<1>3. \E p \in Places : proc' = [proc EXCEPT ![s] = p]
  BY DEF Process, TouchMarker, LeaveLoop, Refused, Slept, TellQuorum, CheckQuorum,
         FlagStatus, Places
<1>4. /\ seen \subseteq seen' /\ seen' \subseteq Slot
      /\ missed' \in BOOLEAN /\ (missed => missed')
  BY <1>1 DEF TypeOK, Process, TouchMarker, LeaveLoop, Refused, Slept, TellQuorum,
              CheckQuorum, FlagStatus
<1>5. Quorum' = Quorum /\ Enough' = Enough
  BY <1>2, SameConf
<1>6. proc \in [Slot -> Places]
  BY <1>1 DEF TypeOK, Places
<1> QED  BY <1>1, <1>2, <1>3, <1>4, <1>5, <1>6

\* What remains to be shown of each step.
LEMMA ProcessFrame ==
  ASSUME IInv, NEW s \in Slot, Process(s),
         tried' \in [Slot -> BOOLEAN], marker' \subseteq Slot, signal' \in {0, 2, 3},
         lines' \in Nat, lines' >= 1, lines' <= 1 + Cardinality(Told'),
         \A u \in Slot : tried'[u] => missed',
         signal' = 0 => missed',
         ~conf.timeout => signal' # 2 /\ (Cardinality(seen') >= Enough \/ MarkersStand')
  PROVE  IInv'
<1>1. /\ TypeOK /\ TcpInv /\ conf.kind = "tcp"
      /\ conf' = conf /\ up' = up /\ phase = "wait" /\ phase' = phase
      /\ status' = status /\ next' = next /\ attempts' = attempts /\ left' = left
      /\ Enough' = Enough
      /\ proc \in [Slot -> Places]
      /\ \E p \in Places : proc' = [proc EXCEPT ![s] = p]
      /\ seen' \subseteq Slot
      /\ missed' \in BOOLEAN /\ (missed => missed')
  BY ProcessFacts
<1>2. proc' \in [Slot -> Places]
  BY <1>1
<1>3. Told' \subseteq Slot
  BY DEF Told
<1>4. lines' \in 1..(N + 1)
  <2>1. Cardinality(Told') \in Nat /\ Cardinality(Told') <= N
    BY <1>3, Subsets
  <2> QED  BY <2>1, Sizes
<1>5. TypeOK'
  BY <1>1, <1>2, <1>4 DEF TypeOK, Places
<1>6. TcpInv'
  BY <1>1 DEF TcpInv, Over
<1> QED  BY <1>1, <1>5, <1>6, TcpFrame

\* A process that goes neither to nor from the list of those that are done.
LEMMA ToldSame ==
  ASSUME TypeOK, NEW s \in Slot, NEW p \in {"start", "probe", "sleep", "tell"},
         proc[s] \notin {"check", "flag", "exit"}, proc' = [proc EXCEPT ![s] = p]
  PROVE  Told' = Told
BY DEF Told, TypeOK

LEMMA ToldStays ==
  ASSUME TypeOK, NEW s \in Slot, NEW p \in {"check", "flag", "exit"},
         proc[s] \in {"check", "flag", "exit"}, proc' = [proc EXCEPT ![s] = p]
  PROVE  Told' = Told
BY DEF Told, TypeOK

LEMMA ToldGrows ==
  ASSUME TypeOK, NEW s \in Slot, NEW p \in {"check", "flag", "exit"},
         proc[s] \notin {"check", "flag", "exit"}, proc' = [proc EXCEPT ![s] = p]
  PROVE  /\ Told' = Told \cup {s}
         /\ Cardinality(Told') = Cardinality(Told) + 1
<1>1. Told' = Told \cup {s} /\ s \notin Told /\ Told \subseteq Slot
  BY DEF Told, TypeOK
<1> QED  BY <1>1, Subsets, FS_AddElement

LEMMA TouchKeeps ==
  ASSUME IInv, NEW s \in Slot, TouchMarker(s)
  PROVE  IInv'
<1>1. TypeOK /\ TcpInv /\ conf.kind = "tcp" /\ Process(s)
  BY ProcessFacts DEF Process
<1>2. /\ proc[s] = "start" /\ proc' = [proc EXCEPT ![s] = "probe"]
      /\ marker' = marker \cup {s}
      /\ seen' = seen /\ missed' = missed /\ tried' = tried /\ lines' = lines
      /\ signal' = signal
  BY DEF TouchMarker, At
<1>3. Told' = Told
  BY <1>1, <1>2, ToldSame
<1>4. MarkersStand => MarkersStand'
  BY <1>1, <1>2 DEF MarkersStand, TypeOK
<1> QED  BY <1>1, <1>2, <1>3, <1>4, ProcessFrame DEF TypeOK, TcpInv

LEMMA LeaveKeeps ==
  ASSUME IInv, NEW s \in Slot, LeaveLoop(s)
  PROVE  IInv'
<1>1. TypeOK /\ TcpInv /\ conf.kind = "tcp" /\ Process(s)
  BY ProcessFacts DEF Process
<1>2. /\ proc[s] = "probe" /\ proc' = [proc EXCEPT ![s] = "tell"]
      /\ seen' = IF s \in marker THEN seen \cup {s} ELSE seen
      /\ missed' = missed /\ tried' = tried /\ lines' = lines
      /\ signal' = signal /\ marker' = marker
  BY DEF LeaveLoop, At
<1>3. Told' = Told
  BY <1>1, <1>2, ToldSame
<1>4. MarkersStand => MarkersStand'
  BY <1>1, <1>2 DEF MarkersStand, TypeOK
<1>5. /\ Cardinality(seen) <= Cardinality(seen')
      /\ Cardinality(seen) \in Nat /\ Cardinality(seen') \in Nat /\ Enough \in Nat
  BY <1>1, ProcessFacts, Larger, Subsets, Options DEF TypeOK
<1>6. Cardinality(seen) >= Enough => Cardinality(seen') >= Enough
  BY <1>5
<1> QED  BY <1>1, <1>2, <1>3, <1>4, <1>6, ProcessFrame DEF TypeOK, TcpInv

LEMMA RefusedKeeps ==
  ASSUME IInv, NEW s \in Slot, Refused(s)
  PROVE  IInv'
<1>1. TypeOK /\ TcpInv /\ conf.kind = "tcp" /\ Process(s)
  BY ProcessFacts DEF Process
<1>2. /\ proc[s] = "probe" /\ missed' = TRUE
      /\ seen' = seen /\ lines' = lines /\ marker' = marker
  BY DEF Refused, At
<1>3. CASE signal = 2
  <2>1. proc' = [proc EXCEPT ![s] = "exit"] /\ tried' = tried /\ signal' = signal
    BY <1>3 DEF Refused
  <2>2. conf.timeout
    BY <1>1, <1>3 DEF TcpInv
  <2>3. lines' <= 1 + Cardinality(Told')
    <3>1. Cardinality(Told') = Cardinality(Told) + 1
      BY <1>1, <1>2, <2>1, ToldGrows
    <3>2. Cardinality(Told) \in Nat
      BY Subsets DEF Told
    <3>3. lines' \in Nat /\ lines' <= 1 + Cardinality(Told)
      BY <1>1, <1>2 DEF TcpInv, TypeOK
    <3> QED  BY <3>1, <3>2, <3>3
  <2> QED  BY <1>1, <1>2, <2>1, <2>2, <2>3, ProcessFrame DEF TypeOK, TcpInv
<1>4. CASE signal # 2
  <2>1. /\ proc' = [proc EXCEPT ![s] = "sleep"]
        /\ tried' = [tried EXCEPT ![s] = TRUE]
        /\ signal' \in IF conf.timeout THEN {signal, 2} ELSE {signal}
    BY <1>4 DEF Refused
  <2>2. Told' = Told
    BY <1>1, <1>2, <2>1, ToldSame
  <2>3. MarkersStand => MarkersStand'
    BY <1>1, <1>2, <2>1 DEF MarkersStand, TypeOK
  <2>4. signal' \in {0, 2, 3} /\ (~conf.timeout => signal' # 2)
    BY <1>1, <1>4, <2>1 DEF TypeOK
  <2> QED  BY <1>1, <1>2, <2>1, <2>2, <2>3, <2>4, ProcessFrame DEF TypeOK, TcpInv
<1> QED  BY <1>3, <1>4

LEMMA SleptKeeps ==
  ASSUME IInv, NEW s \in Slot, Slept(s)
  PROVE  IInv'
<1>1. TypeOK /\ TcpInv /\ conf.kind = "tcp" /\ Process(s)
  BY ProcessFacts DEF Process
<1>2. /\ proc[s] = "sleep" /\ proc' = [proc EXCEPT ![s] = "probe"]
      /\ marker' = marker
      /\ seen' = seen /\ missed' = missed /\ tried' = tried /\ lines' = lines
      /\ signal' = signal
  BY DEF Slept, At
<1>3. Told' = Told
  BY <1>1, <1>2, ToldSame
<1>4. MarkersStand => MarkersStand'
  BY <1>1, <1>2 DEF MarkersStand, TypeOK
<1> QED  BY <1>1, <1>2, <1>3, <1>4, ProcessFrame DEF TypeOK, TcpInv

LEMMA TellKeeps ==
  ASSUME IInv, NEW s \in Slot, TellQuorum(s)
  PROVE  IInv'
<1>1. TypeOK /\ TcpInv /\ conf.kind = "tcp" /\ Process(s)
  BY ProcessFacts DEF Process
<1>2. /\ proc[s] = "tell" /\ proc' = [proc EXCEPT ![s] = "check"]
      /\ marker' = marker /\ lines' = lines + 1
      /\ seen' = seen /\ missed' = missed /\ tried' = tried
      /\ signal' = signal
  BY DEF TellQuorum, At
<1>3. /\ lines' <= 1 + Cardinality(Told')
      /\ lines' \in Nat /\ lines' >= 1
  <2>1. Cardinality(Told') = Cardinality(Told) + 1
    BY <1>1, <1>2, ToldGrows
  <2>2. Cardinality(Told) \in Nat
    BY Subsets DEF Told
  <2>3. lines \in Nat /\ lines >= 1
    BY <1>1 DEF TypeOK
  <2> QED  BY <1>1, <1>2, <2>1, <2>2, <2>3 DEF TcpInv
<1>4. MarkersStand => MarkersStand'
  BY <1>1, <1>2 DEF MarkersStand, TypeOK
<1> QED  BY <1>1, <1>2, <1>3, <1>4, ProcessFrame DEF TypeOK, TcpInv

\* The markers are removed once enough servers were found to answer.
LEMMA CheckKeeps ==
  ASSUME IInv, NEW s \in Slot, CheckQuorum(s)
  PROVE  IInv'
<1>1. /\ TypeOK /\ TcpInv /\ conf.kind = "tcp" /\ Process(s) /\ conf \in Config
  BY ProcessFacts DEF Process
<1>2. /\ proc[s] = "check" /\ proc' = [proc EXCEPT ![s] = "flag"]
      /\ marker' = IF lines >= Quorum THEN {} ELSE marker
      /\ seen' = seen /\ missed' = missed /\ tried' = tried /\ lines' = lines
      /\ signal' = signal
  BY DEF CheckQuorum, At
<1>3. Told' = Told
  BY <1>1, <1>2, ToldStays
<1>4. MarkersStand => MarkersStand' \/ Cardinality(seen) >= Enough
  <2> SUFFICES ASSUME MarkersStand PROVE MarkersStand' \/ Cardinality(seen) >= Enough
    OBVIOUS
  <2>1. CASE lines >= Quorum
    <3>1. Told \subseteq seen /\ seen \subseteq Slot /\ Told \subseteq Slot /\ s \in Told
      BY <1>1, <1>2 DEF MarkersStand, Told, TypeOK
    <3>2. Cardinality(Told) <= Cardinality(seen)
      BY <3>1, Larger
    <3>3. Cardinality(Told) # 0
      BY <3>1, Subsets, FS_EmptySet
    <3>4. /\ Cardinality(Told) \in Nat /\ Cardinality(Told) <= N
          /\ Cardinality(seen) \in Nat
      BY <3>1, Subsets
    <3>5. /\ lines \in Nat /\ lines <= 1 + Cardinality(Told)
          /\ Quorum \in Nat /\ N \in Nat
      BY <1>1, Options, Sizes DEF TypeOK, TcpInv
    <3>6. Cardinality(seen) >= (IF Quorum > N THEN N
                                ELSE IF Quorum > 1 THEN Quorum - 1 ELSE 1)
      BY <2>1, <3>2, <3>3, <3>4, <3>5
    <3> QED  BY <1>1, <3>6 DEF Enough
  <2>2. CASE ~(lines >= Quorum)
    BY <1>1, <1>2, <2>2 DEF MarkersStand, TypeOK
  <2> QED  BY <2>1, <2>2
<1>5. marker' \subseteq Slot
  BY <1>1, <1>2 DEF TypeOK
<1> QED  BY <1>1, <1>2, <1>3, <1>4, <1>5, ProcessFrame DEF TypeOK, TcpInv

LEMMA FlagKeeps ==
  ASSUME IInv, NEW s \in Slot, FlagStatus(s)
  PROVE  IInv'
<1>1. /\ TypeOK /\ TcpInv /\ conf.kind = "tcp" /\ Process(s)
  BY ProcessFacts DEF Process
<1>2. /\ proc[s] = "flag" /\ proc' = [proc EXCEPT ![s] = "exit"]
      /\ marker' = marker
      /\ seen' = seen /\ missed' = missed /\ tried' = tried /\ lines' = lines
      /\ signal' = IF tried[s] THEN 0 ELSE signal
  BY DEF FlagStatus, At
<1>3. Told' = Told
  BY <1>1, <1>2, ToldStays
<1>4. MarkersStand => MarkersStand'
  BY <1>1, <1>2 DEF MarkersStand, TypeOK
<1>5. signal' \in {0, 2, 3} /\ (signal' = 0 => missed) /\ (signal' = 2 => signal = 2)
  BY <1>1, <1>2 DEF TypeOK, TcpInv
<1> QED  BY <1>1, <1>2, <1>3, <1>4, <1>5, ProcessFrame DEF TypeOK, TcpInv

LEMMA ExitKeeps ==
  ASSUME IInv, ExitSignal
  PROVE  IInv'
<1>1. /\ TypeOK /\ TcpInv /\ conf.kind = "tcp" /\ conf' = conf /\ up' = up
      /\ \A s \in Slot : proc[s] = "exit"
      /\ phase' \in Over
      /\ seen' = seen /\ missed' = missed
      /\ next' = next /\ attempts' = attempts /\ left' = left
      /\ proc' = proc /\ tried' = tried /\ marker' = marker /\ lines' = lines
      /\ signal' = signal
  BY DEF IInv, ExitSignal, Common, Loops, Script, Over
<1>2. status' \in BOOLEAN /\ (status' => signal = 0)
  <2>1. status' = (signal = 0)
    BY DEF ExitSignal
  <2> QED  BY <2>1
<1>3. Enough' = Enough /\ Told' = Told /\ MarkersStand' = MarkersStand
  BY <1>1, SameConf DEF Told, MarkersStand
<1>4. TypeOK'
  BY <1>1, <1>2 DEF TypeOK
<1>5. TcpInv'
  BY <1>1, <1>2, <1>3 DEF TcpInv
<1> QED  BY <1>1, <1>4, <1>5, TcpFrame

-----------------------------------------------------------------------------
LEMMA IInvNext == IInv /\ [Next]_vars => IInv'
<1> SUFFICES ASSUME IInv, [Next]_vars PROVE IInv'
  OBVIOUS
<1>1. CASE Flip
  BY <1>1, FlipKeeps
<1>2. CASE Work
  BY <1>2, CommandKeeps, FailsKeeps, SkipKeeps, JudgeKeeps, AttemptKeeps,
     ExistsKeeps, ExistsAgainKeeps, RequestKeeps, HttpAgainKeeps, ExitKeeps DEF Work
<1>3. ASSUME NEW s \in Slot, Process(s) PROVE IInv'
  BY <1>3, TouchKeeps, LeaveKeeps, RefusedKeeps, SleptKeeps, TellKeeps, CheckKeeps,
     FlagKeeps DEF Process
<1>4. CASE UNCHANGED vars
  <2>1. /\ Quorum' = Quorum /\ Enough' = Enough
        /\ Told' = Told /\ MarkersStand' = MarkersStand
    BY <1>4, SameConf DEF vars, Told, MarkersStand
  <2> QED
    BY <1>4, <2>1 DEF vars, IInv, TypeOK, Phases, ExecuteInv, FsInv, HttpInv, TcpInv
<1> QED  BY <1>1, <1>2, <1>3, <1>4 DEF Next

(* Every state a wait goes through satisfies the inductive invariant.      *)
THEOREM IInvAlways == Spec => []IInv
BY IInvInit, IInvNext, PTL DEF Spec

(* Each variable keeps the type its code gives it: no count exceeds what   *)
(* is counted, whatever the retries.                                       *)
THEOREM WaitingTypes == Spec => []TypeOK
<1>1. IInv => TypeOK
  BY DEF IInv
<1> QED  BY <1>1, IInvAlways, PTL

(* A wait is fulfilled only when it found enough of what it waits for, and *)
(* execute.wait gives up only when it did not, for any number of things.   *)
THEOREM EnoughWasFound == Spec => []Reached
<1>1. IInv => Reached
  <2> SUFFICES ASSUME IInv PROVE Reached
    OBVIOUS
  <2>1. /\ TypeOK /\ conf \in Config
        /\ seen \subseteq Slot /\ Quorum \in Nat /\ Enough \in Nat
        /\ conf.kind \in {"execute", "fs", "tcp", "http"}
        /\ Cardinality(seen) \in Nat
        /\ Cardinality(Slot \ seen) = N - Cardinality(seen)
        /\ N \in Nat /\ N > 0
    BY Options, Subsets, Sizes DEF IInv, TypeOK
  <2>2. ASSUME phase = "fulfilled", conf.timeout => conf.kind = "http"
        PROVE  Cardinality(seen) >= Enough
    <3>1. CASE conf.kind = "execute"
      <4>1. Cardinality(seen) >= Quorum
        BY <2>1, <2>2, <3>1 DEF IInv, ExecuteInv
      <4> QED  BY <3>1, <4>1 DEF Enough
    <3>2. CASE conf.kind = "fs"
      <4>1. \A s \in Slot : s \in seen
        BY <2>1, <2>2, <3>2 DEF IInv, FsInv, Slot
      <4>2. seen = Slot
        BY <2>1, <4>1
      <4> QED  BY <2>1, <3>2, <4>2, Sizes, Options DEF Enough
    <3>3. CASE conf.kind = "http"
      <4>1. 1 \in seen
        BY <2>2, <3>3 DEF IInv, HttpInv
      <4>2. Cardinality(seen) # 0
        BY <2>1, <4>1, Subsets, FS_EmptySet
      <4> QED  BY <2>1, <3>3, <4>2 DEF Enough
    <3>4. CASE conf.kind = "tcp"
      <4>1. \/ Cardinality(seen) >= Enough
            \/ MarkersStand /\ \A s \in Slot : proc[s] = "exit"
        BY <2>2, <3>4 DEF IInv, TcpInv, Over
      <4>2. MarkersStand /\ (\A s \in Slot : proc[s] = "exit") => seen = Slot
        BY <2>1 DEF MarkersStand
      <4>3. seen = Slot => Cardinality(seen) >= Enough
        BY <2>1, <3>4, Sizes, Options
      <4> QED  BY <4>1, <4>2, <4>3
    <3> QED  BY <2>1, <3>1, <3>2, <3>3, <3>4
  <2>3. ASSUME phase = "rejected", conf.kind = "execute", ~conf.strict
        PROVE  /\ attempts = conf.retry
               /\ Quorum > 0 /\ conf.retry > 0 => Cardinality(seen) < Quorum
    <3>1. /\ attempts = conf.retry
          /\ conf.retry > 0 => Cardinality(Slot \ seen) > N - Quorum
      BY <2>3 DEF IInv, ExecuteInv
    <3> QED  BY <2>1, <3>1
  <2> QED  BY <2>2, <2>3 DEF Reached
<1> QED  BY <1>1, IInvAlways, PTL

(* The status of a wait is true only if something was found not to hold,   *)
(* and exactly then for the commands of execute.wait that must all succeed *)
(* and for http.wait.                                                      *)
THEOREM StatusTells == Spec => []StatusOfWait
<1>1. IInv => StatusOfWait
  <2> SUFFICES ASSUME IInv, phase = "fulfilled"
               PROVE  /\ status => missed
                      /\ ((conf.kind = "execute" /\ Quorum = N) \/ conf.kind = "http")
                           => (status <=> missed)
    BY DEF StatusOfWait
  <2>1. /\ TypeOK /\ conf \in Config
        /\ conf.kind \in {"execute", "fs", "tcp", "http"}
        /\ Quorum \in Nat /\ N \in Nat
        /\ status \in BOOLEAN /\ missed \in BOOLEAN
        /\ IsFiniteSet(left) /\ Cardinality(left) \in Nat
    BY Options, Subsets, Sizes DEF IInv, TypeOK
  <2>2. CASE conf.kind = "execute"
    <3>1. /\ Cardinality(left) <= N - Quorum
          /\ status <=> attempts > 1
          /\ attempts > 1 /\ Quorum <= N => missed
          /\ attempts <= 1 /\ missed => left # {}
      BY <2>2 DEF IInv, ExecuteInv
    <3>2. attempts \in Int
      BY <2>1, Options DEF TypeOK, Many, Unset
    <3>3. Quorum <= N
      BY <2>1, <3>1
    <3>4. Quorum = N => left = {}
      BY <2>1, <3>1, FS_EmptySet
    <3> QED  BY <2>1, <2>2, <3>1, <3>2, <3>3, <3>4
  <2>3. CASE conf.kind # "execute"
    BY <2>1, <2>3 DEF IInv, FsInv, HttpInv, TcpInv
  <2> QED  BY <2>2, <2>3
<1> QED  BY <1>1, IInvAlways, PTL
=============================================================================
