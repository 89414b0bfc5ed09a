--------------------------- MODULE ConnectionsProofs ---------------------------
(***************************************************************************)
(* What is proved of the SSH connections.                                  *)
(*                                                                         *)
(* The invariant is OnlyOpened: the actions in progress and their          *)
(* histories know no connection but those that were opened.                *)
(***************************************************************************)
EXTENDS Connections, SequenceTheorems, WellFoundedInduction, TLAPS

\* An action in progress, where these connections are known.
Frames(known) ==
  [asked    : {Unset, Null, Config} \cup known,
   ssh      : {Unset, Null} \cup known,
   managed  : SUBSET known,
   children : Seq(known \cup {Failed, Other})]

OnlyOpened ==
  /\ conn \in [Conn -> {"none", "open", "closed"}]
  /\ path \in Seq(Frames(Known))

-----------------------------------------------------------------------------
(* The actions in progress.                                                *)

\* More connections may become known.
LEMMA FramesGrow ==
  ASSUME NEW known, NEW more, known \subseteq more, NEW actions \in Seq(Frames(known))
  PROVE  actions \in Seq(Frames(more))
<1>1. Seq(known \cup {Failed, Other}) \subseteq Seq(more \cup {Failed, Other})
  OBVIOUS
<1>2. Frames(known) \subseteq Frames(more)
  BY <1>1 DEF Frames
<1> QED  BY <1>2

\* A child that ends changes the history of its parent, and nothing else.
LEMMA RecordEffect ==
  ASSUME NEW known, NEW actions \in Seq(Frames(known)), actions # << >>,
         NEW child \in known \cup {Failed, Other}
  PROVE  /\ Record(actions, child) \in Seq(Frames(known))
         /\ Len(Record(actions, child)) = Len(actions)
         /\ DOMAIN Record(actions, child) = DOMAIN actions
         /\ \A i \in DOMAIN actions : Record(actions, child)[i].managed = actions[i].managed
<1>1. /\ Len(actions) \in DOMAIN actions /\ actions[Len(actions)] \in Frames(known)
      /\ DOMAIN actions = 1..Len(actions)
  OBVIOUS
<1> DEFINE frame == [actions[Len(actions)] EXCEPT !.children = Append(@, child)]
<1>2. Append(actions[Len(actions)].children, child) \in Seq(known \cup {Failed, Other})
  BY <1>1 DEF Frames
<1>3. frame \in Frames(known) /\ frame.managed = actions[Len(actions)].managed
  BY <1>1, <1>2 DEF Frames
<1>4. Record(actions, child) = [actions EXCEPT ![Len(actions)] = frame]
  BY <1>1 DEF Record
<1> HIDE DEF frame
<1> QED  BY <1>1, <1>3, <1>4

\* An action that begins comes last.
LEMMA AppendEffect ==
  ASSUME NEW known, NEW actions \in Seq(Frames(known)), NEW frame \in Frames(known)
  PROVE  /\ Append(actions, frame) \in Seq(Frames(known))
         /\ Len(Append(actions, frame)) = Len(actions) + 1
         /\ Last(Append(actions, frame)) = frame
         /\ \A i \in DOMAIN actions : i \in DOMAIN Append(actions, frame) /\ Append(actions, frame)[i] = actions[i]
<1>1. /\ Append(actions, frame) \in Seq(Frames(known)) /\ Len(Append(actions, frame)) = Len(actions) + 1
      /\ Append(actions, frame)[Len(actions) + 1] = frame
      /\ \A i \in DOMAIN actions : i \in DOMAIN Append(actions, frame) /\ Append(actions, frame)[i] = actions[i]
  OBVIOUS
<1> QED  BY <1>1 DEF Last

\* The last action ends.
LEMMA FrontEffect ==
  ASSUME NEW known, NEW actions \in Seq(Frames(known)), actions # << >>
  PROVE  /\ Front(actions) \in Seq(Frames(known))
         /\ Len(Front(actions)) = Len(actions) - 1
         /\ \A i \in DOMAIN actions : i = Len(actions) \/ (i \in DOMAIN Front(actions) /\ Front(actions)[i] = actions[i])
<1>1. Front(actions) = SubSeq(actions, 1, Len(actions) - 1) /\ Len(actions) \in Nat \ {0}
  BY DEF Front
<1>2. \A i \in 1..(Len(actions) - 1) : actions[i] \in Frames(known)
  BY <1>1
<1>3. /\ Front(actions) \in Seq(Frames(known)) /\ Len(Front(actions)) = Len(actions) - 1
      /\ \A i \in 1..(Len(actions) - 1) : Front(actions)[i] = actions[i]
  <2>1. 1 \in Int /\ Len(actions) - 1 \in Int
    BY <1>1
  <2>2. /\ SubSeq(actions, 1, Len(actions) - 1) \in Seq(Frames(known))
        /\ Len(SubSeq(actions, 1, Len(actions) - 1)) = IF 1 <= Len(actions) - 1 THEN (Len(actions) - 1) - 1 + 1 ELSE 0
        /\ \A i \in 1..((Len(actions) - 1) - 1 + 1) : SubSeq(actions, 1, Len(actions) - 1)[i] = actions[1 + i - 1]
    BY <1>2, <2>1, SubSeqProperties
  <2>3. (IF 1 <= Len(actions) - 1 THEN (Len(actions) - 1) - 1 + 1 ELSE 0) = Len(actions) - 1
    <3> DEFINE n == Len(actions)
    <3>1. n \in Nat \ {0}
      BY <1>1
    <3> HIDE DEF n
    <3>2. (IF 1 <= n - 1 THEN (n - 1) - 1 + 1 ELSE 0) = n - 1
      <4>1. CASE n = 1
        BY <4>1
      <4>2. CASE n # 1
        <5>1. 1 <= n - 1 /\ (n - 1) - 1 + 1 = n - 1
          BY <3>1, <4>2
        <5> QED  BY <5>1
      <4> QED  BY <4>1, <4>2
    <3> QED  BY <3>2 DEF n
  <2>5. ASSUME NEW i \in 1..(Len(actions) - 1)
        PROVE  SubSeq(actions, 1, Len(actions) - 1)[i] = actions[i]
    <3>1. i \in 1..((Len(actions) - 1) - 1 + 1) /\ 1 + i - 1 = i
      BY <1>1
    <3> QED  BY <2>2, <3>1
  <2> QED  BY <1>1, <2>2, <2>3, <2>5
<1>4. DOMAIN Front(actions) = 1..(Len(actions) - 1) /\ DOMAIN actions = 1..Len(actions)
  BY <1>1, <1>3
<1> QED  BY <1>1, <1>3, <1>4

\* The history of the last action.
LEMMA LastFrame ==
  ASSUME NEW known, NEW actions \in Seq(Frames(known)), actions # << >>
  PROVE  /\ Last(actions) \in Frames(known) /\ Last(actions) = actions[Len(actions)]
         /\ Last(actions).children \in Seq(known \cup {Failed, Other})
         /\ Last(actions).managed \subseteq known
<1>1. actions[Len(actions)] \in Frames(known)
  OBVIOUS
<1> QED  BY <1>1 DEF Last, Frames

\* dig turns histories around.
LEMMA DigEffect ==
  ASSUME NEW known, NEW actions \in Seq(Frames(known))
  PROVE  LET new == [i \in DOMAIN actions |->
                       IF i = Len(actions) THEN actions[i] ELSE [actions[i] EXCEPT !.children = Reverse(@)]]
         IN  /\ new \in Seq(Frames(known))
             /\ Len(new) = Len(actions) /\ DOMAIN new = DOMAIN actions
             /\ \A i \in DOMAIN actions : new[i].managed = actions[i].managed
<1> DEFINE Turned(i) == [actions[i] EXCEPT !.children = Reverse(@)]
           new       == [i \in DOMAIN actions |-> IF i = Len(actions) THEN actions[i] ELSE Turned(i)]
<1>1. DOMAIN actions = 1..Len(actions) /\ Len(actions) \in Nat
  OBVIOUS
<1>2. ASSUME NEW i \in DOMAIN actions
      PROVE  Turned(i) \in Frames(known) /\ Turned(i).managed = actions[i].managed
  <2>0. actions[i] \in Frames(known)
    OBVIOUS
  <2>1. actions[i].children \in Seq(known \cup {Failed, Other})
    BY <2>0 DEF Frames
  <2>2. ASSUME NEW S, NEW s \in Seq(S) PROVE Reverse(s) \in Seq(S)
    <3>1. Len(s) \in Nat /\ \A k \in 1..Len(s) : (Len(s) - k) + 1 \in 1..Len(s)
      OBVIOUS
    <3>0. \A k \in 1..Len(s) : s[k] \in S
      OBVIOUS
    <3>2. \A k \in 1..Len(s) : s[(Len(s) - k) + 1] \in S
      BY <3>0, <3>1
    <3>3. Reverse(s) \in [1..Len(s) -> S]
      BY <3>2 DEF Reverse
    <3> QED  BY <3>1, <3>3, SeqDef
  <2>3. Reverse(actions[i].children) \in Seq(known \cup {Failed, Other})
    BY <2>1, <2>2
  <2> QED  BY <2>0, <2>3 DEF Frames
<1> HIDE DEF Turned
<1>3. new \in [1..Len(actions) -> Frames(known)]
  BY <1>1, <1>2
<1>4. \A i \in DOMAIN actions : new[i].managed = actions[i].managed
  BY <1>2
<1> HIDE DEF new
<1>5. new \in Seq(Frames(known)) /\ Len(new) = Len(actions) /\ DOMAIN new = DOMAIN actions
  BY <1>1, <1>3, SeqDef
<1> QED  BY <1>4, <1>5 DEF new, Turned

-----------------------------------------------------------------------------
(* The connection of an action that begins.                                *)

\* A set of positions has a first and a last one.
LEMMA Lowest ==
  ASSUME NEW S \in SUBSET Nat, S # {}
  PROVE  \E i \in S : \A j \in S : i <= j
<1> DEFINE R == {ss \in Nat \X Nat : ss[1] < ss[2]}
<1>1. IsWellFoundedOn(R, Nat)
  BY NatLessThanWellFounded DEF OpToRel
<1>2. \E i \in S : \A j \in S : ~(<<j, i>> \in R)
  <2> HIDE DEF R
  <2> QED  BY <1>1, WFMin
<1>3. \A i, j \in S : <<j, i>> \in R <=> j < i
  OBVIOUS
<1> HIDE DEF R
<1>4. PICK i \in S : \A j \in S : ~(<<j, i>> \in R)
  BY <1>2
<1>5. \A j \in S : ~(j < i)
  BY <1>3, <1>4
<1>6. ASSUME NEW j \in S PROVE i <= j
  <2>1. i \in Nat /\ j \in Nat /\ ~(j < i)
    BY <1>5
  <2> QED  BY <2>1
<1> QED  BY <1>6

\* The last one.
LEMMA Highest ==
  ASSUME NEW n \in Nat, NEW S \in SUBSET (1..n), S # {}
  PROVE  \E i \in S : \A j \in S : j <= i
<1> DEFINE T == {n - i : i \in S}
<1>0. \A i \in S : n - i \in Nat
  OBVIOUS
<1>1. T \in SUBSET Nat /\ T # {}
  BY <1>0
<1>2. PICK k \in T : \A j \in T : k <= j
  <2> HIDE DEF T
  <2> QED  BY <1>1, Lowest
<1>3. PICK i \in S : k = n - i
  BY <1>2
<1>4. \A j \in S : n - j \in T
  OBVIOUS
<1> HIDE DEF T
<1> QED  BY <1>2, <1>3, <1>4

\* A history has one of those that are wanted, or none.
LEMMA FirstOfEffect ==
  ASSUME NEW S, NEW siblings \in Seq(S), NEW wanted
  PROVE  \/ FirstOf(siblings, wanted) = Unset /\ \A i \in DOMAIN siblings : siblings[i] \notin wanted
         \/ FirstOf(siblings, wanted) \in wanted /\ \E i \in DOMAIN siblings : FirstOf(siblings, wanted) = siblings[i]
<1> DEFINE found == {i \in DOMAIN siblings : siblings[i] \in wanted}
<1>1. CASE found = {}
  BY <1>1 DEF FirstOf
<1>2. CASE found # {}
  <2>1. found \in SUBSET Nat
    OBVIOUS
  <2>2. \E i \in found : \A j \in found : i <= j
    <3> HIDE DEF found
    <3> QED  BY <1>2, <2>1, Lowest
  <2>3. (CHOOSE i \in found : \A j \in found : i <= j) \in found
    <3> HIDE DEF found
    <3> QED  BY <2>2
  <2>4. FirstOf(siblings, wanted) = siblings[CHOOSE i \in found : \A j \in found : i <= j]
    BY <1>2 DEF FirstOf
  <2> QED  BY <2>3, <2>4
<1> QED  BY <1>1, <1>2

\* The constants that are not connections differ from them, and each other.
LEMMA Apart ==
  /\ Conn \cap {Unset, Null, Config, Failed, Other} = {}
  /\ Unset # Null /\ Unset # Config /\ Unset # Failed /\ Unset # Other
  /\ Failed # Other /\ Failed # Null /\ Failed # Config
BY ConnectionsAssumption DEF Unset, Null, Config, Failed, Other

\* `find` gives a value that an action in progress has.
LEMMA InheritedEffect ==
  ASSUME OnlyOpened
  PROVE  Inherited \in {Unset, Null} \cup Known
<1> DEFINE defined == {i \in DOMAIN path : path[i].ssh # Unset}
<1>1. path \in Seq(Frames(Known))
  BY DEF OnlyOpened
<1>2. \A i \in DOMAIN path : path[i].ssh \in {Unset, Null} \cup Known
  <2>1. \A i \in DOMAIN path : path[i] \in Frames(Known)
    BY <1>1
  <2> QED  BY <2>1 DEF Frames
<1>3. CASE defined = {}
  BY <1>3 DEF Inherited
<1>4. CASE defined # {}
  <2>1. defined \in SUBSET (1..Len(path)) /\ Len(path) \in Nat
    BY <1>1
  <2>2. (CHOOSE i \in defined : \A j \in defined : j <= i) \in defined
    <3> HIDE DEF defined
    <3> QED  BY <1>4, <2>1, Highest
  <2>3. Inherited = path[CHOOSE i \in defined : \A j \in defined : j <= i].ssh
    BY <1>4 DEF Inherited
  <2> QED  BY <1>2, <2>2, <2>3
<1> QED  BY <1>3, <1>4

\* An action that begins runs on a connection that was opened, or on none.
LEMMA SshEffect ==
  ASSUME OnlyOpened, path # << >>, NEW asked \in {Unset, Null} \cup Known
  PROVE  Ssh(asked) \in {Unset, Null, Failed} \cup Known
<1>1. FromSiblings(Last(path).children) \in {Unset, Failed} \cup Known
  <2>1. Last(path).children \in Seq(Known \cup {Failed, Other})
    BY LastFrame DEF OnlyOpened
  <2> DEFINE opened == FirstOf(Last(path).children, Conn \cup {Failed})
  <2>2. opened = Unset \/ opened \in Known \cup {Failed}
    <3>1. \A i \in DOMAIN Last(path).children : Last(path).children[i] \in Known \cup {Failed, Other}
      BY <2>1
    <3>2. \/ opened = Unset
          \/ opened \in Conn \cup {Failed} /\ \E i \in DOMAIN Last(path).children : opened = Last(path).children[i]
      BY <2>1, FirstOfEffect
    <3> QED  BY <3>1, <3>2, Apart
  <2>3. FromSiblings(Last(path).children) \in {Unset, opened}
    BY DEF FromSiblings
  <2> QED  BY <2>2, <2>3
<1>2. Inherited \in {Unset, Null} \cup Known
  BY InheritedEffect
<1> QED  BY <1>1, <1>2 DEF Ssh

-----------------------------------------------------------------------------
(* The steps.                                                              *)

\* The connections that the actions in progress own.
Owned(actions) == UNION {actions[i].managed : i \in DOMAIN actions}

\* One step: the invariant, and what becomes of the connections of the actions that end.
Steps ==
  /\ OnlyOpened'
  /\ \A c \in Owned(path) : c \in Owned(path') \/ conn'[c] = "closed" \/ c \in thrown'

\* What actions own, they own after a step that keeps them.
LEMMA OwnedStay ==
  ASSUME NEW before, NEW after,
         \A i \in DOMAIN before : i \in DOMAIN after /\ after[i].managed = before[i].managed
  PROVE  Owned(before) \subseteq Owned(after)
<1> SUFFICES ASSUME NEW c \in Owned(before) PROVE c \in Owned(after)
  OBVIOUS
<1>1. PICK i \in DOMAIN before : c \in before[i].managed
  BY DEF Owned
<1>2. i \in DOMAIN after /\ c \in after[i].managed
  BY <1>1
<1> QED  BY <1>2 DEF Owned

\* A step that opens a connection or closes some, and keeps the actions with what they own.
LEMMA StepBy ==
  ASSUME OnlyOpened, NEW actions \in Seq(Frames(Known')), path' = actions,
         conn' \in [Conn -> {"none", "open", "closed"}],
         Owned(path) \subseteq Owned(actions)
  PROVE  Steps
BY DEF Steps, OnlyOpened

\* What was opened stays known.
LEMMA KnownNext ==
  ASSUME OnlyOpened, conn' \in [Conn -> {"none", "open", "closed"}],
         \A c \in Conn : conn[c] # "none" => conn'[c] # "none"
  PROVE  Known \subseteq Known' /\ path \in Seq(Frames(Known'))
<1>1. Known \subseteq Known'
  BY DEF Known, Fresh
<1> QED  BY <1>1, FramesGrow DEF OnlyOpened

\* ssh.open.
LEMMA OpenSteps ==
  ASSUME OnlyOpened, Open
  PROVE  Steps
<1>1. path # << >>
  BY DEF Open, CanCall
<1>2. CASE path' = Record(path, Failed) /\ UNCHANGED conn
  <2>1. Known' = Known /\ path \in Seq(Frames(Known))
    BY <1>2 DEF Known, Fresh, OnlyOpened
  <2>2. /\ Record(path, Failed) \in Seq(Frames(Known))
        /\ DOMAIN Record(path, Failed) = DOMAIN path
        /\ \A i \in DOMAIN path : Record(path, Failed)[i].managed = path[i].managed
    BY <1>1, <2>1, RecordEffect
  <2>3. Owned(path) \subseteq Owned(Record(path, Failed))
    BY <2>2, OwnedStay
  <2> QED  BY <1>2, <2>1, <2>2, <2>3, StepBy DEF OnlyOpened
<1>3. ASSUME NEW c \in Fresh, conn' = [conn EXCEPT ![c] = "open"], path' = Record(path, c)
      PROVE  Steps
  <2>1. conn' \in [Conn -> {"none", "open", "closed"}] /\ c \in Known'
        /\ \A d \in Conn : conn[d] # "none" => conn'[d] # "none"
    BY <1>3 DEF OnlyOpened, Fresh, Known
  <2>2. path \in Seq(Frames(Known'))
    BY <2>1, KnownNext
  <2>3. /\ Record(path, c) \in Seq(Frames(Known'))
        /\ DOMAIN Record(path, c) = DOMAIN path
        /\ \A i \in DOMAIN path : Record(path, c)[i].managed = path[i].managed
    BY <1>1, <2>1, <2>2, RecordEffect
  <2>4. Owned(path) \subseteq Owned(Record(path, c))
    BY <2>3, OwnedStay
  <2> QED  BY <1>3, <2>1, <2>3, <2>4, StepBy
<1> QED  BY <1>2, <1>3 DEF Open

\* ssh.close.
LEMMA CloseSteps ==
  ASSUME OnlyOpened, Close
  PROVE  Steps
<1>1. path # << >> /\ path' = Record(path, Other)
  BY DEF Close, CanCall
<1>2. conn' \in [Conn -> {"none", "open", "closed"}] /\ \A d \in Conn : conn[d] # "none" => conn'[d] # "none"
  <2>1. PICK asked \in {Unset} \cup Known :
          conn' = IF Ssh(Unset) = Failed THEN conn
                  ELSE [c \in Conn |-> IF c \in ToClose(asked) THEN "closed" ELSE conn[c]]
    BY DEF Close
  <2> QED  BY <2>1 DEF OnlyOpened
<1>3. path \in Seq(Frames(Known'))
  BY <1>2, KnownNext
<1>4. /\ Record(path, Other) \in Seq(Frames(Known'))
      /\ DOMAIN Record(path, Other) = DOMAIN path
      /\ \A i \in DOMAIN path : Record(path, Other)[i].managed = path[i].managed
  BY <1>1, <1>3, RecordEffect
<1>5. Owned(path) \subseteq Owned(Record(path, Other))
  BY <1>4, OwnedStay
<1> QED  BY <1>1, <1>2, <1>4, <1>5, StepBy

\* The server closes a connection.
LEMMA DropSteps ==
  ASSUME OnlyOpened, Drop
  PROVE  Steps
<1>1. conn' \in [Conn -> {"none", "open", "closed"}] /\ \A d \in Conn : conn[d] # "none" => conn'[d] # "none"
  BY DEF Drop, OnlyOpened
<1>2. path \in Seq(Frames(Known')) /\ path' = path
  BY <1>1, KnownNext DEF Drop
<1> QED  BY <1>1, <1>2, StepBy

\* An action begins.
LEMMA BeginSteps ==
  ASSUME OnlyOpened, Begin
  PROVE  Steps
<1>1. path # << >> /\ conn' = conn /\ path \in Seq(Frames(Known)) /\ Known' = Known
  BY DEF Begin, CanCall, OnlyOpened, Known, Fresh
<1>2. PICK asked \in {Unset, Null} \cup Known :
        path' = IF Ssh(asked) = Failed
                THEN Record(path, Other)
                ELSE Append(path, [asked |-> asked, ssh |-> Ssh(asked), managed |-> {}, children |-> << >>])
  BY DEF Begin
<1>3. CASE Ssh(asked) = Failed
  <2>1. /\ Record(path, Other) \in Seq(Frames(Known))
        /\ DOMAIN Record(path, Other) = DOMAIN path
        /\ \A i \in DOMAIN path : Record(path, Other)[i].managed = path[i].managed
    BY <1>1, RecordEffect
  <2>2. Owned(path) \subseteq Owned(Record(path, Other))
    BY <2>1, OwnedStay
  <2> QED  BY <1>1, <1>2, <1>3, <2>1, <2>2, StepBy DEF OnlyOpened
<1>4. CASE Ssh(asked) # Failed
  <2> DEFINE frame == [asked |-> asked, ssh |-> Ssh(asked), managed |-> {}, children |-> << >>]
  <2>1. Ssh(asked) \in {Unset, Null} \cup Known
    BY <1>1, <1>4, SshEffect
  <2>2. frame \in Frames(Known)
    BY <2>1 DEF Frames
  <2>3. path' = Append(path, frame)
    BY <1>2, <1>4
  <2> HIDE DEF frame
  <2>4. /\ Append(path, frame) \in Seq(Frames(Known))
        /\ \A i \in DOMAIN path : i \in DOMAIN Append(path, frame) /\ Append(path, frame)[i] = path[i]
    BY <1>1, <2>2, AppendEffect
  <2>5. Owned(path) \subseteq Owned(Append(path, frame))
    BY <2>4, OwnedStay
  <2> QED  BY <1>1, <2>3, <2>4, <2>5, StepBy DEF OnlyOpened
<1> QED  BY <1>3, <1>4

\* An action begins with a connection of its own.
LEMMA BeginManagedSteps ==
  ASSUME OnlyOpened, BeginManaged
  PROVE  Steps
<1>1. path # << >> /\ path \in Seq(Frames(Known))
  BY DEF BeginManaged, CanCall, OnlyOpened
<1>2. CASE path' = Record(path, Other) /\ UNCHANGED conn
  <2>0. Known' = Known
    BY <1>2 DEF Known, Fresh
  <2>1. /\ Record(path, Other) \in Seq(Frames(Known))
        /\ DOMAIN Record(path, Other) = DOMAIN path
        /\ \A i \in DOMAIN path : Record(path, Other)[i].managed = path[i].managed
    BY <1>1, RecordEffect
  <2>2. Owned(path) \subseteq Owned(Record(path, Other))
    BY <2>1, OwnedStay
  <2> QED  BY <1>2, <2>0, <2>1, <2>2, StepBy DEF OnlyOpened
<1>3. ASSUME NEW c \in Fresh, conn' = [conn EXCEPT ![c] = "open"],
             path' = Append(path, [asked |-> Config, ssh |-> c, managed |-> {c}, children |-> << >>])
      PROVE  Steps
  <2> DEFINE frame == [asked |-> Config, ssh |-> c, managed |-> {c}, children |-> << >>]
  <2>1. conn' \in [Conn -> {"none", "open", "closed"}] /\ c \in Known'
        /\ \A d \in Conn : conn[d] # "none" => conn'[d] # "none"
    BY <1>3 DEF OnlyOpened, Fresh, Known
  <2>2. frame \in Frames(Known')
    BY <2>1 DEF Frames
  <2>3. path \in Seq(Frames(Known')) /\ path' = Append(path, frame)
    BY <1>3, <2>1, KnownNext
  <2> HIDE DEF frame
  <2>4. /\ Append(path, frame) \in Seq(Frames(Known'))
        /\ \A i \in DOMAIN path : i \in DOMAIN Append(path, frame) /\ Append(path, frame)[i] = path[i]
    BY <2>2, <2>3, AppendEffect
  <2>5. Owned(path) \subseteq Owned(Append(path, frame))
    BY <2>4, OwnedStay
  <2> QED  BY <2>1, <2>3, <2>4, <2>5, StepBy
<1> QED  BY <1>2, <1>3 DEF BeginManaged

\* The handler calls dig.
LEMMA DigSteps ==
  ASSUME OnlyOpened, Dig
  PROVE  Steps
<1>1. path \in Seq(Frames(Known)) /\ Known' = Known /\ conn' = conn
  BY DEF OnlyOpened, Dig, Known, Fresh
<1> DEFINE new == [i \in DOMAIN path |->
                     IF i = Len(path) THEN path[i] ELSE [path[i] EXCEPT !.children = Reverse(@)]]
<1>2. path' = new
  BY DEF Dig
<1>3. new \in Seq(Frames(Known)) /\ DOMAIN new = DOMAIN path /\ \A i \in DOMAIN path : new[i].managed = path[i].managed
  BY <1>1, DigEffect
<1> HIDE DEF new
<1>4. Owned(path) \subseteq Owned(new)
  BY <1>3, OwnedStay
<1> QED  BY <1>1, <1>2, <1>3, <1>4, StepBy DEF OnlyOpened

\* The last action ends: what the others own stays.
LEMMA OwnedByOthers ==
  ASSUME NEW known, NEW before \in Seq(Frames(known)), before # << >>, NEW after,
         \A i \in DOMAIN before :
           i = Len(before) \/ (i \in DOMAIN after /\ after[i].managed = before[i].managed)
  PROVE  Owned(before) \subseteq Owned(after) \cup Last(before).managed
<1> SUFFICES ASSUME NEW c \in Owned(before), c \notin Last(before).managed PROVE c \in Owned(after)
  OBVIOUS
<1>1. PICK i \in DOMAIN before : c \in before[i].managed
  BY DEF Owned
<1>2. i \in DOMAIN after /\ c \in after[i].managed
  BY <1>1 DEF Last
<1> QED  BY <1>2 DEF Owned

\* The last action ends and is recorded by its parent.
LEMMA ReturnEffect ==
  ASSUME NEW known, path \in Seq(Frames(known)), path # << >>
  PROVE  Return \in Seq(Frames(known)) /\ Owned(path) \subseteq Owned(Return) \cup Last(path).managed
<1>1. CASE Len(path) = 1
  <2>1. Return = << >> /\ \A i \in DOMAIN path : i = Len(path)
    BY <1>1 DEF Return
  <2> QED  BY <2>1, OwnedByOthers
<1>2. CASE Len(path) # 1
  <2>1. /\ Front(path) \in Seq(Frames(known)) /\ Front(path) # << >>
        /\ \A i \in DOMAIN path : i = Len(path) \/ (i \in DOMAIN Front(path) /\ Front(path)[i] = path[i])
    <3>1. /\ Front(path) \in Seq(Frames(known)) /\ Len(Front(path)) = Len(path) - 1
          /\ \A i \in DOMAIN path : i = Len(path) \/ (i \in DOMAIN Front(path) /\ Front(path)[i] = path[i])
      BY FrontEffect
    <3> QED  BY <1>2, <3>1
  <2>2. /\ Record(Front(path), Other) \in Seq(Frames(known))
        /\ DOMAIN Record(Front(path), Other) = DOMAIN Front(path)
        /\ \A i \in DOMAIN Front(path) : Record(Front(path), Other)[i].managed = Front(path)[i].managed
    BY <2>1, RecordEffect
  <2>3. Return = Record(Front(path), Other)
    BY <1>2 DEF Return
  <2>4. Owned(path) \subseteq Owned(Record(Front(path), Other)) \cup Last(path).managed
    BY <2>1, <2>2, OwnedByOthers
  <2> QED  BY <2>2, <2>3, <2>4
<1> QED  BY <1>1, <1>2

\* An action ends.
LEMMA EndSteps ==
  ASSUME OnlyOpened, End
  PROVE  Steps
<1>1. path # << >> /\ path' \in {Return, Front(path)}
      /\ conn' = [c \in Conn |-> IF c \in Last(path).managed THEN "closed" ELSE conn[c]]
  BY DEF End
<1>2. conn' \in [Conn -> {"none", "open", "closed"}] /\ \A d \in Conn : conn[d] # "none" => conn'[d] # "none"
  BY <1>1 DEF OnlyOpened
<1>3. path \in Seq(Frames(Known')) /\ path \in Seq(Frames(Known))
  BY <1>2, KnownNext DEF OnlyOpened
<1>4. /\ path' \in Seq(Frames(Known'))
      /\ Owned(path) \subseteq Owned(path') \cup Last(path).managed
  <2>1. CASE path' = Return
    BY <1>1, <1>3, <2>1, ReturnEffect
  <2>2. CASE path' = Front(path)
    <3>1. /\ Front(path) \in Seq(Frames(Known'))
          /\ \A i \in DOMAIN path : i = Len(path) \/ (i \in DOMAIN Front(path) /\ Front(path)[i] = path[i])
      BY <1>1, <1>3, FrontEffect
    <3>2. Owned(path) \subseteq Owned(Front(path)) \cup Last(path).managed
      BY <1>1, <1>3, <3>1, OwnedByOthers
    <3> QED  BY <2>2, <3>1, <3>2
  <2> QED  BY <1>1, <2>1, <2>2
<1>5. Last(path).managed \subseteq Conn
  <2>1. Last(path).managed \subseteq Known
    BY <1>1, <1>3, LastFrame
  <2> QED  BY <2>1 DEF Known
<1>6. \A c \in Last(path).managed : conn'[c] = "closed"
  BY <1>1, <1>5
<1> QED  BY <1>1, <1>2, <1>4, <1>6 DEF Steps, OnlyOpened

\* A hook that comes before that of ssh throws.
LEMMA EndThrowsSteps ==
  ASSUME OnlyOpened, EndThrows
  PROVE  Steps
<1>1. path # << >> /\ path' = Front(path) /\ conn' = conn /\ thrown' = thrown \cup Last(path).managed
  BY DEF EndThrows
<1>2. path \in Seq(Frames(Known)) /\ Known' = Known
  BY <1>1 DEF OnlyOpened, Known, Fresh
<1>3. /\ Front(path) \in Seq(Frames(Known))
      /\ \A i \in DOMAIN path : i = Len(path) \/ (i \in DOMAIN Front(path) /\ Front(path)[i] = path[i])
  BY <1>1, <1>2, FrontEffect
<1>4. Owned(path) \subseteq Owned(Front(path)) \cup Last(path).managed
  BY <1>1, <1>2, <1>3, OwnedByOthers
<1> QED  BY <1>1, <1>2, <1>3, <1>4 DEF Steps, OnlyOpened

\* Every step.
LEMMA NextSteps ==
  ASSUME OnlyOpened, [Next]_vars
  PROVE  Steps
<1>1. CASE UNCHANGED vars
  <2>1. Known' = Known /\ path' = path /\ conn' = conn
    BY <1>1 DEF vars, Known, Fresh
  <2> QED  BY <2>1 DEF Steps, OnlyOpened
<1> QED  BY <1>1, OpenSteps, CloseSteps, DropSteps, BeginSteps, BeginManagedSteps, DigSteps, EndSteps,
            EndThrowsSteps DEF Next

\* The invariant holds at first.
LEMMA OnlyOpenedInit ==
  Init => OnlyOpened
<1> SUFFICES ASSUME Init PROVE OnlyOpened
  OBVIOUS
<1>1. PICK x \in {Unset, Null} : path = <<[asked |-> x, ssh |-> x, managed |-> {}, children |-> << >>]>>
  BY DEF Init
<1>2. [asked |-> x, ssh |-> x, managed |-> {}, children |-> << >>] \in Frames(Known)
  BY DEF Frames
<1>3. path \in Seq(Frames(Known))
  BY <1>1, <1>2
<1>4. conn \in [Conn -> {"none", "open", "closed"}]
  BY DEF Init
<1> QED  BY <1>3, <1>4 DEF OnlyOpened

-----------------------------------------------------------------------------
(* The theorems.                                                           *)

(* The actions in progress, and what they remember of their children, know *)
(* no connection that nobody opened: an action runs on its machine or on a *)
(* connection that ssh.open or Nikita opened.                              *)
THEOREM OnlyOpenedAlways == Spec => []OnlyOpened
<1>1. OnlyOpened /\ [Next]_vars => OnlyOpened'
  BY NextSteps DEF Steps
<1> QED  BY OnlyOpenedInit, <1>1, PTL DEF Spec

(* A connection that Nikita opens for an action is closed when the action  *)
(* ends, whatever the depth at which it was opened and whether the action  *)
(* or the closing fails or not, unless a hook on nikita:result that comes  *)
(* before that of ssh throws.                                              *)
THEOREM ManagedAreClosed == Spec => ManagedClosed
<1>1. OnlyOpened /\ [Next]_vars =>
        [\A c \in InProgress : c \notin UNION {path'[i].managed : i \in DOMAIN path'} =>
           conn'[c] = "closed" \/ c \in thrown']_vars
  <2> SUFFICES ASSUME OnlyOpened, [Next]_vars
               PROVE  \A c \in InProgress : c \notin UNION {path'[i].managed : i \in DOMAIN path'} =>
                        conn'[c] = "closed" \/ c \in thrown'
    OBVIOUS
  <2>1. Steps
    BY NextSteps
  <2> QED  BY <2>1 DEF Steps, Owned, InProgress
<1> QED  BY <1>1, OnlyOpenedAlways, PTL DEF Spec, ManagedClosed

\* What `ssh` reads in the history of the parent.
LEMMA FromSiblingsEffect ==
  ASSUME OnlyOpened, path # << >>, FromSiblings(Last(path).children) # Failed
  PROVE  LET ssh == FromSiblings(Last(path).children)
         IN  /\ ssh # Unset => ssh \in Opened /\ conn[ssh] = "open"
             /\ Opened # {} /\ (\A c \in Opened : conn[c] = "open") => ssh # Unset
<1> DEFINE children == Last(path).children
           opened   == FirstOf(children, Conn \cup {Failed})
           ssh      == FromSiblings(children)
<1>1. children \in Seq(Known \cup {Failed, Other})
  BY LastFrame DEF OnlyOpened
<1>2. \/ opened = Unset /\ \A i \in DOMAIN children : children[i] \notin Conn \cup {Failed}
      \/ opened \in Conn \cup {Failed} /\ \E i \in DOMAIN children : opened = children[i]
  BY <1>1, FirstOfEffect
<1>3. Opened = {children[i] : i \in DOMAIN children} \cap Conn
  BY DEF Opened, Range
<1>4. ssh = IF opened \in Conn /\ conn[opened] = "closed" THEN Unset ELSE opened
  BY DEF FromSiblings
<1>5. \A i \in DOMAIN children : children[i] \in Known \cup {Failed, Other}
  BY <1>1
<1>6. \A c \in Known : conn[c] \in {"open", "closed"}
  BY DEF OnlyOpened, Known, Fresh
<1> HIDE DEF children, opened
<1>7. opened \in Conn => opened \in Opened /\ conn[opened] \in {"open", "closed"}
  BY <1>2, <1>3, <1>5, <1>6, Apart
<1>8. opened # Failed
  BY <1>4, Apart DEF children
<1> HIDE DEF ssh
<1>9. opened \notin Conn => Opened = {}
  BY <1>2, <1>3, <1>8
<1>10. ssh # Unset => ssh \in Opened /\ conn[ssh] = "open"
  BY <1>2, <1>4, <1>7, <1>8, Apart
<1>11. ASSUME Opened # {}, \A c \in Opened : conn[c] = "open"
       PROVE  ssh # Unset
  <2>1. opened \in Conn /\ conn[opened] = "open"
    BY <1>7, <1>9, <1>11
  <2> QED  BY <1>4, <2>1, Apart
<1> QED  BY <1>10, <1>11 DEF ssh, children

(* An action that is called without `$ssh` runs where the nearest of its   *)
(* ancestors with a connection does; without one, on an open connection    *)
(* that a sibling opened or on none, and on one if all are still open.     *)
THEOREM RunWhereOpened == Spec => RunsWhereOpened
<1> DEFINE Told == (Len(path') > Len(path) /\ Last(path').asked = Unset) =>
       IF Inherited # Unset
       THEN Last(path').ssh = (IF Inherited = Null THEN Unset ELSE Inherited)
       ELSE /\ Last(path').ssh # Unset => Last(path').ssh \in Opened /\ conn[Last(path').ssh] = "open"
            /\ Opened # {} /\ (\A c \in Opened : conn[c] = "open") => Last(path').ssh # Unset
<1>1. ASSUME OnlyOpened, Next, Len(path') > Len(path), Last(path').asked = Unset
      PROVE  Told
  <2>1. path \in Seq(Frames(Known)) /\ Len(path) \in Nat
    BY <1>1 DEF OnlyOpened
  <2>2. ASSUME path # << >>, NEW child, path' = Record(path, child) PROVE FALSE
    <3>1. Len(Record(path, child)) = Len(path)
      BY <2>1 DEF Record
    <3> QED  BY <1>1, <2>1, <2>2, <3>1
  <2>3. ~Open /\ ~Close
    BY <2>2 DEF Open, Close, CanCall
  <2>4. ~Drop
    BY <1>1, <2>1 DEF Drop
  <2>5. ~Dig
    <3> SUFFICES ASSUME Dig PROVE FALSE
      OBVIOUS
    <3>1. Len(path') = Len(path)
      BY <2>1, DigEffect DEF Dig
    <3> QED  BY <1>1, <2>1, <3>1
  <2>6. ASSUME path # << >> PROVE Len(Front(path)) = Len(path) - 1 /\ Front(path) \in Seq(Frames(Known))
    BY <2>1, <2>6, FrontEffect
  <2>7. ~EndThrows
    BY <1>1, <2>1, <2>6 DEF EndThrows
  <2>8. ~End
    <3> SUFFICES ASSUME End PROVE FALSE
      OBVIOUS
    <3>0. path # << >> /\ path' \in {Return, Front(path)}
      BY DEF End
    <3>1. path # << >> /\ path' = Return
      BY <1>1, <2>1, <2>6, <3>0
    <3>2. CASE Len(path) = 1
      BY <1>1, <3>1, <3>2 DEF Return
    <3>3. CASE Len(path) # 1
      <4>1. Len(path') = Len(Record(Front(path), Other))
        BY <3>1, <3>3 DEF Return
      <4>2. Len(Record(Front(path), Other)) = Len(Front(path))
        BY <2>6, <3>1 DEF Record
      <4> QED  BY <1>1, <2>1, <2>6, <3>1, <4>1, <4>2
    <3> QED  BY <3>2, <3>3
  <2>9. ~BeginManaged
    <3> SUFFICES ASSUME NEW c, path # << >>,
                        path' = Append(path, [asked |-> Config, ssh |-> c, managed |-> {c}, children |-> << >>])
                 PROVE  FALSE
      BY <2>2 DEF BeginManaged, CanCall
    <3>1. Last(path').asked = Config
      <4> DEFINE frame == [asked |-> Config, ssh |-> c, managed |-> {c}, children |-> << >>]
      <4>1. frame.asked = Config
        OBVIOUS
      <4> HIDE DEF frame
      <4>2. Last(Append(path, frame)) = frame
        BY <2>1 DEF Last
      <4> QED  BY <4>1, <4>2 DEF frame
    <3> QED  BY <1>1, <3>1, Apart
  <2>10. Begin
    BY <1>1, <2>3, <2>4, <2>5, <2>7, <2>8, <2>9 DEF Next
  <2>11. path # << >>
    BY <2>10 DEF Begin, CanCall
  <2>12. PICK asked \in {Unset, Null} \cup Known :
           path' = IF Ssh(asked) = Failed
                   THEN Record(path, Other)
                   ELSE Append(path, [asked |-> asked, ssh |-> Ssh(asked), managed |-> {}, children |-> << >>])
    BY <2>10 DEF Begin
  <2>13. Ssh(asked) # Failed
    BY <2>2, <2>11, <2>12
  <2>14. Last(path').asked = asked /\ Last(path').ssh = Ssh(asked)
    <3> DEFINE frame == [asked |-> asked, ssh |-> Ssh(asked), managed |-> {}, children |-> << >>]
    <3>1. path' = Append(path, frame) /\ frame.asked = asked /\ frame.ssh = Ssh(asked)
      BY <2>12, <2>13
    <3> HIDE DEF frame
    <3>2. Last(Append(path, frame)) = frame
      BY <2>1 DEF Last
    <3> QED  BY <3>1, <3>2
  <2>15. Last(path').ssh = Ssh(Unset) /\ Ssh(Unset) # Failed
    BY <1>1, <2>13, <2>14
  <2>16. CASE Inherited # Unset
    BY <2>15, <2>16 DEF Ssh
  <2>17. CASE Inherited = Unset
    <3>1. Ssh(Unset) = FromSiblings(Last(path).children)
      BY <2>17 DEF Ssh
    <3> QED  BY <1>1, <2>11, <2>15, <2>17, <3>1, FromSiblingsEffect
  <2> QED  BY <2>16, <2>17
<1>2. OnlyOpened /\ [Next]_vars => [Told]_vars
  BY <1>1
<1> QED  BY <1>2, OnlyOpenedAlways, PTL DEF Spec, RunsWhereOpened
=============================================================================
