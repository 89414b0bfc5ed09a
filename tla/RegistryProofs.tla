----------------------------- MODULE RegistryProofs -----------------------------
(***************************************************************************)
(* What is proved of the registry of actions.                              *)
(*                                                                         *)
(* The invariant is Registered: what the nodes hold are actions, the       *)
(* namespace of each is there, what was last said of a name holds of its   *)
(* node, and a call that walks was given a tree.                           *)
(*                                                                         *)
(* The lookups go from a registry to its parent.  That they are defined    *)
(* for every registry, and that something holds of every registry, is      *)
(* proved from the assumption on Parent: in every set of registries one    *)
(* has its parent outside.                                                 *)
(***************************************************************************)
EXTENDS Registry, SequenceTheorems, TLAPS

Handlers == {a.handler : a \in Registrable}

PropNames  == {"deprecate"} \cup UNION {DOMAIN a.props : a \in Registrable}
PropValues == {TRUE} \cup UNION {{a.props[p] : p \in DOMAIN a.props} : a \in Registrable}
Props      == UNION {[D -> PropValues] : D \in SUBSET PropNames}

\* What a node may hold: actions, and those that come from them by merging.
Holdable == [handler : Handlers, props : Props]

\* What a registry may be.
Shelf == UNION {[D -> Holdable \cup {Vacant}] : D \in SUBSET Name}

\* The namespace of an action is there too.
Closed(store) ==
  \A n \in DOMAIN store : \A i \in 1..Len(n) : SubSeq(n, 1, i) \in DOMAIN store

At(store, n) == IF n \in DOMAIN store THEN store[n] ELSE Vacant

\* A handler is none of the values that stand for nothing.
LEMMA HandlersApart ==
  /\ Handlers \cap {Vacant.handler, Free, Unclear} = {}
  /\ Free # Unclear
  /\ Vacant \notin Holdable
<1>1. Handlers \cap {Vacant.handler, Free, Unclear} = {}
  <2>1. \A a \in Registrable : a.handler \notin {Vacant.handler, Free, Unclear}
    BY RegistryAssumption
  <2> QED  BY <2>1 DEF Handlers
<1>2. Vacant \notin Holdable
  BY <1>1 DEF Holdable
<1> QED  BY <1>1, <1>2 DEF Free, Unclear

\* Merging stays among the properties that actions may have.
LEMMA PropsMerge ==
  ASSUME NEW p \in Props, NEW q \in Props
  PROVE  Over(p, q) \in Props
<1>1. PICK D \in SUBSET PropNames : p \in [D -> PropValues]
  BY DEF Props
<1>2. PICK E \in SUBSET PropNames : q \in [E -> PropValues]
  BY DEF Props
<1>3. Over(p, q) \in [D \cup E -> PropValues]
  BY <1>1, <1>2 DEF Over
<1>4. D \cup E \in SUBSET PropNames
  OBVIOUS
<1> QED  BY <1>3, <1>4 DEF Props

\* A node may hold what is registered.
LEMMA RegistrableHoldable ==
  ASSUME NEW a \in Registrable
  PROVE  a \in Holdable
<1>1. a = [handler |-> a.handler, props |-> a.props]
  BY RegistryAssumption
<1>2. a.handler \in Handlers
  BY DEF Handlers
<1>3. a.props \in Props
  <2>1. a.props = [p \in DOMAIN a.props |-> a.props[p]]
    BY RegistryAssumption
  <2>2. ASSUME NEW q \in DOMAIN a.props
        PROVE  a.props[q] \in PropValues
    <3>1. {a.props[p] : p \in DOMAIN a.props} \in {{b.props[p] : p \in DOMAIN b.props} : b \in Registrable}
      OBVIOUS
    <3>2. a.props[q] \in {a.props[p] : p \in DOMAIN a.props}
      OBVIOUS
    <3> QED  BY <3>1, <3>2 DEF PropValues
  <2>0. DOMAIN a.props \in {DOMAIN b.props : b \in Registrable}
    OBVIOUS
  <2>3. DOMAIN a.props \in SUBSET PropNames
    BY <2>0 DEF PropNames
  <2>4. a.props \in [DOMAIN a.props -> PropValues]
    BY <2>1, <2>2
  <2> QED  BY <2>3, <2>4 DEF Props
<1> QED  BY <1>1, <1>2, <1>3 DEF Holdable

\* A node may hold an action that is deprecated; its handler is the same.
LEMMA DeprecatedHoldable ==
  ASSUME NEW a \in Registrable
  PROVE  /\ [a EXCEPT !.props = Over([k \in {"deprecate"} |-> TRUE], @)] \in Holdable
         /\ [a EXCEPT !.props = Over([k \in {"deprecate"} |-> TRUE], @)].handler = a.handler
<1>1. a \in Holdable
  BY RegistrableHoldable
<1>2. [k \in {"deprecate"} |-> TRUE] \in [{"deprecate"} -> PropValues] /\ {"deprecate"} \in SUBSET PropNames
  BY DEF PropValues, PropNames
<1>3. [k \in {"deprecate"} |-> TRUE] \in Props
  BY <1>2 DEF Props
<1>4. Over([k \in {"deprecate"} |-> TRUE], a.props) \in Props
  BY <1>1, <1>3, PropsMerge DEF Holdable
<1> QED  BY <1>1, <1>4 DEF Holdable

\* Merging keeps the handler of the second action.
LEMMA MergeHoldable ==
  ASSUME NEW a \in Holdable \cup {Vacant}, NEW b \in Holdable
  PROVE  Merge(a, b) \in Holdable /\ Merge(a, b).handler = b.handler
<1>1. CASE a = Vacant
  BY <1>1 DEF Merge
<1>2. CASE a # Vacant
  <2>1. b # Vacant /\ a \in Holdable
    BY <1>2, HandlersApart
  <2>2. Merge(a, b) = [b EXCEPT !.props = Over(b.props, a.props)]
    BY <1>2, <2>1 DEF Merge
  <2>3. Over(b.props, a.props) \in Props
    BY <2>1, PropsMerge DEF Holdable
  <2> QED  BY <2>2, <2>3 DEF Holdable
<1> QED  BY <1>1, <1>2

-----------------------------------------------------------------------------
(* What the operations do to a registry.                                   *)

\* The namespaces of a name are names.
LEMMA Names ==
  ASSUME NEW n \in Name
  PROVE  /\ n \in Seq(STRING) /\ Len(n) \in Nat \ {0}
         /\ SubSeq(n, 1, Len(n)) = n
         /\ \A i \in 1..Len(n) : /\ SubSeq(n, 1, i) \in Name
                                 /\ Len(SubSeq(n, 1, i)) = i
                                 /\ \A j \in 1..i : SubSeq(SubSeq(n, 1, i), 1, j) = SubSeq(n, 1, j)
<1>1. n \in Seq(STRING) /\ n # << >> /\ \A i \in 1..Len(n) : SubSeq(n, 1, i) \in Name
  BY RegistryAssumption
<1>2. Len(n) \in Nat \ {0} /\ SubSeq(n, 1, Len(n)) = n
  BY <1>1
<1>3. ASSUME NEW i \in 1..Len(n), NEW j \in 1..i
      PROVE  Len(SubSeq(n, 1, i)) = i /\ SubSeq(SubSeq(n, 1, i), 1, j) = SubSeq(n, 1, j)
  BY <1>1
<1>4. \A i \in 1..Len(n) : Len(SubSeq(n, 1, i)) = i
  BY <1>1
<1> QED  BY <1>1, <1>2, <1>3, <1>4

\* The nodes that lead to some names.
LEMMA ReachedClosed ==
  ASSUME NEW names \in SUBSET Name
  PROVE  /\ names \subseteq Reached(names)
         /\ Reached(names) \subseteq Name
         /\ \A n \in Reached(names) : \A i \in 1..Len(n) : SubSeq(n, 1, i) \in Reached(names)
<1>1. ASSUME NEW n \in names
      PROVE  n \in Reached(names)
  <2>1. n \in Prefixes1(n)
    BY Names DEF Prefixes1
  <2> QED  BY <2>1 DEF Reached
<1>2. ASSUME NEW m \in Reached(names)
      PROVE  m \in Name /\ \A j \in 1..Len(m) : SubSeq(m, 1, j) \in Reached(names)
  <2>0. PICK n \in names : m \in Prefixes1(n)
    BY DEF Reached
  <2>1. PICK i \in 1..Len(n) : m = SubSeq(n, 1, i)
    BY <2>0 DEF Prefixes1
  <2>2. m \in Name /\ Len(m) = i /\ \A j \in 1..i : SubSeq(m, 1, j) = SubSeq(n, 1, j)
    BY <2>1, Names
  <2>3. \A j \in 1..i : SubSeq(n, 1, j) \in Prefixes1(n)
    BY Names DEF Prefixes1
  <2>4. \A j \in 1..i : SubSeq(n, 1, j) \in Reached(names)
    BY <2>3 DEF Reached
  <2> QED  BY <2>2, <2>4
<1> QED  BY <1>1, <1>2

\* A registry that grows to reach some names, whatever they hold then.
LEMMA Grows ==
  ASSUME NEW store \in Shelf, Closed(store), NEW names \in SUBSET Name, NEW new,
         DOMAIN new = DOMAIN store \cup Reached(names),
         new = [m \in DOMAIN new |-> new[m]],
         \A m \in DOMAIN new : new[m] \in Holdable \cup {Vacant}
  PROVE  new \in Shelf /\ Closed(new)
<1>1. DOMAIN store \in SUBSET Name
  BY DEF Shelf
<1>2. DOMAIN new \in SUBSET Name
  BY <1>1, ReachedClosed
<1>3. new \in [DOMAIN new -> Holdable \cup {Vacant}]
  OBVIOUS
<1>4. new \in Shelf
  BY <1>2, <1>3 DEF Shelf
<1>5. Closed(new)
  BY ReachedClosed DEF Closed
<1> QED  BY <1>4, <1>5

\* What a name finds in a registry.
LEMMA AtHoldable ==
  ASSUME NEW store \in Shelf, NEW n
  PROVE  At(store, n) \in Holdable \cup {Vacant}
BY DEF Shelf, At

\* register(name, action) changes what one name finds.
LEMMA PlaceEffect ==
  ASSUME NEW store \in Shelf, Closed(store), NEW n \in Name, NEW a \in Holdable
  PROVE  /\ Place(store, n, a) \in Shelf /\ Closed(Place(store, n, a))
         /\ \A m \in Name : At(Place(store, n, a), m) = IF m = n THEN a ELSE At(store, m)
<1> DEFINE new == Place(store, n, a)
<1>1. new = [m \in DOMAIN store \cup Reached({n}) |-> IF m = n THEN a ELSE At(store, m)]
  BY DEF Place, At, Reached
<1>2. {n} \in SUBSET Name /\ n \in Reached({n})
  BY ReachedClosed
<1>3. \A m \in DOMAIN new : new[m] \in Holdable \cup {Vacant}
  BY <1>1, AtHoldable
<1>4. DOMAIN new = DOMAIN store \cup Reached({n}) /\ new = [m \in DOMAIN new |-> new[m]]
  BY <1>1
<1> HIDE DEF new
<1>5. new \in Shelf /\ Closed(new)
  BY <1>2, <1>3, <1>4, Grows
<1>6. \A m \in Name : At(new, m) = IF m = n THEN a ELSE At(store, m)
  BY <1>1, <1>2, <1>4 DEF At
<1> QED  BY <1>5, <1>6 DEF new

\* register(tree) changes what the names of the tree find.
LEMMA GraftEffect ==
  ASSUME NEW store \in Shelf, Closed(store), NEW t \in Tree
  PROVE  LET names == {Named(leaf) : leaf \in Range(t)}
         IN  /\ Graft(store, t) \in Shelf /\ Closed(Graft(store, t))
             /\ \A m \in names : Leaf(t, m) \in Registrable
             /\ \A m \in Name :
                  IF m \in names THEN /\ At(Graft(store, t), m) \in Holdable
                                       /\ At(Graft(store, t), m).handler = Leaf(t, m).handler
                                  ELSE At(Graft(store, t), m) = At(store, m)
<1> DEFINE names == {Named(leaf) : leaf \in Range(t)}
           new   == Graft(store, t)
<1>1. ASSUME NEW m \in names
      PROVE  Leaf(t, m) \in Registrable
  <2>1. (CHOOSE leaf \in Range(t) : Named(leaf) = m) \in Range(t)
    OBVIOUS
  <2>2. Leaf(t, m) \in {leaf.action : leaf \in Range(t)}
    BY <2>1 DEF Leaf
  <2> QED  BY <2>2 DEF Registrable
<1>2. names \in SUBSET Name /\ names \subseteq Reached(names)
  BY RegistryAssumption, ReachedClosed
<1> HIDE DEF names
<1>3. new = [m \in DOMAIN store \cup Reached(names) |->
               IF m \in names THEN Merge(At(store, m), Leaf(t, m)) ELSE At(store, m)]
  BY DEF Graft, At, names
<1>4. ASSUME NEW m \in names
      PROVE  /\ Merge(At(store, m), Leaf(t, m)) \in Holdable
             /\ Merge(At(store, m), Leaf(t, m)).handler = Leaf(t, m).handler
  BY <1>1, AtHoldable, RegistrableHoldable, MergeHoldable
<1>5. \A m \in DOMAIN new : new[m] \in Holdable \cup {Vacant}
  BY <1>3, <1>4, AtHoldable
<1>6. DOMAIN new = DOMAIN store \cup Reached(names) /\ new = [m \in DOMAIN new |-> new[m]]
  BY <1>3
<1> HIDE DEF new
<1>7. new \in Shelf /\ Closed(new)
  BY <1>2, <1>5, <1>6, Grows
<1>8. ASSUME NEW m \in Name
      PROVE  IF m \in names THEN At(new, m) \in Holdable /\ At(new, m).handler = Leaf(t, m).handler
                            ELSE At(new, m) = At(store, m)
  <2>1. CASE m \in names
    <3>1. At(new, m) = Merge(At(store, m), Leaf(t, m))
      BY <1>2, <1>3, <1>6, <2>1 DEF At
    <3> QED  BY <1>4, <2>1, <3>1
  <2>2. CASE m \notin names
    BY <1>3, <1>6, <2>2 DEF At
  <2> QED  BY <2>1, <2>2
<1> QED  BY <1>1, <1>7, <1>8 DEF new, names

\* unregister(name) empties the name and those below.
LEMMA RestrictEffect ==
  ASSUME NEW store \in Shelf, Closed(store), NEW n \in Name
  PROVE  LET below == {m \in Name : IsPrefix(n, m)}
             new   == Restrict(store, DOMAIN store \ below)
         IN  /\ new \in Shelf /\ Closed(new)
             /\ \A m \in Name : At(new, m) = IF m \in below THEN Vacant ELSE At(store, m)
<1> DEFINE below == {m \in Name : IsPrefix(n, m)}
           new   == Restrict(store, DOMAIN store \ below)
<1>1. DOMAIN new = DOMAIN store \ below /\ \A m \in DOMAIN new : new[m] = store[m]
  BY DEF Restrict
<1>2. DOMAIN store \in SUBSET Name /\ new \in [DOMAIN store \ below -> Holdable \cup {Vacant}]
  BY DEF Shelf, Restrict
<1>3. new \in Shelf
  <2>1. DOMAIN store \ below \in SUBSET Name
    BY <1>2
  <2> HIDE DEF new, below
  <2> QED  BY <1>2, <2>1 DEF Shelf
<1>4. ASSUME NEW m \in DOMAIN new, NEW i \in 1..Len(m)
      PROVE  SubSeq(m, 1, i) \in DOMAIN new
  <2> DEFINE p == SubSeq(m, 1, i)
  <2>1. m \in Name /\ m \in DOMAIN store /\ ~IsPrefix(n, m)
    BY <1>1, <1>2
  <2>2. p \in DOMAIN store
    BY <2>1 DEF Closed
  <2>3. ASSUME IsPrefix(n, p) PROVE FALSE
    <3>1. /\ Len(n) \in Nat \ {0} /\ Len(m) \in Nat
          /\ Len(p) = i /\ \A j \in 1..i : SubSeq(p, 1, j) = SubSeq(m, 1, j)
      BY <2>1, Names
    <3> HIDE DEF p
    <3>2. Len(n) <= i /\ SubSeq(n, 1, Len(n)) = SubSeq(p, 1, Len(n))
      BY <2>3, <3>1 DEF IsPrefix
    <3>3. Len(n) <= Len(m) /\ SubSeq(p, 1, Len(n)) = SubSeq(m, 1, Len(n))
      BY <3>1, <3>2
    <3> QED  BY <2>1, <3>2, <3>3 DEF IsPrefix
  <2> QED  BY <1>1, <2>2, <2>3
<1>5. \A m \in Name : At(new, m) = IF m \in below THEN Vacant ELSE At(store, m)
  <2> HIDE DEF new, below
  <2> QED  BY <1>1 DEF At
<1> HIDE DEF new
<1> QED  BY <1>3, <1>4, <1>5 DEF Closed, new

-----------------------------------------------------------------------------
(* The invariant.                                                          *)

States == {"walking", "telling", "fulfilled", "rejected"}

\* A call that walks, or will walk again, is given a tree.
CallOK(call) ==
  /\ {"store", "leaves", "told", "state"} \subseteq DOMAIN call
  /\ call.store \in Store
  /\ call.state \in States
  /\ call.leaves \in Tree \/ (call.told = << >> /\ call.state # "walking")

\* What was last said of a name holds of its node.
Tracks(shelf, last) ==
  \A n \in Name : /\ last[n] = Free => At(shelf, n) = Vacant
                  /\ last[n] \in Handlers => At(shelf, n) # Vacant /\ At(shelf, n).handler = last[n]

StoresOK(ns, ls) ==
  /\ ns \in [Store -> Shelf]
  /\ ls \in [Store -> [Name -> Handlers \cup {Free, Unclear}]]
  /\ \A r \in Store : Closed(ns[r]) /\ Tracks(ns[r], ls[r])

CallsOK(cs) ==
  /\ \E S : cs \in Seq(S)
  /\ Len(cs) <= MaxCalls
  /\ \A i \in DOMAIN cs : CallOK(cs[i])

Registered == StoresOK(nodes, latest) /\ CallsOK(calls)

\* The invariant holds at first.
LEMMA RegisteredInit ==
  Init => Registered
<1> SUFFICES ASSUME Init PROVE Registered
  OBVIOUS
<1>1. << >> \in Shelf /\ DOMAIN << >> = {}
  <2>1. << >> \in [{} -> Holdable \cup {Vacant}] /\ {} \in SUBSET Name
    OBVIOUS
  <2> QED  BY <2>1 DEF Shelf
<1>2. nodes \in [Store -> Shelf] /\ \A r \in Store : nodes[r] = << >>
  BY <1>1 DEF Init
<1>3. /\ latest \in [Store -> [Name -> Handlers \cup {Free, Unclear}]]
      /\ \A r \in Store : \A n \in Name : latest[r][n] = Free
  BY DEF Init
<1>4. \A r \in Store : Closed(nodes[r])
  BY <1>1, <1>2 DEF Closed
<1>5. \A r \in Store : Tracks(nodes[r], latest[r])
  BY <1>1, <1>2, <1>3, HandlersApart DEF Tracks, At
<1>6. StoresOK(nodes, latest)
  BY <1>2, <1>3, <1>4, <1>5 DEF StoresOK
<1>7. calls \in Seq({}) /\ Len(calls) = 0 /\ DOMAIN calls = {}
  BY DEF Init
<1>8. CallsOK(calls)
  BY <1>7, RegistryAssumption DEF CallsOK
<1> QED  BY <1>6, <1>8 DEF Registered

\* One registry changes.
LEMMA StoresUpdate ==
  ASSUME NEW ns, NEW ls, StoresOK(ns, ls), NEW r \in Store, NEW shelf, NEW last,
         shelf \in Shelf, Closed(shelf), last \in [Name -> Handlers \cup {Free, Unclear}], Tracks(shelf, last)
  PROVE  StoresOK([ns EXCEPT ![r] = shelf], [ls EXCEPT ![r] = last])
<1>1. /\ [ns EXCEPT ![r] = shelf] \in [Store -> Shelf]
      /\ [ls EXCEPT ![r] = last] \in [Store -> [Name -> Handlers \cup {Free, Unclear}]]
  BY DEF StoresOK
<1>2. ASSUME NEW q \in Store
      PROVE  /\ Closed([ns EXCEPT ![r] = shelf][q])
             /\ Tracks([ns EXCEPT ![r] = shelf][q], [ls EXCEPT ![r] = last][q])
  <2>1. CASE q = r
    BY <2>1 DEF StoresOK
  <2>2. CASE q # r
    BY <2>2 DEF StoresOK
  <2> QED  BY <2>1, <2>2
<1> QED  BY <1>1, <1>2 DEF StoresOK

\* Changing a call keeps what the invariant says of it.
LEMMA CallSet ==
  ASSUME NEW call, CallOK(call), NEW x, NEW y, NEW told, NEW state \in States
  PROVE  /\ CallOK([call EXCEPT !.alone = x])
         /\ call.leaves \in Tree =>
              CallOK([call EXCEPT !.keys = x, !.left = y, !.told = told, !.state = state])
<1>1. ASSUME NEW new, DOMAIN new = DOMAIN call,
             \A f \in {"store", "leaves"} : new[f] = call[f], new["state"] \in States,
             new["leaves"] \in Tree \/ (new["told"] = call["told"] /\ new["state"] = call["state"])
      PROVE  CallOK(new)
  BY <1>1 DEF CallOK
<1>2. CallOK([call EXCEPT !.alone = x])
  <2> DEFINE new == [call EXCEPT !.alone = x]
  <2>1. /\ DOMAIN new = DOMAIN call /\ new["told"] = call["told"] /\ new["state"] = call["state"]
        /\ \A f \in {"store", "leaves"} : new[f] = call[f]
    BY DEF CallOK
  <2>2. call["state"] \in States
    BY DEF CallOK
  <2> HIDE DEF new
  <2>3. CallOK(new)
    BY <1>1, <2>1, <2>2
  <2> QED  BY <2>3 DEF new
<1>3. ASSUME call.leaves \in Tree
      PROVE  CallOK([call EXCEPT !.keys = x, !.left = y, !.told = told, !.state = state])
  <2> DEFINE new == [call EXCEPT !.keys = x, !.left = y, !.told = told, !.state = state]
  <2>1. /\ DOMAIN new = DOMAIN call /\ new["state"] = state
        /\ \A f \in {"store", "leaves"} : new[f] = call[f]
    BY DEF CallOK
  <2> HIDE DEF new
  <2>2. CallOK(new)
    BY <1>1, <1>3, <2>1
  <2> QED  BY <2>2 DEF new
<1> QED  BY <1>2, <1>3

\* The calls that are met are marked.
LEMMA CallsMarked ==
  ASSUME NEW cs, CallsOK(cs), NEW met
  PROVE  LET new == [i \in DOMAIN cs |-> IF i \in met THEN [cs[i] EXCEPT !.alone = FALSE] ELSE cs[i]]
         IN  CallsOK(new) /\ Len(new) = Len(cs)
<1> DEFINE new == [i \in DOMAIN cs |-> IF i \in met THEN [cs[i] EXCEPT !.alone = FALSE] ELSE cs[i]]
           T   == {new[i] : i \in DOMAIN cs}
<1>1. DOMAIN cs = 1..Len(cs) /\ Len(cs) \in Nat
  BY DEF CallsOK
<1>2. \A i \in DOMAIN cs : CallOK(new[i])
  <2> SUFFICES ASSUME NEW i \in DOMAIN cs PROVE CallOK(new[i])
    OBVIOUS
  <2>1. CallOK(cs[i])
    BY DEF CallsOK
  <2>2. CallOK([cs[i] EXCEPT !.alone = FALSE])
    BY <2>1, CallSet DEF CallOK
  <2>3. new[i] = IF i \in met THEN [cs[i] EXCEPT !.alone = FALSE] ELSE cs[i]
    OBVIOUS
  <2> HIDE DEF new
  <2>4. CASE i \in met
    <3>1. new[i] = [cs[i] EXCEPT !.alone = FALSE]
      BY <2>3, <2>4
    <3> QED  BY <2>2, <3>1
  <2>5. CASE i \notin met
    BY <2>1, <2>3, <2>5
  <2> QED  BY <2>4, <2>5
<1>3. new \in [1..Len(cs) -> T]
  BY <1>1
<1>4. new \in Seq(T) /\ Len(new) = Len(cs) /\ DOMAIN new = DOMAIN cs
  <2> HIDE DEF new, T
  <2> QED  BY <1>1, <1>3, SeqDef
<1> HIDE DEF new, T
<1>5. Len(new) <= MaxCalls
  BY <1>4 DEF CallsOK
<1> QED  BY <1>2, <1>4, <1>5 DEF CallsOK, new

\* One call changes.
LEMMA CallChanged ==
  ASSUME NEW cs, CallsOK(cs), NEW i \in DOMAIN cs, NEW call, CallOK(call)
  PROVE  CallsOK([cs EXCEPT ![i] = call])
<1>1. PICK S : cs \in Seq(S)
  BY DEF CallsOK
<1>2. cs \in Seq(S \cup {call})
  BY <1>1
<1>3. /\ [cs EXCEPT ![i] = call] \in Seq(S \cup {call})
      /\ Len([cs EXCEPT ![i] = call]) = Len(cs)
      /\ DOMAIN [cs EXCEPT ![i] = call] = DOMAIN cs
  BY <1>2
<1>4. \A j \in DOMAIN cs : CallOK([cs EXCEPT ![i] = call][j])
  BY DEF CallsOK
<1>5. Len(cs) <= MaxCalls
  BY DEF CallsOK
<1> QED  BY <1>3, <1>4, <1>5 DEF CallsOK

\* A call is made.
LEMMA CallBegins ==
  ASSUME NEW cs, CallsOK(cs), Len(cs) < MaxCalls, NEW call, CallOK(call)
  PROVE  CallsOK(Append(cs, call))
<1>1. PICK S : cs \in Seq(S)
  BY DEF CallsOK
<1>2. cs \in Seq(S \cup {call})
  BY <1>1
<1>3. /\ Append(cs, call) \in Seq(S \cup {call}) /\ Len(Append(cs, call)) = Len(cs) + 1
      /\ DOMAIN Append(cs, call) = 1..(Len(cs) + 1) /\ DOMAIN cs = 1..Len(cs) /\ Len(cs) \in Nat
      /\ \A j \in 1..(Len(cs) + 1) : Append(cs, call)[j] = IF j = Len(cs) + 1 THEN call ELSE cs[j]
  BY <1>2
<1>4. \A j \in DOMAIN Append(cs, call) : CallOK(Append(cs, call)[j])
  BY <1>3 DEF CallsOK
<1>5. Len(cs) + 1 <= MaxCalls
  BY <1>3, RegistryAssumption
<1> QED  BY <1>3, <1>4, <1>5 DEF CallsOK

\* register is called.
LEMMA BeginEffect ==
  ASSUME CallsOK(calls), Len(calls) < MaxCalls, NEW r \in Store, NEW leaves, NEW left, NEW state,
         state \in States, leaves \in Tree \/ state # "walking", Begin(r, leaves, left, state)
  PROVE  CallsOK(calls')
<1> DEFINE met  == Met(r, {Named(leaf) : leaf \in Range(leaves)})
           old  == [i \in DOMAIN calls |-> IF i \in met THEN [calls[i] EXCEPT !.alone = FALSE] ELSE calls[i]]
           call == [store |-> r, leaves |-> leaves, left |-> left, keys |-> << >>, told |-> << >>,
                    alone |-> met = {}, state |-> state]
<1>1. calls' = Append(old, call)
  BY DEF Begin
<1>2. CallOK(call)
  BY DEF CallOK
<1> HIDE DEF call, met
<1>3. CallsOK(old) /\ Len(old) = Len(calls)
  BY CallsMarked
<1> HIDE DEF old
<1>4. CallsOK(Append(old, call))
  BY <1>2, <1>3, CallBegins
<1> QED  BY <1>1, <1>4

\* register(name, action) keeps the invariant.
LEMMA RegisterOneKeeps ==
  ASSUME Registered, NEW r \in Store, NEW n \in Name, NEW a, a \in Holdable, RegisterOne(r, n, a)
  PROVE  Registered'
<1>1. nodes[r] \in Shelf /\ Closed(nodes[r]) /\ latest[r] \in [Name -> Handlers \cup {Free, Unclear}]
      /\ Tracks(nodes[r], latest[r])
  BY DEF Registered, StoresOK
<1> DEFINE shelf == Place(nodes[r], n, a)
           said  == IF Met(r, {n}) = {} THEN a.handler ELSE Unclear
           last  == [latest[r] EXCEPT ![n] = said]
<1>2. shelf \in Shelf /\ Closed(shelf) /\ \A m \in Name : At(shelf, m) = IF m = n THEN a ELSE At(nodes[r], m)
  BY <1>1, PlaceEffect
<1>3. a.handler \in Handlers /\ said \in {a.handler, Unclear}
  BY DEF Holdable
<1>4. nodes' = [nodes EXCEPT ![r] = shelf] /\ latest' = [latest EXCEPT ![r] = last]
  BY DEF RegisterOne
<1> HIDE DEF shelf, said
<1>5. last \in [Name -> Handlers \cup {Free, Unclear}]
      /\ \A m \in Name : last[m] = IF m = n THEN said ELSE latest[r][m]
  BY <1>1, <1>3
<1>6. a # Vacant /\ Free \notin Handlers /\ Unclear \notin Handlers /\ Free # Unclear
  BY HandlersApart
<1> HIDE DEF last
<1>7. Tracks(shelf, last)
  BY <1>1, <1>2, <1>3, <1>5, <1>6 DEF Tracks
<1>8. StoresOK(nodes', latest')
  BY <1>2, <1>4, <1>5, <1>7, StoresUpdate DEF Registered
<1>9. CallsOK(calls')
  <2>1. PICK leaves, left, state :
          Begin(r, leaves, left, state) /\ state \in {"telling", "fulfilled"}
    BY DEF RegisterOne
  <2>2. state \in States /\ state # "walking" /\ CallsOK(calls) /\ Len(calls) < MaxCalls
    BY <2>1 DEF States, Registered, RegisterOne
  <2> QED  BY <2>1, <2>2, BeginEffect
<1> QED  BY <1>8, <1>9 DEF Registered

\* register(tree) keeps the invariant.
LEMMA RegisterTreeKeeps ==
  ASSUME Registered, NEW r \in Store, NEW t \in Tree, RegisterTree(r, t)
  PROVE  Registered'
<1>1. CallsOK(calls')
  <2>1. Begin(r, t, t, "walking") /\ "walking" \in States /\ CallsOK(calls) /\ Len(calls) < MaxCalls
    BY DEF RegisterTree, States, Registered
  <2> QED  BY <2>1, BeginEffect
<1> QED  BY <1>1 DEF Registered, RegisterTree

\* A step of one call, which leaves the registries alone.
LEMMA CallKeeps ==
  ASSUME Registered, NEW i \in DOMAIN calls, TellLeaf(i) \/ Accept(i) \/ Refuse(i)
  PROVE  Registered'
<1>1. CallsOK(calls) /\ CallOK(calls[i])
  BY DEF Registered, CallsOK
<1>2. \E call : CallOK(call) /\ calls' = [calls EXCEPT ![i] = call]
  <2>1. CASE TellLeaf(i)
    <3> DEFINE keys  == calls[i].keys \o NewKeys(calls[i])
               told  == IF calls[i].store \in Listening THEN Append(calls[i].told, keys) ELSE calls[i].told
               state == IF calls[i].store \in Listening THEN "telling" ELSE calls[i].state
               call  == [calls[i] EXCEPT !.keys = keys, !.left = Tail(@), !.told = told, !.state = state]
    <3>1. calls' = [calls EXCEPT ![i] = call]
      BY <2>1 DEF TellLeaf
    <3>2. calls[i].state = "walking"
      BY <2>1 DEF TellLeaf
    <3>3. calls[i].leaves \in Tree /\ state \in States
      BY <1>1, <3>2 DEF CallOK, States
    <3> HIDE DEF keys, told, state
    <3>4. CallOK(call)
      BY <1>1, <3>3, CallSet
    <3> HIDE DEF call
    <3> QED  BY <3>1, <3>4
  <2>2. CASE Accept(i)
    <3> DEFINE state == IF calls[i].told # << >> THEN "walking" ELSE "fulfilled"
               call  == [calls[i] EXCEPT !.state = state]
    <3>1. calls' = [calls EXCEPT ![i] = call]
      BY <2>2 DEF Accept
    <3>2. CallOK(call)
      BY <1>1 DEF CallOK, States
    <3> HIDE DEF call
    <3> QED  BY <3>1, <3>2
  <2>3. CASE Refuse(i)
    <3> DEFINE call == [calls[i] EXCEPT !.state = "rejected"]
    <3>1. calls' = [calls EXCEPT ![i] = call]
      BY <2>3 DEF Refuse
    <3>2. CallOK(call)
      BY <1>1 DEF CallOK, States
    <3> HIDE DEF call
    <3> QED  BY <3>1, <3>2
  <2> QED  BY <2>1, <2>2, <2>3
<1>3. CallsOK(calls')
  <2>1. PICK call : CallOK(call) /\ calls' = [calls EXCEPT ![i] = call]
    BY <1>2
  <2>2. CallsOK([calls EXCEPT ![i] = call])
    BY <1>1, <2>1, CallChanged
  <2> QED  BY <2>1, <2>2
<1>4. nodes' = nodes /\ latest' = latest
  BY DEF TellLeaf, Accept, Refuse
<1> QED  BY <1>3, <1>4 DEF Registered

\* The end of register(tree) keeps the invariant.
LEMMA GraftTreeKeeps ==
  ASSUME Registered, NEW i \in DOMAIN calls, GraftTree(i)
  PROVE  Registered'
<1> DEFINE r     == calls[i].store
           t     == calls[i].leaves
           names == {Named(leaf) : leaf \in Range(t)}
           shelf == Graft(nodes[r], t)
           last  == [n \in Name |-> IF n \notin names THEN latest[r][n]
                                    ELSE IF calls[i].alone THEN Leaf(t, n).handler ELSE Unclear]
<1>1. CallsOK(calls) /\ CallOK(calls[i]) /\ StoresOK(nodes, latest)
  BY DEF Registered, CallsOK
<1>2. r \in Store /\ t \in Tree
  BY <1>1 DEF CallOK, GraftTree
<1>3. nodes[r] \in Shelf /\ Closed(nodes[r]) /\ latest[r] \in [Name -> Handlers \cup {Free, Unclear}]
      /\ Tracks(nodes[r], latest[r])
  BY <1>1, <1>2 DEF StoresOK
<1>4. nodes' = [nodes EXCEPT ![r] = shelf] /\ latest' = [latest EXCEPT ![r] = last]
  BY DEF GraftTree, About
<1>5. /\ shelf \in Shelf /\ Closed(shelf)
      /\ \A m \in names : Leaf(t, m) \in Registrable
      /\ \A m \in Name : IF m \in names THEN At(shelf, m) \in Holdable /\ At(shelf, m).handler = Leaf(t, m).handler
                                        ELSE At(shelf, m) = At(nodes[r], m)
  BY <1>2, <1>3, GraftEffect
<1>6. CallsOK(calls')
  <2>1. CallOK([calls[i] EXCEPT !.state = "fulfilled"])
    BY <1>1 DEF CallOK, States
  <2>2. calls' = [calls EXCEPT ![i] = [calls[i] EXCEPT !.state = "fulfilled"]]
    BY DEF GraftTree
  <2> QED  BY <1>1, <2>1, <2>2, CallChanged
<1> HIDE DEF shelf, names, r, t
<1>7. \A m \in names : Leaf(t, m).handler \in Handlers
  BY <1>5 DEF Handlers
<1>8. /\ last \in [Name -> Handlers \cup {Free, Unclear}]
      /\ \A m \in Name : IF m \in names THEN last[m] \in {Leaf(t, m).handler, Unclear} ELSE last[m] = latest[r][m]
  BY <1>3, <1>7
<1> HIDE DEF last
<1>9. Tracks(shelf, last)
  <2> SUFFICES ASSUME NEW m \in Name
               PROVE  /\ last[m] = Free => At(shelf, m) = Vacant
                      /\ last[m] \in Handlers => At(shelf, m) # Vacant /\ At(shelf, m).handler = last[m]
    BY DEF Tracks
  <2>1. CASE m \in names
    BY <1>5, <1>7, <1>8, <2>1, HandlersApart
  <2>2. CASE m \notin names
    BY <1>3, <1>5, <1>8, <2>2 DEF Tracks
  <2> QED  BY <2>1, <2>2
<1>10. StoresOK(nodes', latest')
  BY <1>1, <1>2, <1>4, <1>5, <1>8, <1>9, StoresUpdate
<1> QED  BY <1>6, <1>10 DEF Registered

\* unregister keeps the invariant.
LEMMA UnregisterKeeps ==
  ASSUME Registered, NEW r \in Store, NEW n \in Name, Unregister(r, n)
  PROVE  Registered'
<1> DEFINE below == {m \in Name : IsPrefix(n, m)}
           met   == Met(r, below)
           shelf == Restrict(nodes[r], DOMAIN nodes[r] \ below)
           last  == [m \in Name |-> IF m \notin below THEN latest[r][m] ELSE IF met = {} THEN Free ELSE Unclear]
<1>1. nodes[r] \in Shelf /\ Closed(nodes[r]) /\ latest[r] \in [Name -> Handlers \cup {Free, Unclear}]
      /\ Tracks(nodes[r], latest[r])
  BY DEF Registered, StoresOK
<1>2. nodes' = [nodes EXCEPT ![r] = shelf] /\ latest' = [latest EXCEPT ![r] = last]
  BY DEF Unregister
<1>3. calls' = [i \in DOMAIN calls |-> IF i \in met THEN [calls[i] EXCEPT !.alone = FALSE] ELSE calls[i]]
  BY DEF Unregister
<1>4. shelf \in Shelf /\ Closed(shelf)
      /\ \A m \in Name : At(shelf, m) = IF m \in below THEN Vacant ELSE At(nodes[r], m)
  BY <1>1, RestrictEffect
<1> HIDE DEF shelf, below, met
<1>5. /\ last \in [Name -> Handlers \cup {Free, Unclear}]
      /\ \A m \in Name : IF m \in below THEN last[m] \in {Free, Unclear} ELSE last[m] = latest[r][m]
  BY <1>1
<1> HIDE DEF last
<1>6. Tracks(shelf, last)
  BY <1>1, <1>4, <1>5, HandlersApart DEF Tracks
<1>7. StoresOK(nodes', latest')
  BY <1>2, <1>4, <1>5, <1>6, StoresUpdate DEF Registered
<1>8. CallsOK(calls')
  BY <1>3, CallsMarked DEF Registered
<1> QED  BY <1>7, <1>8 DEF Registered

\* Every step keeps the invariant.
LEMMA RegisteredNext ==
  Registered /\ [Next]_vars => Registered'
<1> SUFFICES ASSUME Registered, [Next]_vars PROVE Registered'
  OBVIOUS
<1>1. ASSUME NEW r \in Store, NEW n \in Name, NEW a \in Action, RegisterOne(r, n, a)
      PROVE  Registered'
  BY <1>1, RegisterOneKeeps, RegistrableHoldable DEF Registrable
<1>2. ASSUME NEW r \in Store, NEW n \in Name, NEW a \in Action, Deprecate(r, n, a)
      PROVE  Registered'
  <2> DEFINE b == [a EXCEPT !.props = Over([k \in {"deprecate"} |-> TRUE], @)]
  <2>1. b \in Holdable
    BY DeprecatedHoldable DEF Registrable
  <2>2. RegisterOne(r, n, b)
    BY <1>2 DEF Deprecate
  <2> HIDE DEF b
  <2> QED  BY <2>1, <2>2, RegisterOneKeeps
<1>3. ASSUME NEW r \in Store, NEW t \in Tree, RegisterTree(r, t)
      PROVE  Registered'
  BY <1>3, RegisterTreeKeeps
<1>4. ASSUME NEW r \in Store, NEW n \in Name, Unregister(r, n)
      PROVE  Registered'
  BY <1>4, UnregisterKeeps
<1>5. ASSUME NEW i \in DOMAIN calls, TellLeaf(i) \/ Accept(i) \/ Refuse(i)
      PROVE  Registered'
  BY <1>5, CallKeeps
<1>6. ASSUME NEW i \in DOMAIN calls, GraftTree(i)
      PROVE  Registered'
  BY <1>6, GraftTreeKeeps
<1>7. CASE UNCHANGED vars
  BY <1>7 DEF vars, Registered
<1> QED  BY <1>1, <1>2, <1>3, <1>4, <1>5, <1>6, <1>7 DEF Next

-----------------------------------------------------------------------------
(* The lookups, from one registry to its parent.                           *)

\* What is b at the top, and follows from what its parent has at a registry.
Follows(g, V, b, F) ==
  /\ g \in [Store \cup {Top} -> V]
  /\ g[Top] = b
  /\ \A r \in Store : g[r] = F[r][g[Parent[r]]]

\* The parents end at the global registry: what is defined from one registry to the next is defined for all.
LEMMA FromParents ==
  ASSUME NEW V, NEW b \in V, NEW F \in [Store -> [V -> V]]
  PROVE  \E g : Follows(g, V, b, F)
<1> DEFINE W         == (Store \cup {Top}) \X V
           Closes(Q) == /\ <<Top, b>> \in Q
                         /\ \A r \in Store : \A v \in V : <<Parent[r], v>> \in Q => <<r, F[r][v]>> \in Q
           R         == {w \in W : \A Q \in SUBSET W : Closes(Q) => w \in Q}
           Bad       == {r \in Store : ~\E u \in V : /\ <<r, u>> \in R
                                                     /\ \A v \in V : <<r, v>> \in R => v = u}
<1>1. Top \notin Store /\ Parent \in [Store -> Store \cup {Top}]
  BY RegistryAssumption
<1>2. Closes(R)
  <2>1. <<Top, b>> \in R
    OBVIOUS
  <2>2. ASSUME NEW r \in Store, NEW v \in V, <<Parent[r], v>> \in R
        PROVE  <<r, F[r][v]>> \in R
    <3>1. <<r, F[r][v]>> \in W
      OBVIOUS
    <3>2. ASSUME NEW Q \in SUBSET W, Closes(Q)
          PROVE  <<r, F[r][v]>> \in Q
      BY <2>2, <3>2
    <3> QED  BY <3>1, <3>2
  <2> QED  BY <2>1, <2>2
<1>3. ASSUME NEW Q \in SUBSET W, Closes(Q) PROVE R \subseteq Q
  BY <1>3
<1>4. R \subseteq W
  OBVIOUS
<1> HIDE DEF R
<1>5. ASSUME NEW v \in V, <<Top, v>> \in R PROVE v = b
  <2> SUFFICES ASSUME v # b PROVE FALSE
    OBVIOUS
  <2>1. Closes(R \ {<<Top, v>>})
    BY <1>1, <1>2
  <2> QED  BY <1>3, <1>4, <1>5, <2>1
<1>6. Bad = {}
  <2> SUFFICES ASSUME Bad # {} PROVE FALSE
    OBVIOUS
  <2>1. Bad \in SUBSET Store
    OBVIOUS
  <2>2. PICK r \in Bad : Parent[r] \notin Bad
    BY <2>1, RegistryAssumption
  <2>3. r \in Store /\ Parent[r] \in Store \cup {Top}
    BY <1>1
  <2>4. PICK u \in V : <<Parent[r], u>> \in R /\ \A v \in V : <<Parent[r], v>> \in R => v = u
    <3>1. CASE Parent[r] = Top
      BY <1>2, <1>5, <3>1
    <3>2. CASE Parent[r] \in Store
      BY <2>2, <3>2
    <3> QED  BY <2>3, <3>1, <3>2
  <2>5. <<r, F[r][u]>> \in R /\ F[r][u] \in V
    BY <1>2, <2>3, <2>4
  <2>6. PICK v \in V : <<r, v>> \in R /\ v # F[r][u]
    BY <2>3, <2>5
  <2>7. Closes(R \ {<<r, v>>})
    <3>1. <<Top, b>> \in R \ {<<r, v>>}
      BY <1>1, <1>2, <2>3
    <3>2. ASSUME NEW q \in Store, NEW w \in V, <<Parent[q], w>> \in R \ {<<r, v>>}
          PROVE  <<q, F[q][w]>> \in R \ {<<r, v>>}
      <4>1. <<q, F[q][w]>> \in R
        BY <1>2, <3>2
      <4>2. <<q, F[q][w]>> # <<r, v>>
        BY <2>4, <2>6, <3>2
      <4> QED  BY <4>1, <4>2
    <3> QED  BY <3>1, <3>2
  <2> QED  BY <1>3, <1>4, <2>6, <2>7
<1> DEFINE g == [r \in Store \cup {Top} |-> CHOOSE v \in V : <<r, v>> \in R]
<1>7. ASSUME NEW r \in Store \cup {Top}
      PROVE  g[r] \in V /\ <<r, g[r]>> \in R /\ \A v \in V : <<r, v>> \in R => v = g[r]
  <2>1. PICK u \in V : <<r, u>> \in R /\ \A v \in V : <<r, v>> \in R => v = u
    BY <1>2, <1>5, <1>6
  <2>2. g[r] = CHOOSE v \in V : <<r, v>> \in R
    OBVIOUS
  <2> HIDE DEF g
  <2> QED  BY <2>1, <2>2
<1>8. g \in [Store \cup {Top} -> V]
  BY <1>7
<1> HIDE DEF g
<1>9. g[Top] = b
  BY <1>2, <1>7
<1>10. ASSUME NEW r \in Store PROVE g[r] = F[r][g[Parent[r]]]
  <2>1. g[Parent[r]] \in V /\ <<Parent[r], g[Parent[r]]>> \in R
    BY <1>1, <1>7
  <2>2. <<r, F[r][g[Parent[r]]]>> \in R /\ F[r][g[Parent[r]]] \in V
    BY <1>2, <2>1
  <2> QED  BY <1>7, <2>2
<1> QED  BY <1>8, <1>9, <1>10 DEF Follows

\* To show something of every registry, from one to the next.
LEMMA FromParent ==
  ASSUME NEW S \in SUBSET Store, \A r \in Store : Parent[r] \in S \cup {Top} => r \in S
  PROVE  S = Store
<1>1. Store \ S \in SUBSET Store
  OBVIOUS
<1> SUFFICES ASSUME Store \ S # {} PROVE FALSE
  OBVIOUS
<1>2. PICK r \in Store \ S : Parent[r] \notin Store \ S
  BY <1>1, RegistryAssumption
<1> QED  BY <1>2, RegistryAssumption

\* What get finds from a registry and from its parent.
LEMMA GetStep ==
  ASSUME NEW r \in Store, NEW n \in Name
  PROVE  /\ Get[Top][n] = Vacant
         /\ Get[r][n] = IF Held(r, n) # Vacant THEN Held(r, n) ELSE Get[Parent[r]][n]
<1> DEFINE X == {Vacant} \cup {Held(q, m) : q \in Store, m \in Name}
           V == [Name -> X]
           b == [m \in Name |-> Vacant]
           F == [q \in Store |-> [v \in V |-> [m \in Name |-> IF Held(q, m) # Vacant THEN Held(q, m) ELSE v[m]]]]
<1>0. \A q \in Store, m \in Name : Held(q, m) \in X
  OBVIOUS
<1>1. b \in V /\ F \in [Store -> [V -> V]]
  BY <1>0
<1>2. \A q \in Store : \A v \in V :
         F[q][v] = [m \in Name |-> IF Held(q, m) # Vacant THEN Held(q, m) ELSE v[m]]
  OBVIOUS
<1> HIDE DEF F, V, X, b
<1>3. PICK g : Follows(g, V, b, F)
  BY <1>1, FromParents
<1>4. Top \notin Store /\ Parent \in [Store -> Store \cup {Top}]
  BY RegistryAssumption
<1> DEFINE Body(f) ==
      [q \in Store \cup {Top} |->
         [m \in Name |-> IF q = Top THEN Vacant ELSE IF Held(q, m) # Vacant THEN Held(q, m) ELSE f[Parent[q]][m]]]
<1>5. \A q \in Store \cup {Top} : g[q] = Body(g)[q]
  BY <1>2, <1>3, <1>4 DEF b, Follows
<1>6. g = Body(g)
  BY <1>3, <1>5 DEF Follows
<1>7. Get = Body(Get)
  BY <1>6 DEF Get
<1>8. Get[Top] = [m \in Name |-> Vacant]
  BY <1>4, <1>7
<1>9. Get[r] = [m \in Name |-> IF Held(r, m) # Vacant THEN Held(r, m) ELSE Get[Parent[r]][m]]
  BY <1>4, <1>7
<1> QED  BY <1>8, <1>9

\* What registered finds from a registry and from its parent.
LEMMA IsRegisteredStep ==
  ASSUME NEW r \in Store, NEW n \in Name
  PROVE  /\ IsRegistered[Top][n] <=> FALSE
         /\ IsRegistered[r][n] <=> IsRegistered[Parent[r]][n] \/ Held(r, n) # Vacant
<1> DEFINE V == [Name -> BOOLEAN]
           b == [m \in Name |-> FALSE]
           F == [q \in Store |-> [v \in V |-> [m \in Name |-> v[m] \/ Held(q, m) # Vacant]]]
<1>1. b \in V /\ F \in [Store -> [V -> V]]
  OBVIOUS
<1>2. \A q \in Store : \A v \in V : F[q][v] = [m \in Name |-> v[m] \/ Held(q, m) # Vacant]
  OBVIOUS
<1> HIDE DEF F, V, b
<1>3. PICK g : Follows(g, V, b, F)
  BY <1>1, FromParents
<1>4. Top \notin Store /\ Parent \in [Store -> Store \cup {Top}]
  BY RegistryAssumption
<1> DEFINE Body(f) ==
      [q \in Store \cup {Top} |-> [m \in Name |-> q # Top /\ (f[Parent[q]][m] \/ Held(q, m) # Vacant)]]
<1>5. \A q \in Store \cup {Top} : g[q] = Body(g)[q]
  <2>1. g[Top] = Body(g)[Top]
    <3>1. Body(g)[Top] = [m \in Name |-> FALSE]
      OBVIOUS
    <3> HIDE DEF Body
    <3> QED  BY <1>3, <3>1 DEF b, Follows
  <2>2. ASSUME NEW q \in Store PROVE g[q] = Body(g)[q]
    <3>1. Body(g)[q] = [m \in Name |-> g[Parent[q]][m] \/ Held(q, m) # Vacant]
      BY <1>4
    <3>2. g[Parent[q]] \in V
      BY <1>3, <1>4 DEF Follows
    <3> HIDE DEF Body
    <3> QED  BY <1>2, <1>3, <3>1, <3>2 DEF Follows
  <2> QED  BY <2>1, <2>2
<1>6. g = Body(g)
  BY <1>3, <1>5 DEF Follows
<1>7. IsRegistered = Body(IsRegistered)
  BY <1>6 DEF IsRegistered
<1>8. IsRegistered[Top] = [m \in Name |-> FALSE]
  BY <1>4, <1>7
<1>9. IsRegistered[r] = [m \in Name |-> IsRegistered[Parent[r]][m] \/ Held(r, m) # Vacant]
  BY <1>4, <1>7
<1> QED  BY <1>8, <1>9

\* What registered finds in partial mode from a registry and from its parent.
LEMMA IsNamespaceStep ==
  ASSUME NEW r \in Store, NEW n \in Name
  PROVE  /\ IsNamespace[Top][n] <=> FALSE
         /\ IsNamespace[r][n] <=> IsNamespace[Parent[r]][n] \/ n \in DOMAIN nodes[r]
<1> DEFINE V == [Name -> BOOLEAN]
           b == [m \in Name |-> FALSE]
           F == [q \in Store |-> [v \in V |-> [m \in Name |-> v[m] \/ m \in DOMAIN nodes[q]]]]
<1>1. b \in V /\ F \in [Store -> [V -> V]]
  OBVIOUS
<1>2. \A q \in Store : \A v \in V : F[q][v] = [m \in Name |-> v[m] \/ m \in DOMAIN nodes[q]]
  OBVIOUS
<1> HIDE DEF F, V, b
<1>3. PICK g : Follows(g, V, b, F)
  BY <1>1, FromParents
<1>4. Top \notin Store /\ Parent \in [Store -> Store \cup {Top}]
  BY RegistryAssumption
<1> DEFINE Body(f) ==
      [q \in Store \cup {Top} |-> [m \in Name |-> q # Top /\ (f[Parent[q]][m] \/ m \in DOMAIN nodes[q])]]
<1>5. \A q \in Store \cup {Top} : g[q] = Body(g)[q]
  <2>1. g[Top] = Body(g)[Top]
    <3>1. Body(g)[Top] = [m \in Name |-> FALSE]
      OBVIOUS
    <3> HIDE DEF Body
    <3> QED  BY <1>3, <3>1 DEF b, Follows
  <2>2. ASSUME NEW q \in Store PROVE g[q] = Body(g)[q]
    <3>1. Body(g)[q] = [m \in Name |-> g[Parent[q]][m] \/ m \in DOMAIN nodes[q]]
      BY <1>4
    <3>2. g[Parent[q]] \in V
      BY <1>3, <1>4 DEF Follows
    <3> HIDE DEF Body
    <3> QED  BY <1>2, <1>3, <3>1, <3>2 DEF Follows
  <2> QED  BY <2>1, <2>2
<1>6. g = Body(g)
  BY <1>3, <1>5 DEF Follows
<1>7. IsNamespace = Body(IsNamespace)
  BY <1>6 DEF IsNamespace
<1>8. IsNamespace[Top] = [m \in Name |-> FALSE]
  BY <1>4, <1>7
<1>9. IsNamespace[r] = [m \in Name |-> IsNamespace[Parent[r]][m] \/ m \in DOMAIN nodes[r]]
  BY <1>4, <1>7
<1> QED  BY <1>8, <1>9

Lists == UNION {[D -> Holdable] : D \in SUBSET Name}

\* What a registry adds to what its parents list.
Joined(above, mine, shelf) ==
  [n \in DOMAIN above \cup mine |->
     IF n \notin mine THEN above[n] ELSE IF n \notin DOMAIN above THEN shelf[n] ELSE Merge(above[n], shelf[n])]

\* Joining lists of actions keeps the handler of the nearest.
LEMMA JoinedLists ==
  ASSUME NEW above \in Lists, NEW shelf \in Shelf, NEW mine \in SUBSET DOMAIN shelf,
         \A n \in mine : shelf[n] # Vacant
  PROVE  /\ Joined(above, mine, shelf) \in Lists
         /\ \A n \in DOMAIN Joined(above, mine, shelf) :
              Joined(above, mine, shelf)[n].handler = IF n \in mine THEN shelf[n].handler ELSE above[n].handler
<1> DEFINE new == Joined(above, mine, shelf)
<1>1. PICK D \in SUBSET Name : above \in [D -> Holdable]
  BY DEF Lists
<1>2. PICK E \in SUBSET Name : shelf \in [E -> Holdable \cup {Vacant}]
  BY DEF Shelf
<1>3. \A n \in mine : shelf[n] \in Holdable
  BY <1>2
<1>4. ASSUME NEW n \in D \cup mine
      PROVE  /\ new[n] \in Holdable
             /\ new[n].handler = IF n \in mine THEN shelf[n].handler ELSE above[n].handler
  <2>1. CASE n \notin mine
    BY <1>1, <2>1 DEF Joined
  <2>2. CASE n \in mine /\ n \notin D
    BY <1>1, <1>3, <2>2 DEF Joined
  <2>3. CASE n \in mine /\ n \in D
    <3>1. new[n] = Merge(above[n], shelf[n])
      BY <1>1, <2>3 DEF Joined
    <3> QED  BY <1>1, <1>3, <2>3, <3>1, MergeHoldable
  <2> QED  BY <2>1, <2>2, <2>3
<1>5. new \in [D \cup mine -> Holdable]
  <2>1. DOMAIN new = D \cup mine /\ new = [n \in D \cup mine |-> new[n]]
    BY <1>1 DEF Joined
  <2> HIDE DEF new
  <2> QED  BY <1>4, <2>1
<1>6. D \cup mine \in SUBSET Name
  BY <1>2
<1> HIDE DEF new
<1>7. new \in Lists
  BY <1>5, <1>6 DEF Lists
<1> QED  BY <1>4, <1>5, <1>7 DEF new

\* What get without a name lists from a registry and from its parent.
LEMMA ListStep ==
  ASSUME \A q \in Store : nodes[q] \in Shelf, NEW r \in Store
  PROVE  /\ List[Top][TRUE] = << >>
         /\ List[Parent[r]][TRUE] \in Lists
         /\ List[r][TRUE] = Joined(List[Parent[r]][TRUE], Listed(r, TRUE), nodes[r])
<1> DEFINE V == [BOOLEAN -> Lists]
           b == [d \in BOOLEAN |-> << >>]
           F == [q \in Store |-> [v \in V |-> [d \in BOOLEAN |-> Joined(v[d], Listed(q, d), nodes[q])]]]
<1>1. ASSUME NEW q \in Store, NEW d \in BOOLEAN, NEW above \in Lists
      PROVE  Joined(above, Listed(q, d), nodes[q]) \in Lists
  <2>1. Listed(q, d) \in SUBSET DOMAIN nodes[q] /\ \A n \in Listed(q, d) : nodes[q][n] # Vacant
    BY DEF Listed
  <2> QED  BY <2>1, JoinedLists
<1>2. << >> \in Lists
  <2>1. << >> \in [{} -> Holdable] /\ {} \in SUBSET Name
    OBVIOUS
  <2> QED  BY <2>1 DEF Lists
<1>3. b \in V /\ F \in [Store -> [V -> V]]
  BY <1>1, <1>2
<1>4. \A q \in Store : \A v \in V : F[q][v] = [d \in BOOLEAN |-> Joined(v[d], Listed(q, d), nodes[q])]
  OBVIOUS
<1> HIDE DEF F, V, b
<1>5. PICK g : Follows(g, V, b, F)
  BY <1>3, FromParents
<1>6. Top \notin Store /\ Parent \in [Store -> Store \cup {Top}]
  BY RegistryAssumption
<1> DEFINE Body(f) ==
      [q \in Store \cup {Top} |->
         [d \in BOOLEAN |-> IF q = Top THEN << >> ELSE Joined(f[Parent[q]][d], Listed(q, d), nodes[q])]]
<1>7. \A q \in Store \cup {Top} : g[q] = Body(g)[q]
  <2>1. g[Top] = Body(g)[Top]
    BY <1>5 DEF b, Follows
  <2>2. ASSUME NEW q \in Store PROVE g[q] = Body(g)[q]
    <3>1. Body(g)[q] = [d \in BOOLEAN |-> Joined(g[Parent[q]][d], Listed(q, d), nodes[q])]
      BY <1>6
    <3>2. g[Parent[q]] \in V
      BY <1>5, <1>6 DEF Follows
    <3> HIDE DEF Body
    <3> QED  BY <1>4, <1>5, <3>1, <3>2 DEF Follows
  <2> QED  BY <2>1, <2>2
<1>8. g = Body(g)
  BY <1>5, <1>7 DEF Follows
<1>9. List = Body(List)
  BY <1>8 DEF List, Joined
<1>10. List[Top] = [d \in BOOLEAN |-> << >>]
  BY <1>6, <1>9
<1>11. ASSUME NEW q \in Store
       PROVE  List[q] = [d \in BOOLEAN |-> Joined(List[Parent[q]][d], Listed(q, d), nodes[q])]
  BY <1>6, <1>9
<1>12. ASSUME NEW q \in Store
       PROVE  List[q][TRUE] = Joined(List[Parent[q]][TRUE], Listed(q, TRUE), nodes[q])
  BY <1>11
<1> DEFINE S == {q \in Store : List[q][TRUE] \in Lists}
<1>13. S = Store
  <2>1. ASSUME NEW q \in Store, Parent[q] \in S \cup {Top} PROVE q \in S
    <3>1. List[Parent[q]][TRUE] \in Lists
      BY <1>2, <1>10, <2>1
    <3>2. Joined(List[Parent[q]][TRUE], Listed(q, TRUE), nodes[q]) \in Lists
      BY <1>1, <3>1
    <3> QED  BY <1>12, <3>2
  <2> HIDE DEF S
  <2>2. S \in SUBSET Store
    BY DEF S
  <2> QED  BY <2>1, <2>2, FromParent
<1>14. List[Parent[r]][TRUE] \in Lists
  BY <1>2, <1>6, <1>10, <1>13
<1> QED  BY <1>10, <1>12, <1>14

-----------------------------------------------------------------------------
(* The theorems.                                                           *)

(* The invariant holds of every behaviour of the registries.               *)
THEOREM RegisteredAlways == Spec => []Registered
<1> QED  BY RegisteredInit, RegisteredNext, PTL DEF Spec

(* What the registries hold keeps its types: names are registered under    *)
(* namespaces that exist, and every action is one that was registered,     *)
(* alone or in a tree.                                                     *)
THEOREM RegistryTypes == Spec => []TypeOK
<1>1. Registered => TypeOK
  <2> SUFFICES ASSUME Registered PROVE TypeOK
    OBVIOUS
  <2>1. nodes \in [Store -> Shelf] /\ \A r \in Store : Closed(nodes[r])
    BY DEF Registered, StoresOK
  <2>2. ASSUME NEW r \in Store
        PROVE  /\ DOMAIN nodes[r] \subseteq Name
               /\ \A n \in DOMAIN nodes[r] :
                    /\ nodes[r][n] # Vacant => nodes[r][n].handler \in {a.handler : a \in Registrable}
                    /\ \A i \in 1..Len(n) : SubSeq(n, 1, i) \in DOMAIN nodes[r]
    BY <2>1 DEF Shelf, Holdable, Handlers, Closed
  <2>3. Len(calls) <= MaxCalls /\ \A i \in DOMAIN calls : calls[i].state \in States
    BY DEF Registered, CallsOK, CallOK
  <2> QED  BY <2>1, <2>2, <2>3 DEF TypeOK, States
<1> QED  BY <1>1, RegisteredAlways, PTL

(* A lookup gives the handler a name was last registered with, and a name  *)
(* that was last unregistered is free, as long as the calls about the name *)
(* did not overlap: register(name, action) is there at once, a tree enters *)
(* whole when on_register accepted it, and unregister takes what is below. *)
THEOREM NamesGiveTheLatest == Spec => []LatestWins
<1>1. Registered => LatestWins
  <2> SUFFICES ASSUME Registered, NEW r \in Store, NEW n \in Name
               PROVE  /\ latest[r][n] = Free => Held(r, n) = Vacant
                      /\ latest[r][n] \notin {Free, Unclear} =>
                           Held(r, n) # Vacant /\ Get[r][n].handler = latest[r][n]
    BY DEF LatestWins
  <2>1. Tracks(nodes[r], latest[r]) /\ latest[r][n] \in Handlers \cup {Free, Unclear}
    BY DEF Registered, StoresOK
  <2>2. At(nodes[r], n) = Held(r, n)
    BY DEF At, Held
  <2>3. Held(r, n) # Vacant => Get[r][n] = Held(r, n)
    BY GetStep
  <2> QED  BY <2>1, <2>2, <2>3 DEF Tracks
<1> QED  BY <1>1, RegisteredAlways, PTL

\* What the three lookups say of a name, from one registry.
Agree(r) ==
  \A n \in Name :
    /\ IsRegistered[r][n] <=> Get[r][n] # Vacant
    /\ IsRegistered[r][n] <=> n \in DOMAIN List[r][TRUE]
    /\ n \in DOMAIN List[r][TRUE] => List[r][TRUE][n].handler = Get[r][n].handler
    /\ IsRegistered[r][n] => \A i \in 1..Len(n) : IsNamespace[r][SubSeq(n, 1, i)]

\* If the lookups agree from the parent of a registry, they agree from the registry.
LEMMA AgreeStep ==
  ASSUME Registered, NEW r \in Store, Agree(Parent[r])
  PROVE  Agree(r)
<1> DEFINE p == Parent[r]
<1> SUFFICES ASSUME NEW n \in Name
             PROVE  /\ IsRegistered[r][n] <=> Get[r][n] # Vacant
                    /\ IsRegistered[r][n] <=> n \in DOMAIN List[r][TRUE]
                    /\ n \in DOMAIN List[r][TRUE] => List[r][TRUE][n].handler = Get[r][n].handler
                    /\ IsRegistered[r][n] => \A i \in 1..Len(n) : IsNamespace[r][SubSeq(n, 1, i)]
  BY DEF Agree
<1>1. /\ IsRegistered[p][n] <=> Get[p][n] # Vacant
      /\ IsRegistered[p][n] <=> n \in DOMAIN List[p][TRUE]
      /\ n \in DOMAIN List[p][TRUE] => List[p][TRUE][n].handler = Get[p][n].handler
      /\ IsRegistered[p][n] => \A i \in 1..Len(n) : IsNamespace[p][SubSeq(n, 1, i)]
  BY DEF Agree
<1>2. /\ IsRegistered[r][n] <=> IsRegistered[p][n] \/ Held(r, n) # Vacant
      /\ Get[r][n] = IF Held(r, n) # Vacant THEN Held(r, n) ELSE Get[p][n]
  BY IsRegisteredStep, GetStep
<1>3. \A q \in Store : nodes[q] \in Shelf /\ Closed(nodes[q])
  BY DEF Registered, StoresOK
<1>4. /\ List[p][TRUE] \in Lists
      /\ List[r][TRUE] = Joined(List[p][TRUE], Listed(r, TRUE), nodes[r])
  BY <1>3, ListStep
<1>5. \A m : m \in Listed(r, TRUE) <=> Held(r, m) # Vacant
  BY DEF Listed, Held
<1>6. Listed(r, TRUE) \in SUBSET DOMAIN nodes[r] /\ \A m \in Listed(r, TRUE) : nodes[r][m] # Vacant
  BY DEF Listed
<1>7. /\ DOMAIN List[r][TRUE] = DOMAIN List[p][TRUE] \cup Listed(r, TRUE)
      /\ \A m \in DOMAIN List[r][TRUE] :
           List[r][TRUE][m].handler = IF m \in Listed(r, TRUE) THEN nodes[r][m].handler ELSE List[p][TRUE][m].handler
  <2>1. \A m \in DOMAIN Joined(List[p][TRUE], Listed(r, TRUE), nodes[r]) :
           Joined(List[p][TRUE], Listed(r, TRUE), nodes[r])[m].handler =
             IF m \in Listed(r, TRUE) THEN nodes[r][m].handler ELSE List[p][TRUE][m].handler
    BY <1>3, <1>4, <1>6, JoinedLists
  <2>2. DOMAIN Joined(List[p][TRUE], Listed(r, TRUE), nodes[r]) = DOMAIN List[p][TRUE] \cup Listed(r, TRUE)
    BY DEF Joined
  <2> QED  BY <1>4, <2>1, <2>2
<1>8. IsRegistered[r][n] <=> Get[r][n] # Vacant
  BY <1>1, <1>2
<1>9. IsRegistered[r][n] <=> n \in DOMAIN List[r][TRUE]
  BY <1>1, <1>2, <1>5, <1>7
<1>10. n \in DOMAIN List[r][TRUE] => List[r][TRUE][n].handler = Get[r][n].handler
  <2>1. n \in Listed(r, TRUE) => nodes[r][n] = Held(r, n)
    BY DEF Listed, Held
  <2> QED  BY <1>1, <1>2, <1>5, <1>7, <2>1
<1>11. ASSUME IsRegistered[r][n], NEW i \in 1..Len(n)
       PROVE  IsNamespace[r][SubSeq(n, 1, i)]
  <2>1. SubSeq(n, 1, i) \in Name
    BY Names
  <2>2. IsNamespace[r][SubSeq(n, 1, i)] <=>
          IsNamespace[p][SubSeq(n, 1, i)] \/ SubSeq(n, 1, i) \in DOMAIN nodes[r]
    BY <2>1, IsNamespaceStep
  <2>3. CASE Held(r, n) # Vacant
    <3>1. n \in DOMAIN nodes[r]
      BY <2>3 DEF Held
    <3>2. SubSeq(n, 1, i) \in DOMAIN nodes[r]
      BY <1>3, <3>1 DEF Closed
    <3> QED  BY <2>2, <3>2
  <2>4. CASE Held(r, n) = Vacant
    <3>1. IsNamespace[p][SubSeq(n, 1, i)]
      BY <1>1, <1>2, <1>11, <2>4
    <3> QED  BY <2>2, <3>1
  <2> QED  BY <2>3, <2>4
<1> QED  BY <1>8, <1>9, <1>10, <1>11

(* get, registered and get without a name agree on every name, however     *)
(* deep the chain of registries: an action found by one is found by the    *)
(* others with the same handler, and its namespaces are found in partial   *)
(* mode.                                                                   *)
THEOREM LookupsSayTheSame == Spec => []LookupsAgree
<1>1. ASSUME Registered, Store # {} PROVE LookupsAgree
  <2> DEFINE S == {r \in Store : Agree(r)}
  <2>0. Registered
    BY <1>1
  <2>1. Agree(Top)
    <3>1. PICK r \in Store : TRUE
      BY <1>1
    <3>2. \A q \in Store : nodes[q] \in Shelf
      BY <1>1 DEF Registered, StoresOK
    <3>3. List[Top][TRUE] = << >>
      BY <3>1, <3>2, ListStep
    <3>5. DOMAIN << >> = {}
      OBVIOUS
    <3>4. \A n \in Name : (IsRegistered[Top][n] <=> FALSE) /\ Get[Top][n] = Vacant
      BY <3>1, IsRegisteredStep, GetStep
    <3> QED  BY <3>3, <3>4, <3>5 DEF Agree
  <2>2. ASSUME NEW r \in Store, Parent[r] \in S \cup {Top} PROVE r \in S
    <3>1. Agree(Parent[r])
      <4>1. CASE Parent[r] = Top
        BY <2>1, <4>1
      <4>2. CASE Parent[r] \in S
        BY <4>2
      <4> QED  BY <2>2, <4>1, <4>2
    <3>2. Agree(r)
      BY <2>0, <3>1, AgreeStep
    <3> QED  BY <3>2
  <2>3. S \in SUBSET Store
    OBVIOUS
  <2>4. S = Store
    <3> HIDE DEF S
    <3> QED  BY <2>2, <2>3, FromParent
  <2>5. \A r \in Store : Agree(r)
    BY <2>4
  <2> QED  BY <2>5 DEF LookupsAgree, Agree
<1>2. Registered => LookupsAgree
  <2>1. CASE Store = {}
    BY <2>1 DEF LookupsAgree
  <2>2. CASE Store # {}
    BY <1>1, <2>2
  <2> QED  BY <2>1, <2>2
<1> QED  BY <1>2, RegisteredAlways, PTL
=================================================================================
