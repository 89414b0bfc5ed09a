-------------------------------- MODULE Registry --------------------------------
(***************************************************************************)
(* The registry of actions (lib/registry.js): every action of a session    *)
(* has one, whose parent is the registry of the parent action and, in the  *)
(* end, the global one.                                                    *)
(*                                                                         *)
(* A registry is a tree.  Its nodes are named by the keys that lead to     *)
(* them, and a node may hold an action (under the key '').  An action is   *)
(* its handler and the properties it is registered with.                   *)
(*                                                                         *)
(* register is asynchronous: it awaits on_register (the hook               *)
(* nikita:register), during which other calls may be made, awaited or not. *)
(***************************************************************************)
EXTENDS Naturals, Sequences, FiniteSets, Functions, SequencesExt

CONSTANTS
  Store,        \* the registries
  Parent,       \* [Store -> Store \cup {Top}]
  Listening,    \* the registries created with on_register: those of a session
  Name,         \* sequences of keys: the names actions are registered under
  Action,       \* what is registered: [handler, props]
  Tree,         \* what register may be given instead of a name: a sequence of leaves,
                \* in the order of the walk, each with the keys that lead to it
  MaxCalls      \* bound: calls of register and deprecate

Top    == "top"
Vacant == [handler |-> "none", props |-> << >>]      \* no action
Free   == "free"         \* a name was last unregistered
Unclear == "unclear"     \* registrations of the same name overlapped

(***************************************************************************)
(* The action of a node that has others below is under the key ''.         *)
(***************************************************************************)
Named(leaf) == IF Last(leaf.keys) = "" THEN Front(leaf.keys) ELSE leaf.keys

\* Every action that may be registered.
Registrable == Action \cup UNION {{leaf.action : leaf \in Range(t)} : t \in Tree}

(***************************************************************************)
(* A registry is created by another: the parents end at the global one.    *)
(* The keys of an object differ, and so do the names of a tree.  What is   *)
(* registered is told from the values that stand for nothing.              *)
(***************************************************************************)
ASSUME RegistryAssumption ==
  /\ Top \notin Store
  /\ Parent \in [Store -> Store \cup {Top}]
  /\ \A S \in SUBSET Store : S # {} => \E r \in S : Parent[r] \notin S
  /\ Listening \subseteq Store
  /\ \A n \in Name : /\ n \in Seq(STRING) /\ n # << >>
                     /\ \A i \in 1..Len(n) : SubSeq(n, 1, i) \in Name
  /\ \A t \in Tree : /\ \A leaf \in Range(t) : Named(leaf) \in Name
                     /\ \A l, m \in Range(t) : Named(l) = Named(m) => l = m
  /\ \A a \in Registrable : /\ a = [handler |-> a.handler, props |-> a.props]
                            /\ a.handler \notin {Vacant.handler, Free, Unclear}
                            /\ a.props = [p \in DOMAIN a.props |-> a.props[p]]
  /\ MaxCalls \in Nat

VARIABLES
  nodes,      \* [Store -> the nodes of each, with what they hold]
  calls,      \* the calls made, in order
  latest      \* history: the handler each name was last registered with

vars == <<nodes, calls, latest>>

Idle == {i \in DOMAIN calls : calls[i].state \in {"fulfilled", "rejected"}}
Busy == DOMAIN calls \ Idle

TypeOK ==
  /\ DOMAIN nodes = Store
  /\ \A r \in Store : /\ DOMAIN nodes[r] \subseteq Name
                      /\ \A n \in DOMAIN nodes[r] :
                           /\ nodes[r][n] # Vacant => nodes[r][n].handler \in {a.handler : a \in Registrable}
                           /\ \A i \in 1..Len(n) : SubSeq(n, 1, i) \in DOMAIN nodes[r]
  /\ Len(calls) <= MaxCalls
  /\ \A i \in DOMAIN calls : calls[i].state \in {"walking", "telling", "fulfilled", "rejected"}

Init ==
  /\ nodes = [r \in Store |-> << >>]
  /\ calls = << >>
  /\ latest = [r \in Store |-> [n \in Name |-> Free]]

-----------------------------------------------------------------------------
(* Looking an action up.                                                   *)

Held(r, n) == IF n \in DOMAIN nodes[r] THEN nodes[r][n] ELSE Vacant

\* get(namespace): the nearest registry that has it.
Get[r \in Store \cup {Top}] ==
  [n \in Name |-> IF r = Top THEN Vacant ELSE IF Held(r, n) # Vacant THEN Held(r, n) ELSE Get[Parent[r]][n]]

\* registered(name): parents first.
IsRegistered[r \in Store \cup {Top}] ==
  [n \in Name |-> r # Top /\ (IsRegistered[Parent[r]][n] \/ Held(r, n) # Vacant)]

\* registered(name, partial: true): a node is enough.
IsNamespace[r \in Store \cup {Top}] ==
  [n \in Name |-> r # Top /\ (IsNamespace[Parent[r]][n] \/ n \in DOMAIN nodes[r])]

\* The properties of both: those of the first hide those of the second.
Over(p, q) == [k \in DOMAIN p \cup DOMAIN q |-> IF k \in DOMAIN p THEN p[k] ELSE q[k]]

\* Faulty: the first wins.
MergeFirst(a, b) == IF a = Vacant THEN b ELSE IF b = Vacant THEN a ELSE [a EXCEPT !.props = Over(@, b.props)]

\* The properties of both, those of the second first.
Merge(a, b) == IF a = Vacant THEN b ELSE IF b = Vacant THEN a ELSE [b EXCEPT !.props = Over(@, a.props)]

IsDeprecated(a) == "deprecate" \in DOMAIN a.props

\* The actions a registry lists.
Listed(r, deprecated) ==
  {n \in DOMAIN nodes[r] : nodes[r][n] # Vacant /\ (deprecated \/ ~IsDeprecated(nodes[r][n]))}

\* get(): every action, those of the parents too.
List[r \in Store \cup {Top}] ==
  [deprecated \in BOOLEAN |->
     IF r = Top
     THEN << >>
     ELSE LET above == List[Parent[r]][deprecated]
              mine  == Listed(r, deprecated)
          IN  [n \in DOMAIN above \cup mine |->
                 IF n \notin mine THEN above[n]
                 ELSE IF n \notin DOMAIN above THEN nodes[r][n] ELSE Merge(above[n], nodes[r][n])]]

-----------------------------------------------------------------------------
(* Changing the registry.                                                  *)

Prefixes1(n) == {SubSeq(n, 1, i) : i \in 1..Len(n)}

\* The namespace is created on the way.
Place(store, n, a) ==
  [m \in DOMAIN store \cup Prefixes1(n) |-> IF m = n THEN a ELSE IF m \in DOMAIN store THEN store[m] ELSE Vacant]

\* The action a tree has for a name.
Leaf(leaves, n) == (CHOOSE leaf \in Range(leaves) : Named(leaf) = n).action

\* The nodes of a tree.
Reached(names) == UNION {Prefixes1(n) : n \in names}

\* Faulty: what is there already is kept.
GraftUnder(store, leaves) ==
  LET names == {Named(leaf) : leaf \in Range(leaves)}
  IN  [m \in DOMAIN store \cup Reached(names) |->
         LET old == IF m \in DOMAIN store THEN store[m] ELSE Vacant
         IN  IF m \in names /\ old = Vacant THEN Leaf(leaves, m) ELSE old]

\* mutate(store, tree): the properties of what was there stay.
Graft(store, leaves) ==
  LET names == {Named(leaf) : leaf \in Range(leaves)}
  IN  [m \in DOMAIN store \cup Reached(names) |->
         LET old == IF m \in DOMAIN store THEN store[m] ELSE Vacant
         IN  IF m \in names THEN Merge(old, Leaf(leaves, m)) ELSE old]

About(i) == {Named(leaf) : leaf \in Range(calls[i].leaves)}

\* The calls in progress that a change of these names of r meets.
Met(r, names) == {i \in Busy : calls[i].store = r /\ About(i) \cap names # {}}

\* A call of register begins.
Begin(r, leaves, left, state) ==
  LET names == {Named(leaf) : leaf \in Range(leaves)}
      met   == Met(r, names)
  IN  calls' = Append([i \in DOMAIN calls |-> IF i \in met THEN [calls[i] EXCEPT !.alone = FALSE] ELSE calls[i]],
                      [store |-> r, leaves |-> leaves, left |-> left, keys |-> << >>, told |-> << >>,
                       alone |-> met = {}, state |-> state])

(***************************************************************************)
(* register(name, action): the action is there at once, and stays if       *)
(* on_register rejects.                                                    *)
(***************************************************************************)
RegisterOne(r, n, a) ==
  /\ Len(calls) < MaxCalls
  /\ nodes' = [nodes EXCEPT ![r] = Place(@, n, a)]
  /\ Begin(r, <<[keys |-> n, action |-> a]>>, << >>, IF r \in Listening THEN "telling" ELSE "fulfilled")
  /\ latest' = [latest EXCEPT ![r][n] = IF Met(r, {n}) = {} THEN a.handler ELSE Unclear]

\* deprecate(name, new_name, action): the same, which nobody awaits.
Deprecate(r, n, a) == RegisterOne(r, n, [a EXCEPT !.props = Over([k \in {"deprecate"} |-> TRUE], @)])

\* register(tree): on_register is told of every leaf first.
RegisterTree(r, t) ==
  /\ Len(calls) < MaxCalls
  /\ Begin(r, t, t, "walking")
  /\ UNCHANGED <<nodes, latest>>

(***************************************************************************)
(* The keys the walk pushes to reach the next leaf: none is ever taken     *)
(* off, and the name that is told holds those of every leaf before.        *)
(***************************************************************************)
NewKeys(call) ==
  LET keys   == Head(call.left).keys
      before == IF call.left = call.leaves THEN << >>
                ELSE Front(call.leaves[Len(call.leaves) - Len(call.left)].keys)
  IN  SubSeq(keys, Len(LongestCommonPrefix({Front(keys), before})) + 1, Len(keys))

TellLeaf(i) ==
  /\ calls[i].state = "walking"
  /\ calls[i].left # << >>
  /\ LET keys == calls[i].keys \o NewKeys(calls[i])
     IN  calls' = [calls EXCEPT ![i].keys  = keys,
                                ![i].left  = Tail(@),
                                ![i].told  = IF calls[i].store \in Listening THEN Append(@, keys) ELSE @,
                                ![i].state = IF calls[i].store \in Listening THEN "telling" ELSE @]
  /\ UNCHANGED <<nodes, latest>>

\* on_register is fulfilled.
Accept(i) ==
  /\ calls[i].state = "telling"
  /\ calls' = [calls EXCEPT ![i].state = IF calls[i].told # << >> THEN "walking" ELSE "fulfilled"]
  /\ UNCHANGED <<nodes, latest>>

\* on_register is rejected.
Refuse(i) ==
  /\ calls[i].state = "telling"
  /\ calls' = [calls EXCEPT ![i].state = "rejected"]
  /\ UNCHANGED <<nodes, latest>>

(***************************************************************************)
(* The whole tree enters the registry, over what came meanwhile.           *)
(***************************************************************************)
GraftTree(i) ==
  /\ calls[i].state = "walking"
  /\ calls[i].left = << >>
  /\ calls' = [calls EXCEPT ![i].state = "fulfilled"]
  /\ LET r == calls[i].store
     IN  /\ nodes' = [nodes EXCEPT ![r] = Graft(@, calls[i].leaves)]
         /\ latest' = [latest EXCEPT ![r] = [n \in Name |->
              IF n \notin About(i) THEN @[n]
              ELSE IF calls[i].alone THEN Leaf(calls[i].leaves, n).handler ELSE Unclear]]

\* Faulty: the nodes below stay.
UnregisterNode(r, n) ==
  LET below == {m \in Name : IsPrefix(n, m)}
      met   == Met(r, below)
  IN  /\ n \in DOMAIN nodes[r]
      /\ nodes' = [nodes EXCEPT ![r] = Restrict(@, DOMAIN @ \ {n})]
      /\ calls' = [i \in DOMAIN calls |-> IF i \in met THEN [calls[i] EXCEPT !.alone = FALSE] ELSE calls[i]]
      /\ latest' = [latest EXCEPT ![r] = [m \in Name |-> IF m \notin below THEN @[m] ELSE IF met = {} THEN Free
            ELSE Unclear]]

\* unregister(name): the node goes, with all that is below.
Unregister(r, n) ==
  LET below == {m \in Name : IsPrefix(n, m)}
      met   == Met(r, below)
  IN  /\ n \in DOMAIN nodes[r]
      /\ nodes' = [nodes EXCEPT ![r] = Restrict(@, DOMAIN @ \ below)]
      /\ calls' = [i \in DOMAIN calls |-> IF i \in met THEN [calls[i] EXCEPT !.alone = FALSE] ELSE calls[i]]
      /\ latest' = [latest EXCEPT ![r] = [m \in Name |-> IF m \notin below THEN @[m] ELSE IF met = {} THEN Free
            ELSE Unclear]]

Next ==
  \/ \E r \in Store, n \in Name, a \in Action : RegisterOne(r, n, a) \/ Deprecate(r, n, a)
  \/ \E r \in Store, t \in Tree : RegisterTree(r, t)
  \/ \E r \in Store, n \in Name : Unregister(r, n)
  \/ \E i \in DOMAIN calls : TellLeaf(i) \/ Accept(i) \/ Refuse(i) \/ GraftTree(i)

Spec == Init /\ [][Next]_vars

-----------------------------------------------------------------------------
(***************************************************************************)
(* Properties.                                                             *)
(***************************************************************************)

(* A name gives the action it was last registered with, by itself or in a  *)
(* tree, or is free if it was last unregistered, as long as the calls      *)
(* about it did not overlap; and a tree that was rejected changed nothing. *)
LatestWins ==
  \A r \in Store, n \in Name :
    /\ latest[r][n] = Free => Held(r, n) = Vacant
    /\ latest[r][n] \notin {Free, Unclear} => /\ Held(r, n) # Vacant
                                              /\ Get[r][n].handler = latest[r][n]

(* The three ways to ask agree: `registered` looks the parents up first,   *)
(* `get` last, and `get` without a name lists the actions of them all.     *)
LookupsAgree ==
  \A r \in Store, n \in Name :
    /\ IsRegistered[r][n] <=> Get[r][n] # Vacant
    /\ IsRegistered[r][n] <=> n \in DOMAIN List[r][TRUE]
    /\ n \in DOMAIN List[r][TRUE] => List[r][TRUE][n].handler = Get[r][n].handler
    /\ IsRegistered[r][n] => \A i \in 1..Len(n) : IsNamespace[r][SubSeq(n, 1, i)]

(* "Takes two arguments: the action name and the action itself"            *)
(* (lib/registry.js:31): on_register is told the name of the action.  The  *)
(* walk of a tree tells another one from the second leaf on.               *)
ToldTheName ==
  \A i \in DOMAIN calls : \A k \in DOMAIN calls[i].told :
    calls[i].told[k] \in {calls[i].leaves[k].keys, Named(calls[i].leaves[k])}
=============================================================================
