-------------------------- MODULE SessionRefinement --------------------------
(***************************************************************************)
(* Sessions implement Traversal until something fails, when their handlers *)
(* await nothing but children (Sleeping is empty, Late is FALSE).  The     *)
(* actions in progress are those whose promise is pending.                 *)
(***************************************************************************)
EXTENDS Session

Ancestors(a) ==
  LET up[n \in 0..Cardinality(Action)] ==
        IF n = 0 THEN {a}
        ELSE up[n - 1] \cup {Parent[b] : b \in up[n - 1] \ {Root}}
  IN  up[Cardinality(Action)]

Visited == {a \in Action : phase[a] # "none"}

T == INSTANCE Traversal WITH live <- Live, visited <- Visited

\* A handler, a hook or a look-up in the registry has failed.
Troubled == \E a \in Action : output[a] = "error" \/ phase[a] = "rejected"

(* Handlers that call without awaiting, the deferred callbacks of all the  *)
(* schedulers and the calls chained to the root interleave, and still the  *)
(* actions run depth first: a child starts only while its parent is the    *)
(* deepest action in progress, and an action ends only when it is.  After  *)
(* a failure the order is another one (LiveIsPath).                        *)
ImplementsTraversal ==
  T!Init /\ [][Troubled \/ Troubled' \/ T!Next]_T!tvars

(* docs/content/guide/control_flow.md:11, "For every action scheduled,     *)
(* Nikita will run its children recursively before passing to the next     *)
(* scheduled action": the actions in progress are a path of the tree.      *)
LiveIsPath ==
  \A a, b \in Live : a \in Ancestors(b) \/ b \in Ancestors(a)
=============================================================================
