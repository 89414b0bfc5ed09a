------------------------------ MODULE Traversal ------------------------------
(***************************************************************************)
(* The order in which docs/content/guide/control_flow.md says the actions  *)
(* run: a depth-first traversal of a tree that is discovered on the way.   *)
(* Only an action in progress with no child in progress may start a child  *)
(* or finish, so that those in progress are a path from the root.          *)
(***************************************************************************)
CONSTANTS Action, Root, Parent

VARIABLES
  live,      \* the actions in progress
  visited    \* the actions that were started

tvars == <<live, visited>>

TypeInv == live \subseteq visited /\ visited \subseteq Action

\* The last action of the path.
Deepest == {a \in live : \A b \in live \ {Root} : Parent[b] # a}

Init == live = {Root} /\ visited = {Root}

Enter(a) ==
  /\ a \in Action \ visited
  /\ Parent[a] \in Deepest
  /\ live' = live \cup {a}
  /\ visited' = visited \cup {a}

Leave(a) ==
  /\ a \in Deepest
  /\ live' = live \ {a}
  /\ UNCHANGED visited

Next == \E a \in Action : Enter(a) \/ Leave(a)

Spec == Init /\ [][Next]_tvars
=============================================================================
