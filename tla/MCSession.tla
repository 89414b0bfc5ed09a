------------------------------ MODULE MCSession ------------------------------
(***************************************************************************)
(* Instances of Session for TLC.                                           *)
(***************************************************************************)
EXTENDS SessionRefinement

CONSTANTS root, a, b, c, d, e, g

\* The root calls a and b; a calls c.
Tree == {root, a, b, c}
TreeParent == (a :> root) @@ (b :> root) @@ (c :> a)

NoMembers == [x \in {} |-> << >>]

\* The root calls g with two combinations of arguments, and b; the first of
\* the combinations calls d and e.
Grouped == {root, a, b, c, d, e, g}
GroupedAction == Grouped \ {g}
GroupedParent == (a :> root) @@ (b :> root) @@ (c :> root) @@ (g :> root)
                   @@ (d :> a) @@ (e :> a)
GroupedMembers == (g :> <<a, c>>)
=============================================================================
