----------------------------- MODULE MCConnections -----------------------------
(* Two connections; an action, its children and theirs. *)
EXTENDS Connections, TLC

CONSTANTS a, b
MCConn == {a, b}
MCSymmetry == Permutations(MCConn)
=============================================================================
