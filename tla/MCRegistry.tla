------------------------------- MODULE MCRegistry -------------------------------
(* The registry of a session below the global one, with two trees of names. *)
EXTENDS Registry

MCStore == {"global", "session"}
MCParent == [global |-> Top, session |-> "global"]
MCName == {<<"a">>, <<"a", "b">>}
MCAction == {[handler |-> "g", props |-> [relax |-> TRUE]]}
MCLeaf(keys, handler) == [keys |-> keys, action |-> [handler |-> handler, props |-> << >>]]
MCTree == {<<MCLeaf(<<"a", "">>, "t"), MCLeaf(<<"a", "b">>, "u")>>, <<MCLeaf(<<"a">>, "t")>>}
=============================================================================
