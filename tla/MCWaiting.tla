------------------------------- MODULE MCWaiting -------------------------------
(* Three things to wait for, with every option. *)
EXTENDS Waiting

MCThing == <<"x", "y", "z">>
Choice(kind, quorums, retries, stricts, timeouts) ==
  [kind : {kind}, quorum : quorums, retry : retries, strict : stricts, timeout : timeouts]
MCConfig == Choice("execute", {0, 2, Unset, Majority}, {0, 1, 2, Unset}, BOOLEAN, {FALSE})
            \cup Choice("fs", {Unset}, {Unset}, {FALSE}, {FALSE})
            \cup Choice("tcp", {1, 3, 5, Majority}, {Unset}, {FALSE}, {FALSE})
            \cup Choice("tcp", {Majority}, {Unset}, {FALSE}, {TRUE})
            \cup Choice("http", {Unset}, {Unset}, {FALSE}, BOOLEAN)
=============================================================================
