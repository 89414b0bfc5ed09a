-------------------------------- MODULE Effects --------------------------------
(***************************************************************************)
(* What an action does to the machine it provisions.                       *)
(*                                                                         *)
(* A machine maps the resources an action can touch (the path of a file,   *)
(* the name of a user, a container...) to their state.  The effect of an   *)
(* action on a machine is the sequence of the writes its handler issues,   *)
(* one for every command that changes the machine, together with what the  *)
(* promise of the action tells: its $status, or that it is rejected.       *)
(*                                                                         *)
(* An action is cut between two writes when a command fails or when the    *)
(* connection is lost: the writes already issued stay.                     *)
(***************************************************************************)
EXTENDS Naturals, Sequences, SequencesExt

Unset  == "unset"                   \* an option that is not given
Absent == [type |-> "absent"]       \* a resource that does not exist

StateOf(m, r) == IF r \in DOMAIN m THEN m[r] ELSE Absent
There(m, r)   == StateOf(m, r) # Absent

(***************************************************************************)
(* The name of a staged file holds the time and a random number: no other  *)
(* run has it, and one that a cut run left is never looked at again.       *)
(***************************************************************************)
Staged == ".stage"

SameMachine(m, n) ==
  \A r \in DOMAIN m \cup DOMAIN n : Last(r) = Staged \/ StateOf(m, r) = StateOf(n, r)

\* A write maps the resources a command changes to their new state.
r := v == [x \in {r} |-> v]

\* f, but where g says otherwise.
f ++ g == [x \in DOMAIN g \cup DOMAIN f |-> IF x \in DOMAIN g THEN g[x] ELSE f[x]]

Put(m, w) == m ++ w

\* Every resource is what the last write that names it makes of it.
Writes(e, r) == {i \in DOMAIN e.do : r \in DOMAIN e.do[i]}
Latest(I)    == CHOOSE i \in I : \A j \in I : j <= i

After(m, e) ==
  [r \in DOMAIN m \cup UNION {DOMAIN e.do[i] : i \in DOMAIN e.do} |->
     IF Writes(e, r) = {} THEN m[r] ELSE e.do[Latest(Writes(e, r))][r]]

Nothing == [do |-> << >>, status |-> FALSE, fails |-> FALSE]

Throw == [Nothing EXCEPT !.fails = TRUE]

\* The handler returns a boolean, or an object with $status.
Returns(e, status) == [e EXCEPT !.status = status]

\* A shy child does not count for the status of its parent.
Shy(e) == Returns(e, FALSE)

\* A write of an action which tells nothing.
Write(w) == [Nothing EXCEPT !.do = <<w>>]

\* A command that changes the machine: execute tells that it succeeded.
Run(w) == Returns(Write(w), TRUE)

\* A command that only looks at the machine.
Look == Returns(Nothing, TRUE)

\* The option $if.
When(condition, e) == IF condition THEN e ELSE Nothing

\* The option $relax: an error is reported as the output of the action.
Relaxed(e) == IF e.fails THEN [e EXCEPT !.fails = FALSE, !.status = FALSE] ELSE e

(***************************************************************************)
(* A handler that awaits one child after the other: it stops at the first  *)
(* that fails and, when it returns no status, it has the status true iff   *)
(* one of its children does.                                               *)
(***************************************************************************)
e \bullet f ==
  IF e.fails
  THEN e
  ELSE [do     |-> e.do \o f.do,
        status |-> e.status \/ f.status,
        fails  |-> f.fails]

\* What comes next looks at the machine as it has become.
Then(m, e, Rest(_)) == IF e.fails THEN e ELSE e \bullet Rest(After(m, e))
=============================================================================
