------------------------------- MODULE Provision -------------------------------
(***************************************************************************)
(* An action is run on a machine, is cut, is run again.                    *)
(*                                                                         *)
(* The handlers give the effect of an action on a machine (module Effects  *)
(* and the modules of every family of actions).  A run of the action       *)
(* issues the writes of this effect one by one; it may be cut before any   *)
(* of them (a command fails, the connection or the process is lost), and   *)
(* the user runs the same action again, after a failure or a success:      *)
(* "an action with the same parameters can be executed multiple times"     *)
(* (docs/content/guide/idempotence.md:9).                                  *)
(***************************************************************************)
EXTENDS Handlers

CONSTANTS
  Family,    \* sets of pairs of an action and of a machine it may first be run on
  MaxCut     \* bound: how many runs are cut

ASSUME ProvisionAssumption ==
  /\ \A family \in Family : \A x \in family : IsConfig(x.job)
  /\ MaxCut \in Nat

VARIABLES
  case,      \* the action and the machine, at the beginning
  machine,   \* the machine
  before,    \* history: the machine when the current run started
  effect,    \* what remains of the effect of the current run
  phase,     \* where the current run stands
  able,      \* history: the first run, if it is not cut, is not rejected
  cuts       \* how many runs were cut

vars == <<case, machine, before, effect, phase, able, cuts>>

job == case.job

Init ==
  /\ \E family \in Family : case \in family
  /\ machine = case.machine
  /\ before = case.machine
  /\ effect = Nothing
  /\ phase = "idle"
  /\ able = TRUE
  /\ cuts = 0

\* The user calls the action, for the first time or again.
Start ==
  /\ phase # "running"
  /\ effect' = Handler(job, machine)
  /\ before' = machine
  /\ able' = IF phase = "idle" THEN ~effect'.fails ELSE able
  /\ phase' = "running"
  /\ UNCHANGED <<case, machine, cuts>>

\* The next command of the handler changes the machine.
Command ==
  /\ phase = "running"
  /\ effect.do # << >>
  /\ machine' = Put(machine, Head(effect.do))
  /\ effect' = [effect EXCEPT !.do = Tail(@)]
  /\ UNCHANGED <<case, before, phase, able, cuts>>

Settle ==
  /\ phase = "running"
  /\ effect.do = << >>
  /\ phase' = IF effect.fails THEN "rejected" ELSE "fulfilled"
  /\ UNCHANGED <<case, machine, before, effect, able, cuts>>

\* The next command fails, or the connection is lost.
Cut ==
  /\ phase = "running"
  /\ effect.do # << >>
  /\ cuts < MaxCut
  /\ cuts' = cuts + 1
  /\ effect' = Throw
  /\ phase' = "rejected"
  /\ UNCHANGED <<case, machine, before, able>>

Next == Start \/ Command \/ Settle \/ Cut

Spec == Init /\ [][Next]_vars

-----------------------------------------------------------------------------
(***************************************************************************)
(* Properties.                                                             *)
(***************************************************************************)

Assertions == AssertKinds \cup {"service.assert", "network.tcp.assert"}

(* What the code is known not to give an action is left out (Except).      *)
Promised(property) == property \notin Except(job, case.machine)

(* What an action promises holds when its promise is fulfilled; when that  *)
(* of an assertion is rejected, it does not.                               *)
Delivers ==
  cuts = 0 /\ Promised("Delivers") =>
    /\ phase = "fulfilled" => Goal(job, case.machine, machine)
    /\ phase = "rejected" /\ job.kind \in Assertions => ~Goal(job, case.machine, machine)

(* It also holds when the action is fulfilled after runs that were cut     *)
(* anywhere: what they left undone is done, not taken for done.            *)
Converges ==
  phase = "fulfilled" /\ cuts > 0 /\ Promised("Converges") => Goal(job, case.machine, machine)

(* "The status output indicates whether an action had any impact"          *)
(* (docs/content/api/output/status.md:9).                                  *)
StatusTells ==
  phase = "fulfilled" /\ Promised("StatusTells") => (effect.status <=> ~SameMachine(machine, before))

(* Idempotence: run again, an action that was fulfilled changes nothing    *)
(* and is fulfilled.                                                       *)
QuietAgain ==
  [][phase = "fulfilled" /\ phase' = "running" /\ Promised("QuietAgain") =>
       ~effect'.fails /\ SameMachine(After(machine, effect'), machine)]_vars

(* An action that could be run when it was first called can be run after a  *)
(* failure: what a cut run leaves is never beyond repair.                   *)
Repairable ==
  [][phase = "rejected" /\ phase' = "running" /\ Promised("Repairable") /\ able => ~effect'.fails]_vars

(* What an action is not asked to change is as it was: the other lines of a *)
(* file, the other keys of a configuration.                                 *)
LeavesTheRest ==
  phase = "fulfilled" /\ cuts = 0 /\ Promised("LeavesTheRest") => Spares(job, before, machine)
=============================================================================
