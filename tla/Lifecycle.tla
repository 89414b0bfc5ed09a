------------------------------- MODULE Lifecycle -------------------------------
(***************************************************************************)
(* The life of one action, from the hooks of nikita:action to those of     *)
(* nikita:result: its temporary directory, its conditions, the attempts of *)
(* its handler, the children they call, and its assertions.                *)
(*                                                                         *)
(* The plugins run in the order they are registered in (lib/index.js),     *)
(* but for the `before` and `after` they declare.  The children run in the *)
(* scheduler `in` of the action (module SchedulerOps), which all attempts  *)
(* share: a child is the pair of the attempt that calls it and of its rank *)
(* in it.                                                                  *)
(***************************************************************************)
EXTENDS SchedulerOps, Guards

CONSTANTS
  Setting,        \* the actions a user may write, and their hosts
  MaxAttempts,    \* bound: attempts of an action which retries for ever
  MaxCalls        \* bound: children called in one attempt

Always == -1      \* stands for `retry: true`

ASSUME LifecycleAssumption ==
  /\ MaxAttempts \in Nat \ {0}
  /\ MaxCalls \in Nat
  /\ Task = (0 .. MaxAttempts - 1) \X (1..MaxCalls)
  /\ \A x \in Setting :
       /\ x.disabled \in BOOLEAN /\ x.relax \in BOOLEAN /\ x.dirty \in BOOLEAN
       /\ x.valid \in BOOLEAN
       /\ x.retry \in Nat \cup {Always}
       /\ x.attempt \in Nat
       /\ x.tmpdir \in {"none", "own", "taken", "inherited", "fails", "unowned", "stuck"}
       /\ x.conditions \in Seq(Range(x.conditions))
       /\ x.assertions \in Seq(Range(x.assertions))
       /\ \A c \in Range(x.conditions) :
            c.kind \in {"if", "unless", "if_execute", "unless_execute",
                       "if_exists", "unless_exists", "if_os", "unless_os"}

VARIABLES
  set,       \* the metadata of the action
  stage,     \* where the action stands
  asked,     \* the conditions, then the assertions, not evaluated yet
  off,       \* metadata.disabled
  refused,   \* an assertion answered no
  attempt,   \* metadata.attempt
  starts,    \* history: how many times the handler was called
  hand,      \* where the handler stands
  calls,     \* how many children the current attempt called
  awaits,    \* the child the handler awaits
  result,    \* how the handler, or a hook before it, ended
  in,        \* the scheduler of the children
  late,      \* history: children called after `in` was fulfilled
  told,      \* children in the history of the action with $status true
  tmp,       \* the temporary directory exists
  status,    \* $status of the output
  settled    \* the promise of the action

vars == <<set, stage, asked, off, refused, attempt, starts, hand, calls, awaits, result, in, late, told, tmp,
      status, settled>>

Hooks    == <<set, asked, off, refused>>
Handling == <<attempt, starts, hand, calls, awaits>>
Children == <<in, late, told>>
Output   == <<tmp, status, settled>>

None == <<0, 0>>        \* no child: ranks start at 1

TypeOK ==
  /\ set \in Setting
  /\ stage \in {"tmpdir", "conditions", "schema", "attempt", "sleep", "drain", "assert", "relax", "clean",
        "report", "over"}
  /\ off \in BOOLEAN /\ refused \in BOOLEAN /\ tmp \in BOOLEAN /\ status \in BOOLEAN
  /\ attempt \in Nat /\ starts \in 0..MaxAttempts /\ calls \in 0..MaxCalls
  /\ hand \in {"none", "control", "await", "over"}
  /\ awaits \in Task \cup {None}
  /\ result \in {"pending", "nothing", "object", "true", "false", "invalid", "error"}
  /\ in \in Scheduler
  /\ late \subseteq Task /\ told \subseteq Task
  /\ settled \in {"pending", "fulfilled", "relaxed", "rejected"}

Init ==
  /\ set \in Setting
  /\ stage = "tmpdir"
  /\ asked = set.conditions
  /\ off = set.disabled
  /\ refused = FALSE
  /\ attempt = set.attempt
  /\ starts = 0
  /\ hand = "none"
  /\ calls = 0
  /\ awaits = None
  /\ result = "pending"
  /\ in = Create(FALSE, FALSE)
  /\ late = {}
  /\ told = {}
  /\ tmp = FALSE
  /\ status = FALSE
  /\ settled = "pending"

-----------------------------------------------------------------------------
(* Promise reactions that are due: Node runs them before the next callback *)
(* of setImmediate or of an I/O.                                           *)

WakeDue  == hand = "await" /\ in.task[awaits] \in Settled
DrainDue == stage = "drain" /\ (result = "error" \/ in.outcome = "fulfilled")

Quiet == hand # "control" /\ ~WakeDue /\ ~DrainDue

-----------------------------------------------------------------------------
(* The hooks of nikita:action.                                             *)

\* A hook throws, or the handler did for the last time: `output` is rejected,
\* and `in` resumed.
Fails ==
  /\ stage' = "drain"
  /\ result' = "error"
  /\ in' = Resume(in)

(***************************************************************************)
(* What becomes of the directory.  "own": it is created, and removed in    *)
(* the end.  "stuck": it is created, its removal will fail.  "unowned": it *)
(* is created, giving it to root fails.  "fails": it cannot be created.    *)
(* "inherited", "taken": an ancestor created it with the same parameters,  *)
(* or somebody else did; it is used without being this action's.           *)
(***************************************************************************)
Unusable == set.tmpdir \in {"fails", "unowned"}

CreateTmpdir ==
  /\ stage = "tmpdir"
  /\ tmp' = (set.tmpdir \in {"own", "stuck", "unowned"})
  /\ IF Unusable
     THEN Fails
     ELSE stage' = "conditions" /\ UNCHANGED <<result, in>>
  /\ UNCHANGED <<Hooks, Handling, late, told, status, settled>>

\* Faulty: the conditions that follow one which is not met are not evaluated,
\* and it is forgotten.
EvaluateConditionForgets ==
  /\ stage = "conditions"
  /\ asked # << >>
  /\ LET answer == Condition(Head(asked), set.host)
     IN  /\ IF answer = "throws" THEN Fails ELSE UNCHANGED <<stage, result, in>>
         /\ off' = (answer = "no")
  /\ asked' = Tail(asked)
  /\ UNCHANGED <<set, refused, Handling, late, told, Output>>

\* All are evaluated, also when the action is disabled already.
EvaluateCondition ==
  /\ stage = "conditions"
  /\ asked # << >>
  /\ LET answer == Condition(Head(asked), set.host)
     IN  /\ IF answer = "throws" THEN Fails ELSE UNCHANGED <<stage, result, in>>
         /\ off' = (off \/ answer = "no")
  /\ asked' = Tail(asked)
  /\ UNCHANGED <<set, refused, Handling, late, told, Output>>

\* The plugin `disabled` takes the handler away, and ends the hooks.
DecideDisabled ==
  /\ stage = "conditions"
  /\ asked = << >>
  /\ IF off
     THEN stage' = "drain" /\ result' = "nothing" /\ in' = Resume(in)
     ELSE stage' = "schema" /\ UNCHANGED <<result, in>>
  /\ UNCHANGED <<Hooks, Handling, late, told, Output>>

\* The configuration is validated; then the handler is called.
ValidateSchema ==
  /\ stage = "schema"
  /\ IF set.valid
     THEN /\ stage' = "attempt"
          /\ hand' = "control"
          /\ starts' = starts + 1
          /\ calls' = 0
          /\ UNCHANGED <<result, in>>
     ELSE Fails /\ UNCHANGED <<starts, hand, calls>>
  /\ UNCHANGED <<Hooks, attempt, awaits, late, told, Output>>

-----------------------------------------------------------------------------
(* The handler and its children.                                           *)

Call ==
  /\ hand = "control"
  /\ calls < MaxCalls
  /\ LET child == <<starts - 1, calls + 1>>
     IN  /\ in' = Push(in, child, FALSE)
         /\ late' = IF in.outcome = "pending" THEN late ELSE late \cup {child}
  /\ calls' = calls + 1
  /\ UNCHANGED <<Hooks, stage, attempt, starts, hand, awaits, result, told, Output>>

Await ==
  /\ hand = "control"
  /\ \E i \in 1..calls :
       /\ in.task[<<starts - 1, i>>] \notin Settled
       /\ awaits' = <<starts - 1, i>>
  /\ hand' = "await"
  /\ UNCHANGED <<Hooks, stage, attempt, starts, calls, result, Children, Output>>

\* The handler goes on; the error of the child is caught.
Wake ==
  /\ WakeDue
  /\ hand' = "control"
  /\ awaits' = None
  /\ UNCHANGED <<Hooks, stage, attempt, starts, calls, result, Children, Output>>

\* Faulty: `in` is not resumed.
ReturnNoPump ==
  /\ hand = "control"
  /\ hand' = "over"
  /\ stage' = "drain"
  /\ result' \in {"nothing", "object", "true", "false", "invalid"}
  /\ UNCHANGED <<Hooks, attempt, starts, calls, awaits, Children, Output>>

\* "invalid": a function or a symbol.
Return ==
  /\ hand = "control"
  /\ hand' = "over"
  /\ stage' = "drain"
  /\ result' \in {"nothing", "object", "true", "false", "invalid"}
  /\ in' = Resume(in)
  /\ UNCHANGED <<Hooks, attempt, starts, calls, awaits, late, told, Output>>

\* Faulty: one attempt too many.
GivesUpLate == set.retry # Always /\ attempt > set.retry - 1

\* The attempt was the last one.
GivesUp == set.retry # Always /\ attempt >= set.retry - 1

\* The handler throws, or the child it awaits does and it does not catch it.
ThrowError ==
  /\ hand = "control" \/ (WakeDue /\ in.task[awaits] = "failed")
  /\ starts = MaxAttempts => GivesUp          \* the bound
  /\ hand' = "over"
  /\ awaits' = None
  /\ IF GivesUp
     THEN Fails
     ELSE stage' = "sleep" /\ UNCHANGED <<result, in>>
  /\ UNCHANGED <<Hooks, attempt, starts, calls, late, told, Output>>

\* After metadata.sleep the handler is called again, with its first config.
\* What the failed attempt called stays in the scheduler.
Retry ==
  /\ Quiet
  /\ stage = "sleep"
  /\ stage' = "attempt"
  /\ attempt' = attempt + 1
  /\ starts' = starts + 1
  /\ hand' = "control"
  /\ calls' = 0
  /\ UNCHANGED <<Hooks, awaits, result, Children, Output>>

RunImmediate ==
  /\ Quiet
  /\ in.loop # << >>
  /\ in' = IF Head(in.loop) = "pump"
           THEN PumpCallback(in)
           ELSE CallHandler(in, CHOOSE t \in Task : in.task[t] = "taken")
  /\ UNCHANGED <<Hooks, stage, Handling, result, late, told, Output>>

(***************************************************************************)
(* A child ends.  Its own nikita:result put its output in the children of  *)
(* the action.  It may be shy, and one that fails has no output: what they *)
(* changed is not told.                                                    *)
(***************************************************************************)
EndChild ==
  /\ Quiet
  /\ \E t \in Task, change, shy, fails \in BOOLEAN :
       /\ in.task[t] = "executing"
       /\ in' = IF fails THEN HandlerRejected(in, t, FALSE) ELSE HandlerFulfilled(in, t)
       /\ told' = IF change /\ ~shy /\ ~fails THEN told \cup {t} ELSE told
  /\ UNCHANGED <<Hooks, stage, Handling, result, late, Output>>

-----------------------------------------------------------------------------
(* The hooks of nikita:result.                                             *)

\* Promise.all [output, in]: an error does not wait for the children.
Drain ==
  /\ DrainDue
  /\ stage' = "assert"
  /\ asked' = set.assertions
  /\ UNCHANGED <<set, off, refused, Handling, result, Children, Output>>

\* An exception of a hook rejects the action; the hooks that follow are not
\* called.
Reject ==
  /\ stage' = "over"
  /\ settled' = "rejected"

EvaluateAssertion ==
  /\ Quiet
  /\ stage = "assert"
  /\ asked # << >>
  /\ LET answer == Assertion(Head(asked), result, set.host)
     IN  /\ IF answer = "throws" THEN Reject ELSE UNCHANGED <<stage, settled>>
         /\ refused' = (refused \/ answer = "no")
  /\ asked' = Tail(asked)
  /\ UNCHANGED <<set, off, Handling, result, Children, tmp, status>>

JudgeAssertions ==
  /\ Quiet
  /\ stage = "assert"
  /\ asked = << >>
  /\ IF refused THEN Reject ELSE stage' = "relax" /\ UNCHANGED settled
  /\ UNCHANGED <<Hooks, Handling, result, Children, tmp, status>>

\* The error becomes a part of the output.
Relax ==
  /\ Quiet
  /\ stage = "relax"
  /\ stage' = "clean"
  /\ settled' = CASE result = "error" /\ set.relax  -> "relaxed"
                  [] result = "error" /\ ~set.relax -> "rejected"
                  [] result # "error"               -> "fulfilled"
  /\ UNCHANGED <<Hooks, Handling, result, Children, tmp, status>>

\* Whether it is this action's to remove: tmpdir_info was recorded.
Recorded == set.tmpdir \in {"own", "stuck"}

\* Faulty: a failed action leaves its directory behind.
RemoveTmpdirUnlessError ==
  /\ Quiet
  /\ stage = "clean"
  /\ IF Recorded /\ ~set.dirty /\ set.tmpdir = "stuck"
     THEN Reject /\ UNCHANGED tmp
     ELSE /\ stage' = "report"
          /\ tmp' = (tmp /\ (~Recorded \/ set.dirty \/ settled # "fulfilled"))
          /\ UNCHANGED settled
  /\ UNCHANGED <<Hooks, Handling, result, Children, status>>

\* rm -r, which may fail.
RemoveTmpdir ==
  /\ Quiet
  /\ stage = "clean"
  /\ IF Recorded /\ ~set.dirty /\ set.tmpdir = "stuck"
     THEN Reject /\ UNCHANGED tmp
     ELSE /\ stage' = "report"
          /\ tmp' = (tmp /\ (~Recorded \/ set.dirty))
          /\ UNCHANGED settled
  /\ UNCHANGED <<Hooks, Handling, result, Children, status>>

\* The handler tells the status, or its children do, those of all attempts.
Inherited(children) ==
  CASE result = "true"                                -> TRUE
    [] result = "false"                               -> FALSE
    [] result \in {"nothing", "object", "error"}       -> children # {}

\* Faulty: the status of the last attempt only.
ReportLastAttempt ==
  /\ Quiet
  /\ stage = "report"
  /\ IF result = "invalid"
     THEN Reject /\ UNCHANGED status
     ELSE /\ stage' = "over"
          /\ status' = (~off /\ settled # "rejected" /\ Inherited({t \in told : t[1] = starts - 1}))
          /\ UNCHANGED settled
  /\ UNCHANGED <<Hooks, Handling, result, Children, tmp>>

\* HANDLER_INVALID_OUTPUT is thrown here, after all that may relax an error.
Report ==
  /\ Quiet
  /\ stage = "report"
  /\ IF result = "invalid"
     THEN Reject /\ UNCHANGED status
     ELSE /\ stage' = "over"
          /\ status' = (~off /\ settled # "rejected" /\ Inherited(told))
          /\ UNCHANGED settled
  /\ UNCHANGED <<Hooks, Handling, result, Children, tmp>>

Next ==
  \/ CreateTmpdir \/ EvaluateCondition \/ DecideDisabled \/ ValidateSchema
  \/ Call \/ Await \/ Wake \/ Return \/ ThrowError \/ Retry
  \/ RunImmediate \/ EndChild
  \/ Drain \/ EvaluateAssertion \/ JudgeAssertions \/ Relax \/ RemoveTmpdir \/ Report

Spec == Init /\ [][Next]_vars

(***************************************************************************)
(* A handler that has control returns, throws or awaits; a child ends; the *)
(* loop of Node goes on.                                                   *)
(***************************************************************************)
Fairness ==
  /\ WF_vars(CreateTmpdir \/ EvaluateCondition \/ DecideDisabled \/ ValidateSchema)
  /\ WF_vars(Call \/ Await \/ Wake \/ Return \/ ThrowError \/ Retry)
  /\ WF_vars(RunImmediate)
  /\ WF_vars(EndChild)
  /\ WF_vars(Drain \/ EvaluateAssertion \/ JudgeAssertions \/ Relax \/ RemoveTmpdir \/ Report)

FairSpec == Spec /\ Fairness

-----------------------------------------------------------------------------
(***************************************************************************)
(* Properties.                                                             *)
(***************************************************************************)

(* What the user asks for before the handler runs.                         *)
Wanted ==
  /\ ~set.disabled
  /\ set.valid
  /\ ~Unusable
  /\ \A c \in Range(set.conditions) : Condition(c, set.host) = "yes"

(* "Multiple conditions can be combined, in which case, all of them must   *)
(* pass" (docs/content/guide/conditions.md:9): the handler is called if    *)
(* and only if none of the conditions, each evaluated in a step of its     *)
(* own, nor `disabled`, nor the schema, is against it.                     *)
RunsIffWanted == /\ starts > 0 => Wanted
                 /\ stage = "over" => (starts > 0 <=> Wanted)

(* An action that fails has used all its attempts and none more, counting  *)
(* from the attempt the user gave; without `retry` there is one.           *)
Allowed == IF set.retry = Always THEN MaxAttempts
           ELSE IF set.retry > set.attempt THEN set.retry - set.attempt ELSE 1

AttemptsCounted ==
  /\ starts <= Allowed
  /\ (stage = "over" /\ starts > 0 /\ result = "error") => (set.retry # Always /\ starts = Allowed)

Asserted == \A a \in Range(set.assertions) : Assertion(a, result, set.host) = "yes"

(* The temporary directory is there as long as the handler and the children *)
(* the action waits for may use it.  It is removed when the action is over  *)
(* (docs/content/api/metadata/tmpdir.md:9), and an action that leaves one   *)
(* tells it by an error: an assertion refused, the directory could not be   *)
(* given to root, or could not be removed.                                  *)
TmpdirLifetime ==
  /\ Recorded =>
       /\ (stage # "tmpdir" /\ hand \in {"control", "await"}) => tmp
       /\ (\E t \in Task \ late : in.task[t] = "executing" /\ result # "error") => tmp
  /\ (stage = "over" /\ tmp /\ ~set.dirty) =>
       /\ settled \in {"rejected", "relaxed"}
       /\ Asserted => set.tmpdir \in {"unowned", "stuck"}

(* The status of an action whose handler does not tell one is that of the  *)
(* children it waited for, whichever attempt called them.                  *)
StatusOfChildren ==
  (stage = "over" /\ settled = "fulfilled" /\ result \in {"nothing", "object"} /\ ~off) =>
    /\ told \ late # {} => status
    /\ status => told # {}

(* The promise of an action settles, unless it retries for ever.           *)
Settles == <>(stage = "over" \/ set.retry = Always)
=============================================================================
