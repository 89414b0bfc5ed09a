--------------------------------- MODULE Guards ---------------------------------
(***************************************************************************)
(* Conditions, which decide before the handler of an action whether it     *)
(* runs, and assertions, which judge afterwards what it did.               *)
(*                                                                         *)
(* Each holds a list of values and answers by looking at the host: `exit`  *)
(* maps a command to its exit code, `path` a path to what stat says of it, *)
(* `os` is what the host says of its system.  A version is a sequence of   *)
(* numbers, and one that is asked for is a prefix of it ("7" is "7.x.x").  *)
(***************************************************************************)
EXTENDS Naturals, Sequences

Answers == {"yes", "no", "throws"}

(***************************************************************************)
(* Every value is looked at, even after one answered no; the first that    *)
(* throws ends the evaluation.                                             *)
(***************************************************************************)
All(answers) ==
  IF "throws" \in answers THEN "throws" ELSE IF "no" \in answers THEN "no" ELSE "yes"

Not(answer) == IF answer = "yes" THEN "no" ELSE IF answer = "no" THEN "yes" ELSE answer

(***************************************************************************)
(* if, unless: a value, or what a function returned for it.  "truthy" and  *)
(* "falsy" stand for the booleans, numbers, strings, objects, null and     *)
(* undefined; a symbol is not handled; a function may reject.              *)
(***************************************************************************)
Truth(v) == CASE v = "truthy" -> "yes" [] v = "falsy" -> "no" [] v \in {"symbol", "rejects"} -> "throws"

If(c, host)     == All({Truth(v) : v \in c.values})
Unless(c, host) == All({Not(Truth(v)) : v \in c.values})

(***************************************************************************)
(* if_execute, unless_execute: `true` and `false` are the codes of the     *)
(* command.  Any other code is an error of execute.  When there is no      *)
(* false code the error counts as a failure of the command, else it is     *)
(* thrown again.                                                           *)
(***************************************************************************)
Executed(v, host) ==
  LET code == host.exit[v.command]
  IN  CASE code \in v.true                                           -> "yes"
        [] code \notin v.true /\ (code \in v.false \/ v.false = {})  -> "no"
        [] code \notin v.true \cup v.false /\ v.false # {}           -> "throws"

IfExecute(c, host)     == All({Executed(v, host) : v \in c.values})
UnlessExecute(c, host) == All({Not(Executed(v, host)) : v \in c.values})

\* if_exists, unless_exists: any error of stat but ENOENT is thrown.
Stat(p, host) ==
  CASE host.path[p] = "present" -> "yes" [] host.path[p] = "absent" -> "no" [] host.path[p] = "denied" -> "throws"

IfExists(c, host)     == All({Stat(p, host) : p \in c.values})
UnlessExists(c, host) == All({Not(Stat(p, host)) : p \in c.values})

-----------------------------------------------------------------------------
(* if_os, unless_os                                                        *)

\* The numbers of a version that are kept, when it has that many.
Keep(version, n) == IF Len(version) < n THEN version ELSE SubSeq(version, 1, n)

Fill(version) == [i \in 1..3 |-> IF i <= Len(version) THEN version[i] ELSE 0]

Satisfies(version, wanted) == \A i \in 1..Len(wanted) : Fill(version)[i] = wanted[i]

(***************************************************************************)
(* One entry of the condition: an empty set matches everything, and so     *)
(* does any version on a system without a version (Arch Linux).            *)
(***************************************************************************)
OsMatches(want, os, linux) ==
  /\ want.arch = {} \/ os.arch \in want.arch
  /\ want.distribution = {} \/ os.distribution \in want.distribution
  /\ \/ os.version = << >>
     \/ want.version = {}
     \/ \E w \in want.version : Satisfies(Keep(os.version, 2), w)
  /\ want.linux_version = {} \/ \E w \in want.linux_version : Satisfies(linux, w)

\* The system is printed by a shell script which fails on an unknown one.
IfOs(c, host) ==
  IF host.os = {}
  THEN "throws"
  ELSE IF \E os \in host.os : \E want \in c.values : OsMatches(want, os, Keep(os.linux_version, 3)) THEN "yes"
        ELSE "no"

\* Only if_os keeps the patch of the version of linux.
UnlessOs(c, host) ==
  IF host.os = {}
  THEN "throws"
  ELSE IF \E os \in host.os : \E want \in c.values : OsMatches(want, os, Keep(os.linux_version, 2)) THEN "no"
        ELSE "yes"

-----------------------------------------------------------------------------
\* A condition, by the property of the action that declares it.
Condition(c, host) ==
  CASE c.kind = "if"             -> If(c, host)
    [] c.kind = "unless"         -> Unless(c, host)
    [] c.kind = "if_execute"     -> IfExecute(c, host)
    [] c.kind = "unless_execute" -> UnlessExecute(c, host)
    [] c.kind = "if_exists"      -> IfExists(c, host)
    [] c.kind = "unless_exists"  -> UnlessExists(c, host)
    [] c.kind = "if_os"          -> IfOs(c, host)
    [] c.kind = "unless_os"      -> UnlessOs(c, host)

(***************************************************************************)
(* assert, unassert: a function of the output and of the error, which must *)
(* return a boolean, or a value that is matched with what the handler      *)
(* returned, which is undefined after an error or without a handler.       *)
(***************************************************************************)
Judged(v, output) ==
  CASE v = "true" -> "yes" [] v = "false" -> "no" [] v = "other" -> "throws"
    [] v = "output" -> IF output = "object" THEN "yes" ELSE "no"

AssertOutput(a, output)   == All({Judged(v, output) : v \in a.values})
UnassertOutput(a, output) == All({Not(Judged(v, output)) : v \in a.values})

\* fs.base.exists throws what it does not know, as stat does.
AssertExists(a, host)   == All({Stat(p, host) : p \in a.values})
UnassertExists(a, host) == All({Not(Stat(p, host)) : p \in a.values})

Assertion(a, output, host) ==
  CASE a.kind = "assert"          -> AssertOutput(a, output)
    [] a.kind = "unassert"        -> UnassertOutput(a, output)
    [] a.kind = "assert_exists"   -> AssertExists(a, host)
    [] a.kind = "unassert_exists" -> UnassertExists(a, host)
=============================================================================
