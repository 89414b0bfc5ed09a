------------------------------ MODULE MCLifecycle ------------------------------
(***************************************************************************)
(* Instances of Lifecycle: every kind of condition and of assertion in     *)
(* pairs, and every way to retry with a temporary directory.               *)
(***************************************************************************)
EXTENDS Lifecycle

Arch == [arch |-> "x86_64", distribution |-> "arch", version |-> << >>, linux_version |-> <<5, 15, 49>>]
Centos == [arch |-> "x86_64", distribution |-> "centos", version |-> <<7, 9, 2009>>, linux_version |-> <<3, 10>>]

Host(os) == [exit |-> [ok |-> 0, ko |-> 1, odd |-> 7],
             path |-> [here |-> "present", gone |-> "absent", closed |-> "denied"],
             os   |-> os]

Plain == [conditions |-> << >>, disabled |-> FALSE, valid |-> TRUE, retry |-> 1, attempt |-> 0, relax |-> FALSE,
          dirty |-> FALSE, tmpdir |-> "none", assertions |-> << >>, host |-> Host({Arch})]

Cmd(c, false) == [command |-> c, true |-> {0}, false |-> false]
Want(distribution, version, linux) == [arch |-> {}, distribution |-> distribution, version |-> version,
      linux_version |-> linux]

Values == [kind : {"if", "unless"}, values : {{"truthy"}, {"falsy"}, {"truthy", "falsy"}, {"rejects"}}]
Execs  == [kind : {"if_execute", "unless_execute"},
      values : {{Cmd("ok", {})}, {Cmd("ko", {})}, {Cmd("ko", {1})}, {Cmd("odd", {1})}}]
Exists == [kind : {"if_exists", "unless_exists"}, values : {{"here"}, {"gone"}, {"here", "gone"}, {"closed"}}]
OsList == [kind : {"if_os", "unless_os"},
           values : {{Want({"arch"}, {}, {})}, {Want({"centos"}, {<<7>>}, {}), Want({"rhel"}, {}, {})},
                     {Want({}, {<<7, 9>>}, {<<5>>, <<3, 10>>})}, {Want({"arch"}, {<<6>>}, {<<5, 15, 49>>})}}]

GuardedSet == {[Plain EXCEPT !.conditions = <<c, d>>] : c \in Values, d \in Exists}
           \cup {[Plain EXCEPT !.conditions = <<c>>, !.disabled = x] : c \in Execs, x \in BOOLEAN}
           \cup {[Plain EXCEPT !.conditions = <<c>>, !.host = Host(os)] : c \in OsList,
                 os \in {{Arch}, {Centos}, {}}}

Asserts == [kind : {"assert", "unassert"}, values : {{"true"}, {"false"}, {"other"}, {"output"},
      {"true", "false"}}]
           \cup [kind : {"assert_exists", "unassert_exists"}, values : {{"here"}, {"gone"}, {"closed"}}]

AssertingSet == {[Plain EXCEPT !.assertions = <<a>>, !.disabled = x, !.tmpdir = "own"] : a \in Asserts,
      x \in BOOLEAN}
            \cup {[Plain EXCEPT !.assertions = <<a, [kind |-> "unassert_exists", values |-> {"gone"}]>>,
                  !.disabled = TRUE, !.relax = TRUE, !.tmpdir = "own"] : a \in Asserts}

RetryingSet == {[Plain EXCEPT !.retry = r, !.attempt = a, !.relax = x, !.tmpdir = t, !.dirty = d] :
               r \in {0, 1, 2, Always}, a \in {0, 1}, x \in BOOLEAN, t \in {"own"}, d \in BOOLEAN}
            \cup {[Plain EXCEPT !.tmpdir = t, !.valid = v] : t \in {"taken", "inherited", "fails"}, v \in BOOLEAN}
            \cup {[Plain EXCEPT !.tmpdir = t, !.relax = x, !.dirty = d, !.disabled = b] :
                  t \in {"unowned", "stuck"}, x \in BOOLEAN, d \in BOOLEAN, b \in BOOLEAN}
            \cup {[Plain EXCEPT !.valid = FALSE, !.disabled = TRUE]}

MCSetting == GuardedSet \cup AssertingSet \cup RetryingSet
MCTask == (0 .. MaxAttempts - 1) \X (1..MaxCalls)
=============================================================================
