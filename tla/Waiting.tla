-------------------------------- MODULE Waiting --------------------------------
(***************************************************************************)
(* The actions that wait for something the host becomes: execute.wait for  *)
(* commands to succeed, fs.wait for files to exist, network.tcp.wait for   *)
(* servers to accept connections, network.http.wait for a server to answer *)
(* with one of the status codes.                                           *)
(*                                                                         *)
(* What is waited for comes and goes on its own (Flip).  execute.wait and  *)
(* fs.wait look at one thing after the other; network.tcp.wait is a shell  *)
(* script with one background process per server, which talk to each other *)
(* through files: a marker per server, the list of those that are done     *)
(* (`quorum`), and the exit code of the script (`signal`).                 *)
(***************************************************************************)
EXTENDS Integers, Sequences, FiniteSets

CONSTANTS
  Thing,        \* what is waited for, in the order of the configuration
  Config        \* what a user may ask for

Unset    == -1          \* an option that is not given; `retry` is then endless
Majority == -2          \* quorum: true
Many     == 2           \* bound: the attempts that are told apart when they are endless

N    == Len(Thing)
Slot == 1..N

ASSUME WaitingAssumption ==
  /\ Thing \in Seq(STRING) /\ N > 0
  /\ \A c \in Config :
       /\ c.kind \in {"execute", "fs", "tcp", "http"}
       /\ c.quorum \in Nat \cup {Unset, Majority}
       /\ c.retry \in Nat \cup {Unset}
       /\ c.strict \in BOOLEAN           \* execute.wait: there are codes for a failure
       /\ c.timeout \in BOOLEAN          \* tcp.wait, http.wait: there is a timeout
       /\ c.kind # "execute" => c.retry = Unset
       /\ c.kind \in {"fs", "http"} => c.quorum = Unset

VARIABLES
  conf,      \* the configuration of the action
  up,        \* what holds at the moment
  seen,      \* history: what was found to hold
  missed,    \* history: something was found not to hold
  phase,     \* where the action stands
  status,    \* $status
  next,      \* execute, fs: the thing looked at
  attempts,  \* execute, http: the attempts started; Many when there are more and no `retry`
  left,      \* execute: the commands which did not succeed yet
  proc,      \* tcp: where the process of each server stands
  tried,     \* tcp: count > 0 in the process of each server
  marker,    \* tcp: the servers whose marker exists
  lines,     \* tcp: the lines of `quorum`
  signal     \* tcp: the content of `signal`

vars == <<conf, up, seen, missed, phase, status, next, attempts, left, proc, tried, marker, lines, signal>>

Common == <<conf, up>>
Loops  == <<next, attempts, left>>
Script == <<proc, tried, marker, lines, signal>>

Over == {"fulfilled", "rejected"}

TypeOK ==
  /\ conf \in Config
  /\ up \subseteq Slot /\ seen \subseteq Slot /\ left \subseteq Slot /\ marker \subseteq Slot
  /\ missed \in BOOLEAN /\ status \in BOOLEAN
  /\ phase \in {"look", "again", "sleep", "wait"} \cup Over
  /\ next \in 1..(N + 1)
  /\ attempts \in 0..(IF conf.retry = Unset THEN Many ELSE conf.retry + 1)
  /\ proc \in [Slot -> {"start", "probe", "sleep", "tell", "check", "flag", "exit"}]
  /\ tried \in [Slot -> BOOLEAN]
  /\ lines \in 1..(N + 1)
  /\ signal \in {0, 2, 3}

\* execute.wait: 50%+1.
MajorityOf(n) == (n + 2) \div 2

\* tcp.wait: 50%.
TcpMajorityOf(n) == (n + 1) \div 2

Quorum ==
  CASE conf.quorum = Unset                             -> N
    [] conf.quorum = Majority /\ conf.kind # "tcp"      -> MajorityOf(N)
    [] conf.quorum = Majority /\ conf.kind = "tcp"      -> TcpMajorityOf(N)
    [] conf.quorum \notin {Unset, Majority}            -> conf.quorum

Init ==
  /\ conf \in Config
  /\ up \in SUBSET Slot
  /\ seen = {}
  /\ missed = FALSE
  /\ phase = CASE conf.kind = "execute" -> (IF conf.retry = 0 THEN "rejected" ELSE "look")
               [] conf.kind \in {"fs", "http"} -> "look"
               [] conf.kind = "tcp"     -> "wait"
  /\ status = FALSE
  /\ next = 1
  /\ attempts = IF conf.kind = "execute" /\ conf.retry # 0 THEN 1 ELSE 0
  /\ left = Slot
  /\ proc = [s \in Slot |-> "start"]
  /\ tried = [s \in Slot |-> FALSE]
  /\ marker = {}
  /\ lines = 1                \* echo '' > quorum
  /\ signal = 3

\* The host changes.
Flip ==
  /\ phase \notin Over
  /\ \E s \in Slot : up' = (up \ {s}) \cup ({s} \ up)
  /\ UNCHANGED <<conf, seen, missed, phase, status, Loops, Script>>

Look(s) ==
  /\ seen' = IF s \in up THEN seen \cup {s} ELSE seen
  /\ missed' = (missed \/ s \notin up)

-----------------------------------------------------------------------------
(* execute.wait                                                            *)

\* The next command that did not succeed yet is executed.
ExecuteCommand ==
  /\ conf.kind = "execute"
  /\ phase = "look"
  /\ next \in left
  /\ Look(next)
  /\ left' = IF next \in up THEN left \ {next} ELSE left
  /\ next' = next + 1
  /\ UNCHANGED <<phase, status>>
  /\ UNCHANGED <<Common, attempts, Script>>

\* An unexpected code, which is not relaxed when there are codes for a failure.
ExecuteFails ==
  /\ conf.kind = "execute"
  /\ phase = "look"
  /\ next \in left
  /\ conf.strict
  /\ next \notin up
  /\ phase' = "rejected"
  /\ UNCHANGED <<seen, missed, status, Common, Loops, Script>>

\* Those that did are not executed again.
SkipCommand ==
  /\ conf.kind = "execute"
  /\ phase = "look"
  /\ next \in Slot \ left
  /\ next' = next + 1
  /\ UNCHANGED <<seen, missed, phase, status, Common, attempts, left, Script>>

\* Faulty: one success more is needed.
JudgeQuorumLate ==
  /\ conf.kind = "execute"
  /\ phase = "look"
  /\ next = N + 1
  /\ IF Cardinality(left) < N - Quorum
     THEN phase' = "fulfilled" /\ status' = (attempts > 1)
     ELSE phase' = "sleep" /\ UNCHANGED status
  /\ UNCHANGED <<seen, missed, Common, Loops, Script>>

JudgeQuorum ==
  /\ conf.kind = "execute"
  /\ phase = "look"
  /\ next = N + 1
  /\ IF Cardinality(left) <= N - Quorum
     THEN phase' = "fulfilled" /\ status' = (attempts > 1)
     ELSE phase' = "sleep" /\ UNCHANGED status
  /\ UNCHANGED <<seen, missed, Common, Loops, Script>>

\* Faulty: every command is executed again.
NextAttemptAfresh ==
  /\ conf.kind = "execute"
  /\ phase = "sleep"
  /\ IF attempts = conf.retry
     THEN phase' = "rejected" /\ UNCHANGED <<next, attempts, left>>
     ELSE /\ phase' = "look"
          /\ next' = 1
          /\ attempts' = IF conf.retry = Unset /\ attempts = Many THEN Many ELSE attempts + 1
          /\ left' = Slot
  /\ UNCHANGED <<seen, missed, status, Common, Script>>

\* After the interval; `attempts !== retry`, also after the last attempt.
NextAttempt ==
  /\ conf.kind = "execute"
  /\ phase = "sleep"
  /\ IF attempts = conf.retry
     THEN phase' = "rejected" /\ UNCHANGED <<next, attempts>>
     ELSE /\ phase' = "look"
          /\ next' = 1
          /\ attempts' = IF conf.retry = Unset /\ attempts = Many THEN Many ELSE attempts + 1
  /\ UNCHANGED <<seen, missed, status, Common, left, Script>>

-----------------------------------------------------------------------------
(* fs.wait: each file is waited for before the next one is looked at.      *)

\* The file is there, or waited for a first time.
FsExists ==
  /\ conf.kind = "fs"
  /\ phase = "look"
  /\ IF next > N
     THEN phase' = "fulfilled" /\ UNCHANGED <<seen, missed, next>>
     ELSE /\ Look(next)
          /\ IF next \in up THEN next' = next + 1 /\ UNCHANGED phase
                            ELSE phase' = "again" /\ UNCHANGED next
  /\ UNCHANGED <<status, Common, attempts, left, Script>>

\* After each interval: only a second miss sets the status.
FsExistsAgain ==
  /\ conf.kind = "fs"
  /\ phase = "again"
  /\ Look(next)
  /\ IF next \in up
     THEN next' = next + 1 /\ phase' = "look" /\ UNCHANGED status
     ELSE status' = TRUE /\ UNCHANGED <<next, phase>>
  /\ UNCHANGED <<Common, attempts, left, Script>>

-----------------------------------------------------------------------------
(* network.http.wait: one address, any error is an answer to wait for.     *)

\* The `timeout` is not read.
HttpRequest ==
  /\ conf.kind = "http"
  /\ phase = "look"
  /\ Look(1)
  /\ IF 1 \in up THEN phase' = "fulfilled" /\ status' = (attempts > 0)
                 ELSE phase' = "sleep" /\ UNCHANGED status
  /\ UNCHANGED <<Common, Loops, Script>>

\* After the interval.
HttpAgain ==
  /\ conf.kind = "http"
  /\ phase = "sleep"
  /\ phase' = "look"
  /\ attempts' = IF attempts = Many THEN Many ELSE attempts + 1
  /\ UNCHANGED <<seen, missed, status, Common, next, left, Script>>

-----------------------------------------------------------------------------
(* network.tcp.wait: the process of a server (wait_connection).            *)

At(s, place) == conf.kind = "tcp" /\ phase = "wait" /\ proc[s] = place

\* touch marker: it may come after another process removed them all.
TouchMarker(s) ==
  /\ At(s, "start")
  /\ proc' = [proc EXCEPT ![s] = "probe"]
  /\ marker' = marker \cup {s}
  /\ UNCHANGED <<seen, missed, phase, status, Common, Loops, tried, lines, signal>>

\* The condition of the loop: without its marker the process stops waiting.
LeaveLoop(s) ==
  /\ At(s, "probe")
  /\ s \notin marker \/ s \in up
  /\ seen' = IF s \in marker THEN seen \cup {s} ELSE seen
  /\ proc' = [proc EXCEPT ![s] = "tell"]
  /\ UNCHANGED <<missed, phase, status, Common, Loops, tried, marker, lines, signal>>

(***************************************************************************)
(* The connection is refused.  The process exits when one saw the timeout; *)
(* the comparison is the wrong way round, and the timeout is signalled     *)
(* when it is not over yet.                                                *)
(***************************************************************************)
Refused(s) ==
  /\ At(s, "probe")
  /\ s \in marker
  /\ s \notin up
  /\ missed' = TRUE
  /\ IF signal = 2
     THEN proc' = [proc EXCEPT ![s] = "exit"] /\ UNCHANGED <<tried, signal>>
     ELSE /\ proc' = [proc EXCEPT ![s] = "sleep"]
          /\ tried' = [tried EXCEPT ![s] = TRUE]
          /\ signal' \in IF conf.timeout THEN {signal, 2} ELSE {signal}
  /\ UNCHANGED <<seen, phase, status, Common, Loops, marker, lines>>

Slept(s) ==
  /\ At(s, "sleep")
  /\ proc' = [proc EXCEPT ![s] = "probe"]
  /\ UNCHANGED <<seen, missed, phase, status, Common, Loops, tried, marker, lines, signal>>

\* echo host:port >> quorum
TellQuorum(s) ==
  /\ At(s, "tell")
  /\ proc' = [proc EXCEPT ![s] = "check"]
  /\ lines' = lines + 1
  /\ UNCHANGED <<seen, missed, phase, status, Common, Loops, tried, marker, signal>>

\* check_quorum: the empty line `quorum` starts with counts.
CheckQuorum(s) ==
  /\ At(s, "check")
  /\ proc' = [proc EXCEPT ![s] = "flag"]
  /\ marker' = IF lines >= Quorum THEN {} ELSE marker
  /\ UNCHANGED <<seen, missed, phase, status, Common, Loops, tried, lines, signal>>

\* Faulty: the status of every wait is true.
FlagAlways(s) ==
  /\ At(s, "flag")
  /\ proc' = [proc EXCEPT ![s] = "exit"]
  /\ signal' = 0
  /\ UNCHANGED <<seen, missed, phase, status, Common, Loops, tried, marker, lines>>

\* Faulty: the process starts again.
FlagStatusAgain(s) ==
  /\ At(s, "flag")
  /\ proc' = [proc EXCEPT ![s] = "probe"]
  /\ signal' = IF tried[s] THEN 0 ELSE signal
  /\ UNCHANGED <<seen, missed, phase, status, Common, Loops, tried, marker, lines>>

\* The status: it may replace the signal of a timeout.
FlagStatus(s) ==
  /\ At(s, "flag")
  /\ proc' = [proc EXCEPT ![s] = "exit"]
  /\ signal' = IF tried[s] THEN 0 ELSE signal
  /\ UNCHANGED <<seen, missed, phase, status, Common, Loops, tried, marker, lines>>

\* wait; exit $signal
ExitSignal ==
  /\ conf.kind = "tcp"
  /\ phase = "wait"
  /\ \A s \in Slot : proc[s] = "exit"
  /\ phase' = IF signal = 2 THEN "rejected" ELSE "fulfilled"
  /\ status' = (signal = 0)
  /\ UNCHANGED <<seen, missed, Common, Loops, Script>>

Process(s) ==
  \/ TouchMarker(s) \/ LeaveLoop(s) \/ Refused(s) \/ Slept(s)
  \/ TellQuorum(s) \/ CheckQuorum(s) \/ FlagStatus(s)

Work ==
  \/ ExecuteCommand \/ ExecuteFails \/ SkipCommand \/ JudgeQuorum \/ NextAttempt
  \/ FsExists \/ FsExistsAgain \/ HttpRequest \/ HttpAgain
  \/ ExitSignal

Next == Flip \/ Work \/ \E s \in Slot : Process(s)

Spec == Init /\ [][Next]_vars

\* The code goes on; nothing is said of the host.
FairSpec == Spec /\ WF_vars(Work) /\ \A s \in Slot : WF_vars(Process(s))

-----------------------------------------------------------------------------
(***************************************************************************)
(* Properties.                                                             *)
(***************************************************************************)

\* What the code of each action asks for: tcp.wait counts one line too many
\* (FoundTheQuorum is what it announces), and waits for every server when
\* there are fewer than it asks for.
Enough ==
  CASE conf.kind = "tcp" -> (IF Quorum > N THEN N
                             ELSE IF Quorum > 1 THEN Quorum - 1 ELSE 1)
    [] conf.kind = "http" -> 1
    [] conf.kind \in {"execute", "fs"} -> Quorum

(* A wait that is fulfilled has found enough of what it waited for, though  *)
(* perhaps not at the same time; one that gives up for its number of        *)
(* attempts has not, counting all the attempts.                             *)
Reached ==
  /\ (phase = "fulfilled" /\ (conf.timeout => conf.kind = "http")) => Cardinality(seen) >= Enough
  /\ (phase = "rejected" /\ conf.kind = "execute" /\ ~conf.strict) =>
        /\ attempts = conf.retry
        /\ Quorum > 0 /\ conf.retry > 0 => Cardinality(seen) < Quorum

(* The status tells of a wait: it is never true when everything was found   *)
(* to hold; that of execute.wait is never false when every command had to   *)
(* succeed and one of them was once found to fail, nor that of http.wait    *)
(* when the server was once not found to answer.  That of fs.wait may be,   *)
(* although its documentation says otherwise: StatusOfFiles.                *)
StatusOfWait ==
  phase = "fulfilled" =>
    /\ status => missed
    /\ ((conf.kind = "execute" /\ Quorum = N) \/ conf.kind = "http") => (status <=> missed)

\* The first of the things waited for hold.
Hold(n) == 1..n \subseteq up

(* A wait ends once the first things, as many as it asks for, hold for      *)
(* good, whatever the others do; tcp.wait, whose processes may miss that    *)
(* the others were enough, once all of them do.                             *)
Ends ==
  \A n \in Slot :
    (/\ Quorum <= n
     /\ conf.kind = "tcp" => n = N
     /\ <>[]Hold(n)) => <>(phase \in Over)

-----------------------------------------------------------------------------
(***************************************************************************)
(* What the documentation says and the code does not do.                   *)
(***************************************************************************)

\* "Number of minimal successful connection, 50%+1 if "true"", and all of
\* them when it is not given.
Documented ==
  CASE conf.quorum = Unset                                   -> N
    [] conf.quorum = Majority                                -> (N \div 2) + 1
    [] conf.quorum \notin {Unset, Majority} /\ conf.quorum > N -> N
    [] conf.quorum \notin {Unset, Majority} /\ conf.quorum <= N -> conf.quorum

(* tcp.wait, without a timeout, has connected to as many servers as its     *)
(* option `quorum` says (network/lib/tcp/wait.js:132 and 4).                *)
FoundTheQuorum ==
  (conf.kind = "tcp" /\ ~conf.timeout /\ phase = "fulfilled")
    => Cardinality(seen) >= Documented

(* "Status will be set to "false" if the file already existed" and          *)
(* "otherwise it will be set to "true"" (core/lib/actions/fs/wait.js:4).    *)
StatusOfFiles ==
  (conf.kind = "fs" /\ phase = "fulfilled") => (status <=> missed)
=============================================================================
