------------------------------ MODULE TaskQueue ------------------------------
(***************************************************************************)
(* What a scheduler promises to clients that push, pause and resume: a     *)
(* first-in first-out queue with one worker, no deferred callbacks, no   *)
(* flags and no pumps.                                                     *)
(***************************************************************************)
EXTENDS Naturals, Sequences

CONSTANTS
  Task,
  Arrival     \* the sequences of tasks that may be handed over together

VARIABLES
  strict,     \* does the first failure reject whatever waits?
  waiting,    \* the tasks handed over and not started, in order
  active,     \* the task being executed: none, or a singleton
  result      \* the outcome of every task

qvars == <<strict, waiting, active, result>>

Result == {"none", "success", "failure"}

TypeInv ==
  /\ strict \in BOOLEAN
  /\ waiting \in Seq(Task)
  /\ active \in SUBSET Task
  /\ result \in [Task -> Result]

Known == {waiting[i] : i \in 1..Len(waiting)} \cup active
           \cup {t \in Task : result[t] # "none"}

Init ==
  /\ strict \in BOOLEAN
  /\ waiting \in Arrival \cup {<< >>}
  /\ active = {}
  /\ result = [t \in Task |-> "none"]

\* New tasks go to the back of the queue, in the order they are given.
Add ==
  \E ts \in Arrival :
    /\ \A i \in 1..Len(ts) : ts[i] \notin Known
    /\ waiting' = waiting \o ts
    /\ UNCHANGED <<strict, active, result>>

\* The worker is idle: it starts the task at the front.
Begin ==
  /\ active = {}
  /\ waiting # << >>
  /\ active' = {Head(waiting)}
  /\ waiting' = Tail(waiting)
  /\ UNCHANGED <<strict, result>>

Succeed ==
  \E t \in active :
    /\ active' = {}
    /\ result' = [result EXCEPT ![t] = "success"]
    /\ UNCHANGED <<strict, waiting>>

\* A failure is the task's own, unless the queue is strict: then it is that
\* of all the tasks which wait.
Fail ==
  \E t \in active :
    /\ active' = {}
    /\ IF strict
       THEN /\ waiting' = << >>
            /\ result' = [u \in Task |->
                 IF u = t \/ \E i \in 1..Len(waiting) : waiting[i] = u
                 THEN "failure" ELSE result[u]]
       ELSE /\ result' = [result EXCEPT ![t] = "failure"]
            /\ UNCHANGED waiting
    /\ UNCHANGED strict

Next == Add \/ Begin \/ Succeed \/ Fail

Spec == Init /\ [][Next]_qvars
=============================================================================
