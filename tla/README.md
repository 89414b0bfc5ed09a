# A TLA+ model of Nikita

Nikita runs *actions* on a host: a handler with a configuration, which may call
other actions, its children. `packages/core` runs them: everything it does
concurrently goes through one small task scheduler and one recursive function,
`session`, that gives every action two of these schedulers; plugins decide
whether, how often, where and for what result a handler runs. The other packages
are handlers: some two hundred actions that bring files, users, packages,
containers, databases and directories to a state, "idempotent" and restartable.
This directory models both, checks them with TLC, and proves the safety properties
of the engine with TLAPS.

Contents: [parts](#the-parts-of-the-system),
[modules](#modules-and-how-they-correspond-to-the-code),
[runs](#what-tlc-checks), [fairness](#fairness), [proofs](#what-is-proved),
[disagreements](#what-the-code-does-not-give),
[limits](#what-the-models-leave-out), [plan](#plan).

Paths are relative to `packages/`. Nikita is written in CoffeeScript (`*/src`)
and published compiled (`*/lib`); the code that runs is `lib`, and the models and
`PROJECT.json` cite its lines.

## The parts of the system

| Part | State | Operations | What is hard | What makes it correct |
|---|---|---|---|---|
| Task scheduler `core/lib/schedulers/index.js` | `stack`, `paused`, `resolved`, `running`, `output`, a promise | `push`, `unshift`, `pause`, `resume`, `end`, `pump`, `schedule` | every task starts in a `setImmediate` callback and hands over in another, callers act in between | one task at a time, none lost or stuck, the promise settles once and when the work is done |
| Session `core/lib/session.js` | per action: scheduler `in`, scheduler `out`, which of them is current, the promises of handler and action | call a child, chain an action, normalize, handle, flush, report | several promise chains end, resume and await the same schedulers; a handler may fail while children run | siblings in turn, children before their parent, chained actions last, nothing forgotten after a failure |
| Registry `core/lib/registry.js` | a tree of names, a parent | `get`, `register`, `deprecate`, `registered`, `unregister` | registration is asynchronous and not awaited; a path shared by a walk | the last registration wins, all look-ups agree |
| Conditions, assertions, disabled `core/lib/plugins/{conditions,assertions}` | `disabled` | evaluate before, after | each value is a session of its own, which may reject | a handler runs iff nothing is against it |
| Retry, relax `core/lib/plugins/metadata/{retry,relax}.js` | `attempt` | attempt, sleep, give up, swallow | off by one; the children of a failed attempt are still running | `retry` attempts, no more and no less |
| Temporary directory `core/lib/plugins/metadata/tmpdir.js` | a directory, `tmpdir_info` | create, inherit, remove | steps fail, attempts overlap, the directory may exist | there while it is used, removed afterwards |
| History, status `core/lib/plugins/history.js`, `output/status.js` | `children`, `siblings` | append, inherit | read while children are unfinished | the status of an action is that of its children |
| SSH `core/lib/plugins/ssh.js`, `core/lib/actions/ssh` | connections in the history | open, inherit, find, close | the history is shared, and reversed by `dig` | an action runs where its parent or its siblings say; what is opened for it is closed |
| Waiting `core/lib/actions/{execute,fs}/wait.js`, `network/lib/{tcp,http}/wait.js` | attempts, quorum, files | attempt, sleep, signal | what is waited for comes and goes; processes share files | enough was found when it ends; it ends |
| File system actions `core/lib/actions/fs` | files of the host | create, write, copy, move, link, remove | several commands, each may be the last; attributes read before they change | delivers, converges after a cut, quiet when run again, tells the truth of what changed |
| Assertion actions `core/lib/actions/{assert,fs/assert,execute/assert}.js`, `network/lib/tcp/assert.js` | none | look, compare, throw | ten options, each with its negation | fails iff what is asserted is not so |
| File, network, service, system, tools, java, docker, lxd, db, ldap, ipa, krb5 packages | what the host and its servers keep | the handlers | the same | the same |
| Publish and subscribe, tree tools, arguments, schema, templates, logs | see `PROJECT.json` | | | |

How they interact: user code and handlers call *proxies*; a call pushes a
closure to the *scheduler* that is current for the action; the closure asks the
*registry* for the child and opens a child *session*; the session calls the
hooks of the *plugins* (retry, conditions, history, ssh, ...) at
`nikita:normalize`, `nikita:action`, `nikita:result` and `nikita:resolved`,
through the external plugin manager `plug-and-play`. A plugin may start sessions
in its turn, and a handler is made of calls of other actions. `PROJECT.json`
lists every part with its sources and, under `hazards`, the lines where each of
them can go wrong in a way a test would hardly reach.

## Modules and how they correspond to the code

    SchedulerOps              the methods of a scheduler, as operators on a record
      Scheduler               one scheduler, its clients and the event loop
        SchedulerRefinement   implements TaskQueue
      Session                 the tree of actions, two or three schedulers each
        SessionRefinement     implements Traversal
      Lifecycle               one action through its plugins, on a scheduler
    Guards                    conditions and assertions          (Lifecycle)
    Registry, Waiting, Connections        a component each
    TaskQueue, Traversal      the abstract specifications
    Effects                   what an action does to a machine
      FsActions               core/lib/actions/fs
        FileActions           file: content, cache, download, upload ...
          FileFormats, Ini    file: json, yaml, ini, properties, types
          ServiceActions, SystemActions, ContainerActions (docker)
            ToolsActions      tools and java
        KerberosActions, LxdActions
        AssertActions         assert, fs.assert, execute.assert
        NetworkActions        network.http, network.tcp.assert
      DatabaseActions         db
        DirectoryActions      ldap and ipa
    Handlers                  all of them, by name
      Provision               an action is run, cut, run again
    SchedulerOpsProofs        lemmas on the methods of a scheduler
      SchedulerProofs, SessionProofs, LifecycleProofs
    WaitingProofs, RegistryProofs, ConnectionsProofs, ProvisionProofs       theorems
    MC*                       instances for TLC

### The engine

**SchedulerOps** is the scheduler as a record with the fields of `state` (plus
`stack`, `options.strict`), and with: `task`, for each handler, where its stack
entry and its promise stand (`idle`, `queued`, `taken`, `executing`, `fulfilled`,
`failed`, `dropped`); `outcome`, the promise of the scheduler, which settles once;
`loop`, the callbacks `setImmediate` was given and Node has not called yet. Each
method is an operator from a scheduler to the scheduler its synchronous part
leaves behind, so that the code between two awaits is one atomic step, as in
Node. A method that calls another is the composition of the operators. A task is
one handler; clients give each handler once, as every caller in the repository
does by writing a closure in place.

**Scheduler** gives one of these records to clients that call any method at
any time, in any order, with single handlers or arrays, and to the event loop.

**Session** gives two schedulers to every action, and a third one to every call
with arrays of arguments (a *group*, whose members are the sessions of the
combinations). `phase` follows the promise `result` of an action through
normalization (`normalizing`), `Promise.all [output, in]` (`handling`),
`await schedulers.out` (`flushing`), and `on_result` (`reporting`). `hand`
follows its handler, which is user code: it may call children, await one of
those, await something that is not an action (`Sleep`), return or throw. The
tree is not built in the state: `Parent` says who would call what, and whether
and in which order the calls happen is left open, so that one run covers every
program over that tree. Promise reactions run before Node takes the next callback
of a timer, of an I/O or of `setImmediate`: `Quiet` states that no reaction is
due, and guards the actions that start from such a callback.

**Lifecycle** goes inside one action. A `Setting` is what a user writes
(conditions, `disabled`, a schema that holds or not, `retry`, `attempt`,
`relax`, `tmpdir`, `dirty`, assertions) and the host it is written for; `stage`
follows the hooks in the order that their `before` and `after` give: temporary
directory, conditions one at a time, `disabled`, schema, handler, wait for `in`,
assertions, relax, removal of the directory, status. The handler calls children
on a scheduler of SchedulerOps that all attempts share, awaits them or not,
returns or throws. **Guards** has one operator for each kind of condition and of
assertion, translated from its handler, with the three answers it can give:
yes, no, or an exception.

**Registry** holds the trees of names of several registries with their parents
and the calls of `register` that are not over: the leaves already told to
`on_register`, and the tree, merged at the end. `latest` is a history variable:
what a name was last registered with, by calls that did not overlap.

**Connections** is the path of the actions in progress, with the children each
has had, in their array; `ssh.open`, `ssh.close` and the plugin read that array,
and `dig` reverses it in place. The server may close a connection at any time.

**Waiting** is `execute.wait`, `fs.wait` and the shell script of `tcp.wait`, of
which every command that touches a shared file is a step of the background
process of one server, and `http.wait`. `Flip` makes the things waited for
available or not.

**TaskQueue** and **Traversal** are what scheduler and session promise: a first-in
first-out queue with one worker, and a depth-first traversal of a tree that is
discovered on the way: only an action without a child in progress starts a child
or ends. SchedulerRefinement and SessionRefinement hold the mappings.

### The actions

**Effects**: a machine is a function from resources (the path of a file, the name
of a user, an image, an entry of a directory) to their state. The handler of an
action is an operator `Handler(c, m)`, for a configuration `c` and the machine `m`
it finds, whose value is an *effect*: the sequence of the writes the commands of
the handler make, in their order, whether it throws after them, and its status.
`Then` composes the effects of two calls of a handler: the second one finds what
the first one left. `When` is a condition, `Relaxed` is `$relax`, `Shy` is `$shy`.
A family of actions is a module with, for each action, the translation of its
handler and, for the family, `Is...Config` (what a configuration is), `...Goal`
(what the documentation of the action promises, said of the machine and not of
the commands), `...Spares` (what it must leave alone) and `...Except`.

What a command of the host does (`useradd`, `iptables`, `docker rm`, a write of a
stream) is in the effect, as the handlers use it. A content is a sequence of words
and ends of lines, or, for the formats, a map of keys or a sequence of lines; a
file is truncated before it is written, so that a cut between the two is a state
of its own.

**Provision** runs any of them: `Start` computes the effect on the machine as it
is, `Command` makes its next write, `Cut` loses the rest and rejects the action,
`Settle` settles it; then the user runs it again. A handler reads the machine when
the run starts, and no one else changes it: what is concurrent is in the engine.

Operators commented `Faulty` are the definitions with a plausible mistake in
them (a dropped guard, a missing resume); no specification uses them. They
document which mistake each property is able to detect: `PROJECT.json` pairs
them under `mutants`.

## What TLC checks

`tlc -config X.cfg M` for each line; `PROJECT.json` names the module. All runs
exhaust their state space.

| Run | Instance | Shows |
|---|---|---|
| `scheduler_calls` | `ResumingSpec`; 3 tasks, strict or not, created paused or not, with or without handlers; all methods | below |
| `session_tree` | the root calls a group of `a` and `c`, and `b`; `a` calls `d` and `e`; the root, `a` and `d` may fail | below |
| `session_fair` | `FairSpec`; the root calls `a` and `b`, `a` calls `c`, which is not registered; everyone may fail, `a` may sleep | `EveryCallSettles`, `SessionSettles` |
| `lifecycle` | `FairSpec`; every kind of condition and of assertion, in pairs; 2 attempts of 2 calls each, every way to retry, relax and to get a directory | below |
| `registry` | a session registry over the global one, 2 names, 2 trees, 3 calls | `LatestWins`, `LookupsAgree` |
| `waiting` | `FairSpec`; 3 things, and every quorum, retry, strict and timeout that the code tells apart | `Reached`, `StatusOfWait`, `Ends` |
| `connections` | 2 connections, actions three deep with 3 children each | `RunsWhereOpened`, `ManagedClosed` |
| `provision` | every action, with its options, on the machines that matter to it; 2 cuts | below |
| `doc_traversal`, `doc_on_register`, `doc_tcp_quorum`, `doc_fs_status` | see [disagreements](#what-the-code-does-not-give) | a counterexample |

`scheduler_calls` checks that the running flag is a lock (`OneAtATime`), that no
wake-up is lost (`NoLostWakeup`), that the scheduler promise is fulfilled when
all is done and not before (`FulfilledWhenDrained`), that a strict failure rejects
what waits in the same step (`StrictFailureDrops`), that the output is in order
(`OutputInOrder`), that every task and the scheduler settle
(`EveryTaskSettles`, `PromiseSettles`), and that between the calls that cut in
(`unshift`, `end`) handlers start first in first out, one after the other
(`ImplementsTaskQueue`).

`session_tree` checks that the schedulers keep their invariant in the hands of a
session (`SchedulersSound`), that siblings never overlap (`SiblingsInTurn`),
that an action succeeds after its children (`ChildrenFirst`), that what is
chained to an action starts after its handler and its children (`ChainedLast`),
that nothing is left paused for ever after a failure (`NothingForgotten`), that
a group stops at its first failure (`GroupStopsAtFailure`), and that actions run
depth first without anybody awaiting them, until one fails (`ImplementsTraversal`).
`SiblingsInTurn` compares the calls of one scheduler, be they actions or groups:
those a handler made, those chained to an action, the members of a group; a call
chained to an action and a child of it are compared by `ChainedLast`.

`lifecycle` checks that the handler runs iff no condition, `disabled` or schema
is against it (`RunsIffWanted`), that the attempts are as many as asked
(`AttemptsCounted`), that the temporary directory is there while the handler and
the children that are waited for run, and that an action which leaves it behind was
rejected, for one of three causes (`TmpdirLifetime`: an assertion refused it, the
directory could not be given to root, or it could not be removed),
that the status is that of the children, whichever attempt called them
(`StatusOfChildren`), and that the promise settles (`Settles`).

`registry`: a name gives what it was last registered with as long as the calls
about it did not overlap, and a tree which is refused changes nothing; `get`,
`registered` and the list of all the actions, which walk the registries in
different orders, agree.

`waiting`: a wait that is fulfilled has found its quorum (one less for `tcp.wait`,
which is what its script counts and not what it says, see `doc_tcp_quorum`), a wait
that gives up has not; its status tells whether it had to wait (exactly, for
commands that must all succeed and for `http.wait`; see `doc_fs_status` for
`fs.wait`); it ends once the first things, as many as it asks for, are there for
good, whatever the others do (`tcp.wait`: once all are).

`connections`: an action runs on the connection of its closest ancestor that
has one; else on one that a sibling opened and that is still open, or on none, and
not on none while all that the siblings opened are open. What Nikita opens for an
action is closed when the action ends, in success or in failure, unless a hook on
`nikita:result` that comes before the one of ssh throws (`EndThrows`).

`provision` asks six questions of every action:

- `Delivers`: what the action promises holds when it is fulfilled; and when an
  assertion is rejected, what it asserts does not hold;
- `Converges`: also when earlier runs of it were cut anywhere;
- `StatusTells`: `$status` is true iff the machine changed;
- `QuietAgain`: run once more, it changes nothing and is fulfilled;
- `Repairable`: a run that was cut leaves nothing the next run stumbles on;
- `LeavesTheRest`: what was not asked for is as it was.

What the code does not give an action is in the `...Except` operator of its family:
an action, the condition on its configuration or on the machine, the questions it
does not answer, and why. These lists are part of what the run shows: outside them
the six properties hold of every case of MCProvision, and in no other way is an
action exempted. Each entry was put there after a counterexample, and is as narrow
as it shows; what no case reaches is not known, and not claimed.

The options are those a handler receives, that is after the schema: ajv runs with
`useDefaults` and `coerceTypes` (`core/lib/plugins/tools/schema.js:61-65`), so that
a boolean option whose default is null reaches its handler as `false` and not as
unset (`Coerced`: `generate` of `locale_gen`, `reload` of `resolved`); an option
that may also be null by its type stays null (`reload` of `timesyncd`).

### Bounds

- *Three tasks* in a scheduler: one in flight, one that waits, one that is
  pushed in between. The guards of the code tell an empty stack from a stack
  that is not, and nothing else; the invariants that are proved hold for any
  number. The arrays are the empty one (its own branch in `push` and in
  `schedule`), one that leaves a task for single calls, and one with all of them.
- *Trees* of depth three (a parent, a child that is a parent, a leaf), with two
  children where order matters. Calls happen in any order and any of them may be
  left out. `Failing`, `Unknown` and `Sleeping` name the actions that may do so,
  and are chosen per run so that every branch is taken.
- `lifecycle`: `MaxAttempts` = 2 bounds an action that retries for ever (`Settles`
  says nothing of it); two attempts are enough for what one leaves to the next.
  `MaxCalls` = 2 children per attempt, one awaited and one not.
- `registry`: `MaxCalls` = 3 registrations, two that overlap and one before or
  after; unregistrations and look-ups are not bounded. The names are a key and
  one below it: all the code compares is where the walk stops.
- `connections`: `MaxDepth` = 3, `MaxChildren` = 3 (two openings and something
  between or after them).
- `waiting`: three things, so that a quorum of two is neither one nor all, and
  quorums above their number, for which `tcp.wait` waits for all. `tcp.wait` has a
  timeout with one quorum only (`Majority`), since the processes do not read the
  quorum where they compare the deadline. No counter is bounded but by `retry`:
  without it the number of attempts is only told from one and from several.
- `provision`: `MaxCut` = 2 runs are cut, the second of them on what the first
  left; runs that succeed are not bounded. The cases are listed in MCProvision:
  the configurations are the product of the options a handler tests, the machines
  those it can tell apart.

### Restrictions that are part of what is shown

- `Falsy = FALSE` in `scheduler_calls`: a handler that rejects without a reason
  fulfils a strict scheduler and leaves tasks which neither run nor settle. The
  theorems hold with it, but for those that assume `Reasoned`.
- `Sleeping = {}` and `Late = FALSE` in `session_tree`: with a sleep between two
  calls, or with a call on a promise that is about to be fulfilled, the children
  of an action may outlive it. The theorems say which of the two they assume.
- `ImplementsTraversal` holds in `session_tree` until something fails
  (`Troubled`): then actions may outlive their parents (`doc_traversal`).
- `Await` is for the calls a handler made itself: a handler that awaits an action
  chained to its own promise waits for itself, and the code has nothing against it.
- `Reached` is not asked of `tcp.wait` with a timeout. `ManagedClosed` excepts the
  connections of an action on which an earlier hook of the result threw (`thrown`);
  `TmpdirLifetime` names the three causes for which a directory stays, and asks for
  its lifetime of those that are recorded (`Recorded`): one that could not be given
  to root is not.
- `CHECK_DEADLOCK FALSE` where the system ends: a session, an action, a wait, a
  bounded number of registrations, a root action that is over. Scheduler and
  Provision have users who may always call again, and are checked for deadlock.

## Fairness

- Scheduler: weak fairness on the callbacks of `setImmediate` (Node calls each of
  them) and on the end of the handlers (an assumption on user code: a handler that
  never returns blocks its scheduler by design). `ResumingSpec` adds that a
  scheduler which stays paused is resumed: in the repository, session resumes the
  scheduler it paused, or ends it, on every path.
- Session: weak fairness on the reactions and on the event loop, and on the return
  of an await; strong fairness on the end of a handler, which gets control again
  and again and must return at last rather than call and await for ever. No
  fairness on calling children: a handler need not.
- Lifecycle: weak fairness on the handler that has control, on the callbacks, on
  the end of a child and on the hooks.
- Waiting: weak fairness on the steps of the code, and on each of the shell
  processes, which the host schedules independently. None on `Flip`: `Ends`
  assumes that what is waited for comes in the end and stays.

## What is proved

Eight modules hold the theorems. In all of them the constants are arbitrary (any
tasks and arrays, any tree of calls, any number of things waited for, any chain of
registries, any depth), under the assumptions that the modules of the models name
(`SchedulerAssumption`, `SessionAssumption`, `LifecycleAssumption`,
`RegistryAssumption`, `WaitingAssumption`, `ConnectionsAssumption`), which TLC
evaluates in every run. A theorem that needs more says so with `ASSUME`:

- `Reasoned`: handlers reject with a reason, or no scheduler is strict. `end` takes
  a rejection without a reason for a success, hence a strict scheduler then is
  fulfilled with tasks that wait.
- `Queueing`: the clients push, pause and resume, and are `Reasoned`.
- `~Late`, `Sleeping = {}`: nothing is called on the root after its creation; what
  a handler awaits is a call it made. Without them the properties do not hold
  (see [restrictions](#restrictions-that-are-part-of-what-is-shown)).
- `Faultless`: both, and nothing fails.

The properties are not inductive; each module has a stronger invariant, named
below, and proves that it holds at first, that every step keeps it (one step of
the proof per action), and that it implies the properties.

### The scheduler

`SchedulerOpsProofs` has the lemmas on the operators: each of them preserves
`Sound`, settles or starts no other task than its own (`Kept`), and what it does to
the tasks, the stack and the promise (`Moves`, `Advances`, `Tidy`). They speak of
one scheduler record, and serve the three modules that run schedulers.

That a task pushed on an idle scheduler may be taken rests on no `run` callback
being deferred, and that a `run` callback finds its task rests on there being one.
`Sound` is: the types, `Serial` (`running` tells whether a task is in flight, and
there is at most one), `StackHoldsWaiting` (the stack lists the queued tasks, each
once) and `LoopFollows` (what may be in `loop` for each state of the task in
flight). `SchedulerProofs` adds `Awake` (a task that waits in a scheduler neither
paused nor busy has a pump coming: it is not a consequence of `Sound`, and fails
for `end` without a reason) and, for the output, `StartsInv` (`started` lists,
each once, the tasks whose handler was called, the one in flight last).

| Theorem | Statement |
|---|---|
| `SoundAlways` | `Spec => []Inv`: the scheduler is `Sound` |
| `TypeCorrect`, `MutualExclusion` | `TypeOK`, `OneAtATime` |
| `NothingLost`, `CallbacksAgree` | the stack lists the tasks that wait, each once; the callbacks deferred fit the task in flight |
| `AlwaysAwake` (`Reasoned`) | `NoLostWakeup` |
| `DrainedWhenFulfilled` (`Reasoned`) | `FulfilledWhenDrained`, an action property |
| `FailureDropsTheRest` (`Reasoned`) | `StrictFailureDrops`, an action property |
| `OutputOrdered` | `OutputInOrder` |
| `QueueImplemented` (`Queueing`) | `ImplementsTaskQueue`: the initial states map to initial states of the queue, each step to one of its steps or to none |

In the refinement the abstract queue is `Ahead`: the task taken off the stack and
not called yet, then the stack. Its lemmas say for each operator what becomes of
`Ahead`, of the results and of the task in flight; a push appends, the call of a
handler removes the first, a pump moves the first from one part of `Ahead` to the
other and changes nothing.

### The session

`SiblingsInTurn` relates the phases of actions and says nothing of the
schedulers, hence it needs all of these (`Inv` of `SessionProofs`): every
scheduler is `Sound`; a scheduler knows only the calls that were pushed to it
(`Hosted`); the scheduler of a group is blank until its handler runs
(`GroupsFresh`: otherwise creating it would discard tasks); an action in progress
is the handler its host is executing (`LiveExecutes`); for a group, the row of
`Ordered` on its promise (`GroupRow`) says that its call is not over while a member
runs (`BusyExecutes`). Two siblings in progress would then be two tasks in flight
in one sound scheduler. The lemma `OneMoves`
carries the argument: it says once what a step that changes one scheduler must
satisfy, and the actions of Session are instances of it; `GroupRuns` is the only
step that changes two.

What runs *when* needs more: `Ordered`. It has a row for each thing that a promise
chain of session.js relies upon: `Stage` (where the promise, the handler, the
output and the current scheduler of an action stand together), `Placed` (a call is
in one of the two schedulers of its parent, and a session began with the handler
of its call), `GroupRow` (the promise of a group is that of its scheduler),
`OutRow` (`out` is paused, has no callback and has begun nothing until the action
is flushed, and is settled or was never used once it is reported) and `InRow`
(`in` is not fulfilled before the handler is over, and is before the action is
flushed). `OutRow` is where `~Late` is needed, `InRow` where handlers must not
sleep. `StageNext`, `PlacedNext`, `GroupNext`, `OutNext` and `InNext` prove the
rows one by one.

| Theorem | Statement |
|---|---|
| `InvAlways`, `OrderedAlways` | the invariants |
| `SessionTypes`, `SessionSchedulers` | `TypeOK`, `SchedulersSound` |
| `SiblingsNeverOverlap` | `SiblingsInTurn` |
| `ChildrenBeforeResult` (`~Late`, `Sleeping = {}`) | `ChildrenFirst` |
| `ChainedAfterHandler` (`~Late`, `Sleeping = {}`) | `ChainedLast` |
| `NoCallForgotten` (`~Late`) | `NothingForgotten` |
| `GroupFailsAtOnce` | `GroupStopsAtFailure` |
| `TraversalImplemented` (`Faultless`) | `ImplementsTraversal`: the session is a depth-first traversal of its tree, groups included |

For the refinement `AllWell` (nothing failed) is an invariant where nothing may
fail. The argument is then `OneChild`: a call under way is in `in` while its parent
is handled and in `out` while it is flushed (`UnderWay`), a member of a group is
under way only while the call of the group is (`HasCall`), and one scheduler has
one task in flight; hence an action has one child in progress, and none when it
is reported. `RunCall` is `Enter`, `Report` is `Leave`, all else stutters.

### One action

`IInv` of `LifecycleProofs` has a part for each family of plugins: `Flow` (where
handler, result and promise stand in every stage), `Asking` (what the conditions
evaluated so far have decided), `Counting` (`attempt` counts the calls of the
handler), `ChildrenInv` (the scheduler that the attempts share is `Sound`, and
once fulfilled holds only settled children and late ones), `Judging`, `Dir` (in
which stages the directory exists) and `Telling`.

| Theorem | Statement |
|---|---|
| `IInvAlways`, `LifecycleTypes` | the invariant, `TypeOK` |
| `HandlerRunsIffWanted` | `RunsIffWanted`, for any conditions in any order |
| `AttemptsExact` | `AttemptsCounted`, for any `retry` and any bound |
| `TmpdirOutlives` | `TmpdirLifetime` |
| `ChildrenTellStatus` | `StatusOfChildren` |

### Registry, waiting, connections

*RegistryProofs.* The invariant `Registered` says of every registry that the
namespace of a node is there (`Closed`), that a node holds what was last said of
its name (`Tracks`), and of every call that walks that it was given a tree. The
look-ups go from a registry to its parent: that they are defined, and that
something holds of them all, follows from `RegistryAssumption` (in every set of
registries one has its parent outside), which the lemmas `FromParents` and
`FromParent` turn into the induction that is needed.

*WaitingProofs.* `IInv` has a part per action (`ExecuteInv`, `FsInv`, `HttpInv`,
`TcpInv`). Those of `execute.wait` say that what is left to look at is what was not
seen, and that an attempt beyond the first means that something was missed. That
of `tcp.wait` counts: the lines of the file are one more than the processes that
told theirs, at most; and either enough was found already, or no process removed
the markers of the others (`MarkersStand`).

*ConnectionsProofs.* The invariant `OnlyOpened`: the actions in progress and their
histories know no connection but those that were opened. The two properties are
about steps: that a connection leaves the actions in progress only with the last
of them, and that `End` closes it and `EndThrows` records it as thrown; and that
the first `ssh.open` of a history, in whatever direction `dig` left it, is one of
those opened there (`FromSiblingsEffect`), and is used if and only if it is open:
when all are, so is the first.

| Theorem | Statement |
|---|---|
| `RegisteredAlways`, `RegistryTypes` | the invariant, `TypeOK` |
| `NamesGiveTheLatest` | `LatestWins` |
| `LookupsSayTheSame` | `LookupsAgree` |
| `IInvAlways`, `WaitingTypes` | the invariant, `TypeOK` |
| `EnoughWasFound` | `Reached`, for any number of things and any quorum |
| `StatusTells` | `StatusOfWait` |
| `OnlyOpenedAlways` | the invariant |
| `ManagedAreClosed` | `ManagedClosed`, an action property |
| `RunWhereOpened` | `RunsWhereOpened`, an action property |

### Actions on a machine

`ProvisionProofs` proves the six questions of `provision` for cuts without end,
between any two writes of any run, where TLC looks at two cut runs, and for any
names, options and machines. It has two halves.

*What a handler must be.* `Cuts(m, e)` are the machines that a run with the effect
e may leave on m: the first k writes, for some k. Four conditions on a handler c
and a machine w speak of these only, and not of behaviours:

- `Resumes(c, w)`: on every machine a cut run left, the handler ends as it would
  have on w (fulfilled or rejected), on the same machine, by way of machines that
  the first run goes through as well;
- `Tells(c, w)`: on each of them its status is true iff something is left to do;
- `Gets(c, w)`: on the machine it ends with, it has what it promises; an assertion
  that is rejected does not hold;
- `Keeps(c, w)`: that machine is w but for what was asked.

`Resumes` makes `RunInv` inductive (`RunsResume`): whatever was cut, the machine is
one that the *first* run, left alone, goes through; a run that was fulfilled left
its last one; the writes left and the writes made add up to the effect computed at
the start. The six `Provision...` theorems draw the properties from it. `Resumes` is
the weakest such condition only in part: a handler may deliver without it, and some
do (see [model-checked only](#model-checked-only)).

*Which handlers are.* `Sound` is the four conditions together, and has a lemma per
shape of handler: one that only looks (`SoundLook`, `SoundAssert`), that writes once
and then finds it done or writes the same (`SoundOnce`, `SoundSet`), that removes
(`SoundDrop`), that always fails (`SoundFail`), that writes twice (`SoundTwo`), and
that writes a chain of any length of which the rest is left after each cut
(`SoundRest`). A lemma per action applies one of them to what its handler reads and
writes. `Covers` lists the 69 kinds of action so far:

- files: `fs.chmod`, `fs.chown`, `fs.remove`, `fs.mkdir` (the missing parents of a
  path of any depth, excluded names, the attributes of a directory that is there);
- services: `service.status`, `start`, `stop`, `restart`; accounts: `system.group`
  with the removals of groups and users, `uid_gid`;
- `docker.start`, `stop`, `kill`, `restart`, `rm`, the volumes and what only looks;
- `db.user`, the removals and what only looks;
- `ipa`: services, the removals, locking and unlocking a user, what only looks;
- `lxc`: start, stop, delete, the volumes, the removal of a device or a network,
  the attachment of a network, what only looks;
- `assert` and `network.tcp.assert`.

The hypotheses of `Covers` are about the data and not about the behaviour: the
resources of the machine have the shape their commands give them (`IsFileSystem`,
`HasServices`, `HasBoxes`, `HasInstances`, `IsIpaEntry`), no name is that of a staged
file, a path does not end in a chain of links (`Leads`) nor go through a link that
leads to nothing (`Solid`: `mkdir` follows it in the first run). Evaluated by TLC, they hold
of every case of the run `provision` with one of these kinds, so that none of the
theorems is about nothing.

| Theorem | Statement |
|---|---|
| `RunsResume` | a handler that `Resumes` keeps `RunInv`, however often it is cut |
| `CoveredDelivers`, `CoveredConverges` | `Delivers`, `Converges` |
| `CoveredStatusTells` | `StatusTells` |
| `CoveredQuietAgain`, `CoveredRepairable` | `QuietAgain`, `Repairable`, action properties |
| `CoveredLeavesTheRest` | `LeavesTheRest` |

What the code does not give these actions is excepted here as in the run: the
theorems are about the same `...Except` operators.

### Forms chosen for the proofs

Some definitions are written so that the provers can use them; they say the same.
`OutputInOrder` states the order of the output by positions and not with
`SelectSeq`; `FirstOf` of Connections chooses the least position and does not
filter the history; the look-ups of Registry are functions of a registry whose
values are functions of a name; `Graft` describes the result of `mutate` node by
node, as the walk sets each node once; Traversal has the set of the actions in
progress, in which only the one without a child in progress moves, and not the
path that they are. In Effects, `After` says which write a resource owes its state
to, where a fold over the writes would say how the machine goes from one to the
next (the lemma `AfterNext` gives that back); `:=` and `++` are those of the module
TLC, `:>` and `@@`, which the provers do not know. The writers of `Ini` are
recursive functions over the sections of a tree, and `fs.copy` does not call itself:
of the entries of a directory, the directories are created and the files copied.

### Model-checked only

- Liveness (`EveryTaskSettles`, `PromiseSettles`, `EveryCallSettles`,
  `SessionSettles`, `Settles`, `Ends`): temporal proofs with fairness and ENABLED
  are beyond the installed provers.
- The six properties of `provision` for the actions that `Covers` does not list.
  Some handlers go through a list of things of the user with a fold (packages, rules,
  members, files of a tree), and what a fold computes for every list is an induction
  over data, which is out of reach. Some do not resume in the sense of the proof: after a
  cut, or a success, the next run goes another way or does what an exception lists
  (`fs.move`, `fs.link` with `exec`, `file` with a backup or an append,
  `docker.pause`, the packages with a cache, `system.user`, `tools.iptables`). The
  others (a single write, mostly) wait for their lemma.
- The two statements of the documentation that do not hold.

## What the code does not give

Two runs check one statement each of a comment or a guide; TLC answers with an
execution of the code that breaks it.

| Run | Statement | What happens |
|---|---|---|
| `doc_traversal` | `docs/content/guide/control_flow.md:11`: children run before the next action (`LiveIsPath`) | `session.js:186`: when a handler throws, `Promise.all` rejects at once, and the next sibling runs beside the children that were not awaited |
| `doc_on_register` | `core/lib/registry.js:31`: `on_register` takes the name of the action (`ToldTheName`) | `registry.js:297`: the keys of a tree are pushed to one array and never popped: `a.b` is announced as `[a, '', b]` |

The others were met while modelling and are part of the models; no run is
needed to see them:

- `schedulers/index.js:14-16` says that a scheduler which is paused executes
  nothing new: the callback that follows a task pumps without reading `paused`.
- `schedulers/index.js:11-13` says that a failure closes a strict scheduler: what
  is pushed afterwards runs. A failure without a reason does not reject what waits
  (`Falsy`), since the code tests the truth of the error.
- `schedulers/index.js:135` says that `unshift` keeps the order of an array: on
  an idle scheduler its last member starts first.
- `session.js:186` says that an action is resolved after the children in its
  scheduler; the promise of `in` is settled the first time it drains. `session.js:241`
  says that actions may be chained until the promise is fulfilled; one chained
  during `nikita:result` is waited for by nobody.
- An assertion that fails throws out of the hooks of the result: those that come
  after it, among them the ones that remove the temporary directory, record the
  history and close the connection, are not called.
- `if_os` compares the patch of the version of linux and `unless_os` does not, so
  that neither is the negation of the other.
- `tcp.wait`: the file whose lines are counted starts with an empty line, so that
  one server less than the quorum is enough; the deadline is compared the wrong
  way round.
- `http.wait` does not read its `timeout`: it waits for ever, as `tcp.wait` without
  one.
- The temporary directory "is decommissioned right before the action finishes"
  (`docs/content/api/metadata/tmpdir.md:9`) and a managed connection "is then
  closed once the action and its children finish"
  (`docs/content/guide/local_remote.md:24`). But `tmpdir.js:123-133` leaves a directory that could not be given to root, and a hook
  of the result that throws (an assertion, an output that is invalid,
  `rm -r` at `tmpdir.js:160`) skips those after it. `TmpdirLifetime` and
  `ManagedClosed` say so cause by cause.
- The connection of an action is that of the *first* `ssh.open` found among its
  siblings, and of no other: if this one was closed the action runs on none, though
  another is open. After `dig`, the first found may be the last opened.
- `tools/lib/git.js:13-14` says that the action synchronizes a repository "to the
  latest HEAD revision"; with this revision, the default, `HEAD`, `git rev-list` gives the commit that is checked out
  (`git.js:85-86`), and nothing ever is.
- `file/lib/types/locale_gen.js:29-32` says that `locale-gen` runs by default if the
  file was modified: the conversion makes `generate` false, and it does not.
  `resolved.js:62` and `timesyncd.js:70` of `file/lib/types/systemd` say that they
  honor all the options of `file.ini`: they pass `merge` only.

And then there is what an action on a machine does not do. The `...Except`
operators list what was found; these are the most telling entries:

| Action | What is missing |
|---|---|
| `file.upload`, `file.touch` | the attributes are set when the content is written only: not if it is there already, not after a cut |
| `file.cache` | a download that was cut is kept if no hash is asked for; `force` removes nothing |
| `fs.copy` | into a directory, the attributes are compared with those of the directory; a directory without an ending slash is copied, by the run after the one that made the target (cut or not), into that target |
| `fs.link` | onto a directory, the link is put into it |
| `tools.git` at `HEAD` | what the source has become is not looked at |
| `file.types.locale_gen`, `systemd.resolved` by default | the command never runs; the status of `resolved` is false when the file was written |
| `fs.link` with `exec` | a script that was cut is not parsed, and stops every later run |
| `systemd.timesyncd`, `system.tmpfs`, `tools.sysctl`, `tools.repo`, `tools.iptables` | the file is written, then the command is run *if the file changed*: after a cut between them the command never runs |
| `service.*` | an old list of packages, or a manager that is locked, is taken for a package which is there; with `chkconfig` the levels are never switched off |
| `system.user`, `system.group` | the id `0` is taken for no id |
| `system.user` | the parent of the home is made without waiting for it: when it cannot be, `useradd` creates the account and fails, and the next run is content with an account without home |
| `system.mod`, `tools.cron`, `krb5.ktutil.add`, `db.*`, `lxc.*` | a `grep` finds something of which the name is a part |
| `tools.iptables`, `ldap.acl` | positions were read before the first change, and used after it |
| `docker.run` | a container of that name, whatever it runs, is taken for the one to run |
| `ldap.add`, `ldap.delete` | an entry that exists is not compared; only the first of several is looked for |
| `tools.backup` | with the same name, a directory is copied inside the one that was copied before, also after a cut |
| `network.http` with `target` | a `mode` always throws, once the file is written: `fs.chmod` is called without the target; a `gid` without target throws too |
| `assert` | a negative number is true, though only numbers above 0 should be; `strict` with `not` takes all but `true` for false |
| `fs.assert` | with `not`, the type is not negated and the existence still is; of several types all must hold; the uid is that of a link, the gid that of its target |
| `execute.assert` | the output is not compared when the code is not 0; an expression with `trim` throws |
| `service.assert` | `installed: false` asserts that the package is there; a tool that is missing or locked rejects whatever is asserted |
| `ipa.*.del`, `lxc.*.delete` | the refusal of the server is a status that is false |

## What the models leave out

- Values: in the engine, results, errors and configurations are reduced to success,
  failure and a falsy reason; names and contents are members of small sets.
- Argument errors (`throw Error 'Invalid Argument'` in `push` and `unshift`,
  schemas that a configuration does not meet): configurations are valid, except
  in Lifecycle, where a schema may fail.
- `UnshiftAll` does not model that `handlers.reverse()` reverses the caller's own
  array: no caller reads it afterwards.
- In Session: the variable `namespace` of the proxies, a throw of `registry.get`
  after normalization, `raw_input`, calls on the context of an action by other
  than its handler, except on the root.
- In the registry: loading a module by its name, which is `require`; and that
  `register` keeps, and completes, the objects it is given (`registry.js:286`,
  `:321`), so that a caller who changes one afterwards changes the registry.
- `plug-and-play`, which is not in the repository: a hook is a step, and hooks
  come in the order that their `before` and `after` ask for; one that answers null
  ends them, which is how a disabled action escapes its schema, as
  `plugins/metadata/disabled.js:20-23` intends.
- The order of a call chained to an action and of the children of its siblings, or
  of calls of different schedulers in general, but for `ChainedLast`.
- The streams, the shells, `dry`, `sudo`, `chroot` and the other wrappings of
  `execute`: a command makes its writes, in the order of the handler.
- `fs.base`, `fs.glob`, `fs.hash`, the lists and `info` actions, which read a
  machine: they are used by the handlers as reads.
- `docker.tools.checksum`; `docker.login`, `docker.logout` and `tools.apm.install`,
  which no module registers.
- The time in the name of a backup (two backups of one test have the same name, the
  case in which they meet; `locale` is read as `local` and has no effect), the
  headers and credentials of `network.http`. `http.wait` passes the method and the
  address only, and never ends with `POST`; Waiting has `GET`.
- Publish and subscribe, templates, log writers and the schema compiler: text and
  I/O, or a library. `PROJECT.json` has the reason of each.
- Two users, or two runs, that change one machine at the same time: nothing in
  the code is meant for it.

## Plan

Modelling that remains, in this order:

1. `namespace`: two chains on one proxy, a property that is read and never called.
   In Session, as a variable of each action, with the property that a call uses the
   names it was written with.
2. `ssh.root` and the retries of `ssh.open`, in Connections.
3. Publish and subscribe, with the falsy value of `get`.
4. `execute` with its wrappings, as one more family of Provision.

Theorems: every safety property that a run checks is proved, those of `provision`
for the actions that are covered. What comes next there: the other handlers that
write once (`krb5.delprinc`, `docker.rmi`, `docker.pull`, `lxc.storage`,
`lxc.storage.volume.attach`) and the assertions; then a weaker `Resumes`, in which
the next run may pass through machines of its own, for `fs.move` and `file`. The
rest follows the modelling: the property of `namespace` as a part of
`Ordered`; that of the retries of `ssh.open` from `OnlyOpened`; and what `Late` and
`Sleeping` leave of `ChildrenFirst`, which holds of the calls made before the drain.
