----------------------------- MODULE ServiceActions -----------------------------
(***************************************************************************)
(* The actions of packages/service: packages, the services they bring and  *)
(* what is started when the machine boots.                                 *)
(***************************************************************************)
EXTENDS FileActions

Pkg(name)  == <<"pkg", name>>
Srv(name)  == <<"srv", name>>
Unit(name) == <<"unit", name>>     \* what the loader has read of a service
Repo       == <<"repo">>           \* the packages that can be installed
Manager    == <<"manager">>
Loader     == <<"loader">>
Known      == <<"state", "packages">>   \* what an action keeps for its children

Package(outdated) == [type |-> "package", outdated |-> outdated]
\* A service that is broken fails to start.  `levels` is the sequence of the
\* run levels it is started at, <<"on">> for loaders that have none.
Service(started, levels, broken) ==
  [type |-> "service", started |-> started, levels |-> levels, broken |-> broken]
Named(name) == [type |-> "tool", name |-> name]
Listed(installed, outdated) ==
  [type |-> "list", installed |-> installed, outdated |-> outdated]

Tool(m, r)      == IF r \in DOMAIN m THEN m[r].name ELSE "none"
Packages(m)     == {r[2] : r \in {q \in DOMAIN m : q[1] = "pkg" /\ m[q] # Absent}}
Outdated(m)     == {n \in Packages(m) : m[Pkg(n)].outdated}
IsService(m, n) == StateOf(m, Srv(n)) # Absent

IsKept(m, cache) == cache /\ Known \in DOMAIN m

\* What is asked for is found in what is known, when it is kept (`cache`),
\* and by the package manager: "none" is not supported, "locked" fails.
Listing(m, cache) ==
  IF IsKept(m, cache)
  THEN m[Known]
  ELSE Listed(Packages(m), Outdated(m))

Keep(list, cache) == When(cache, Write(Known := list))

\* The package manager brings a package and its service.
BaseInstall(m, name) ==
  IF name \notin m[Repo].names
  THEN Throw
  ELSE Run((Pkg(name) := Package(FALSE))
           ++ (Srv(name) := IF IsService(m, name) THEN m[Srv(name)]
                            ELSE Service(FALSE, << >>, FALSE)))

(***************************************************************************)
(* A list that cannot be read is not an error: nothing is installed.       *)
(***************************************************************************)
ServiceInstall(m, c) ==
  LET list    == Listing(m, c.cache)
      wanted  == c.name \notin list.installed \/ c.name \in list.outdated
      install == When(wanted, BaseInstall(m, c.name))
      now     == Listed(list.installed \cup {c.name},
                        IF wanted THEN list.outdated \ {c.name} ELSE list.outdated)
      listed  == IsKept(m, c.cache) \/ Tool(m, Manager) # "locked"
  IN  IF ~IsKept(m, c.cache) /\ Tool(m, Manager) = "none"
      THEN Throw
      ELSE When(listed, install) \bullet Returns(When(listed, Keep(now, c.cache)), c.cache)

ServiceRemove(m, c) ==
  LET list   == Listing(m, c.cache)
      remove == CASE c.name \notin list.installed -> Nothing
                  [] c.name \in list.installed /\ c.name \notin Packages(m) -> Throw
                  [] c.name \in list.installed /\ c.name \in Packages(m) ->
                       Run((Pkg(c.name) := Absent) ++ (Srv(c.name) := Absent))
  IN  IF ~IsKept(m, c.cache) /\ Tool(m, Manager) \in {"none", "locked"}
      THEN Throw
      ELSE remove \bullet Keep([list EXCEPT !.installed = @ \ {c.name}], c.cache)

-----------------------------------------------------------------------------
(* Each of start, stop and status first looks for the service: nothing is  *)
(* done, and nothing is wrong, when there is none.                         *)

ServiceStatus(m, name) ==
  CASE ~IsService(m, name)                                -> Nothing
    [] IsService(m, name) /\ Tool(m, Loader) = "none"     -> Throw
    [] IsService(m, name) /\ Tool(m, Loader) # "none"     -> Returns(Nothing, m[Srv(name)].started)

\* Only the exit code of a missing loader is an error.
ServiceStart(m, name) ==
  LET status == ServiceStatus(m, name)
  IN  IF ~IsService(m, name) \/ status.fails \/ status.status
      THEN Returns(status, FALSE)
      ELSE When(~m[Srv(name)].broken, Run(Srv(name) := [m[Srv(name)] EXCEPT !.started = TRUE]))

ServiceStop(m, name) ==
  LET status == ServiceStatus(m, name)
  IN  IF ~IsService(m, name) \/ status.fails \/ ~status.status
      THEN Returns(status, FALSE)
      ELSE Run(Srv(name) := [m[Srv(name)] EXCEPT !.started = FALSE])

\* The service is stopped, then started: it tells that it did.
ServiceRestart(m, name) ==
  IF Tool(m, Loader) = "none" \/ ~IsService(m, name)
  THEN Throw
  ELSE LET stopped == [m[Srv(name)] EXCEPT !.started = FALSE]
       IN  Run(Srv(name) := stopped)
             \bullet IF stopped.broken THEN Throw
                     ELSE Run(Srv(name) := [stopped EXCEPT !.started = TRUE])

\* systemctl and update-rc: on or off.
ServiceSwitch(m, name, on) ==
  LET enabled == IsService(m, name) /\ m[Srv(name)].levels # << >>
  IN  CASE enabled = on                     -> Nothing
        [] enabled # on /\ ~IsService(m, name) -> Throw
        [] enabled # on /\ IsService(m, name) ->
             Run(Srv(name) := [m[Srv(name)] EXCEPT !.levels = IF on THEN <<"on">> ELSE << >>])

AllLevels     == <<"0", "1", "2", "3", "4", "5", "6">>
DefaultLevels == {"2", "3", "4", "5"}

(***************************************************************************)
(* chkconfig: the levels are listed in order, and compared with what the   *)
(* user wrote.  Level 6 is never switched, and `off` leaves the levels     *)
(* that are not the default ones.                                          *)
(***************************************************************************)
ServiceLevels(m, c) ==
  LET now    == ToSet(m[Srv(c.name)].levels)
      levels == CASE ~c.startup                      -> now \ DefaultLevels
                  [] c.startup /\ c.levels = << >>   -> DefaultLevels
                  [] c.startup /\ c.levels # << >>   -> (ToSet(c.levels) \ {"6"}) \cup (now \cap {"6"})
      done   == CASE ~c.startup                      -> now = {}
                  [] c.startup /\ c.levels = << >>   -> now # {}
                  [] c.startup /\ c.levels # << >>   -> c.levels = m[Srv(c.name)].levels
  IN  CASE ~IsService(m, c.name)           -> Throw
        [] IsService(m, c.name) /\ done    -> Nothing
        [] IsService(m, c.name) /\ ~done   ->
             Run(Srv(c.name) := [m[Srv(c.name)] EXCEPT
                   !.levels = SelectSeq(AllLevels, LAMBDA l : l \in levels)])

ServiceStartup(m, c) ==
  CASE Tool(m, Loader) = "none"                       -> Throw
    [] Tool(m, Loader) = "chkconfig"                  -> ServiceLevels(m, c)
    [] Tool(m, Loader) \in {"systemctl", "update-rc"} -> ServiceSwitch(m, c.name, c.startup)

-----------------------------------------------------------------------------
(***************************************************************************)
(* The whole: the package, then the startup, then the state, which is      *)
(* looked up once.                                                         *)
(***************************************************************************)
ServiceState(m, c) ==
  LET running    == ServiceStatus(m, c.srv).status
      start      == When(~running /\ "started" \in c.state, ServiceStart(m, c.srv))
      stop(n)    == When(running /\ "stopped" \in c.state, ServiceStop(n, c.srv))
      restart(n) == When(running /\ "restarted" \in c.state, ServiceRestart(n, c.srv))
  IN  IF ServiceStatus(m, c.srv).fails THEN Throw ELSE Then(m, Then(m, start, stop), restart)

\* The list kept by the installation goes up to the caller, it is never read.
ServiceAll(m, c) ==
  LET fresh      == [r \in DOMAIN m \ {Known} |-> m[r]]
      install    == When(c.name # Unset, ServiceInstall(fresh, c))
      startup(n) == When(c.startup # Unset,
                      ServiceStartup(n, [name |-> c.srv, startup |-> c.startup = "yes", levels |-> << >>]))
      state(n)   == When(c.state # {}, ServiceState(n, c))
  IN  Then(m, Then(m, install, startup), state)

\* A script rendered where the loader looks for it: the loader reads it again
\* when it has read something else.
ServiceInit(m, c) ==
  Then(m,
    FileRender(m, [source |-> c.source, content |-> NoText, context |-> c.context, target |-> c.target,
                   mode |-> c.mode, owner |-> c.owner]),
    LAMBDA n :
      LET read == [type |-> "read", body |-> At(n, c.target).body]
      IN  When(Tool(n, Loader) = "systemctl" /\ StateOf(n, Unit(c.name)) # read,
               Run(Unit(c.name) := read)))

\* `installed` is asserted whatever its value.
ServiceAssert(m, c) ==
  LET status == ServiceStatus(m, c.srv)
      there  == c.name \in Packages(m) /\ Tool(m, Manager) \notin {"none", "locked"}
      wrong  == \/ c.started = "yes" /\ ~status.status
                \/ c.started = "no" /\ status.status
                \/ c.stopped = "yes" /\ status.status
                \/ c.stopped = "no" /\ ~status.status
  IN  When(c.installed # Unset /\ ~there, Throw)
        \bullet When(c.started # Unset \/ c.stopped # Unset, status \bullet When(wrong, Throw))

-----------------------------------------------------------------------------
(* What a user may ask, from the schemas.                                  *)

Name == STRING
Bool == {"yes", "no", Unset}

ServiceConfig ==
  [kind : {"service"}, name : Name, srv : Name, cache : BOOLEAN, startup : Bool,
   state : SUBSET {"started", "stopped", "restarted"}]
ServiceInstallConfig ==
  [kind : {"service.install", "service.remove"}, name : Name, cache : BOOLEAN]
ServiceNameConfig ==
  [kind : {"service.start", "service.stop", "service.restart", "service.status"}, name : Name]
ServiceStartupConfig ==
  [kind : {"service.startup"}, name : Name, startup : BOOLEAN, levels : Seq(STRING)]
ServiceInitConfig ==
  [kind : {"service.init"}, name : Name, source : Path, target : Path, mode : Option, owner : Option,
   context : {<< >>}]
ServiceAssertConfig ==
  [kind : {"service.assert"}, name : Name, srv : Name, installed : Bool, started : Bool, stopped : Bool]

IsServiceConfig(c) ==
  \/ c \in ServiceConfig \/ c \in ServiceInstallConfig \/ c \in ServiceNameConfig
  \/ c \in ServiceStartupConfig \/ c \in ServiceInitConfig \/ c \in ServiceAssertConfig

ServiceKinds ==
  {"service", "service.install", "service.remove", "service.start", "service.stop",
   "service.restart", "service.status", "service.startup", "service.init", "service.assert"}

ServiceHandler(c, m) ==
  CASE c.kind = "service"         -> ServiceAll(m, c)
    [] c.kind = "service.install" -> ServiceInstall(m, c)
    [] c.kind = "service.remove"  -> ServiceRemove(m, c)
    [] c.kind = "service.start"   -> ServiceStart(m, c.name)
    [] c.kind = "service.stop"    -> ServiceStop(m, c.name)
    [] c.kind = "service.restart" -> ServiceRestart(m, c.name)
    [] c.kind = "service.status"  -> ServiceStatus(m, c.name)
    [] c.kind = "service.startup" -> ServiceStartup(m, c)
    [] c.kind = "service.init"    -> ServiceInit(m, c)
    [] c.kind = "service.assert"  -> ServiceAssert(m, c)

(***************************************************************************)
(* What they promise.                                                      *)
(***************************************************************************)
Started(m, name) == IsService(m, name) => m[Srv(name)].started

ServiceGoal(c, was, m) ==
  CASE c.kind = "service.install" ->
         c.name \in Packages(m) /\ ~m[Pkg(c.name)].outdated
    [] c.kind = "service.remove" -> c.name \notin Packages(m)
    [] c.kind = "service.start" -> Started(m, c.name)
    [] c.kind = "service.restart" -> Started(m, c.name)
    [] c.kind = "service.stop" -> IsService(m, c.name) => ~m[Srv(c.name)].started
    [] c.kind = "service.status" -> m = was
    [] c.kind = "service.startup" ->
         LET levels == m[Srv(c.name)].levels
         IN  /\ IsService(m, c.name) => c.startup = (levels # << >>)
             /\ c.startup /\ c.levels # << >> /\ Tool(m, Loader) = "chkconfig" =>
                  ToSet(levels) = ToSet(c.levels)
    [] c.kind = "service.init" ->
         /\ At(m, c.target).body = At(was, c.source).body
         /\ HasMode(m, c.target, c.mode) /\ HasOwner(m, c.target, c.owner)
         /\ Tool(m, Loader) = "systemctl" => m[Unit(c.name)].body = At(m, c.target).body
    [] c.kind = "service.assert" ->
         /\ c.installed # Unset => (c.installed = "yes") = (c.name \in Packages(m))
         /\ LET started == IsService(m, c.srv) /\ m[Srv(c.srv)].started
            IN  /\ c.started # Unset => (c.started = "yes") = started
                /\ c.stopped # Unset => (c.stopped = "yes") = ~started
    [] c.kind = "service" ->
         /\ c.name # Unset => c.name \in Packages(m)
         /\ c.startup # Unset /\ IsService(m, c.srv) =>
              (c.startup = "yes") = (m[Srv(c.srv)].levels # << >>)
         /\ "started" \in c.state => Started(m, c.srv)
         /\ "stopped" \in c.state /\ IsService(m, c.srv) => ~m[Srv(c.srv)].started

\* The other packages and services.
ServiceSpares(c, was, m) ==
  \A r \in DOMAIN was :
    r[1] \in {"pkg", "srv"} /\ r[2] # c.name /\ ("srv" \in DOMAIN c => r[2] # c.srv) => m[r] = was[r]

\* What the code does not give.
ServiceExcept(c, was) ==
  CASE c.kind \in {"service.install", "service"} ->
         \* a locked manager or an old list are taken for a package that is there
         (IF Tool(was, Manager) = "locked" \/ (c.cache /\ Known \in DOMAIN was)
          THEN {"Delivers"} \cup (IF c.kind = "service" THEN {"Converges"} ELSE {}) ELSE {})
         \cup (IF c.cache THEN {"StatusTells"} ELSE {})
         \cup (IF c.kind = "service" /\ "restarted" \in c.state THEN {"StatusTells"} ELSE {})
         \cup (IF c.kind = "service" /\ \E r \in DOMAIN was : r[1] = "srv" /\ was[r].type = "service"
               /\ was[r].broken
               THEN {"Delivers", "Converges"} ELSE {})
         \cup (IF c.kind = "service" /\ c.startup = "no" /\ Tool(was, Loader) = "chkconfig"
               THEN {"Delivers", "Converges", "StatusTells"} ELSE {})
    [] c.kind = "service.remove" -> IF c.cache THEN {"Delivers", "Converges", "StatusTells", "Repairable"} ELSE {}
    [] c.kind = "service.start" ->           \* the error of a service that does not start is lost
         IF IsService(was, c.name) /\ was[Srv(c.name)].broken THEN {"Delivers"} ELSE {}
    [] c.kind = "service.startup" ->         \* levels out of order, or that are never switched
         IF Tool(was, Loader) = "chkconfig" THEN {"Delivers", "Converges", "StatusTells"} ELSE {}
    [] c.kind = "service.assert" ->          \* without its tool, a package or a service is not there
         {"StatusTells"}
         \cup (IF \/ c.installed = "no"
                  \/ c.installed = "yes" /\ Tool(was, Manager) \in {"none", "locked"}
                  \/ {c.started, c.stopped} # {Unset} /\ Tool(was, Loader) = "none"
               THEN {"Delivers"} ELSE {})
    [] c.kind \in {"service.restart", "service.status"} -> {"StatusTells"}
    [] c.kind \in {"service.stop", "service.init"} -> {}
=============================================================================
