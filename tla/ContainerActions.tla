---------------------------- MODULE ContainerActions ----------------------------
(***************************************************************************)
(* The actions of packages/docker (`unpause` is not registered, `logout`   *)
(* refers to variables that do not exist).  The daemon keeps containers,   *)
(* images, volumes and the layers it has built.                            *)
(***************************************************************************)
EXTENDS FileActions

Container(n) == <<"container", n>>
Image(n)     == <<"image", n>>
Volume(n)    == <<"volume", n>>
Hub          == <<"hub">>       \* the images that can be pulled
Layers       == <<"layers">>    \* the sequences of steps that were built

Box(image, run) == [type |-> "container", image |-> image, run |-> run]
Ref(id)         == [type |-> "image", id |-> id]
Vol(used)       == [type |-> "volume", used |-> used]

RunOf(m, n) == IF There(m, Container(n)) THEN m[Container(n)].run ELSE "none"
Becomes(m, n, run) == Run(Container(n) := [m[Container(n)] EXCEPT !.run = run])

\* What `ps` lists; a container that is paused is listed.
Lists(m, n) == RunOf(m, n) \in {"up", "paused"}
Images(m)     == {r[2] : r \in {q \in DOMAIN m : q[1] = "image" /\ m[q] # Absent}}
Boxes(m)      == {r[2] : r \in {q \in DOMAIN m : q[1] = "container" /\ m[q] # Absent}}

\* The pattern `n` is searched in the list of images: it is found at the end
\* of the name of another one.
Endings == {<<"ab", "b">>}
Found(m, n) == \E i \in Images(m) : i = n \/ <<i, n>> \in Endings

\* The name of a registry with a port: the list is split at every colon, and
\* the tag is taken for the id.
Ported == {"host:5000/p"}

(***************************************************************************)
(* docker.tools.execute: an error of several lines which is not one of the *)
(* daemon is lost, the action is fulfilled with no output.                 *)
(***************************************************************************)
Lost == Nothing

-----------------------------------------------------------------------------
(* Containers.                                                             *)

\* The command that creates a container pulls its image.
Pulled(m, i) == When(~There(m, Image(i)), Run(Image(i) := Ref(m[Hub].ids[i])))
CanRun(m, i) == There(m, Image(i)) \/ i \in DOMAIN m[Hub].ids

(***************************************************************************)
(* Nothing is run when there is a container of this name, whatever it is.  *)
(* The output of a command whose error was lost is read: the action fails. *)
(* A container that is not detached ends before the command returns.       *)
(***************************************************************************)
DockerRun(m, c) ==
  CASE There(m, Container(c.name)) -> Nothing
    [] ~There(m, Container(c.name)) /\ ~CanRun(m, c.image) -> Throw
    [] ~There(m, Container(c.name)) /\ CanRun(m, c.image) ->
         Pulled(m, c.image)
           \bullet Run(Container(c.name) := Box(c.image, "up"))
           \bullet When(c.detach # "yes",
                     Run(Container(c.name) := IF c.rm # "no" THEN Absent ELSE Box(c.image, "exited")))

\* A service is detached and stays when it ends, unless the user says so.
AsService(c) == [c EXCEPT !.detach = Or(@, "yes"), !.rm = Or(@, "no")]

DockerService(m, c) == DockerRun(m, AsService(c))

DockerRm(m, c) ==
  CASE ~There(m, Container(c.name)) -> Nothing
    [] There(m, Container(c.name)) /\ Lists(m, c.name) /\ ~c.force -> Throw
    [] There(m, Container(c.name)) /\ (Lists(m, c.name) => c.force) -> Run(Container(c.name) := Absent)

DockerStart(m, n) ==
  CASE Lists(m, n)             -> Nothing
    [] RunOf(m, n) = "none"      -> Throw
    [] RunOf(m, n) = "exited"    -> Becomes(m, n, "up")

DockerStop(m, n)    == When(Lists(m, n), Becomes(m, n, "exited"))
DockerKill(m, n)    == When(Lists(m, n), Becomes(m, n, "exited"))
DockerRestart(m, n) == IF RunOf(m, n) = "none" THEN Throw ELSE Becomes(m, n, "up")
DockerPause(m, n)   == IF RunOf(m, n) = "up" THEN Becomes(m, n, "paused") ELSE Throw
DockerUnpause(m, n) == IF RunOf(m, n) = "paused" THEN Becomes(m, n, "up") ELSE Throw

\* What only looks at the daemon.
DockerInspect(m, n) == IF There(m, Container(n)) THEN Look ELSE Throw
DockerStatus(m, n)  == Returns(Nothing, Lists(m, n))
DockerExec(m, n)    == IF RunOf(m, n) = "up" THEN Look ELSE Throw
DockerWait(m, n)    == IF There(m, Container(n)) THEN Look ELSE Throw

\* A file of the host and a file of a container, <<"box", name, ...>>: a
\* target that does not exist is created as a directory first, and the file
\* is copied in it.
InBox(p) == p[1] = "box"

DockerCp(m, c) ==
  LET made == When(~InBox(c.target) /\ ~Exists(m, c.target), BaseMkdir(m, c.target, Unset, Unset))
      into(n) == IF IsDir(n, c.target) THEN Append(c.target, Basename(c.source)) ELSE c.target
      copy(n) == Run(into(n) := File(At(n, c.source).body, FileMode, Me))
  IN  CASE InBox(c.source) = InBox(c.target) -> Throw
        [] InBox(c.source) # InBox(c.target) /\ ~Exists(m, c.source) ->
             \* the directory is the one of the container, made on the host
             made \bullet Throw
        [] InBox(c.source) # InBox(c.target) /\ Exists(m, c.source) -> Then(m, made, copy)

-----------------------------------------------------------------------------
(* Images and volumes.                                                     *)

DockerPull(m, c) ==
  CASE c.tags > 1                                           -> Throw
    [] c.tags <= 1 /\ ~c.all /\ Found(m, c.image)           -> Nothing
    [] c.tags <= 1 /\ (Found(m, c.image) => c.all)          ->
         IF c.image \in DOMAIN m[Hub].ids
         THEN Run(Image(c.image) := Ref(m[Hub].ids[c.image])) ELSE Throw

DockerRmi(m, c) ==
  CASE ~Found(m, c.image) -> Nothing
    [] Found(m, c.image)  ->
         IF There(m, Image(c.image)) /\ \A n \in Boxes(m) : m[Container(n)].image # c.image
         THEN Run(Image(c.image) := Absent) ELSE Throw

\* An archive holds images: a function from their names to their ids.
DockerSave(m, c) ==
  IF There(m, Image(c.image)) /\ IsDir(m, Dirname(c.target))
  THEN Run(c.target := File(<<c.image := m[Image(c.image)].id>>, FileMode, Me)) ELSE Throw

\* What the list of images shows of the id of an image.
Shown(m, i) == IF i \in Ported THEN "latest" ELSE m[Image(i)].id

DockerLoad(m, c) ==
  LET images == At(m, c.source).body[1]
      load   == Write([r \in {Image(i) : i \in DOMAIN images} |-> Ref(images[r[2]])])
      differs(n) == \E i \in Images(n) : i \in Images(m) => Shown(n, i) # Shown(m, i)
  IN  CASE c.checksum # Unset /\ c.checksum \in {Shown(m, i) : i \in Images(m)} -> Nothing
        [] c.checksum = Unset \/ c.checksum \notin {Shown(m, i) : i \in Images(m)} ->
             IF IsFile(m, c.source) THEN Returns(load, differs(After(m, load))) ELSE Throw

(***************************************************************************)
(* The build uses the layers it has.  The status compares the number of    *)
(* the steps with the number of those that were in the cache: it does not  *)
(* look at the image.                                                      *)
(***************************************************************************)

StepsTo(steps) == {SubSeq(steps, 1, i) : i \in 1..Len(steps)}

DockerBuild(m, c) ==
  LET steps  == IF c.content # NoText THEN c.content ELSE At(m, c.file).body
      cached == IF c.no_cache THEN {} ELSE StepsTo(steps) \cap m[Layers].built
      built  == Write((Layers := [m[Layers] EXCEPT !.built = @ \cup StepsTo(steps)])
                      ++ (Image(c.image) := Ref(steps)))
  IN  IF (c.content # NoText /\ c.file # NoPath) \/ (c.content = NoText /\ ~IsFile(m, c.file))
      THEN Throw
      ELSE Returns(built, Cardinality(cached) # Len(steps))

DockerVolumeCreate(m, c) == When(~There(m, Volume(c.name)), Run(Volume(c.name) := Vol(FALSE)))

\* The exit code of a volume that is used is that of one which does not exist.
DockerVolumeRm(m, c) ==
  When(There(m, Volume(c.name)) /\ ~m[Volume(c.name)].used, Run(Volume(c.name) := Absent))

-----------------------------------------------------------------------------
(***************************************************************************)
(* docker.compose: a file names services and the image of each, a service  *)
(* has one container.  They are brought up when none of the project exists or  *)
(* one is not running: the file is not compared with them.  Without a      *)
(* target the file, and with it the project, is a new one each time.       *)
(***************************************************************************)
Services(m, c) ==
  LET words == IF c.target = NoPath THEN c.content ELSE At(m, c.target).body
      names == {i \in DOMAIN words : i % 2 = 1}
  IN  [s \in {words[i] : i \in names} |-> words[1 + CHOOSE i \in names : words[i] = s]]

ComposeUp(m, c) ==
  LET services == Services(m, c)
      asked    == IF c.services = {} THEN DOMAIN services ELSE c.services
      up(e, s) ==
        LET wanted == Box(services[s], "up")
        IN  e \bullet When(c.force \/ StateOf(m, Container(s)) # wanted,
                           Write((Container(s) := wanted) ++
                                 (Image(services[s]) := IF There(m, Image(services[s]))
                                 THEN m[Image(services[s])] ELSE Ref(m[Hub].ids[services[s]]))))
  IN  CASE \/ \E s \in asked : ~CanRun(m, services[s])
           \/ (c.target = NoPath /\ \E s \in asked : There(m, Container(s))) -> Lost
        [] /\ \A s \in asked : CanRun(m, services[s])
           /\ c.target = NoPath => \A s \in asked : ~There(m, Container(s)) ->
             Returns(FoldLeft(up, Nothing, SetToSeq(asked)), TRUE)

DockerCompose(m, c) ==
  LET write == When(c.content # NoText /\ c.target # NoPath, FileWrite(m, Plain(c.target, c.content)))
      run(n) ==
        LET listed == IF c.target = NoPath THEN {} ELSE {s \in DOMAIN Services(n, c) : There(n, Container(s))}
            wanted == c.force \/ listed = {} \/ \E s \in listed : ~Lists(n, s)
        IN  IF c.target # NoPath /\ (~IsFile(n, c.target) \/ At(n, c.target).body = Truncated)
            THEN Throw
            ELSE When(wanted, ComposeUp(n, c))
  IN  IF c.content = NoText /\ c.target = NoPath THEN Throw ELSE Then(m, Shy(write), run)

-----------------------------------------------------------------------------
(* What a user may ask, what is promised, what the code does not give.     *)

DockerNameKinds ==
  {"docker.start", "docker.stop", "docker.kill", "docker.restart", "docker.pause", "docker.unpause"}
DockerLookKinds == {"docker.inspect", "docker.tools.status", "docker.exec", "docker.wait"}

DockerRunConfig   == [kind : {"docker.run", "docker.tools.service"}, name : STRING, image : STRING,
      detach : {Unset, "yes", "no"}, rm : {Unset, "yes", "no"}]
DockerRmConfig    == [kind : {"docker.rm"}, name : STRING, force : BOOLEAN]
DockerNameConfig  == [kind : DockerNameKinds \cup DockerLookKinds, name : STRING]
DockerCpConfig    == [kind : {"docker.cp"}, source : Path, target : Path]
DockerPullConfig  == [kind : {"docker.pull"}, image : STRING, tags : 0..2, all : BOOLEAN]
DockerRmiConfig   == [kind : {"docker.rmi"}, image : STRING]
DockerSaveConfig  == [kind : {"docker.save"}, image : STRING, target : Path]
DockerLoadConfig  == [kind : {"docker.load"}, source : Path, checksum : STRING]
DockerBuildConfig == [kind : {"docker.build"}, image : STRING, content : Path, file : Path, no_cache : BOOLEAN]
DockerVolConfig   == [kind : {"docker.volume_create", "docker.volume_rm"}, name : STRING]

IsComposeConfig(c) ==
  c.kind = "docker.compose" /\ c.target \in Path /\ c.services \subseteq STRING /\ c.force \in BOOLEAN

DockerKinds ==
  DockerNameKinds \cup DockerLookKinds \cup
  {"docker.run", "docker.tools.service", "docker.rm", "docker.cp", "docker.pull", "docker.rmi", "docker.save",
        "docker.load",
   "docker.build", "docker.volume_create", "docker.volume_rm", "docker.compose"}

IsDockerConfig(c) ==
  CASE c.kind = "docker.compose" -> IsComposeConfig(c)
    [] c.kind # "docker.compose" ->
         \/ c \in DockerRunConfig \/ c \in DockerRmConfig \/ c \in DockerNameConfig \/ c \in DockerCpConfig
         \/ c \in DockerPullConfig \/ c \in DockerRmiConfig \/ c \in DockerSaveConfig \/ c \in DockerLoadConfig
         \/ c \in DockerBuildConfig \/ c \in DockerVolConfig

DockerHandler(c, m) ==
  CASE c.kind = "docker.run"           -> DockerRun(m, c)
    [] c.kind = "docker.tools.service" -> DockerService(m, c)
    [] c.kind = "docker.rm"            -> DockerRm(m, c)
    [] c.kind = "docker.start"         -> DockerStart(m, c.name)
    [] c.kind = "docker.stop"          -> DockerStop(m, c.name)
    [] c.kind = "docker.kill"          -> DockerKill(m, c.name)
    [] c.kind = "docker.restart"       -> DockerRestart(m, c.name)
    [] c.kind = "docker.pause"         -> DockerPause(m, c.name)
    [] c.kind = "docker.unpause"       -> DockerUnpause(m, c.name)
    [] c.kind = "docker.inspect"       -> DockerInspect(m, c.name)
    [] c.kind = "docker.tools.status"  -> DockerStatus(m, c.name)
    [] c.kind = "docker.exec"          -> DockerExec(m, c.name)
    [] c.kind = "docker.wait"          -> DockerWait(m, c.name)
    [] c.kind = "docker.cp"            -> DockerCp(m, c)
    [] c.kind = "docker.pull"          -> DockerPull(m, c)
    [] c.kind = "docker.rmi"           -> DockerRmi(m, c)
    [] c.kind = "docker.save"          -> DockerSave(m, c)
    [] c.kind = "docker.load"          -> DockerLoad(m, c)
    [] c.kind = "docker.build"         -> DockerBuild(m, c)
    [] c.kind = "docker.volume_create" -> DockerVolumeCreate(m, c)
    [] c.kind = "docker.volume_rm"     -> DockerVolumeRm(m, c)
    [] c.kind = "docker.compose"       -> DockerCompose(m, c)

DockerGoal(c, was, m) ==
  CASE c.kind \in {"docker.run", "docker.tools.service"} ->
         LET box   == StateOf(m, Container(c.name))
             asked == IF c.kind = "docker.run" THEN c ELSE AsService(c)
         IN  IF asked.detach = "yes" THEN box = Box(c.image, "up")
             ELSE box = IF asked.rm # "no" THEN Absent ELSE Box(c.image, "exited")
    [] c.kind = "docker.rm"     -> ~There(m, Container(c.name))
    [] c.kind \in {"docker.start", "docker.restart", "docker.unpause"} -> RunOf(m, c.name) = "up"
    [] c.kind \in {"docker.stop", "docker.kill"} -> ~Lists(m, c.name)
    [] c.kind = "docker.pause"  -> RunOf(m, c.name) = "paused"
    [] c.kind \in DockerLookKinds -> m = was
    [] c.kind = "docker.cp"     ->
         LET into == IF IsDir(was, c.target) THEN Append(c.target, Basename(c.source)) ELSE c.target
         IN  IsFile(m, into) /\ At(m, into).body = At(was, c.source).body
    [] c.kind = "docker.pull"   -> There(m, Image(c.image))
    [] c.kind = "docker.rmi"    -> ~There(m, Image(c.image))
    [] c.kind = "docker.save"   -> At(m, c.target).body = <<c.image := m[Image(c.image)].id>>
    [] c.kind = "docker.load"   ->
         \A i \in DOMAIN At(m, c.source).body[1] : StateOf(m, Image(i)) = Ref(At(m, c.source).body[1][i])
    [] c.kind = "docker.build"  ->
         m[Image(c.image)].id = IF c.content # NoText THEN c.content ELSE At(m, c.file).body
    [] c.kind = "docker.volume_create" -> There(m, Volume(c.name))
    [] c.kind = "docker.volume_rm"     -> ~There(m, Volume(c.name))
    [] c.kind = "docker.compose" ->
         LET services == Services(m, c)
         IN  \A s \in IF c.services = {} THEN DOMAIN services ELSE c.services :
               StateOf(m, Container(s)) = Box(services[s], "up")

\* The containers, the images and the volumes that the user does not name.
DockerSpares(c, was, m) ==
  \A r \in {q \in DOMAIN was : q[1] \in {"container", "image", "volume"}} :
    \/ StateOf(m, r) = was[r]
    \/ "name" \in DOMAIN c /\ r[2] = c.name
    \/ "image" \in DOMAIN c /\ r = Image(c.image)
    \/ c.kind \in {"docker.load", "docker.compose"}

DockerExcept(c, was) ==
  CASE c.kind \in {"docker.run", "docker.tools.service"} ->
         \* a container of this name is taken for the one to run
         (IF There(was, Container(c.name)) THEN {"Delivers"} ELSE {})
         \cup (IF (IF c.kind = "docker.run" THEN c ELSE AsService(c)).detach # "yes"
               THEN {"Converges", "StatusTells"} ELSE {})
    [] c.kind = "docker.start"  -> IF RunOf(was, c.name) = "paused" THEN {"Delivers"} ELSE {}
    [] c.kind = "docker.restart" -> {"StatusTells"}
    [] c.kind \in {"docker.pause", "docker.unpause"} -> {"QuietAgain", "Repairable"}
    [] c.kind \in DockerLookKinds -> {"StatusTells"}
    [] c.kind = "docker.cp"     ->
         {"StatusTells"} \cup (IF Exists(was, c.target) THEN {} ELSE {"Delivers", "Converges"})
    [] c.kind = "docker.pull"   ->
         (IF c.all THEN {"StatusTells"} ELSE {})
         \cup (IF Found(was, c.image) /\ ~There(was, Image(c.image)) THEN {"Delivers"} ELSE {})
    [] c.kind = "docker.rmi"    -> IF \E e \in Endings : e[2] = c.image THEN {"QuietAgain", "Repairable"} ELSE {}
    [] c.kind = "docker.save"   -> {"StatusTells"}
    [] c.kind = "docker.load"   ->
         (IF c.checksum # Unset THEN {"Delivers", "Converges"} ELSE {})
         \cup (IF Ported \cap Images(was) # {} THEN {"StatusTells"} ELSE {})
    [] c.kind = "docker.build"  -> IF c.no_cache \/ was[Layers].built # {} THEN {"StatusTells"} ELSE {}
    [] c.kind = "docker.volume_rm" ->
         IF There(was, Volume(c.name)) /\ was[Volume(c.name)].used THEN {"Delivers"} ELSE {}
    [] c.kind = "docker.compose" ->
         \* the containers are not compared with the file, an image that cannot be pulled is not told
         (IF Boxes(was) # {} THEN {"StatusTells", "Delivers"} ELSE {})
         \cup (IF c.force /\ c.target # NoPath THEN {} ELSE {"Converges"})     \* cut between two services: one is up
         \cup (IF c.force THEN {"StatusTells"} ELSE {})
         \cup (IF c.content # NoText /\ \E i \in {c.content[j] : j \in {k \in DOMAIN c.content : k % 2 = 0}} :
               ~CanRun(was, i)
               THEN {"Delivers", "Converges", "StatusTells"} ELSE {})
    [] c.kind \in {"docker.rm", "docker.stop", "docker.kill", "docker.volume_create"} -> {}
=============================================================================
