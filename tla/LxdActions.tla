------------------------------- MODULE LxdActions -------------------------------
(***************************************************************************)
(* The actions of packages/lxd.  The server keeps instances, networks,     *)
(* storage pools and their volumes.  An instance has a state, properties,  *)
(* devices and what is inside: files, users, packages.                     *)
(*                                                                         *)
(* An action that goes through the API (`lxc.query`) reports an error of   *)
(* the server as a status which is false.                                  *)
(***************************************************************************)
EXTENDS FsActions

Instance(n)  == <<"instance", n>>
Network(n)   == <<"network", n>>
Pool(n)      == <<"pool", n>>
LxdVolume(p, n) == <<"volume", p, n>>

Inst(run, config, devices, files) ==
  [type |-> "instance", run |-> run, config |-> config, devices |-> devices, files |-> files, users |-> {},
        openssl |-> TRUE]
Net(config)         == [type |-> "network", config |-> config]
PoolOf(config)      == [type |-> "pool", config |-> config]
VolumeOf(content)   == [type |-> "volume", content |-> content]

InstanceState(m, n) == IF There(m, Instance(n)) THEN m[Instance(n)].run ELSE "none"
Change(m, n, field, value) == Run(Instance(n) := [m[Instance(n)] EXCEPT ![field] = value])

InstancesOf(m) == {r[2] : r \in {q \in DOMAIN m : q[1] = "instance" /\ m[q] # Absent}}

\* `grep` finds a name in a longer one, "n,RUNNING" at the end of "mn,RUNNING".
LongerName == {<<"mn", "n">>}
GrepName(name, pattern) == name = pattern \/ <<name, pattern>> \in LongerName

\* The handler runs one command for every element.
InSequence(m, seq, Step(_, _)) ==
  FoldLeft(LAMBDA e, x : Then(m, e, LAMBDA n : Step(n, x)), Nothing, seq)

ListedAs(m, n, run) == \E i \in InstancesOf(m) : GrepName(i, n) /\ InstanceState(m, i) = run

-----------------------------------------------------------------------------
(* Instances.                                                              *)

LxcStart(m, n) ==
  CASE ListedAs(m, n, "RUNNING")  -> Nothing
    [] ~ListedAs(m, n, "RUNNING") -> IF There(m, Instance(n)) THEN Change(m, n, "run", "RUNNING") ELSE Throw

\* With `wait`, the state is looked at again until the name is found stopped:
\* `lxc stop` returns when it is.
LxcStop(m, c) ==
  CASE ListedAs(m, c.name, "STOPPED")  -> Nothing
    [] ~ListedAs(m, c.name, "STOPPED") ->
         IF InstanceState(m, c.name) = "RUNNING" THEN Change(m, c.name, "run", "STOPPED") ELSE Throw

\* The status is that of the creation.
LxcInit(m, c) ==
  LET init == When(~There(m, Instance(c.name)), Run(Instance(c.name) := Inst("STOPPED", << >>, << >>, << >>)))
  IN  Returns(Then(m, init, LAMBDA n : When(c.start, LxcStart(n, c.name))), init.status)

LxcDelete(m, c) ==
  CASE ~There(m, Instance(c.name)) -> Nothing
    [] There(m, Instance(c.name)) /\ InstanceState(m, c.name) = "RUNNING" /\ ~c.force -> Throw
    [] There(m, Instance(c.name)) /\ (InstanceState(m, c.name) = "RUNNING" => c.force) ->
         Run(Instance(c.name) := Absent)

\* What only looks at the server.
LxcRunning(m, n)   == Returns(Nothing, ListedAs(m, n, "RUNNING"))
LxcState(m, n)     == Returns(Nothing, There(m, Instance(n)))
LxcQuery(m, n)     == Returns(Nothing, There(m, Instance(n)))
LxcList(m, n)      == Look
LxcResources(m, n) == Look
LxcPrlimit(m, n)   == IF InstanceState(m, n) = "RUNNING" THEN Look ELSE Throw
LxcExec(m, n)      == IF InstanceState(m, n) = "RUNNING" THEN Look ELSE Throw
LxcReady(m, n)     == IF InstanceState(m, n) = "RUNNING" THEN Look ELSE Throw   \* after 100 attempts

-----------------------------------------------------------------------------
(* Properties and devices: one command for every one that differs.         *)

Differs(old, new) == {k \in DOMAIN new : k \notin DOMAIN old \/ old[k] # new[k]}

SetEach(m, r, field, new) ==
  InSequence(m, SetToSeq(Differs(m[r][field], new)),
    LAMBDA n, k : Run(r := [n[r] EXCEPT ![field] = @ ++ (k := new[k])]))

LxcConfigSet(m, c) ==
  IF There(m, Instance(c.name)) THEN SetEach(m, Instance(c.name), "config", c.properties) ELSE Throw

DevicesOf(m, n) == m[Instance(n)].devices

LxcDevice(m, c) ==
  LET r     == Instance(c.name)
      old   == DevicesOf(m, c.name)
      new   == c.properties
      set(n, k) == Run(r := [n[r] EXCEPT !.devices[c.device] = @ ++ (k := new[k])])
  IN  CASE ~There(m, r)                                -> Throw
        [] There(m, r) /\ c.device \notin DOMAIN old   -> Change(m, c.name, "devices", old ++ (c.device := new))
        [] There(m, r) /\ c.device \in DOMAIN old      ->
              InSequence(m, SetToSeq(Differs(old[c.device], new)), set)

WithoutDevice(m, n, device) ==
  Change(m, n, "devices", [d \in DOMAIN DevicesOf(m, n) \ {device} |-> DevicesOf(m, n)[d]])

LxcDeviceDelete(m, c) ==
  CASE ~There(m, Instance(c.name)) -> Throw
    [] There(m, Instance(c.name))  ->
         When(c.device \in DOMAIN DevicesOf(m, c.name), WithoutDevice(m, c.name, c.device))

LxcDeviceShow(m, c)   == IF There(m, Instance(c.name)) THEN Look ELSE Throw
LxcDeviceExists(m, c) == IF There(m, Instance(c.name)) THEN Nothing ELSE Throw

-----------------------------------------------------------------------------
(* Networks and storage.                                                   *)

LxcNetwork(m, c) ==
  IF There(m, Network(c.network)) THEN SetEach(m, Network(c.network), "config", c.properties)
  ELSE Run(Network(c.network) := Net(c.properties))

LxcNetworkUsed(m, network) == \E i \in InstancesOf(m) : network \in DOMAIN DevicesOf(m, i)

LxcNetworkDelete(m, c) ==
  When(There(m, Network(c.network)) /\ ~LxcNetworkUsed(m, c.network), Run(Network(c.network) := Absent))

\* The network is searched among the names of the devices.
HasDevice(m, c) == There(m, Instance(c.name)) /\ \E d \in DOMAIN DevicesOf(m, c.name) : GrepName(d, c.network)

LxcNetworkAttach(m, c) ==
  CASE HasDevice(m, c) -> Nothing
    [] ~HasDevice(m, c) ->
         IF There(m, Instance(c.name)) /\ There(m, Network(c.network))
         THEN Change(m, c.name, "devices", DevicesOf(m, c.name) ++ (c.network := [type |-> "nic"])) ELSE Throw

LxcNetworkDetach(m, c) ==
  When(HasDevice(m, c),
       IF c.network \in DOMAIN DevicesOf(m, c.name) THEN WithoutDevice(m, c.name, c.network) ELSE Throw)

LxcNetworkList(m, c) == Look

LxcStorage(m, c) ==
  IF There(m, Pool(c.pool)) THEN SetEach(m, Pool(c.pool), "config", c.properties)
  ELSE Run(Pool(c.pool) := PoolOf(c.properties))

PoolsOf(m)   == {r[2] : r \in {q \in DOMAIN m : q[1] = "pool" /\ m[q] # Absent}}
VolumesOf(m, pool) == {r \in DOMAIN m : r[1] = "volume" /\ r[2] = pool /\ m[r] # Absent}

LxcStorageDelete(m, c) ==
  When(\E p \in PoolsOf(m) : GrepName(p, c.pool),
       IF There(m, Pool(c.pool)) /\ VolumesOf(m, c.pool) = {} THEN Run(Pool(c.pool) := Absent) ELSE Throw)

LxcVolume(m, c) ==
  When(There(m, Pool(c.pool)) /\ ~There(m, LxdVolume(c.pool, c.volume)),
       Run(LxdVolume(c.pool, c.volume) := VolumeOf(c.content)))

DiskOf(c) == [pool |-> c.pool, source |-> c.volume]
VolumeUsed(m, c) ==
  \E i \in InstancesOf(m) : \E d \in DOMAIN DevicesOf(m, i) : DevicesOf(m, i)[d] = DiskOf(c)

LxcVolumeDelete(m, c) ==
  When(There(m, LxdVolume(c.pool, c.volume)) /\ ~VolumeUsed(m, c), Run(LxdVolume(c.pool, c.volume) := Absent))

LxcVolumeGet(m, c)  == Returns(Nothing, There(m, LxdVolume(c.pool, c.volume)))
LxcVolumeList(m, c) == Returns(Nothing, There(m, Pool(c.pool)))

\* The device is set again when it is the same: the status is that of the
\* request.  A container does not mount a block device.
LxcVolumeAttach(m, c) ==
  LET volume == LxdVolume(c.pool, c.volume)
  IN  IF \/ ~There(m, volume)
         \/ ~There(m, Instance(c.name))
         \/ There(m, volume) /\ m[volume].content = "block"
         \/ There(m, volume) /\ m[volume].content = "filesystem" /\ c.path = Unset
      THEN Throw
      ELSE Change(m, c.name, "devices", DevicesOf(m, c.name) ++ (c.device := DiskOf(c)))

-----------------------------------------------------------------------------
(***************************************************************************)
(* Files.  They are compared, by content, when the instance runs: openssl   *)
(* is needed inside.  An instance is taken for running when one whose name *)
(* ends with its name is; the comparison then fails, and is ignored.       *)
(***************************************************************************)
Inside(m, n, target) ==
  IF There(m, Instance(n)) /\ target \in DOMAIN m[Instance(n)].files THEN m[Instance(n)].files[target] ELSE Absent

Compared(m, n) == ListedAs(m, n, "RUNNING") /\ InstanceState(m, n) = "RUNNING"

PutInside(m, n, target, file) ==
  IF There(m, Instance(n)) THEN Change(m, n, "files", m[Instance(n)].files ++ (target := file)) ELSE Throw

\* The owner is an option of the command, or a name: it is then set each time.
LxcFilePush(m, c) ==
  LET found == Inside(m, c.name, c.target)
      file  == File(c.content, Or(c.mode, FileMode), IF c.byName THEN Me ELSE Or(c.owner, Me))
      push  == When(~Compared(m, c.name) \/ found = Absent
            \/ found.body # c.content, PutInside(m, c.name, c.target, file))
      own(n) == When(c.byName,
                  IF InstanceState(n, c.name) = "RUNNING"
                  THEN PutInside(n, c.name, c.target, [Inside(n, c.name, c.target) EXCEPT !.owner = c.owner])
                  ELSE Throw)
  IN  IF c.content = Truncated \/ (Compared(m, c.name) /\ ~m[Instance(c.name)].openssl)
      THEN Throw ELSE Then(m, push, own)

\* The answer of the server is written, an empty one when there is no such file.
LxcFilePull(m, c) ==
  LET found == Inside(m, c.name, c.source)
      body  == IF found = Absent THEN << >> ELSE found.body
      pull  == Returns(BaseWriteFile(m, c.target, body, Unset), found # Absent)
  IN  IF ~Compared(m, c.name) THEN pull
      ELSE IF found = Absent \/ ~m[Instance(c.name)].openssl THEN Throw
      ELSE When(~IsFile(m, c.target) \/ At(m, c.target).body # body, pull)

LxcFileExists(m, c) == Nothing

-----------------------------------------------------------------------------
(***************************************************************************)
(* A cluster: its networks, then every container from its creation to its  *)
(* users.  The server of SSH, the rights of sudo and the functions a       *)
(* configuration may hold are left out.                                    *)
(***************************************************************************)
ClusterDevices(m, name, devices) ==
  InSequence(m, SetToSeq(DOMAIN devices),
    LAMBDA n, d : LxcDevice(n, [name |-> name, device |-> d, properties |-> devices[d]]))

\* The package that `lxc.file.push` needs.
ClusterOpenssl(m, name) == When(~m[Instance(name)].openssl, Change(m, name, "openssl", TRUE))

ClusterUsers(m, name, users) ==
  InSequence(m, SetToSeq(DOMAIN users), LAMBDA n, u :
    Then(n, When(u \notin n[Instance(name)].users, Change(n, name, "users", n[Instance(name)].users \cup {u})),
         LAMBDA o : When(users[u] # << >>,
           LxcFilePush(o, [name |-> name, target |-> u, content |-> users[u], mode |-> "600", owner |-> u,
                 byName |-> TRUE]))))

ClusterContainer(m, name, c) ==
  LET init      == LxcInit(m, [name |-> name, start |-> FALSE])
      config(n) == LxcConfigSet(n, [name |-> name, properties |-> c.properties])
      ready(n)  == LxcReady(n, name)
  IN  Then(m, Then(m, Then(m, Then(m, Then(m, Then(m,
        init, config),
        LAMBDA n : ClusterDevices(n, name, c.devices)),
        LAMBDA n : LxcStart(n, name)),
        ready),
        LAMBDA n : ClusterOpenssl(n, name)),
        LAMBDA n : ClusterUsers(n, name, c.users))

LxcCluster(m, c) ==
  Then(m, InSequence(m, SetToSeq(DOMAIN c.networks),
            LAMBDA n, w : LxcNetwork(n, [network |-> w, properties |-> c.networks[w]])),
       LAMBDA n : InSequence(n, SetToSeq(DOMAIN c.containers),
                    LAMBDA o, name : ClusterContainer(o, name, c.containers[name])))

LxcClusterStop(m, c) == InSequence(m, SetToSeq(c.names), LAMBDA n, name : LxcStop(n, [name |-> name]))

LxcClusterDelete(m, c) ==
  Then(m, InSequence(m, SetToSeq(c.names), LAMBDA n, name : LxcDelete(n, [name |-> name, force |-> c.force])),
       LAMBDA n : InSequence(n, SetToSeq(c.networks), LAMBDA o, w : LxcNetworkDelete(o, [network |-> w])))

-----------------------------------------------------------------------------
(* What a user may ask, what is promised, what the code does not give.     *)

LxdLookKinds == {"lxc.running", "lxc.state", "lxc.query", "lxc.list", "lxc.resources", "lxc.goodies.prlimit",
      "lxc.exec", "lxc.wait.ready"}

LxcNameConfig    == [kind : {"lxc.start"} \cup LxdLookKinds, name : STRING]
LxcStopConfig    == [kind : {"lxc.stop"}, name : STRING]
LxcInitConfig    == [kind : {"lxc.init"}, name : STRING, start : BOOLEAN]
LxcDeleteConfig  == [kind : {"lxc.delete"}, name : STRING, force : BOOLEAN]
LxcDeviceNameConfig == [kind : {"lxc.config.device.delete", "lxc.config.device.show", "lxc.config.device.exists"},
      name : STRING, device : STRING]
LxcNicConfig     == [kind : {"lxc.network.attach", "lxc.network.detach"}, name : STRING, network : STRING]
LxcNetworkNameConfig == [kind : {"lxc.network.delete", "lxc.network.list"}, network : STRING]
LxcPoolConfig    == [kind : {"lxc.storage.delete", "lxc.storage.volume.list"}, pool : STRING]
LxcVolumeConfig  == [kind : {"lxc.storage.volume"}, pool : STRING, volume : STRING,
      content : {"filesystem", "block"}]
LxcVolumeNameConfig == [kind : {"lxc.storage.volume.delete", "lxc.storage.volume.get"}, pool : STRING,
      volume : STRING]
LxcVolumeAttachConfig ==
  [kind : {"lxc.storage.volume.attach"}, pool : STRING, volume : STRING, name : STRING, device : STRING,
        path : STRING]
LxcFilePushConfig ==
  [kind : {"lxc.file.push"}, name : STRING, target : STRING, content : Seq(STRING), mode : STRING, owner : STRING,
        byName : BOOLEAN]
LxcFilePullConfig == [kind : {"lxc.file.pull"}, name : STRING, source : STRING, target : Seq(STRING)]
LxcFileExistsConfig == [kind : {"lxc.file.exists"}, name : STRING, target : STRING]
IsLxcPropertiesConfig(c) ==
  /\ c.kind \in {"lxc.config.set", "lxc.config.device", "lxc.network", "lxc.storage"}
  /\ \A k \in DOMAIN c.properties : k \in STRING /\ c.properties[k] \in STRING
IsLxcClusterConfig(c) ==
  /\ c.kind = "lxc.cluster"
  /\ \A n \in DOMAIN c.containers : \A u \in DOMAIN c.containers[n].users :
        c.containers[n].users[u] \in Seq(STRING)
IsLxcClusterStopConfig(c)   == c.kind = "lxc.cluster.stop" /\ c.names \subseteq STRING
IsLxcClusterDeleteConfig(c) == c.kind = "lxc.cluster.delete" /\ c.names \cup c.networks \subseteq STRING
      /\ c.force \in BOOLEAN

LxdCloserKinds ==
  LxdLookKinds \cup {"lxc.config.device.show", "lxc.config.device.exists", "lxc.network.list",
        "lxc.storage.volume.list",
                     "lxc.storage.volume.get", "lxc.file.exists"}

LxdKinds == LxdCloserKinds \cup
  {"lxc.start", "lxc.stop", "lxc.init", "lxc.delete", "lxc.config.device.delete", "lxc.network.attach",
        "lxc.network.detach",
   "lxc.network.delete", "lxc.storage.delete", "lxc.storage.volume", "lxc.storage.volume.delete",
         "lxc.storage.volume.attach",
   "lxc.file.push", "lxc.file.pull", "lxc.config.set", "lxc.config.device", "lxc.network", "lxc.storage",
         "lxc.cluster",
   "lxc.cluster.stop", "lxc.cluster.delete"}

IsLxdConfig(c) ==
  \/ IsLxcPropertiesConfig(c) \/ IsLxcClusterConfig(c) \/ IsLxcClusterStopConfig(c) \/ IsLxcClusterDeleteConfig(c)
  \/ c \in LxcNameConfig \/ c \in LxcStopConfig \/ c \in LxcInitConfig \/ c \in LxcDeleteConfig
  \/ c \in LxcDeviceNameConfig \/ c \in LxcNicConfig \/ c \in LxcNetworkNameConfig \/ c \in LxcPoolConfig
  \/ c \in LxcVolumeConfig \/ c \in LxcVolumeNameConfig \/ c \in LxcVolumeAttachConfig
  \/ c \in LxcFilePushConfig \/ c \in LxcFilePullConfig \/ c \in LxcFileExistsConfig

LxdHandler(c, m) ==
  CASE c.kind = "lxc.start"           -> LxcStart(m, c.name)
    [] c.kind = "lxc.stop"            -> LxcStop(m, c)
    [] c.kind = "lxc.init"            -> LxcInit(m, c)
    [] c.kind = "lxc.delete"          -> LxcDelete(m, c)
    [] c.kind = "lxc.running"         -> LxcRunning(m, c.name)
    [] c.kind = "lxc.state"           -> LxcState(m, c.name)
    [] c.kind = "lxc.query"           -> LxcQuery(m, c.name)
    [] c.kind = "lxc.list"            -> LxcList(m, c.name)
    [] c.kind = "lxc.resources"       -> LxcResources(m, c.name)
    [] c.kind = "lxc.goodies.prlimit" -> LxcPrlimit(m, c.name)
    [] c.kind = "lxc.exec"            -> LxcExec(m, c.name)
    [] c.kind = "lxc.wait.ready"      -> LxcReady(m, c.name)
    [] c.kind = "lxc.config.set"      -> LxcConfigSet(m, c)
    [] c.kind = "lxc.config.device"   -> LxcDevice(m, c)
    [] c.kind = "lxc.config.device.delete" -> LxcDeviceDelete(m, c)
    [] c.kind = "lxc.config.device.show"   -> LxcDeviceShow(m, c)
    [] c.kind = "lxc.config.device.exists" -> LxcDeviceExists(m, c)
    [] c.kind = "lxc.network"         -> LxcNetwork(m, c)
    [] c.kind = "lxc.network.attach"  -> LxcNetworkAttach(m, c)
    [] c.kind = "lxc.network.detach"  -> LxcNetworkDetach(m, c)
    [] c.kind = "lxc.network.delete"  -> LxcNetworkDelete(m, c)
    [] c.kind = "lxc.network.list"    -> LxcNetworkList(m, c)
    [] c.kind = "lxc.storage"         -> LxcStorage(m, c)
    [] c.kind = "lxc.storage.delete"  -> LxcStorageDelete(m, c)
    [] c.kind = "lxc.storage.volume"  -> LxcVolume(m, c)
    [] c.kind = "lxc.storage.volume.delete" -> LxcVolumeDelete(m, c)
    [] c.kind = "lxc.storage.volume.get"    -> LxcVolumeGet(m, c)
    [] c.kind = "lxc.storage.volume.list"   -> LxcVolumeList(m, c)
    [] c.kind = "lxc.storage.volume.attach" -> LxcVolumeAttach(m, c)
    [] c.kind = "lxc.file.push"       -> LxcFilePush(m, c)
    [] c.kind = "lxc.file.pull"       -> LxcFilePull(m, c)
    [] c.kind = "lxc.file.exists"     -> LxcFileExists(m, c)
    [] c.kind = "lxc.cluster"         -> LxcCluster(m, c)
    [] c.kind = "lxc.cluster.stop"    -> LxcClusterStop(m, c)
    [] c.kind = "lxc.cluster.delete"  -> LxcClusterDelete(m, c)

SameProperties(asked, there) == Differs(there, asked) = {}

ClusterBuilt(m, c) ==
  /\ \A w \in DOMAIN c.networks : There(m, Network(w)) /\ SameProperties(c.networks[w], m[Network(w)].config)
  /\ \A n \in DOMAIN c.containers :
       /\ InstanceState(m, n) = "RUNNING" /\ m[Instance(n)].openssl
       /\ SameProperties(c.containers[n].properties, m[Instance(n)].config)
       /\ DOMAIN c.containers[n].devices \subseteq DOMAIN DevicesOf(m, n)
       /\ \A u \in DOMAIN c.containers[n].users :
            /\ u \in m[Instance(n)].users
            /\ c.containers[n].users[u] # << >> =>
                 Inside(m, n, u) # Absent /\ Inside(m, n, u).body = c.containers[n].users[u]
                       /\ Inside(m, n, u).owner = u

LxdGoal(c, was, m) ==
  CASE c.kind \in LxdCloserKinds -> m = was
    [] c.kind = "lxc.start"       -> InstanceState(m, c.name) = "RUNNING"
    [] c.kind = "lxc.stop"        -> InstanceState(m, c.name) = "STOPPED"
    [] c.kind = "lxc.init"        -> There(m, Instance(c.name))
          /\ (c.start => InstanceState(m, c.name) = "RUNNING")
    [] c.kind = "lxc.delete"      -> ~There(m, Instance(c.name))
    [] c.kind = "lxc.config.set"  -> SameProperties(c.properties, m[Instance(c.name)].config)
    [] c.kind = "lxc.config.device" ->
         c.device \in DOMAIN DevicesOf(m, c.name) /\ SameProperties(c.properties, DevicesOf(m, c.name)[c.device])
    [] c.kind = "lxc.config.device.delete" -> c.device \notin DOMAIN DevicesOf(m, c.name)
    [] c.kind = "lxc.network"     -> There(m, Network(c.network))
          /\ SameProperties(c.properties, m[Network(c.network)].config)
    [] c.kind = "lxc.network.attach" -> c.network \in DOMAIN DevicesOf(m, c.name)
    [] c.kind = "lxc.network.detach" ->
         There(m, Instance(c.name)) => c.network \notin DOMAIN DevicesOf(m, c.name)
    [] c.kind = "lxc.network.delete" -> ~There(m, Network(c.network))
    [] c.kind = "lxc.storage"     -> There(m, Pool(c.pool))
          /\ SameProperties(c.properties, m[Pool(c.pool)].config)
    [] c.kind = "lxc.storage.delete" -> ~There(m, Pool(c.pool))
    [] c.kind = "lxc.storage.volume" -> StateOf(m, LxdVolume(c.pool, c.volume)) = VolumeOf(c.content)
    [] c.kind = "lxc.storage.volume.delete" -> ~There(m, LxdVolume(c.pool, c.volume))
    [] c.kind = "lxc.storage.volume.attach" -> c.device \in DOMAIN DevicesOf(m, c.name)
          /\ DevicesOf(m, c.name)[c.device] = DiskOf(c)
    [] c.kind = "lxc.file.push"   ->
         LET file == Inside(m, c.name, c.target)
         IN  file.body = c.content /\ (c.mode # Unset => file.mode = c.mode)
               /\ (c.owner # Unset => file.owner = c.owner)
    [] c.kind = "lxc.file.pull"   ->
         Inside(was, c.name, c.source) # Absent /\ IsFile(m, c.target)
               /\ At(m, c.target).body = Inside(was, c.name, c.source).body
    [] c.kind = "lxc.cluster"     -> ClusterBuilt(m, c)
    [] c.kind = "lxc.cluster.stop"   -> \A n \in c.names : InstanceState(m, n) = "STOPPED"
    [] c.kind = "lxc.cluster.delete" ->
         (\A n \in c.names : ~There(m, Instance(n))) /\ (\A w \in c.networks : ~There(m, Network(w)))

\* The other instances, networks, pools and volumes; the other properties.
LxdSpares(c, was, m) ==
  \A r \in {q \in DOMAIN was : q[1] \in {"instance", "network", "pool", "volume"}} :
    \/ StateOf(m, r) = was[r]
    \/ "name" \in DOMAIN c /\ r = Instance(c.name)
    \/ "network" \in DOMAIN c /\ r = Network(c.network)
    \/ "pool" \in DOMAIN c /\ r[2] = c.pool
    \/ c.kind = "lxc.cluster" /\ r[2] \in DOMAIN c.containers \cup DOMAIN c.networks
    \/ c.kind = "lxc.cluster.stop" /\ r[2] \in c.names
    \/ c.kind = "lxc.cluster.delete" /\ r[2] \in c.names \cup c.networks

\* An instance whose name ends with this one.
LxdNamesake(was, name) == \E i \in InstancesOf(was) : i # name /\ GrepName(i, name)

LxdExcept(c, was) ==
  CASE c.kind \in {"lxc.config.device.exists", "lxc.file.exists"} -> {}
    [] c.kind \in LxdCloserKinds \ {"lxc.config.device.exists", "lxc.file.exists"} -> {"StatusTells"}
    [] c.kind \in {"lxc.start", "lxc.stop"} ->
         \* another one is taken for the instance
         IF LxdNamesake(was, c.name) THEN {"Delivers"} ELSE {}
    [] c.kind = "lxc.init" ->
         (IF c.start THEN {"StatusTells"} ELSE {})
         \cup (IF LxdNamesake(was, c.name) THEN {"Delivers", "Converges"} ELSE {})
    [] c.kind = "lxc.network.delete" ->
         \* the refusal of the server is a status that is false
         IF LxcNetworkUsed(was, c.network) THEN {"Delivers"} ELSE {}
    [] c.kind = "lxc.network.attach" ->
         \* another device is taken for this one
         IF There(was, Instance(c.name)) /\ \E d \in DOMAIN DevicesOf(was, c.name) : d # c.network
               /\ GrepName(d, c.network)
         THEN {"Delivers"} ELSE {}
    [] c.kind = "lxc.storage.delete" ->
         IF \E p \in PoolsOf(was) : p # c.pool /\ GrepName(p, c.pool) THEN {"QuietAgain", "Repairable"} ELSE {}
    [] c.kind = "lxc.storage.volume" ->
         IF ~There(was, Pool(c.pool)) \/ There(was, LxdVolume(c.pool, c.volume)) THEN {"Delivers"} ELSE {}
    [] c.kind = "lxc.storage.volume.delete" -> IF VolumeUsed(was, c) THEN {"Delivers"} ELSE {}
    [] c.kind = "lxc.storage.volume.attach" -> {"StatusTells"}
    [] c.kind = "lxc.file.push" ->
         \* the content only is compared; a name is set each time, an instance that is stopped is pushed to each time
         {"StatusTells"} \cup (IF Inside(was, c.name, c.target) # Absent THEN {"Delivers"} ELSE {})
    [] c.kind = "lxc.file.pull" ->
         {"StatusTells"} \cup (IF Inside(was, c.name, c.source) = Absent THEN {"Delivers", "Converges"} ELSE {})
    [] c.kind = "lxc.cluster" -> {"StatusTells"}
    [] c.kind = "lxc.cluster.stop" -> IF \E n \in c.names : LxdNamesake(was, n) THEN {"Delivers"} ELSE {}
    [] c.kind = "lxc.cluster.delete" ->
         IF \E w \in c.networks : LxcNetworkUsed(was, w) THEN {"Delivers", "Converges"} ELSE {}
    [] c.kind \in {"lxc.delete", "lxc.config.set", "lxc.config.device", "lxc.config.device.delete", "lxc.network",
                   "lxc.network.detach", "lxc.storage"} -> {}
=============================================================================
