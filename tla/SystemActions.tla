------------------------------ MODULE SystemActions ------------------------------
(***************************************************************************)
(* The actions of packages/system: users and groups, kernel modules,       *)
(* limits, temporary files, control groups.                                *)
(***************************************************************************)
EXTENDS FileActions

User(name)   == <<"user", name>>
Group(name)  == <<"group", name>>
Module(name) == <<"module", name>>
Process(pid) == <<"process", pid>>
Auth         == <<"authconfig">>
Tmpfiles     == <<"tmpfiles">>      \* what systemd-tmpfiles has created
Os           == <<"os">>

Account(uid, gid, home, shell, groups, password) ==
  [type |-> "account", uid |-> uid, gid |-> gid, home |-> home, shell |-> shell,
   groups |-> groups, password |-> password]
GroupOf(gid)  == [type |-> "group", gid |-> gid]
Simple(type)  == [type |-> type]

Has(m, r) == StateOf(m, r) # Absent

\* The id 0 is taken for no id when a group is modified.
SystemGroup(m, c) ==
  CASE ~Has(m, Group(c.name)) -> Run(Group(c.name) := GroupOf(Or(c.gid, "auto")))
    [] Has(m, Group(c.name)) /\ c.gid \in {Unset, m[Group(c.name)].gid} -> Nothing
    [] Has(m, Group(c.name)) /\ c.gid \notin {Unset, m[Group(c.name)].gid} ->
         Run(Group(c.name) := GroupOf(IF c.gid = "0" THEN m[Group(c.name)].gid ELSE c.gid))

\* userdel and groupdel: the exit code 6 is that of an account which does not exist.
SystemRemove(m, r) == When(Has(m, r), Run(r := Absent))

(***************************************************************************)
(* An account is looked up by its name, or by its id.  A name with a digit *)
(* is taken for a number: nothing is found.                                *)
(***************************************************************************)
WithDigit == {"u1", "g1"}

SystemRead(m, r) == Has(m, r) /\ r[2] \notin WithDigit

SystemUidGid(m, c) ==
  When(\/ c.user # Unset /\ ~SystemRead(m, User(c.user))
       \/ c.group # Unset /\ ~SystemRead(m, Group(c.group)), Throw)

-----------------------------------------------------------------------------
(* system.user.                                                            *)

\* The directory of the home is created with the mode 644.
UserHomeParent(m, c) ==
  When(c.home # NoPath /\ ~Exists(m, Dirname(c.home)),
       FsMkdir(m, [Directory(Dirname(c.home)) EXCEPT !.mode = "644", !.owner = Me]))

\* No directory can be made at a path that leads through a file.
Blocked(m, p) == \E i \in 1..(Len(p) - 1) : Exists(m, SubSeq(p, 1, i)) /\ ~IsDir(m, SubSeq(p, 1, i))

\* useradd makes the home last.
UserAdd(m, c) ==
  LET account == Account(Or(c.uid, "auto"), Or(c.gid, "auto"), c.home, c.shell, c.groups, Unset)
      home    == IF c.home = NoPath THEN << >>
                 ELSE c.home := IF Exists(m, c.home) THEN At(m, c.home) ELSE Dir("700", account.uid)
  IN  IF \E g \in c.groups : ~Has(m, Group(g))
      THEN Throw
      ELSE IF Blocked(m, c.home)
      THEN Run(User(c.name) := account) \bullet Throw
      ELSE Then(m,
             Run(IF c.home = NoPath THEN User(c.name) := account ELSE home ++ (User(c.name) := account)),
             LAMBDA n : When(c.home # NoPath, BaseChown(n, c.home, account.uid)))

\* What usermod is given: an id 0 is not.
UserChanged(m, c) ==
  LET info == m[User(c.name)]
  IN  \/ c.uid \notin {Unset, info.uid}
      \/ c.gid \notin {Unset, info.gid}
      \/ c.home \notin {NoPath, info.home}
      \/ c.shell # info.shell
      \/ ~(c.groups \subseteq info.groups)

UserMod(m, c) ==
  LET info  == m[User(c.name)]
      id(new, old) == IF new \in {Unset, "0"} THEN old ELSE new
      next  == Account(id(c.uid, info.uid), id(c.gid, info.gid),
                       IF c.home = NoPath THEN info.home ELSE c.home, c.shell,
                       IF c.groups = {} THEN info.groups ELSE c.groups, info.password)
      owned == c.home # NoPath /\ c.uid \notin {Unset, "0"} /\ c.own
  IN  IF \E g \in c.groups : ~Has(m, Group(g))
      THEN Throw
      ELSE Then(m,
             When(UserChanged(m, c), Run(User(c.name) := next)),
             LAMBDA n : When(owned /\ Exists(n, c.home), FsChown(n, c.home, c.uid, Absent)))

\* Faulty: the account is not looked for, and useradd refuses one that is there.
SystemUserNew(m, c) ==
  IF Has(m, User(c.name)) THEN Throw ELSE UserHomeParent(m, c) \bullet UserAdd(m, c)

\* The directory of the home is not awaited, and its failure tells nothing.
\* The password is set each time: its changes are not detected.
SystemUser(m, c) ==
  LET parent     == Relaxed(UserHomeParent(m, c))
      account(n) == IF Has(n, User(c.name)) THEN UserMod(n, c) ELSE UserAdd(n, c)
      password(n) == When(c.sync /\ c.password # Unset,
                       Run(User(c.name) := [n[User(c.name)] EXCEPT !.password = c.password]))
  IN  Then(m, Then(m, parent, account), password)

-----------------------------------------------------------------------------
(***************************************************************************)
(* Kernel modules: `lsmod | grep name` also finds the modules whose name   *)
(* holds this one.                                                         *)
(***************************************************************************)
Holds == {<<"ip_tables", "ip">>}

Lsmod(m, name) ==
  \E r \in DOMAIN m : r[1] = "module" /\ m[r] # Absent
                      /\ (r[2] = name \/ <<r[2], name>> \in Holds)

ModprobeLoad(m, name) ==
  When(~Lsmod(m, name), Run(Module(name) := Simple("loaded")))

ModprobeRemove(m, name) ==
  When(Lsmod(m, name), IF Has(m, Module(name)) THEN Run(Module(name) := Absent) ELSE Throw)

\* The line of the module, in the file of all modules or in its own.
ModPersist(m, c, name) ==
  LET target == IF c.target # NoPath THEN c.target ELSE c.dir \o <<name>>
      text   == IF IsFile(m, target) THEN At(m, target).body ELSE << >>
      line   == [match |-> {name}, replace |-> name, append |-> Always,
                 place_before |-> Unset, from |-> Unset, to |-> Unset]
      without == FlattenSeq([i \in DOMAIN text |->
                   IF text[i] = name \/ (i > 1 /\ text[i] = NL /\ text[i - 1] = name)
                   THEN << >> ELSE <<text[i]>>])
      file   == IF c.modules[name] THEN [Plain(target, NoText) EXCEPT !.write = <<line>>]
                                   ELSE Plain(target, without)
  IN  FileWrite(m, [file EXCEPT !.eof = TRUE])

SystemMod(m, c) ==
  LET one(e, name) ==
        Then(m, e, LAMBDA n :
          Then(n, IF ~c.load THEN Nothing
                  ELSE IF c.modules[name] THEN ModprobeLoad(n, name) ELSE ModprobeRemove(n, name),
               LAMBDA p : When(c.persist, ModPersist(p, c, name))))
  IN  FoldLeft(one, Nothing, SetToSeq(DOMAIN c.modules))

-----------------------------------------------------------------------------
(* system.limits: one line of the file for each limit.                     *)

LimitLines  == [nofile |-> {"nofile 64", "nofile 99"}, nproc |-> {"nproc 8", "nproc 9"}]
AboveKernel == {"nofile 99"}      \* more than the kernel allows

\* What a limit is without a number: three quarters of what the kernel allows.
MaximumLine == [nofile |-> "nofile 64", nproc |-> "nproc 8"]

\* Faulty: the lines are appended.
SystemLimitsAppend(m, c) ==
  FileWrite(m, [Plain(c.target, SetToSeq({c.limits[o] : o \in DOMAIN c.limits}))
                  EXCEPT !.append = TRUE, !.eof = TRUE])

SystemLimits(m, c) ==
  LET line(o)  == IF c.limits[o] = "max" THEN MaximumLine[o] ELSE c.limits[o]
      write(o) == [match |-> LimitLines[o], replace |-> line(o), append |-> Always,
                   place_before |-> Unset, from |-> Unset, to |-> Unset]
      asked    == SetToSeq(DOMAIN c.limits)
  IN  CASE c.system = (c.user # Unset) -> Throw
        [] c.system # (c.user # Unset) /\ \E o \in DOMAIN c.limits : line(o) \in AboveKernel -> Throw
        [] c.system # (c.user # Unset) /\ \A o \in DOMAIN c.limits : line(o) \notin AboveKernel ->
             When(asked # << >>,
               FileWrite(m, [Plain(c.target, NoText) EXCEPT !.eof = TRUE, !.owner = c.owner,
                               !.write = [i \in DOMAIN asked |-> write(asked[i])]]))

-----------------------------------------------------------------------------
(***************************************************************************)
(* system.tmpfs: an entry <<mount, age>> of the file for each mount.  What *)
(* the file asks for is created when it was written.                       *)
(***************************************************************************)
TmpfsMerged(old, entry) ==
  IF \E i \in DOMAIN old : old[i][1] = entry[1]
  THEN [i \in DOMAIN old |-> IF old[i][1] = entry[1] THEN entry ELSE old[i]]
  ELSE Append(old, entry)

SystemTmpfs(m, c) ==
  LET old   == IF c.merge /\ IsFile(m, c.target) THEN At(m, c.target).body ELSE << >>
      file  == [Plain(c.target, TmpfsMerged(old, <<c.mount, c.age>>)) EXCEPT !.mode = c.mode, !.owner = c.owner]
      apply(n) == Run(Tmpfiles := [type |-> "applied", entries |-> << >>])
                  \bullet Run(Tmpfiles := [type |-> "applied", entries |-> At(n, c.target).body])
      reload(write) == Then(m, write, LAMBDA n : When(write.status, apply(n)))
  IN  reload(FileWrite(m, file))

\* The command always runs; the status tells whether what it shows differs.
SystemAuthconfig(m, c) ==
  LET on == {p \in m[Auth].on : p \notin DOMAIN c.properties}
            \cup {p \in DOMAIN c.properties : c.properties[p]}
  IN  Returns(Run(Auth := [m[Auth] EXCEPT !.on = on]), on # m[Auth].on)

(***************************************************************************)
(* system.cgroups: the groups that run are merged with what is asked, but  *)
(* for those of containers and those to ignore; the mounts are added.  On  *)
(* another system there is no file to write.                               *)
(***************************************************************************)
SystemCgroups(m, c) ==
  LET redhat == m[Os].name \in {"redhat", "centos"}
      live   == m[<<"cgsnapshot">>]
      kept   == {g \in DOMAIN live.groups : g \notin c.ignore /\ g # "docker"}
      groups == [g \in kept |-> live.groups[g]] ++ c.groups
      body   == IF c.merge /\ redhat THEN <<groups, c.mounts \o live.mounts>> ELSE <<c.groups, c.mounts>>
      lost   == IF redhat THEN m[Os].version \notin {"6", "7"} /\ live.mounts = << >> ELSE c.target = NoPath
  IN  IF lost
      THEN Throw
      ELSE FileWrite(m, Plain(IF c.target = NoPath THEN <<"etc">> ELSE c.target, body))

\* A pid file whose process is gone is removed, and nothing is told.
SystemRunning(m, c) ==
  CASE c.pid # Unset -> Returns(Nothing, Has(m, Process(c.pid)))
    [] c.pid = Unset ->
         IF ~IsFile(m, c.target) THEN Nothing
         ELSE IF At(m, c.target).body # << >> /\ Has(m, Process(At(m, c.target).body[1])) THEN Look
         ELSE Write(c.target := Absent)

-----------------------------------------------------------------------------
(* What a user may ask, from the schemas.                                  *)

GroupConfig   == [kind : {"system.group"}, name : STRING, gid : Option]
RemoveAccountConfig ==
  [kind : {"system.user.remove", "system.group.remove"}, name : STRING]
UidGidConfig  == [kind : {"system.uid_gid"}, user : Option, group : Option]
UserConfig    ==
  [kind : {"system.user"}, name : STRING, uid : Option, gid : Option, home : Path, shell : STRING,
   groups : SUBSET STRING, password : Option, sync : BOOLEAN, own : BOOLEAN]
TmpfsConfig   == [kind : {"system.tmpfs"}, target : Path, mount : STRING, age : Option, merge : BOOLEAN,
                  mode : Option, owner : Option]
RunningConfig == [kind : {"system.running"}, pid : Option, target : Path]

IsModConfig(c) ==
  /\ c.modules \in [DOMAIN c.modules -> BOOLEAN]
  /\ {c.load, c.persist} \subseteq BOOLEAN
IsLimitsConfig(c) ==
  \A o \in DOMAIN c.limits : c.limits[o] \in LimitLines[o] \cup {"max"}
IsCgroupsConfig(c) ==
  \A g \in DOMAIN c.groups : c.groups[g] \in STRING

IsSystemConfig(c) ==
  CASE c.kind = "system.mod"     -> IsModConfig(c)
    [] c.kind = "system.limits"  -> IsLimitsConfig(c)
    [] c.kind = "system.cgroups" -> IsCgroupsConfig(c)
    [] c.kind = "system.authconfig" -> c.properties \in [DOMAIN c.properties -> BOOLEAN]
    [] c.kind \notin {"system.mod", "system.limits", "system.cgroups", "system.authconfig"} ->
         \/ c \in GroupConfig \/ c \in RemoveAccountConfig \/ c \in UidGidConfig
         \/ c \in UserConfig \/ c \in TmpfsConfig \/ c \in RunningConfig

SystemKinds ==
  {"system.group", "system.user.remove", "system.group.remove", "system.uid_gid", "system.user",
   "system.mod", "system.limits", "system.tmpfs", "system.authconfig", "system.cgroups",
   "system.running"}

SystemHandler(c, m) ==
  CASE c.kind = "system.group"        -> SystemGroup(m, c)
    [] c.kind = "system.user.remove"  -> SystemRemove(m, User(c.name))
    [] c.kind = "system.group.remove" -> SystemRemove(m, Group(c.name))
    [] c.kind = "system.uid_gid"      -> SystemUidGid(m, c)
    [] c.kind = "system.user"         -> SystemUser(m, c)
    [] c.kind = "system.mod"          -> SystemMod(m, c)
    [] c.kind = "system.limits"       -> SystemLimits(m, c)
    [] c.kind = "system.tmpfs"        -> SystemTmpfs(m, c)
    [] c.kind = "system.authconfig"   -> SystemAuthconfig(m, c)
    [] c.kind = "system.cgroups"      -> SystemCgroups(m, c)
    [] c.kind = "system.running"      -> SystemRunning(m, c)

(***************************************************************************)
(* What they promise.                                                      *)
(***************************************************************************)
HasId(given, id) == given # Unset => id = given

SystemGoal(c, was, m) ==
  CASE c.kind = "system.group" -> Has(m, Group(c.name)) /\ HasId(c.gid, m[Group(c.name)].gid)
    [] c.kind = "system.user.remove"  -> ~Has(m, User(c.name))
    [] c.kind = "system.group.remove" -> ~Has(m, Group(c.name))
    [] c.kind = "system.uid_gid" ->
         (c.user # Unset => Has(m, User(c.user))) /\ (c.group # Unset => Has(m, Group(c.group)))
    [] c.kind = "system.user" ->
         LET account == m[User(c.name)]
         IN  /\ account # Absent /\ HasId(c.uid, account.uid) /\ HasId(c.gid, account.gid)
             /\ account.shell = c.shell /\ c.groups \subseteq account.groups
             /\ c.home # NoPath => account.home = c.home
             /\ c.home # NoPath /\ ~Has(was, User(c.name)) => IsDir(m, c.home)
                   /\ At(m, c.home).owner = account.uid
             /\ c.home # NoPath /\ c.uid # Unset /\ c.own /\ Exists(m, c.home) => At(m, c.home).owner = c.uid
             /\ c.sync /\ c.password # Unset => account.password = c.password
    [] c.kind = "system.mod" ->
         \A n \in DOMAIN c.modules :
           LET target == IF c.target # NoPath THEN c.target ELSE c.dir \o <<n>>
           IN  /\ c.load => Has(m, Module(n)) = c.modules[n]
               /\ c.persist => c.modules[n] = (LinesOf(At(m, target).body, n) # {})
    [] c.kind = "system.limits" ->
         \A o \in DOMAIN c.limits :
           LinesOf(At(m, c.target).body, IF c.limits[o] = "max" THEN MaximumLine[o] ELSE c.limits[o]) # {}
    [] c.kind = "system.tmpfs" ->
         /\ <<c.mount, c.age>> \in ToSet(At(m, c.target).body)
         /\ HasAttributes(c, m, c.target)
         /\ At(m, c.target) # At(was, c.target) => m[Tmpfiles].entries = At(m, c.target).body
    [] c.kind = "system.authconfig" ->
         \A p \in DOMAIN c.properties : c.properties[p] = (p \in m[Auth].on)
    [] c.kind = "system.cgroups" ->
         LET body == At(m, IF c.target = NoPath THEN <<"etc">> ELSE c.target).body
         IN  \A g \in DOMAIN c.groups : g \in DOMAIN body[1] /\ body[1][g] = c.groups[g]
    [] c.kind = "system.running" -> IsFile(m, c.target) => m[c.target] = was[c.target]

\* The other accounts, lines, entries.
SystemSpares(c, was, m) ==
  CASE c.kind \in {"system.group", "system.user", "system.user.remove", "system.group.remove"} ->
         \A r \in DOMAIN was : r[1] \in {"user", "group"} /\ r[2] # c.name => m[r] = was[r]
    [] c.kind = "system.mod" ->
         \A r \in DOMAIN was : r[1] = "module" /\ r[2] \notin DOMAIN c.modules => m[r] = was[r]
    [] c.kind = "system.limits" ->
         LET other(text) == SelectSeq(text, LAMBDA w : w # NL
               /\ \A o \in DOMAIN c.limits : w \notin LimitLines[o])
         IN  IsFile(was, c.target) => other(At(m, c.target).body) = other(At(was, c.target).body)
    [] c.kind = "system.tmpfs" ->
         c.merge /\ IsFile(was, c.target) =>
           \A i \in DOMAIN At(was, c.target).body :
             At(was, c.target).body[i][1] # c.mount => At(was, c.target).body[i] \in ToSet(At(m, c.target).body)
    [] c.kind = "system.authconfig" -> m[Auth].on \ DOMAIN c.properties = was[Auth].on \ DOMAIN c.properties
    [] c.kind \in {"system.cgroups", "system.running", "system.uid_gid"} -> TRUE

\* What the code does not give.
SystemExcept(c, was) ==
  CASE c.kind = "system.group" ->
         IF c.gid = "0" THEN {"Delivers", "Converges", "StatusTells"} ELSE {}
    [] c.kind = "system.user" ->
         (IF "0" \in {c.uid, c.gid} THEN {"Delivers", "Converges", "StatusTells"} ELSE {})
         \cup (IF c.sync /\ c.password # Unset THEN {"StatusTells"} ELSE {})
         \cup (IF c.home # NoPath THEN {"Converges"} ELSE {})   \* the home is owned when it is created
         \cup (IF Blocked(was, c.home) THEN {"Delivers"} ELSE {})   \* nor is it made for a user that is there
    [] c.kind = "system.mod" ->            \* a module is taken for another
         IF \E n \in DOMAIN c.modules : \E r \in DOMAIN was : r[1] = "module" /\ <<r[2], n>> \in Holds
         THEN {"Delivers", "Converges", "QuietAgain", "Repairable"} ELSE {}
    [] c.kind = "system.tmpfs" -> {"Converges"}       \* not created after a cut
    [] c.kind = "system.running" -> {"StatusTells"}
    [] c.kind \in {"system.user.remove", "system.group.remove", "system.uid_gid", "system.limits",
                   "system.authconfig", "system.cgroups"} -> {}
=============================================================================
