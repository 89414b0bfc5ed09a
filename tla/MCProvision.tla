----------------------------- MODULE MCProvision -----------------------------
(* Instances of Provision: every action on the machines that matter to it. *)
EXTENDS Provision

On(jobs, machines) == {[job |-> j, machine |-> m] : j \in jobs, m \in machines}

a   == <<"a">>          \* a file or a directory
b   == <<"b">>
ab  == <<"a", "b">>
abc == <<"a", "b", "c">>
s   == <<"s">>          \* a source
sf  == <<"s", "f">>
sg  == <<"s", "g">>

SomeFile == {File(<<"x">>, "644", "root"), File(<<"y">>, "600", "alice")}
SomeDir  == {Dir("755", "root"), Dir("750", "alice")}
SomeNode == {Absent} \cup SomeFile \cup SomeDir

Attrs == {Unset, "644", "600"}
Owner == {Unset, "root", "alice"}

ChmodCases == On([kind : {"fs.chmod"}, target : {a}, mode : {"644", "600"}],
                 {a :> n : n \in SomeNode})
ChownCases == On([kind : {"fs.chown"}, target : {a}, owner : {"root", "alice"}],
                 {a :> n : n \in SomeNode})
MkdirCases == On([kind : {"fs.mkdir"}, target : {abc}, mode : {Unset, "750"},
                  owner : {Unset, "alice"}, parent : {Unset, "700"}, force : BOOLEAN,
                  exclude : {{}, {"b"}}],
                 {(a :> x) @@ (ab :> y) @@ (abc :> z) :
                    x \in {Absent}, y \in {Absent}, z \in {Absent}}
                 \cup {(a :> Dir("755", "root")) @@ (ab :> y) @@ (abc :> Absent) :
                    y \in {Absent, File(<<"x">>, "644", "root")} \cup SomeDir}
                 \cup {(a :> Dir("755", "root")) @@ (ab :> Dir("755", "root")) @@ (abc :> z) :
                    z \in SomeNode})
RemoveCases == On([kind : {"fs.remove"}, target : {a}, recursive : BOOLEAN],
                  {(a :> x) @@ (ab :> Absent) : x \in SomeNode}
                  \cup {(a :> Dir("755", "root")) @@ (ab :> x) : x \in SomeFile})
MoveCases == On([kind : {"fs.move"}, source : {s}, target : {a}, force : BOOLEAN],
                {(s :> x) @@ (a :> y) : x \in SomeFile, y \in {Absent} \cup SomeFile}
                \cup {(s :> Dir("750", "alice")) @@ (sf :> x) @@ (a :> y) @@ (ab :> z) :
                      x \in {Absent} \cup SomeFile, y \in {Absent} \cup SomeDir, z \in {Absent}}
                \cup {(s :> Dir("750", "alice")) @@ (sf :> x) @@ (a :> y) :
                      x \in {Absent} \cup SomeFile, y \in {File(<< >>, "644", "root")} \cup SomeFile}
                \cup {(s :> Dir("750", "alice")) @@ (sf :> File(<<"x">>, "644", "root")) @@
                      (a :> Dir("755", "root")) @@ (ab :> x) : x \in SomeFile})
LinkCases == On([kind : {"fs.link"}, source : {s}, target : {ab}, exec : BOOLEAN, mode : {"755"}],
                {(s :> File(<<"x">>, "644", "root")) @@ (a :> Dir("755", "root")) @@ (ab :> x) :
                    x \in {Absent, Link(s), Link(b), File(Script(b), "755", "root"), Dir("755", "root")} }
                \cup {(s :> File(<<"x">>, "644", "root")) @@ (a :> Absent) @@ (ab :> Absent)})
CopyCases == On([kind : {"fs.copy"}, source : {s}, target : {a}, mode : Attrs, owner : Owner,
                 parent : BOOLEAN, preserve : BOOLEAN, slash : {FALSE}],
                {(s :> x) @@ (a :> y) : x \in SomeFile, y \in {Absent} \cup SomeFile})
CopyIntoCases == On([kind : {"fs.copy"}, source : {s}, target : {a}, mode : Attrs, owner : Owner,
                 parent : BOOLEAN, preserve : BOOLEAN, slash : {FALSE}],
                {(s :> x) @@ (a :> y) @@ (<<"a", "s">> :> z) : x \in SomeFile, y \in SomeDir, z \in {Absent}
                      \cup SomeFile})
CopyTreeCases == On([kind : {"fs.copy"}, source : {s}, target : {a}, mode : {Unset, "750"}, owner : {Unset, "alice"},
                 parent : BOOLEAN, preserve : BOOLEAN, slash : BOOLEAN],
                {(s :> Dir("755", "alice")) @@ (sf :> x) @@ (sg :> y) @@ (a :> z) : x \in SomeFile, y \in SomeFile,
                      z \in SomeNode})

\* file
ax  == <<"a", "x">>     \* a file in a directory
lx  == <<"l">>          \* a link
url == <<Http, "f">>
here == {(a :> Dir("755", "root")) @@ (ax :> n) : n \in {Absent} \cup SomeFile}
there == here \cup {(a :> Absent) @@ (ax :> Absent)}
Texts == {<<"x">>, <<"y", NL, "x", NL>>, << >>}
Ops == {[match |-> mt, replace |-> "x", append |-> ap, place_before |-> Unset, from |-> Unset, to |-> Unset] :
          mt \in {{}, {"x", "y"}, {"x", "z"}}, ap \in {Unset, Always, "y"}}
FileCases == On({[Plain(ax, t) EXCEPT !.eof = e, !.mode = mo, !.owner = o, !.backup = bk] :
                   t \in Texts, e \in BOOLEAN, mo \in Attrs, o \in Owner, bk \in {Unset, ".bck"}}, there)
FilePartialCases == On({[Plain(ax, NoText) EXCEPT !.write = <<op>>, !.eof = e] : op \in Ops, e \in BOOLEAN},
        {(a :> Dir("755", "root")) @@ (ax :> n) : n \in {Absent} \cup {File(t, "644", "root") : t \in Texts}})
Mark(r, ap, f, t2) == [match |-> {}, replace |-> r, append |-> ap, place_before |-> Unset, from |-> f, to |-> t2]
FileMarkCases == On({[Plain(ax, NoText) EXCEPT !.write = <<Mark("x", ap, f, t2)>>, !.eof = e] : ap \in {Unset,
      Always}, f \in {Unset, "<"}, t2 \in {Unset, ">"}, e \in BOOLEAN},
        {(a :> Dir("755", "root")) @@ (ax :> n) : n \in {Absent}
              \cup {File(t, "644", "root") : t \in {<<"k">>, <<"k", NL, "<", NL, "z", NL, ">", NL, "l">>, <<"<",
              NL, "z">>, <<">", NL, "z">>}}})
FileBeforeCases == On({[Plain(ax, NoText) EXCEPT !.write = <<[match |-> {"x"}, replace |-> "x", append |-> Unset,
      place_before |-> pb, from |-> Unset, to |-> Unset]>>] : pb \in {"y", Always}},
        {(a :> Dir("755", "root")) @@ (ax :> n) : n \in {File(t, "644", "root") : t \in Texts
              \cup {<<"y", NL, "y">>}}})
TouchCases == On([kind : {"file.touch"}, target : {ax}, mode : {Unset, "600"}, owner : {Unset, "alice"}], there)
UploadCases == On([kind : {"file.upload"}, source : {s}, target : {a, ax}, mode : {Unset, "600"},
      owner : {Unset, "alice"}],
    {m @@ (s :> f) @@ (<<"a","s">> :> Absent) : m \in here, f \in SomeFile})
RenderCases == On({[kind |-> "file.render", source |-> NoPath, content |-> <<"v", NL, "x">>,
      context |-> "v" :> "y",
   target |-> ax, mode |-> mo, owner |-> Unset] : mo \in Attrs}, there)
CacheCases == On([kind : {"file.cache"}, source : {url, s}, target : {ax}, md5 : {NoText, <<"x">>},
      force : BOOLEAN, fail : BOOLEAN],
   {m @@ (s :> f) @@ (url :> u) : m \in there, f \in SomeFile, u \in SomeFile})
DownloadCases == On([kind : {"file.download"}, source : {url, s}, target : {ax}, cache : BOOLEAN,
      cache_file : {b}, md5 : {NoText, <<"x">>},
   ssh : BOOLEAN, mode : {Unset, "600"}, owner : {Unset, "alice"}],
   {m @@ (s :> f) @@ (url :> u) : m \in there, f \in {File(<<"x">>, "644", "root")}, u \in SomeFile})

\* formats
FA == File(<<>>, "644", "root")
D(tree) == [FA EXCEPT !.body = Document(tree)]
T1 == <<"k">> :> "1"
T2 == (<<"k">> :> "2") @@ (<<"j">> :> "3")
TN == (<<"k">> :> Null) @@ (<<"j">> :> "4")
DocCases(kind) == On({[FormatDefaults(kind, ax, t) EXCEPT !.merge = mg, !.source = so, !.mode = mo, !.clean = cl,
      !.backup = bk] :
      t \in {T1, T2, TN}, mg \in BOOLEAN, so \in (IF kind \in {"file.properties", "file.cson"} THEN {NoPath}
            ELSE {NoPath, s}), mo \in {Unset, "600"}, cl \in BOOLEAN, bk \in {Unset, ".b"}},
    {(a :> Dir("755", "root")) @@ (ax :> n) @@
          (s :> D(T2)) : n \in {Absent, D(T1), D(T2), D((<<"z">> :> "0")), D(T1 @@ T2)}})
JsonCases == DocCases("file.json")
YamlCases == DocCases("file.yaml")
CsonCases == DocCases("file.cson")
HfileCases == DocCases("file.types.hfile")
PropertiesCases == DocCases("file.properties")
I1 == (<<"g">> :> "0") @@ (<<"A">> :> Obj) @@ (<<"A", "k">> :> "1")
I2 == (<<"A">> :> Obj) @@ (<<"A", "k">> :> "2") @@ (<<"A", "B">> :> Obj) @@ (<<"A", "B", "n">> :> "3")
I3 == (<<"w">> :> Null) @@ (<<"C">> :> Obj) @@ (<<"C", ";c">> :> Null) @@ (<<"C", "t">> :> "4")
I4 == (<<"A">> :> Obj) @@ (<<"A", "on">> :> True) @@ (<<"A", "no">> :> Null)
N(format, tree) == [FA EXCEPT !.body = Dump(format, tree)]
IniCase(kind, format, parse) == On({[FormatDefaults(kind, ax, t) EXCEPT !.merge = mg, !.source = so, !.clean = cl,
      !.parse = parse, !.stringify = format, !.rootdir = rd] :
      t \in {I1, I2, I4}, mg \in BOOLEAN, so \in {NoPath, s}, cl \in BOOLEAN, rd \in {NoPath}},
    {(a :> Dir("755", "root")) @@ (<<"etc">> :> Dir("755", "root")) @@ (<<"etc", "a">> :> Dir("755", "root")) @@
          (IF kind = "file.types.yum_repo" THEN <<"etc", "a", "x">> ELSE ax) :> n @@
          (s :> N(format, I2)) : n \in {Absent, N(format, I1), N(format, I2), N(format, I3)}
          \cup (IF kind # "file.types.krb5_conf" THEN {}
          ELSE {[FA EXCEPT !.body = <<Word("inc"), Section(1, <<"A">>), Word(";c"), Pair("k", "1"), Opening("B"),
          Pair("n", "9"), Closing>>]})})
IniCases == IniCase("file.ini", "ini", "ini")
Krb5Cases == IniCase("file.types.krb5_conf", "brackets_then_curly", "brackets_then_curly")
CephCases == IniCase("file.types.ceph_conf", "ini", "multi_brackets")
MyCnfCases == IniCase("file.types.my_cnf", "single_key", "ini")
PacmanCases == IniCase("file.types.pacman_conf", "single_key", "ini")
WireCases == IniCase("file.types.wireguard_conf", "multi_brackets", "multi_brackets")
YumCases == IniCase("file.types.yum_repo", "ini", "multi_brackets")
DaemonCases(kind, name, section) == On({[FormatDefaults(kind, ax, t) EXCEPT !.merge = mg, !.reload = r] :
      t \in {T1, T2}, mg \in BOOLEAN, r \in {Unset, "yes", "no"}},
   {(a :> Dir("755", "root")) @@ (ax :> n) @@ (Daemon(name) :> x) :
         n \in {Absent, N("ini", I1), N("ini", (section :> Obj) @@ Beneath(section, (<<"k">> :> "9") @@ (<<"z">> :> "8")))},
         x \in {Absent, Reads(N("ini", I1).body)}})
TimesyncdCases == DaemonCases("file.types.systemd.timesyncd", "timesyncd", <<"Time">>)
ResolvedCases == DaemonCases("file.types.systemd.resolved", "resolved", <<"Resolve">>)
LocaleCases == On([kind : {"file.types.locale_gen"}, target : {ax}, rootdir : {NoPath},
      locales : {{}, {"en"}, {"fr"}}, generate : {Unset, "yes", "no"}],
   {(a :> Dir("755", "root")) @@ (ax :> [FA EXCEPT !.body = <<<<"en", b1>>, <<"fr", b2>>>>]) @@
         (Locales :> [type |-> "built", locales |-> (IF b1 THEN {"en"} ELSE {})
         \cup (IF b2 THEN {"fr"} ELSE {})]) : b1 \in BOOLEAN, b2 \in BOOLEAN})
KeysCases == On([kind : {"file.types.ssh_authorized_keys"}, target : {ax}, keys : {<<"x">>, <<"x", "y">>},
      merge : BOOLEAN, mode : {Unset, "600"}, owner : {Unset}], there)

\* services
Machine(pk, sv, mg, ld) == (Pkg("n") :> pk) @@ (Srv("n") :> sv) @@ (Pkg("o") :> Package(TRUE)) @@
      (Srv("o") :> Service(TRUE, << >>, FALSE))
   @@ (Repo :> [type |-> "repo", names |-> {"n", "o"}]) @@ (Manager :> Named(mg)) @@ (Loader :> Named(ld))
SomeSrv == {Absent, Service(FALSE, << >>, FALSE), Service(TRUE, <<"on">>, FALSE), Service(FALSE, << >>, TRUE)}
SrvMachines(ld) == {Machine(pk, sv, mg, ld) : pk \in {Absent, Package(FALSE), Package(TRUE)}, sv \in SomeSrv,
      mg \in {"yum", "none", "locked"}}
KeptMachines == {(Known :> l) @@ x : l \in {Listed({}, {}), Listed({"n"}, {"n"})}, x \in SrvMachines("systemctl")}
ServiceCases == On([kind : {"service"}, name : {"n", Unset}, srv : {"n"}, cache : BOOLEAN, startup : Bool,
      state : {{}, {"started"}, {"stopped"}, {"restarted"}, {"started", "restarted"}}], SrvMachines("systemctl")
      \cup {Machine(Absent, Absent, "yum", "chkconfig")})
InstallCases == On([kind : {"service.install", "service.remove"}, name : {"n", "u"}, cache : BOOLEAN],
      SrvMachines("systemctl") \cup KeptMachines)
NameCases == On([kind : {"service.start", "service.stop", "service.restart", "service.status"}, name : {"n"}],
      UNION {SrvMachines(ld) : ld \in {"systemctl", "none"}})
StartupCases == On([kind : {"service.startup"}, name : {"n"}, startup : BOOLEAN,
      levels : {<< >>, <<"3", "5">>, <<"5", "3">>}],
   {Machine(Package(FALSE), sv, "yum", ld) : ld \in {"systemctl", "update-rc", "none"}, sv \in SomeSrv}
   \cup {Machine(Package(FALSE), sv, "yum", "chkconfig") : sv \in {Absent, Service(FALSE, << >>, FALSE),
         Service(FALSE, <<"3", "5">>, FALSE), Service(FALSE, <<"1", "6">>, FALSE)}})
InitCases == On([kind : {"service.init"}, name : {"n"}, source : {s}, target : {ax}, mode : Attrs, owner : Owner,
      context : {<< >>}],
   {x @@ (s :> File(<<"x">>, "644", "root")) @@ (Unit("n") :> u) @@ (Loader :> Named(ld)) : x \in there,
         u \in {Absent, [type |-> "read", body |-> <<"x">>], [type |-> "read", body |-> <<"y">>]},
         ld \in {"systemctl", "chkconfig"}})
AssertCases == On([kind : {"service.assert"}, name : {"n"}, srv : {"n"}, installed : Bool, started : Bool,
      stopped : Bool], SrvMachines("systemctl"))
   \cup On([kind : {"service.assert"}, name : {"n"}, srv : {"n"}, installed : {Unset}, started : {"yes", "no"},
      stopped : {Unset}], SrvMachines("none"))

\* system
Groups1 == {(Group("n") :> g) @@ (Group("o") :> GroupOf("7")) : g \in {Absent, GroupOf("5"), GroupOf("0")}}
GroupCases == On([kind : {"system.group"}, name : {"n"}, gid : {Unset, "5", "0"}], Groups1)
GoneCases == On([kind : {"system.group.remove"}, name : {"n"}], Groups1)
             \cup On([kind : {"system.user.remove"}, name : {"n"}],
                     {(User("n") :> u) @@ (User("o") :> Account("6", "6", NoPath, "sh", {}, Unset)) :
                        u \in {Absent, Account("5", "5", NoPath, "sh", {"o"}, "pw")}})
             \cup On([kind : {"system.uid_gid"}, user : {Unset}, group : {Unset, "n", "x"}], Groups1)
home == <<"a", "x">>
UserCases == On([kind : {"system.user"}, name : {"n"}, uid : {Unset, "5", "0"}, gid : {Unset},
      home : {NoPath, home}, shell : {"sh", "nologin"},
   groups : {{}, {"o"}, {"p"}}, password : {Unset, "pw"}, sync : BOOLEAN, own : BOOLEAN],
   {(User("n") :> u) @@ (Group("o") :> GroupOf("7")) @@ (Group("p") :> p) @@ x : p \in {Absent, GroupOf("9")},
       u \in {Absent, Account("5", "5", NoPath, "sh", {}, Unset),
             Account("6", "5", home, "sh", {"o", "q"}, "pw")},
       x \in {(a :> Absent) @@ (home :> Absent), (a :> Dir("755", "root")) @@ (home :> Dir("755", "root"))}})
  \cup On([kind : {"system.user"}, name : {"n"}, uid : {"5"}, gid : {Unset}, home : {abc}, shell : {"sh"},
           groups : {{}}, password : {Unset, "pw"}, sync : {TRUE}, own : {TRUE}],
          {(User("n") :> u) @@ (a :> x) @@ (abc :> Absent) :
             u \in {Absent, Account("5", "5", NoPath, "sh", {}, Unset)}, x \in SomeNode})
ModCases == On([kind : {"system.mod"}, modules : {"ip" :> TRUE, "ip" :> FALSE, ("ip" :> TRUE) @@ ("nf" :> FALSE)},
      load : BOOLEAN, persist : BOOLEAN, target : {NoPath, ax}, dir : {a}],
   {(Module("ip") :> x) @@ y @@ (Module("nf") :> Simple("loaded")) @@ (a :> Dir("755", "root")) @@
         (<<"a", "ip">> :> f) @@ (<<"a", "nf">> :> Absent) @@ (ax :> f) :
       x \in {Absent, Simple("loaded")}, y \in {(Module("ip_tables") :> Simple("loaded")),
             (Module("dm") :> Simple("loaded"))},
             f \in {Absent, File(<<"ip", NL>>, "644", "root"), File(<<"nf", NL, "ip">>, "644", "root")}})
LimitsCases == On([kind : {"system.limits"}, user : {Unset, "u"}, system : BOOLEAN, owner : {Unset, "alice"},
      target : {ax}, limits : {"nofile" :> "nofile 64", "nofile" :> "nofile 99",
      [nofile |-> "max", nproc |-> "nproc 9"]}],
   {(a :> Dir("755", "root")) @@ (ax :> f) : f \in {Absent, File(<<"x", NL, "nproc 8", NL>>, "644", "root"),
         File(<<"nofile 99">>, "644", "root")}})
TmpfsCases == On([kind : {"system.tmpfs"}, target : {ax}, mount : {"m"}, age : {"1", "2"}, merge : BOOLEAN,
      mode : {Unset, "600"}, owner : {Unset}],
   {(a :> Dir("755", "root")) @@ (ax :> f) @@ (Tmpfiles :> [type |-> "applied",
         entries |-> << >>]) : f \in {Absent, File(<<<<"m", "1">>>>, "644", "root"),
         File(<<<<"q", "9">>>>, "644", "root")}})
AuthCases == On([kind : {"system.authconfig"}, properties : {"k" :> TRUE, "k" :> FALSE}],
      {Auth :> [type |-> "auth", on |-> o] : o \in SUBSET {"k", "j"}})
CgroupsCases == On([kind : {"system.cgroups"}, groups : {"g" :> "1"}, mounts : {<< >>, <<"cpu">>},
      merge : BOOLEAN, ignore : {{}, {"h"}}, target : {NoPath, ax}],
   {(Os :> [type |-> "os", name |-> n, version |-> v]) @@
         (<<"cgsnapshot">> :> [type |-> "live", groups |-> ("g" :> "0") @@ ("h" :> "2") @@ ("docker" :> "3"),
         mounts |-> mo]) @@ (a :> Dir("755", "root")) @@ (ax :> Absent) @@ (<<"etc">> :> Absent) :
        n \in {"centos", "ubuntu"}, v \in {"7", "8"}, mo \in {<< >>, <<"mem">>}})
RunningCases == On([kind : {"system.running"}, pid : {Unset, "1"}, target : {ax}],
   {(a :> Dir("755", "root")) @@ (ax :> f) @@ (Process("1") :> p) : p \in {Absent, Simple("process")},
         f \in {Absent, File(<<"1">>, "644", "root")}})

\* tools
Add1 == {<<"jump", "ACCEPT">>, <<"dport", "1">>}
Ok   == {<<"jump", "ACCEPT">>}
Any1 == {<<"jump", "no">>}
NewRule(add, mod, append, after) == [chain |-> "INPUT", append |-> append, add |-> add, mod |-> mod,
      after |-> after, before |-> {}]
IptablesCases == On([kind : {"tools.iptables"},
      rules : {<<NewRule(a1, mo, ap, af)>> : a1 \in {Add1, Ok}, mo \in {{}, {<<"note", "n">>}}, ap \in BOOLEAN,
      af \in {{}, {<<"jump", "no">>}}}
                       \cup {<<NewRule(Add1, {}, FALSE, {}), NewRule(Any1, {<<"note", "n">>}, FALSE, {})>>,
                             <<[NewRule(Add1, {}, TRUE, {}) EXCEPT !.chain = "MINE"]>>}],
   {(Iptables :> Chains("INPUT" :> r)) @@ (Saved :> Absent) @@ (Srv("iptables") :> Service(up, << >>, FALSE)) @@
         (Loader :> Named("systemctl")) :
      up \in BOOLEAN, r \in {<< >>, <<Rule(Ok, {}), Rule(Any1, {})>>, <<Rule(Any1, {}),
            Rule(Add1, {<<"note", "o">>})>>}})
RepoTree(k) == (<<"base">> :> Obj) @@ (<<"base", "gpgcheck">> :> k) @@ (<<"base", "gpgkey">> :> "k")
Keyless == (<<"base">> :> Obj) @@ (<<"base", "gpgcheck">> :> "1")
RepoCases == On([kind : {"tools.repo"}, target : {<<"x">>}, source : {NoPath},
      content : {RepoTree("1"), RepoTree("0"), Keyless}, clean : BOOLEAN, verify : BOOLEAN, gpg_dir : {a},
      gpg_key : {Unset, "k2"}, mode : {Unset, "600"}],
   {(<<"etc">> :> Dir("755", "root")) @@ (<<"etc", "x">> :> f) @@ (<<"etc", "y">> :> File(<< >>, "644", "root")) @@
         (a :> Dir("755", "root")) @@ (<<"a", "k">> :> k) @@ (<<"a", "k2">> :> Absent)
      @@ (Url("k") :> File(<<"key">>, "644", "root")) @@ (Url("k2") :> File(<<"key2">>, "644", "root")) :
        f \in {Absent, File(Stringify(RepoTree("1")), "644", "root")},
              k \in {Absent, File(<<"key">>, "644", "root")}})
SysctlCases == On([kind : {"tools.sysctl"}, target : {ax},
      properties : {<<<<"p", "1">>>>, <<<<"p", "1">>, <<"q", "2">>>>, <<<<"p", Null>>>>}, merge : BOOLEAN,
      comment : BOOLEAN, load : BOOLEAN, backup : {Unset}],
   {(a :> Dir("755", "root")) @@ (ax :> f) @@ (Sysctl :> [type |-> "kernel", pairs |-> << >>]) : f \in {Absent,
         File(<<<<"# c", Null>>, <<"q", "2">>>>, "644", "root"),
         File(<<<<"p", "0">>, <<"p", "1">>>>, "644", "root")}})
Tars == {File(<<(<<"f">> :> <<"x">>)>>, "644", "root"),
      File(<<(<<"f">> :> <<"x">>) @@ (<<"g">> :> <<"y">>)>>, "644", "root")}
CompressCases == On([kind : {"tools.compress"}, source : {s}, target : {ax}, clean : BOOLEAN],
   {(a :> Dir("755", "root")) @@ (ax :> f) @@ x : f \in {Absent} \cup SomeFile,
         x \in {(s :> Absent), (s :> Dir("755", "root")) @@ (sf :> File(<<"x">>, "644", "root")),
         (s :> File(<<"x">>, "644", "root"))}})
BackupCases == On([kind : {"tools.backup"}, target : {a}, name : {"n"}, filename : {"t"}, source : {NoPath, s},
      compress : BOOLEAN, command : {NoText, <<"y">>}],
   {(a :> Dir("755", "root")) @@ (<<"a", "n">> :> Dir("755", "root")) @@ (<<"a", "n", "t">> :> f) @@ x :
         f \in {Absent} \cup SomeFile,
         x \in {(s :> Absent), (s :> Dir("755", "root")) @@ (sf :> File(<<"x">>, "644", "root")),
         (s :> File(<<"x">>, "644", "root"))}}
   \cup {(a :> d) @@ x : d \in {Absent, Dir("755", "root")},
         x \in {(s :> Dir("755", "root")) @@ (sf :> File(<<"x">>, "644", "root")), (s :> File(<<"x">>, "644", "root"))}}
   \cup {(a :> Dir("755", "root")) @@ (<<"a", "n">> :> Dir("755", "root")) @@ (<<"a", "n", "t">> :> Dir("755", "root"))
         @@ (<<"a", "n", "o">> :> File(<<"x">>, "644", "root"))
         @@ (s :> Dir("755", "root")) @@ (sf :> File(<<"x">>, "644", "root"))})
ExtractCases == On([kind : {"tools.extract"}, source : {s}, target : {a}, creates : {NoPath, ax, <<"a", "f">>}],
   {(a :> d) @@ (ax :> Absent) @@ (<<"a", "f">> :> f) @@ (s :> t) : d \in {Absent, Dir("755", "root")},
         f \in {Absent} \cup SomeFile, t \in Tars \cup {Absent}})
Refs == [v1 |-> "c1", v2 |-> "c2"]
GitCases == On([kind : {"tools.git"}, source : {s}, target : {a}, revision : {"HEAD", "v1", "v2", "v3"}],
   {(s :> r) @@ x : r \in {Absent, Repository(Refs, "c1"),
         Repository([Refs EXCEPT !.v2 = "c3"] @@ ("v3" :> "c3"), "c1")},
       x \in {(a :> Absent), (a :> Dir("755", "root")), (a :> Dir("755", "root")) @@
             (<<"a", ".git">> :> Repository(Refs, "c2"))}})
DconfCases == On([kind : {"tools.dconf", "tools.gsettings"},
      properties : {"k" :> "1", ("k" :> "1") @@ ("l" :> "2")}],
   {(Dconf("k") :> x) @@ (Dconf("l") :> y) : x \in {Absent, Setting("1"), Setting("2")},
         y \in {Absent, Setting("1"), Setting("2")}})
CrontabMachines == {Crontab :> x : x \in {Absent, Jobs(<< >>)}
      \cup {Jobs(<<j1, j2, j3>>) : j1, j2, j3 \in {<<"t1", "cmd">>, <<"t2", "cmd">>, <<"t1", "cmd --all">>,
      <<"t1", "else">>}}}
CronCases == On([kind : {"tools.cron.add"}, when : {"t1"}, command : {"cmd", "cmd --all"}], CrontabMachines)
             \cup On([kind : {"tools.cron.remove"}, when : {Unset, "t1"}, command : {"cmd", "cmd --all"}],
                   CrontabMachines)
LibMachines == {(Lib("n") :> x) @@ (Lib("o") :> y) @@ (Lib("p") :> z) : x,
      y \in {Absent, Package(FALSE), Package(TRUE)}, z \in {Absent, Package(TRUE)}}
NpmCases == On([kind : {"tools.npm", "tools.npm.uninstall", "tools.npm.upgrade", "tools.apm",
      "tools.apm.uninstall"}, name : {{"n"}, {"n", "o"}}, upgrade : BOOLEAN], LibMachines)
GemCases == On([kind : {"tools.rubygems.install", "tools.rubygems.remove", "tools.rubygems.fetch"}, name : {"g"},
      version : {Unset, "1", SomeVersion}, sources : {{}, {"1", "2"}}, cwd : {a}],
   {(Gem("g") :> x) @@ (a :> Dir("755", "root")) @@ (<<"a", "g">> :> Absent) : x \in {Absent}
         \cup {[type |-> "gem", versions |-> v] : v \in {{"1"}, {"2"}, {"1", "2"}}}})
KeygenCases == On([kind : {"tools.ssh.keygen"}, target : {ax}, type : {"rsa"}], there)
KeystoreCases == On([kind : {"java.keystore_add"}, keystore : {ax}, name : {"n"}, cert : {Unset, "c1"},
      caname : {"ca"}, cacert : {<< >>, <<"c2">>, <<"c2", "c3">>}, mode : {Unset, "600"}, owner : {Unset}],
   {(a :> d) @@ (ax :> f) : d \in {Dir("755", "root")},
         f \in {File(<<e>>, "644", "root") : e \in {"n" :> "c1", ("n" :> "c0") @@ ("ca" :> "c1") @@
         ("ca-1" :> "c3") @@ ("z" :> "c9")}}})
   \cup On([kind : {"java.keystore_add"}, keystore : {ax}, name : {"n"}, cert : {"c1"}, caname : {"ca"},
         cacert : {<<"c2">>}, mode : {Unset, "600"}, owner : {"alice"}], {(a :> Absent) @@ (ax :> Absent)})
   \cup On([kind : {"java.keystore_remove"}, keystore : {ax}, aliases : {{"n"}, {"n", "ca"}}],
       {(a :> Dir("755", "root")) @@ (ax :> f) : f \in {Absent,
             File(<<("n" :> "c0") @@ ("z" :> "c9")>>, "644", "root")}})

\* docker
Docker(x) == x @@ (Hub :> [type |-> "hub", ids |-> [ab |-> "1", b |-> "2"]])
Boxes1 == {(Container("n") :> x) @@ (Image("b") :> i) @@ (Container("o") :> y) : x \in {Absent}
      \cup [type : {"container"}, image : {"b", "x"}, run : {"up", "paused", "exited"}],
             i \in {Absent, Ref("2")}, y \in {Absent, Box("b", "exited")}}
DockerRunCases == On([kind : {"docker.run", "docker.tools.service"}, name : {"n"}, image : {"b", "x"},
      detach : {Unset, "yes", "no"}, rm : {Unset, "no"}], {Docker(x) : x \in Boxes1})
BoxCases == On([kind : DockerNameKinds \cup DockerLookKinds, name : {"n"}], Boxes1)
      \cup On([kind : {"docker.rm"}, name : {"n"}, force : BOOLEAN], Boxes1)
CpCases == On([kind : {"docker.cp"}, source : {s, <<"box", "n", "f">>}, target : {<<"box", "n", "f">>, ax}],
   {(s :> x) @@ (<<"box">> :> Dir("755", "root")) @@ (<<"box", "n">> :> Dir("755", "root")) @@
         (<<"box", "n", "f">> :> y) @@ (a :> Dir("755", "root")) @@ (ax :> z) :
       x \in {Absent, File(<<"s">>, "644", "root")}, y \in {Absent, File(<<"f">>, "644", "root")},
             z \in {Absent, Dir("755", "root"), File(<<"z">>, "644", "root")}})
ImageMachines == {Docker((Image("ab") :> x) @@ (Image("b") :> y) @@ (Container("n") :> z)) : x \in {Absent,
      Ref("1")}, y \in {Absent, Ref("2"), Ref("0")}, z \in {Absent, Box("b", "exited")}}
ImageCases == On([kind : {"docker.pull"}, image : {"b", "ab", "x"}, tags : 1..2, all : BOOLEAN], ImageMachines)
              \cup On([kind : {"docker.rmi"}, image : {"b", "ab", "x"}], ImageMachines)
ArchiveCases == On([kind : {"docker.save"}, image : {"b"}, target : {ax}],
      {x @@ y : x \in there, y \in ImageMachines})
                \cup On([kind : {"docker.load"}, source : {ax}, checksum : {Unset, "2"}],
                   {Docker((Image("b") :> x) @@ (Image("host:5000/p") :> y) @@ (a :> Dir("755", "root")) @@
                         (ax :> z)) : x \in {Absent, Ref("2")}, y \in {Absent, Ref("3")},
                       z \in {Absent} \cup {File(<<i>>, "644", "root") :
                             i \in {"b" :> "1", "b" :> "2", ("b" :> "2") @@ ("host:5000/p" :> "4")}}})
BuildCases == On([kind : {"docker.build"}, image : {"b"}, content : {NoText, <<"run", "copy">>},
      file : {NoPath, ax}, no_cache : BOOLEAN],
   {(Image("b") :> x) @@ (Layers :> [type |-> "layers", built |-> y]) @@ (a :> Dir("755", "root")) @@ (ax :> z) :
       x \in {Absent, Ref(<<"run">>)}, y \in {{}, {<<"run">>}, {<<"run">>, <<"run", "copy">>}},
             z \in {Absent, File(<<"run">>, "644", "root")}})
VolumeCases == On([kind : {"docker.volume_create", "docker.volume_rm"}, name : {"n"}],
      {(Volume("n") :> x) @@ (Volume("o") :> Vol(FALSE)) @@
      (Image("b") :> y) : x \in {Absent, Vol(TRUE), Vol(FALSE)}, y \in {Absent}})
Project == <<"n", "b", "o", "ab">>
ComposeCases == On([kind : {"docker.compose"}, content : {NoText, <<"n", "b">>, Project, <<"n", "x">>},
      target : {NoPath, ax}, services : {{}, {"n"}}, force : BOOLEAN],
   {Docker((Container("n") :> x) @@ (Container("o") :> y) @@ (Image("b") :> Ref("2")) @@ (Image("ab") :> Absent) @@
         (a :> Dir("755", "root")) @@ (ax :> z)) :
       x \in {Absent, Box("b", "up"), Box("ab", "up"), Box("b", "exited")}, y \in {Absent, Box("ab", "up")},
             z \in {Absent, File(<<"n", "b">>, "644", "root"), File(Project, "644", "root")}})

\* databases
Dbs == {(Db("n") :> x) @@ (Db("o") :> y) @@ (DbRole("b") :> u) @@ (DbRole("ab") :> Secret("old")) @@
        (DbSchema("n", "b") :> z) @@ (DbSchema("n", "ab") :> w) :
          x \in {Absent, Granted({}), Granted({"ab"}), Granted({"b", "ab"})}, y \in {Granted({}), Granted({"b"})},
          u \in {Absent, Secret("pw"), Secret("old")}, z \in {Absent}, w \in {Absent}}
Schemas == {(Db("n") :> x) @@ (DbRole("b") :> u) @@ (DbSchema("n", "b") :> z) @@ (DbSchema("n", "ab") :> w) :
              x \in {Absent, Granted({})}, u \in {Absent, Secret("pw")},
              z \in {Absent, OwnedBy("root"), OwnedBy("b")}, w \in {Absent, OwnedBy("root"), OwnedBy("b")}}
DatabaseCases ==
  On([kind : {"db.database"}, engine : Engine, name : {"n"}, users : {<< >>, <<"b">>, <<"b", "ab">>, <<"x">>}],
        Dbs)
DbUserCases ==
  On([kind : {"db.user"}, engine : Engine, name : {"b"}, password : {"pw"}], Dbs)
    \cup On([kind : {"db.database.exists", "db.database.remove"}, engine : Engine, name : {"n"}], Dbs)
    \cup On([kind : {"db.user.exists", "db.user.remove"}, engine : Engine, name : {"b"}], Dbs)
SchemaCases ==
  On([kind : {"db.schema"}, db : {"n"}, name : {"b"}, owner : {Unset, "b"}], Schemas)
    \cup On([kind : {"db.schema.exists", "db.schema.remove"}, db : {"n"}, name : {"b"}], Schemas)
    \cup On([kind : {"db.schema.list"}, db : {"n"}], Schemas)

\* directories
E1 == "sn" :> {"1"}
E2 == ("sn" :> {"2"}) @@ ("mail" :> {"3"})
EntryMachines == {(Entry("u") :> x) @@ (Entry("v") :> y) : x \in {Absent, Attributes(E1), Attributes(E2)},
                                                     y \in {Absent, Attributes(E1)}}
Operations == [type : {"add", "delete", "replace"}, name : {"sn"}, value : {"1", "2"}]
              \cup [type : {"delete", "replace"}, name : {"mail"}, value : {Unset}]
LdapCases ==
  On([kind : {"ldap.add"}, entries : {<<[dn |-> "u", attrs |-> E1]>>,
                                      <<[dn |-> "u", attrs |-> E2], [dn |-> "v", attrs |-> E1]>>}], EntryMachines)
    \cup On([kind : {"ldap.delete"}, dns : {<<"u">>, <<"u", "v">>}], EntryMachines)
    \cup On([kind : {"ldap.modify"}, dn : {"u"}, attributes : UNION {[1..k -> Operations] : k \in 1..2}],
          EntryMachines)
    \cup On([kind : {"ldap.user"}, dn : {"u"}, attrs : {E1, E2}, password : {Unset, "pw"}],
            EntryMachines \cup {(Entry("u") :> [Attributes(E1) EXCEPT !.password = w]) : w \in {"pw", "old"}})
    \cup On([kind : LdapLookKinds, dn : {"u"}], EntryMachines)
    \cup On([kind : {"ldap.schema"}, name : {"s", "t"}], {LdapSchemas :> [type |-> "schemas", names |-> {"s"}]})
Rules == {[to |-> t, by |-> y] : t \in {"*", "sn"}, y \in {<<"r">>, <<"w">>, <<"r", "w">>}}
AclCases ==
  On([kind : {"ldap.acl"}, dn : {"db"},
      acls : {<<[to |-> t, by |-> y, first |-> f, place_before |-> p]>> :
                t \in {"*", "sn"}, y \in {<<"r">>, <<"w", "r">>}, f \in BOOLEAN, p \in {Unset, "sn", "x"}}
             \cup {<<[to |-> "sn", by |-> <<"r">>, first |-> FALSE, place_before |-> Unset],
                     [to |-> t, by |-> <<"w">>, first |-> FALSE, place_before |-> Unset]>> : t \in {"*", "x"}}],
     {Entry("db") :> x : x \in {Absent} \cup {Conf(<< >>, rules) :
           rules \in UNION {[1..k -> Rules] : k \in 0..2}}})
    \cup On([kind : {"ldap.index"}, dn : {"db"}, indexes : {"sn" :> "eq", ("sn" :> "pres") @@ ("mail" :> "eq")}],
            {Entry("db") :> x : x \in {Absent, Conf(<< >>, << >>), Conf("sn" :> "eq", << >>),
                  Conf("cn" :> "eq", << >>)}})

U1 == "givenname" :> "1"
U2 == ("givenname" :> "2") @@ ("userpassword" :> "pw")
IpaMachine(type) ==
  {(Ipa(type, "n") :> x) @@ (Ipa("user", "o") :> IpaEntry(U1, FALSE)) :
     x \in {Absent, IpaEntry(U1, FALSE), IpaEntry(U1, TRUE), IpaEntry("x" :> "y", FALSE),
            [IpaEntry(U1, FALSE) EXCEPT !.locked = TRUE], [IpaEntry(U1, FALSE) EXCEPT !.members = {"o"}]}}
IpaCases ==
  On([kind : {"ipa.group"}, name : {"n"}, attrs : {<< >>, U1}], IpaMachine("group"))
    \cup On([kind : {"ipa.group.add_member"}, name : {"n"}, user : {"o", "x"}], IpaMachine("group"))
    \cup On([kind : {"ipa.user"}, name : {"n"}, attrs : {U1, U2}, force : BOOLEAN], IpaMachine("user"))
    \cup On([kind : IpaGroupKinds, name : {"n"}], IpaMachine("group"))
    \cup On([kind : IpaUserKinds, name : {"n"}], IpaMachine("user"))
    \cup On([kind : IpaServiceKinds, name : {"n"}], IpaMachine("service"))

\* Kerberos
kt == <<"a", "keytab">>
Kdcs == {(Kdc("p@R") :> x) @@ (Kdc("q@R") :> Princ("pw", 1)) @@ (a :> Dir("755", "root")) @@ (kt :> y) :
           x \in {Absent, Princ("pw", 2), Princ("old", 2)},
           y \in {Absent} \cup {File(slots, "600", "root") :
                    slots \in SUBSET {Slot("p@R", TRUE), Slot("p@R", FALSE), Slot("q@R", TRUE)}}}
KtaddCases ==
  On([kind : {"krb5.ktadd"}, principal : {"p", "p@R"}, keytab : {kt}, qualified : BOOLEAN, realm : {Unset, "R"},
      owner : {Unset, "alice"}, mode : {Unset, "644"}], Kdcs)
PrincCases ==
  On([kind : {"krb5.addprinc"}, principal : {"p"}, password : {Unset, "pw"}, sync : BOOLEAN,
        keytab : {NoPath, kt},
      qualified : BOOLEAN, owner : {Unset, "alice"}, mode : {Unset, "644"}], Kdcs)
    \cup On([kind : {"krb5.delprinc"}, principal : {"p"}, keytab : {NoPath, kt}], Kdcs)
    \cup On([kind : {"krb5.ticket"}, principal : {"p"}, password : {"pw"}, keytab : {NoPath, kt}, uid : {"5"},
             owner : {Unset, "alice"}], {m @@ (TicketOf("5") :> t) : m \in Kdcs,
                   t \in {Absent, Ticket("p@R"), Ticket("q@R")}})
SlotLists == UNION {[1..k -> {<<p, v, e>> : p \in {"p@R", "q@R"}, v \in 1..2, e \in {"aes", "des"}}] : k \in 0..2}
KtutilCases ==
  On([kind : {"krb5.ktutil.add"}, principal : {"p"}, keytab : {kt}, enctypes : {<<"aes">>, <<"aes", "des">>},
      owner : {Unset, "alice"}, mode : {Unset}],
     {(Kdc("p@R") :> x) @@ (a :> Dir("755", "root")) @@ (kt :> y) :
        x \in {Absent, Princ("pw", 2)}, y \in {Absent} \cup {File(slots, "600", "root") : slots \in SlotLists}})

\* LXD
I(run, config, devices) == Inst(run, config, devices, << >>)
Eth  == "eth" :> ("type" :> "nic")
Eth2 == "eth" :> (("type" :> "nic") @@ ("mtu" :> "9"))
InstanceMachines == {(Instance("n") :> x) @@ (Instance("mn") :> y) @@ (Network("w") :> Net("a" :> "1")) :
            x \in {Absent, I("STOPPED", << >>, << >>), I("RUNNING", "k" :> "1", Eth)},
            y \in {Absent, I("RUNNING", << >>, << >>), I("STOPPED", << >>, Eth)}}
InstanceCases ==
  On([kind : {"lxc.start", "lxc.stop"} \cup LxdLookKinds, name : {"n"}], InstanceMachines)
    \cup On([kind : {"lxc.init"}, name : {"n"}, start : BOOLEAN], InstanceMachines)
    \cup On([kind : {"lxc.delete"}, name : {"n"}, force : BOOLEAN], InstanceMachines)
    \cup On([kind : {"lxc.cluster.stop"}, names : {{"n"}, {"n", "mn"}}], InstanceMachines)
    \cup On([kind : {"lxc.cluster.delete"}, names : {{"n"}, {"n", "mn"}}, networks : {{}, {"w"}},
          force : BOOLEAN],
            InstanceMachines \cup {(Instance("n") :> Absent) @@ (Network("w") :> Net(<< >>)) @@
                        (Instance("mn") :> I("STOPPED", << >>, "w" :> ("type" :> "nic")))})
DeviceCases ==
  On([kind : {"lxc.config.set"}, name : {"n"}, properties : {"k" :> "1", ("k" :> "2") @@ ("l" :> "3")}],
        InstanceMachines)
    \cup On([kind : {"lxc.config.device"}, name : {"n"}, device : {"eth"},
             properties : {"type" :> "nic", ("type" :> "nic") @@ ("mtu" :> "9")}],
            InstanceMachines \cup {Instance("n") :> I("STOPPED", << >>, Eth2)})
    \cup On([kind : {"lxc.config.device.delete", "lxc.config.device.show", "lxc.config.device.exists"},
             name : {"n"}, device : {"eth"}], InstanceMachines)
Plugged == {(Instance("n") :> I(run, << >>, d)) @@ (Network("n") :> x) @@ (Network("mn") :> Net(<< >>)) :
              run \in {"RUNNING", "STOPPED"}, d \in {<< >>, "n" :> ("type" :> "nic"), "mn" :> ("type" :> "nic")},
              x \in {Absent, Net("a" :> "1")}}
           \cup {Network("n") :> Net(<< >>)}
NetworkCases ==
  On([kind : {"lxc.network"}, network : {"n"}, properties : {<< >>, "a" :> "1", ("a" :> "2") @@ ("b" :> "3")}],
        Plugged)
    \cup On([kind : {"lxc.network.delete", "lxc.network.list"}, network : {"n"}], Plugged)
    \cup On([kind : {"lxc.network.attach", "lxc.network.detach"}, name : {"n"}, network : {"n"}], Plugged)
Disk == [pool |-> "n", source |-> "v"]
Stores == {(Pool("n") :> x) @@ (Pool("mn") :> y) @@ (LxdVolume("n", "v") :> v) @@
      (Instance("i") :> I("STOPPED", << >>, d)) :
             x \in {Absent, PoolOf("a" :> "1")}, y \in {Absent, PoolOf(<< >>)}, v \in {Absent},
             d \in {<< >>}}
          \cup {(Pool("n") :> PoolOf(<< >>)) @@ (LxdVolume("n", "v") :> VolumeOf(v)) @@ (Instance("i") :> x) :
             v \in {"filesystem", "block"},
             x \in {Absent, I("STOPPED", << >>, << >>), I("STOPPED", << >>, "d" :> Disk)}}
StorageCases ==
  On([kind : {"lxc.storage"}, pool : {"n"}, properties : {<< >>, ("a" :> "2") @@ ("b" :> "3")}], Stores)
    \cup On([kind : {"lxc.storage.delete", "lxc.storage.volume.list"}, pool : {"n"}], Stores)
    \cup On([kind : {"lxc.storage.volume"}, pool : {"n"}, volume : {"v"}, content : {"filesystem", "block"}],
          Stores)
    \cup On([kind : {"lxc.storage.volume.delete", "lxc.storage.volume.get"}, pool : {"n"}, volume : {"v"}],
          Stores)
    \cup On([kind : {"lxc.storage.volume.attach"}, pool : {"n"}, volume : {"v"}, name : {"i"}, device : {"d"},
             path : {Unset, "/m"}], Stores)
InsideMachines == {(a :> Dir("755", "root")) @@ (ax :> y) @@ (Instance("mn") :> I("RUNNING", << >>, << >>)) @@
      (Instance("n") :> x) :
              y \in {Absent, File(<<"x">>, "644", "root"), File(<<"y">>, "600", "alice")},
              x \in {Absent} \cup {[Inst(run, << >>, << >>, f) EXCEPT !.openssl = s1] :
                    run \in {"RUNNING", "STOPPED"},
                       f \in {<< >>, "t" :> File(<<"x">>, "600", "root"), "t" :> File(<<"y">>, "644", "u")},
                             s1 \in BOOLEAN}}
PushCases ==
  On([kind : {"lxc.file.push"}, name : {"n"}, target : {"t"}, content : {<<"x">>}, mode : {Unset, "600"},
      owner : {"u"}, byName : BOOLEAN], InsideMachines)
    \cup On([kind : {"lxc.file.push"}, name : {"n"}, target : {"t"}, content : {<<"x">>}, mode : {"600"},
             owner : {Unset}, byName : {FALSE}], InsideMachines)
    \cup On([kind : {"lxc.file.pull"}, name : {"n"}, source : {"t"}, target : {ax}], InsideMachines)
    \cup On([kind : {"lxc.file.exists"}, name : {"n"}, target : {"t"}], InsideMachines)
ClusterOf(users) == [properties |-> "k" :> "1", devices |-> Eth, users |-> users]
Half == [I("RUNNING", << >>, Eth) EXCEPT !.openssl = FALSE]
ClusterCases ==
  On([kind : {"lxc.cluster"}, networks : {<< >>, "w" :> ("a" :> "2")},
      containers : {"n" :> ClusterOf(<< >>), "n" :> ClusterOf("u" :> <<"x">>), "n" :> ClusterOf("u" :> << >>),
                    ("n" :> ClusterOf("u" :> <<"x">>)) @@ ("o" :> ClusterOf(<< >>))}],
     {(Instance("n") :> x) @@ (Instance("o") :> y) @@ (Network("w") :> Net("a" :> "1")) :
        x \in {Absent, Half, I("STOPPED", "k" :> "2", << >>)}, y \in {Absent, Half}})

\* assertions
OutputCases == On([kind : {"assert"}, output : {<<v, w>> : v \in Returned, w \in {"true", "0"}} \cup {<< >>}, not : BOOLEAN,
      strict : BOOLEAN], {a :> Absent})
FsAssertDefaults == [kind |-> "fs.assert", target |-> a, content |-> NoText, regexp |-> FALSE, filter |-> {},
   trim |-> FALSE, filetype |-> {}, md5 |-> NoText, mode |-> {}, uid |-> Unset, gid |-> Unset, not |-> FALSE]
Asserted == {a :> n : n \in SomeNode \cup {File(<<NL, "x", "y", NL>>, "644", "root")}}
   \cup {(a :> Link(b)) @@ (b :> n) : n \in {Absent} \cup SomeFile}
   \cup {(a :> Dir("755", "root")) @@ (ab :> File(<<"x">>, "644", "root"))}
Given(c) == {o \in DOMAIN c \ {"kind", "target", "not"} : c[o] # FsAssertDefaults[o]}
FsAssertCases == On({[FsAssertDefaults EXCEPT !.content = t, !.regexp = r, !.filter = f, !.trim = tr, !.not = no] :
      t \in {<<"x">>, <<"x", NL>>, << >>}, r \in BOOLEAN, f \in {{}, {"y"}}, tr \in BOOLEAN, no \in BOOLEAN}
   \cup {c \in {[FsAssertDefaults EXCEPT !.md5 = h, !.mode = mo, !.uid = u, !.gid = g, !.filetype = t, !.not = no] :
           h \in {NoText, <<"x">>}, mo \in {{}, {"644"}, {"644", "755"}}, u \in {Unset, "root"},
           g \in {Unset, "root"}, t \in {{}, {"file"}, {"dir"}, {"link"}, {"file", "dir"}}, no \in BOOLEAN} :
        Cardinality(Given(c)) <= 2}, Asserted)
ExecuteAssertCases == On([kind : {"execute.assert"}, command : {"c"}, code : {<< >>, <<0>>, <<1, 2>>},
      content : {NoText, << >>, <<"x">>, <<"x", NL>>}, regexp : BOOLEAN, trim : BOOLEAN, not : BOOLEAN],
   {Program("c") :> [type |-> "command", code |-> e, out |-> o] : e \in 0..2, o \in {<< >>, <<"x", NL>>}})
TcpAssertCases == On([kind : {"network.tcp.assert"}, server : {{}, {"h"}, {"h", "i"}}, not : BOOLEAN],
   {(Server("h") :> x) @@ (Server("i") :> y) : x, y \in {Absent, [type |-> "server"]}})
HttpCases == On({j \in [kind : {"network.http"}, url : {"u"}, method : {"GET", "POST"}, data : BOOLEAN,
         fail : BOOLEAN, target : {NoPath, ax}, mode : {Unset, "600"}, uid : {Unset, "root"}, gid : {Unset, "root"}] :
      (j.data => j.method = "POST") /\ Unset \in {j.uid, j.gid}},
   {x @@ (Address("u") :> y) : x \in {(a :> Dir("755", "root")) @@ (ax :> File(<<"y">>, "644", "root")),
                                      (a :> Absent) @@ (ax :> Absent)},
         y \in {Absent, Answer(404, <<"x">>, "none"), Answer(200, <<"x">>, "broken"), Answer(200, <<"x">>, "none")}})

MCFamily ==
  {ChmodCases, ChownCases, MkdirCases, RemoveCases, MoveCases, LinkCases,
   CopyCases, CopyIntoCases, CopyTreeCases, FileCases, FilePartialCases,
   FileMarkCases, FileBeforeCases, TouchCases, UploadCases, RenderCases,
   CacheCases, DownloadCases, JsonCases, YamlCases, CsonCases, HfileCases,
   PropertiesCases, IniCases, Krb5Cases, CephCases, MyCnfCases, PacmanCases, WireCases,
   YumCases, TimesyncdCases, ResolvedCases, LocaleCases, KeysCases,
   ServiceCases, InstallCases, NameCases, StartupCases, InitCases,
   AssertCases, GroupCases, GoneCases, UserCases, ModCases, LimitsCases,
   TmpfsCases, AuthCases, CgroupsCases, RunningCases, IptablesCases,
   RepoCases, SysctlCases, CompressCases, ExtractCases, BackupCases,
   GitCases, DconfCases, CronCases, NpmCases, GemCases, KeygenCases,
   KeystoreCases, DockerRunCases, BoxCases, CpCases, ImageCases,
   ArchiveCases, BuildCases, VolumeCases, ComposeCases, DatabaseCases,
   DbUserCases, SchemaCases, LdapCases, AclCases, IpaCases, KtaddCases,
   PrincCases, KtutilCases, InstanceCases, DeviceCases, NetworkCases,
   StorageCases, PushCases, ClusterCases, OutputCases, FsAssertCases,
   ExecuteAssertCases, TcpAssertCases, HttpCases}
=============================================================================
