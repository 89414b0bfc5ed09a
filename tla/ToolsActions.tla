------------------------------ MODULE ToolsActions ------------------------------
(***************************************************************************)
(* The actions of packages/tools and packages/java.                        *)
(***************************************************************************)
EXTENDS FileFormats, ServiceActions

-----------------------------------------------------------------------------
(***************************************************************************)
(* tools.iptables.  A rule is what it matches and what else it has, two    *)
(* sets of pairs (property, value).                                        *)
(***************************************************************************)
Iptables == <<"iptables">>
Saved    == <<"iptables", "saved">>

Rule(add, mod) == [add |-> add, mod |-> mod]
Chains(chains) == [type |-> "chains", chains |-> chains]

\* A parsed rule has all the properties it is looked up by, and maybe others.
Fits(new, old) == new.add \subseteq old.add

Overwrite(old, new) == new \cup {p \in old : \A q \in new : q[1] # p[1]}

\* Where a rule is inserted: after the last rule that fits `after`, before the
\* first that fits `before`, first when there is none.
Position(old, new) ==
  LET fits(set) == {i \in DOMAIN old : set # {} /\ set \subseteq old[i].add}
  IN  CASE fits(new.after) # {} -> 1 + (CHOOSE i \in fits(new.after) : \A j \in fits(new.after) : j <= i)
        [] fits(new.after) = {} /\ fits(new.before) # {} -> First(fits(new.before))
        [] fits(new.after) = {} /\ fits(new.before) = {} -> 1

(***************************************************************************)
(* The commands for one new rule, as functions from a chain to a chain.    *)
(* `old` is the chain when it was listed: the positions are those of then. *)
(***************************************************************************)
Commands(old, new) ==
  LET fits    == {i \in DOMAIN old : Fits(new, old[i])}
      replace == SetToSortSeq({i \in fits : old[i].mod # new.mod}, <)
  IN  IF fits # {}
      THEN [k \in DOMAIN replace |->
              [at |-> replace[k], insert |-> FALSE,
               rule |-> Rule(Overwrite(old[replace[k]].add, new.add),
                             Overwrite(old[replace[k]].mod, new.mod))]]
      ELSE <<[at |-> IF new.append THEN 0 ELSE Position(old, new), insert |-> TRUE,
              rule |-> Rule(new.add, new.mod)]>>

Command1(chain, command) ==
  CASE command.insert /\ command.at = 0 -> Append(chain, command.rule)
    [] command.insert /\ command.at > 0 -> InsertAt(chain, command.at, command.rule)
    [] ~command.insert                  -> [chain EXCEPT ![command.at] = command.rule]

\* What `iptables -S` lists: the rules of every chain, in order.
ChainsOf(m) == m[Iptables].chains

\* A rule which says nothing of its position comes after those that accept,
\* unless the last one of the rules is to be appended.
NewRules(rules) ==
  LET free(rule) == rule.chain = "INPUT" /\ rule.after = {} /\ rule.before = {}
  IN  [i \in DOMAIN rules |->
         IF free(rules[i]) /\ ~Last(rules).append
         THEN [rules[i] EXCEPT !.after = {<<"jump", "ACCEPT">>}] ELSE rules[i]]

ToolsIptables(m, c) ==
  LET listed   == ChainsOf(m)
      chain(n) == IF n \in DOMAIN listed THEN listed[n] ELSE << >>
      created  == Chains([n \in {c.rules[i].chain : i \in DOMAIN c.rules} |-> << >>] ++ listed)
      one(e, new) ==
        FoldLeft(LAMBDA f, command :
                   f \bullet Write(Iptables :=
                     [After(m, f)[Iptables] EXCEPT !.chains[new.chain] = Command1(@, command)]),
                 e, Commands(chain(new.chain), new))
      changes  == FoldLeft(one, When(created # m[Iptables], Write(Iptables := created)), NewRules(c.rules))
  IN  CASE ~ServiceStatus(m, "iptables").status -> Throw
        [] ServiceStatus(m, "iptables").status /\ changes.do = << >> -> Look
        [] ServiceStatus(m, "iptables").status /\ changes.do # << >> ->
             Look \bullet changes \bullet Run(Saved := After(m, changes)[Iptables])

-----------------------------------------------------------------------------
(* tools.repo: a file of the directory of yum, and the keys it names.      *)

YumDir    == <<"etc">>
Rpm(key)  == <<"rpm", key>>
Yum       == <<"yum">>       \* what yum has read of the repository

Url(name) == <<Http, name>>

\* The file is there, the others that the pattern `clean` matches are not.
RepoFile(m, c) ==
  LET target == YumDir \o c.target
      others == IF c.clean THEN {p \in Within(m, YumDir) : Exists(m, p) /\ p # target} ELSE {}
  IN  Then(m, FoldLeft(LAMBDA e, p : e \bullet FsRemove(m, p, FALSE), Nothing, SetToSeq(others)),
        LAMBDA n :
          IF c.source = NoPath
          THEN FileIni(n, YumRepo([FormatDefaults("file.types.yum_repo", c.target, c.content)
                                     EXCEPT !.mode = c.mode]))
          ELSE FsCopy(n, [Duplicate(c.source, target) EXCEPT !.mode = c.mode]))

\* The keys of the sections that want one: `Throw` when one does not say which.
RepoKeys(m, c) ==
  LET tree     == Parse("multi_brackets", At(m, YumDir \o c.target).body).tree
      checked  == {p \in DOMAIN tree : Append(p, "gpgcheck") \in DOMAIN tree /\ tree[Append(p, "gpgcheck")] = "1"}
      keyed    == {p \in checked : Append(p, "gpgkey") \in DOMAIN tree}
  IN  [keys  |-> {tree[Append(p, "gpgkey")] : p \in keyed} \cup (IF c.gpg_key = Unset THEN {} ELSE {c.gpg_key}),
       fails |-> checked # keyed /\ c.gpg_key = Unset]

\* A key that was downloaded is imported.
RepoKey(m, c, key) ==
  LET target == c.gpg_dir \o <<key>>
  IN  Then(m,
        FileDownload(m, [source |-> Url(key), target |-> target, cache |-> FALSE, cache_file |-> NoPath,
                         md5 |-> NoText, ssh |-> FALSE, mode |-> Unset, owner |-> Unset]),
        LAMBDA n : When(~Same(m, Url(key), target),
                     Run(Rpm(key) := [type |-> "key", body |-> At(n, target).body])))

(***************************************************************************)
(* The metadata of yum is read again when the last of the keys was         *)
(* imported.                                                               *)
(***************************************************************************)
RepoRefresh(m, c, keys, import) ==
  import \bullet
  When(import.do # << >> /\ Rpm(Last(keys)) \in DOMAIN Last(import.do),
       Run(Yum := [type |-> "yum", body |-> At(m, YumDir \o c.target).body]))

RepoImport(m, c, keys) ==
  RepoRefresh(m, c, keys,
    FoldLeft(LAMBDA e, key : Then(m, e, LAMBDA n : RepoKey(n, c, key)), Nothing, keys))

RepoVerify(m, c, asked) ==
  IF asked.fails THEN Throw ELSE When(c.verify, RepoImport(m, c, SetToSeq(asked.keys)))

ToolsRepo(m, c) == Then(m, RepoFile(m, c), LAMBDA n : RepoVerify(n, c, RepoKeys(n, c)))

-----------------------------------------------------------------------------
(***************************************************************************)
(* tools.sysctl: a file of pairs (key, value); a comment has no value.     *)
(* Without `merge`, the keys that have their value already are dropped.    *)
(***************************************************************************)
Sysctl == <<"sysctl">>

IsSysctlComment(pair) == pair[2] = Null

SysctlPairs(final, asked) ==
  FoldLeft(LAMBDA pairs, pair :
             IF \E i \in DOMAIN pairs : pairs[i][1] = pair[1]
             THEN [i \in DOMAIN pairs |-> IF pairs[i][1] = pair[1] THEN pair ELSE pairs[i]]
             ELSE Append(pairs, pair),
           final, asked)

ToolsSysctl(m, c) ==
  LET read    == IF IsFile(m, c.target) THEN At(m, c.target).body ELSE << >>
      current == SysctlPairs(<< >>, SelectSeq(read, LAMBDA pair : c.comment \/ ~IsSysctlComment(pair)))
      asked   == SelectSeq(c.properties, LAMBDA pair : pair[2] # Null /\ pair \notin ToSet(current))
      write   == When(asked # << >>,
                   FileWrite(m, [Plain(c.target, SysctlPairs(IF c.merge THEN current ELSE << >>, asked))
                                   EXCEPT !.backup = c.backup]))
  IN  Then(m, write,
        LAMBDA n : When(c.load /\ asked # << >>,
                     Run(Sysctl := [type |-> "kernel", pairs |-> At(n, c.target).body])))

-----------------------------------------------------------------------------
(* Archives: a file that holds what was under a path.                      *)

Archive(m, p) ==
  <<[q \in {SubSeq(r, Len(p), Len(r)) : r \in {r \in {p} \cup Within(m, p) : IsFile(m, r)}} |->
       At(m, Dirname(p) \o q).body]>>

\* The archive is written each time; the source may go.
ToolsCompress(m, c) ==
  IF ~Exists(m, c.source)
  THEN Throw
  ELSE Then(m,
         Returns(BaseWriteFile(m, c.target, Archive(m, c.source), Unset), TRUE),
         LAMBDA n : When(c.clean, FsRemove(n, c.source, TRUE)))

\* The files of the archive are written each time.
ToolsExtract(m, c) ==
  LET files == At(m, c.source).body[1]
      write == [q \in {c.target \o r : r \in DOMAIN files} |->
                  File(files[SubSeq(q, Len(c.target) + 1, Len(q))], FileMode, Me)]
  IN  IF ~IsFile(m, c.source) \/ ~IsDir(m, c.target) \/ At(m, c.source).body = Truncated
      THEN Throw
      ELSE Run(write) \bullet When(c.creates # NoPath /\ ~Exists(After(m, Run(write)), c.creates), Throw)

\* A backup has the name that the format gives to the time: with the same
\* name, a directory goes into the one that was copied before.
Saving(m, c, target) ==
  CASE c.source = NoPath -> Nothing
    [] c.source # NoPath /\ c.compress  -> ToolsCompress(m, [source |-> c.source, target |-> target, clean |-> FALSE])
    [] c.source # NoPath /\ ~c.compress -> FsCopy(m, Duplicate(c.source, target))

ToolsBackup(m, c) ==
  LET dir    == Append(c.target, c.name)
      target == Append(dir, c.filename)
  IN  Then(m, FsMkdir(m, Directory(dir)), LAMBDA n :
        Then(n, Saving(n, c, target), LAMBDA n1 :
          When(c.command # NoText, Returns(BaseWriteFile(n1, target, c.command, Unset), TRUE))))

-----------------------------------------------------------------------------
(***************************************************************************)
(* tools.git: a repository is cloned once and never fetched; what is       *)
(* checked out is compared with what the revision is there.  The default   *)
(* revision, HEAD, is always what is checked out.                          *)
(***************************************************************************)
Repository(refs, head) == [type |-> "git", refs |-> refs, head |-> head]

GitHead         == "HEAD"
Knows(r, name)  == name \in {GitHead} \cup DOMAIN r.refs
Commit(r, name) == IF name = GitHead THEN r.head ELSE r.refs[name]

ToolsGit(m, c) ==
  LET dir     == Append(c.target, ".git")
      clone   == Run((c.target := Dir(DirMode, Me)) ++ (dir := m[c.source]))
      checkout(n) ==
        IF ~Knows(n[dir], c.revision) THEN Throw
        ELSE Run(dir := [n[dir] EXCEPT !.head = Commit(n[dir], c.revision)])
  IN  CASE Exists(m, c.target) /\ ~Exists(m, dir) -> Throw
        [] ~Exists(m, c.target) ->
             IF StateOf(m, c.source) = Absent THEN Throw ELSE Then(m, clone, checkout)
        [] Exists(m, c.target) /\ Exists(m, dir) ->
             IF Knows(m[dir], c.revision) /\ Commit(m[dir], c.revision) = m[dir].head
             THEN Nothing ELSE checkout(m)

-----------------------------------------------------------------------------
(* tools.dconf and tools.gsettings: one command for each key.              *)

Dconf(key) == <<"dconf", key>>
Setting(value) == [type |-> "setting", value |-> value]

ToolsDconf(m, c) ==
  FoldLeft(LAMBDA e, key :
             e \bullet When(StateOf(m, Dconf(key)) # Setting(c.properties[key]),
                            Run(Dconf(key) := Setting(c.properties[key]))),
           Nothing, SetToSeq(DOMAIN c.properties))

\* The output is an array, which has no status.
ToolsGsettings(m, c) == Shy(ToolsDconf(m, c))

-----------------------------------------------------------------------------
(***************************************************************************)
(* tools.cron: the jobs of a user, pairs (when, command).  A job is found  *)
(* by its command, which is looked for in the line: a command that holds   *)
(* it is found too.                                                        *)
(***************************************************************************)
Crontab    == <<"crontab">>
Jobs(jobs) == [type |-> "crontab", jobs |-> jobs]
Holding    == {<<"cmd --all", "cmd">>}

Finds(command, job) == job[2] = command \/ <<job[2], command>> \in Holding

\* The jobs after the one that is as wanted are not read.
ToolsCronAdd(m, c) ==
  LET jobs  == IF StateOf(m, Crontab) = Absent THEN << >> ELSE m[Crontab].jobs
      new   == <<c.when, c.command>>
      same  == {i \in DOMAIN jobs : jobs[i] = new}
      read  == IF same = {} THEN jobs ELSE SubSeq(jobs, 1, First(same) - 1)
      found == {i \in DOMAIN read : Finds(c.command, read[i])}
      all   == IF found = {} THEN Append(read, new)
               ELSE [i \in DOMAIN read |-> IF i \in found THEN new ELSE read[i]]
  IN  When(found # {} \/ same = {}, Run(Crontab := Jobs(all)))

\* The job that follows one that was removed is not looked at.
Spliced(jobs, found(_)) ==
  FoldLeft(LAMBDA s, job :
             IF ~s.skip /\ found(job)
             THEN [s EXCEPT !.skip = TRUE]
             ELSE [left |-> Append(s.left, job), skip |-> FALSE],
           [left |-> << >>, skip |-> FALSE], jobs).left

ToolsCronRemove(m, c) ==
  LET found(job) == Finds(c.command, job) /\ c.when \in {Unset, job[1]}
      left       == Spliced(m[Crontab].jobs, found)
  IN  IF StateOf(m, Crontab) = Absent
      THEN Throw
      ELSE When(left # m[Crontab].jobs, Run(Crontab := Jobs(left)))

-----------------------------------------------------------------------------
(* Packages of other managers: resources <<"lib", name>>.                  *)

Lib(name)       == <<"lib", name>>
Libs(m)         == {r[2] : r \in {q \in DOMAIN m : q[1] = "lib" /\ m[q] # Absent}}
OutdatedLibs(m) == {n \in Libs(m) : m[Lib(n)].outdated}

Brought(names) == Run([r \in {Lib(n) : n \in names} |-> Package(FALSE)])
Gone(names)    == Run([r \in {Lib(n) : n \in names} |-> Absent])

\* Every package is upgraded when one that is asked for is outdated.
ToolsNpmUpgrade(m, names) ==
  When(OutdatedLibs(m) \cap names # {}, Brought(OutdatedLibs(m)))

ToolsNpm(m, c) ==
  Then(m, When(c.upgrade, ToolsNpmUpgrade(m, c.name)),
    LAMBDA n : When(c.name \ Libs(n) # {}, Brought(c.name \ Libs(n))))

ToolsNpmUninstall(m, c) == When(c.name \cap Libs(m) # {}, Gone(c.name \cap Libs(m)))

\* What is asked for is upgraded, whether `upgrade` is given or not.
ToolsApm(m, c) ==
  LET all == When(c.upgrade /\ OutdatedLibs(m) # {}, Brought(OutdatedLibs(m)))
  IN  Then(m, all,
        LAMBDA n : When(c.name \cap OutdatedLibs(n) # {}, Brought(c.name \cap OutdatedLibs(n)))
                     \bullet When(c.name \ Libs(n) # {}, Brought(c.name \ Libs(n))))

ToolsApmUninstall(m, c) == When(c.name \cap Libs(m) # {}, Gone(c.name))

(***************************************************************************)
(* tools.rubygems: a gem has versions.  A range of versions is never       *)
(* satisfied, and the newest version is installed.                         *)
(***************************************************************************)
Gem(name)         == <<"gem", name>>
Versions(m, name) == IF StateOf(m, Gem(name)) = Absent THEN {} ELSE m[Gem(name)].versions
Newest            == "9"
SomeVersion       == ">= 1"

GemHas(m, name, version) ==
  Run(Gem(name) := [type |-> "gem", versions |-> Versions(m, name) \cup {version}])

ToolsGemInstall(m, c) ==
  LET sources == {v \in c.sources : v \notin Versions(m, c.name)}
      files   == FoldLeft(LAMBDA e, v : e \bullet GemHas(After(m, e), c.name, v), Nothing, SetToSeq(sources))
      there   == Versions(m, c.name) # {} /\ c.version \in {Unset} \cup Versions(m, c.name)
  IN  Then(m, files,
        LAMBDA n : When(~there, GemHas(n, c.name, IF c.version \in {Unset, SomeVersion} THEN Newest
              ELSE c.version)))

ToolsGemRemove(m, c) ==
  LET left == Versions(m, c.name) \ {c.version}
  IN  CASE Versions(m, c.name) = {} -> Nothing
        [] Versions(m, c.name) # {} /\ c.version = Unset -> Run(Gem(c.name) := Absent)
        [] Versions(m, c.name) # {} /\ c.version # Unset ->
             IF c.version \notin Versions(m, c.name) THEN Throw
             ELSE Run(Gem(c.name) := IF left = {} THEN Absent ELSE [type |-> "gem", versions |-> left])

ToolsGemFetch(m, c) ==
  Returns(BaseWriteFile(m, c.cwd \o <<c.name>>, <<Or(c.version, Newest)>>, Unset), TRUE)

ToolsKeygen(m, c) ==
  Then(m, FsMkdir(m, Directory(Dirname(c.target))),
    LAMBDA n : When(~Exists(n, c.target), Run(c.target := File(<<c.type>>, "600", Me))))

-----------------------------------------------------------------------------
(***************************************************************************)
(* java.keystore: a file that holds a function from aliases to             *)
(* certificates.                                                           *)
(***************************************************************************)
Entries(m, c) == IF IsFile(m, c.keystore) THEN At(m, c.keystore).body[1] ELSE << >>
Keystore(m, c, entries) ==
  c.keystore := IF IsFile(m, c.keystore) THEN [At(m, c.keystore) EXCEPT !.body = <<entries>>]
                ELSE File(<<entries>>, FileMode, Me)

KeystoreCert(m, c) ==
  IF c.name \in DOMAIN Entries(m, c) /\ Entries(m, c)[c.name] = c.cert
  THEN Nothing
  ELSE Run(Keystore(m, c, Entries(m, c) ++ (c.name := c.cert)))

\* An entry that differs is deleted, then imported.  The code of the command
\* is that of the last certificate.
KeystoreCacert(m, c, alias, cert) ==
  LET entries == Entries(m, c)
      without == [a \in DOMAIN entries \ {alias} |-> entries[a]]
  IN  IF alias \in DOMAIN entries /\ entries[alias] = cert
      THEN Nothing
      ELSE When(alias \in DOMAIN entries, Write(Keystore(m, c, without)))
             \bullet Run(Keystore(m, c, entries ++ (alias := cert)))

JavaKeystoreAdd(m, c) ==
  LET alias(i) == IF Len(c.cacert) = 1 THEN c.caname ELSE c.caname \o "-" \o ToString(i - 1)
      cacerts(n) ==
        FoldLeftDomain(LAMBDA e, i :
                         LET f == KeystoreCacert(After(n, e), c, alias(i), c.cacert[i])
                         IN  Returns(e \bullet f, f.status),
                       Nothing, c.cacert)
      cert(n) == When(c.cert # Unset, KeystoreCert(n, c))
      own(n)  == When(c.owner # Unset, FsChown(n, c.keystore, c.owner, Absent))
      mod(n)  == When(c.mode # Unset, FsChmod(n, c.keystore, c.mode, Absent))
      dir     == FsMkdir(m, Directory(Dirname(c.keystore)))
  IN  Then(m, Then(m, Then(m, Then(m, dir, cert), cacerts), own), mod)

JavaKeystoreRemove(m, c) ==
  LET entries == Entries(m, c)
  IN  When(DOMAIN entries \cap c.aliases # {},
        Run(Keystore(m, c, [a \in DOMAIN entries \ c.aliases |-> entries[a]])))

-----------------------------------------------------------------------------
(* What a user may ask, from the schemas.                                  *)

Pairs == SUBSET (STRING \X STRING)

IptablesConfig ==
  [kind : {"tools.iptables"},
   rules : Seq([chain : STRING, append : BOOLEAN, add : Pairs, mod : Pairs, after : Pairs, before : Pairs])]
SysctlConfig ==
  [kind : {"tools.sysctl"}, target : Path, properties : Seq(STRING \X STRING), merge : BOOLEAN, comment : BOOLEAN,
   load : BOOLEAN, backup : Option]
CompressConfig == [kind : {"tools.compress"}, source : Path, target : Path, clean : BOOLEAN]
ExtractConfig  == [kind : {"tools.extract"}, source : Path, target : Path, creates : Path]
BackupConfig   == [kind : {"tools.backup"}, target : Path, name : STRING, filename : STRING, source : Path,
                   compress : BOOLEAN, command : Path]
GitConfig      == [kind : {"tools.git"}, source : Path, target : Path, revision : STRING]
CronAddConfig  == [kind : {"tools.cron.add"}, when : STRING, command : STRING]
CronRemoveConfig == [kind : {"tools.cron.remove"}, when : Option, command : STRING]
NpmConfig      == [kind : {"tools.npm", "tools.npm.uninstall", "tools.npm.upgrade"}, name : SUBSET STRING,
      upgrade : BOOLEAN]
ApmConfig      == [kind : {"tools.apm", "tools.apm.uninstall"}, name : SUBSET STRING, upgrade : BOOLEAN]
GemConfig      ==
  [kind : {"tools.rubygems.install", "tools.rubygems.remove", "tools.rubygems.fetch"}, name : STRING,
        version : Option,
   sources : SUBSET STRING, cwd : Path]
KeygenConfig   == [kind : {"tools.ssh.keygen"}, target : Path, type : STRING]
KeystoreAddConfig ==
  [kind : {"java.keystore_add"}, keystore : Path, name : Option, cert : Option, caname : Option,
        cacert : Seq(STRING),
   mode : Option, owner : Option]
KeystoreRemoveConfig == [kind : {"java.keystore_remove"}, keystore : Path, aliases : SUBSET STRING]

IsRepoConfig(c) ==
  /\ IsTree(c.content) /\ {c.target, c.source, c.gpg_dir} \subseteq Path
  /\ {c.clean, c.verify} \subseteq BOOLEAN /\ {c.gpg_key, c.mode} \subseteq Option

ToolsKinds ==
  {"tools.iptables", "tools.repo", "tools.sysctl", "tools.compress", "tools.extract", "tools.backup", "tools.git",
   "tools.dconf", "tools.gsettings", "tools.cron.add", "tools.cron.remove", "tools.npm", "tools.npm.upgrade",
         "tools.npm.uninstall",
   "tools.apm", "tools.apm.uninstall", "tools.rubygems.install", "tools.rubygems.remove", "tools.rubygems.fetch",
   "tools.ssh.keygen", "java.keystore_add", "java.keystore_remove"}

IsToolsConfig(c) ==
  CASE c.kind = "tools.repo" -> IsRepoConfig(c)
    [] c.kind \in {"tools.dconf", "tools.gsettings"} -> c.properties \in [DOMAIN c.properties -> STRING]
    [] c.kind \notin {"tools.repo", "tools.dconf", "tools.gsettings"} ->
         \/ c \in IptablesConfig \/ c \in SysctlConfig \/ c \in CompressConfig \/ c \in ExtractConfig
         \/ c \in BackupConfig
         \/ c \in GitConfig \/ c \in CronAddConfig \/ c \in CronRemoveConfig \/ c \in NpmConfig
         \/ c \in ApmConfig \/ c \in GemConfig \/ c \in KeygenConfig
         \/ c \in KeystoreAddConfig \/ c \in KeystoreRemoveConfig

ToolsHandler(c, m) ==
  CASE c.kind = "tools.iptables"      -> ToolsIptables(m, c)
    [] c.kind = "tools.repo"          -> ToolsRepo(m, c)
    [] c.kind = "tools.sysctl"        -> ToolsSysctl(m, c)
    [] c.kind = "tools.compress"      -> ToolsCompress(m, c)
    [] c.kind = "tools.extract"       -> ToolsExtract(m, c)
    [] c.kind = "tools.backup"        -> ToolsBackup(m, c)
    [] c.kind = "tools.git"           -> ToolsGit(m, c)
    [] c.kind = "tools.dconf"         -> ToolsDconf(m, c)
    [] c.kind = "tools.gsettings"     -> ToolsGsettings(m, c)
    [] c.kind = "tools.cron.add"      -> ToolsCronAdd(m, c)
    [] c.kind = "tools.cron.remove"   -> ToolsCronRemove(m, c)
    [] c.kind = "tools.npm"           -> ToolsNpm(m, c)
    [] c.kind = "tools.npm.upgrade"   -> ToolsNpmUpgrade(m, c.name)
    [] c.kind = "tools.npm.uninstall" -> ToolsNpmUninstall(m, c)
    [] c.kind = "tools.apm"           -> ToolsApm(m, c)
    [] c.kind = "tools.apm.uninstall" -> ToolsApmUninstall(m, c)
    [] c.kind = "tools.rubygems.install" -> ToolsGemInstall(m, c)
    [] c.kind = "tools.rubygems.remove"  -> ToolsGemRemove(m, c)
    [] c.kind = "tools.rubygems.fetch"   -> ToolsGemFetch(m, c)
    [] c.kind = "tools.ssh.keygen"       -> ToolsKeygen(m, c)
    [] c.kind = "java.keystore_add"      -> JavaKeystoreAdd(m, c)
    [] c.kind = "java.keystore_remove"   -> JavaKeystoreRemove(m, c)

(***************************************************************************)
(* What they promise.                                                      *)
(***************************************************************************)
ToolsGoal(c, was, m) ==
  CASE c.kind = "tools.iptables" ->
         /\ \A i \in DOMAIN c.rules :
              Rule(c.rules[i].add, c.rules[i].mod) \in ToSet(m[Iptables].chains[c.rules[i].chain])
         /\ m[Iptables] # was[Iptables] => m[Saved] = m[Iptables]
    [] c.kind = "tools.repo" ->
         LET target == YumDir \o c.target
         IN  /\ c.source # NoPath => At(m, target).body = At(was, c.source).body
             /\ c.clean => \A p \in Within(m, YumDir) : Exists(m, p) => p = target
             /\ c.verify => \A key \in RepoKeys(m, c).keys :
                              /\ At(m, c.gpg_dir \o <<key>>).body = At(m, Url(key)).body
                              /\ At(was, c.gpg_dir \o <<key>>) # At(m, c.gpg_dir \o <<key>>) =>
                                   StateOf(m, Rpm(key)) = [type |-> "key", body |-> At(m, Url(key)).body]
    [] c.kind = "tools.sysctl" ->
         /\ \A i \in DOMAIN c.properties :
              IF c.properties[i][2] = Null
              THEN \A pair \in ToSet(At(m, c.target).body) : pair[1] # c.properties[i][1]
              ELSE c.properties[i] \in ToSet(At(m, c.target).body)
         /\ c.load /\ At(m, c.target) # At(was, c.target) => m[Sysctl].pairs = At(m, c.target).body
    [] c.kind = "tools.compress" -> At(m, c.target).body = Archive(was, c.source)
          /\ (c.clean => ~Exists(m, c.source))
    [] c.kind = "tools.extract"  ->
         \A q \in DOMAIN At(m, c.source).body[1] : At(m, c.target \o q).body = At(m, c.source).body[1][q]
    [] c.kind = "tools.backup"   ->
         LET target == c.target \o <<c.name, c.filename>>
         IN  /\ c.command # NoText => At(m, target).body = c.command
             /\ c.source # NoPath /\ c.command = NoText =>
                  IF c.compress \/ IsFile(m, c.source)
                  THEN At(m, target).body = IF c.compress THEN Archive(was, c.source) ELSE At(was, c.source).body
                  ELSE \A q \in Within(was, c.source) :
                         At(m, target \o SubSeq(q, Len(c.source) + 1, Len(q))).type = At(was, q).type
    [] c.kind = "tools.git" ->
         LET dir == m[Append(c.target, ".git")]
         IN  dir.head = IF c.revision = GitHead THEN was[c.source].head ELSE dir.refs[c.revision]
    [] c.kind \in {"tools.dconf", "tools.gsettings"} ->
         \A key \in DOMAIN c.properties : StateOf(m, Dconf(key)) = Setting(c.properties[key])
    [] c.kind = "tools.cron.add"    -> <<c.when, c.command>> \in ToSet(m[Crontab].jobs)
    [] c.kind = "tools.cron.remove" ->
         \A job \in ToSet(m[Crontab].jobs) : ~(job[2] = c.command /\ c.when \in {Unset, job[1]})
    [] c.kind \in {"tools.npm", "tools.apm"} ->
         c.name \subseteq Libs(m) /\ (c.upgrade => c.name \cap OutdatedLibs(m) = {})
    [] c.kind = "tools.npm.upgrade" -> c.name \cap OutdatedLibs(m) = {}
    [] c.kind \in {"tools.npm.uninstall", "tools.apm.uninstall"} -> c.name \cap Libs(m) = {}
    [] c.kind = "tools.rubygems.install" ->
         /\ Versions(m, c.name) # {} /\ c.version \in {Unset, SomeVersion} \cup Versions(m, c.name)
         /\ c.sources \subseteq Versions(m, c.name)
    [] c.kind = "tools.rubygems.remove" -> Versions(m, c.name) \cap {c.version} = {}
          /\ (c.version = Unset => Versions(m, c.name) = {})
    [] c.kind = "tools.rubygems.fetch"  -> IsFile(m, c.cwd \o <<c.name>>)
    [] c.kind = "tools.ssh.keygen"      -> IsFile(m, c.target)
    [] c.kind = "java.keystore_add" ->
         /\ c.cert # Unset => Entries(m, c)[c.name] = c.cert
         /\ ToSet(c.cacert) \subseteq {Entries(m, c)[a] : a \in DOMAIN Entries(m, c)}
         /\ HasMode(m, c.keystore, c.mode) /\ HasOwner(m, c.keystore, c.owner)
    [] c.kind = "java.keystore_remove" -> DOMAIN Entries(m, c) \cap c.aliases = {}

\* The rules, keys, jobs, packages... that the user does not name.
ToolsSpares(c, was, m) ==
  CASE c.kind = "tools.iptables" ->
         \A chain \in DOMAIN was[Iptables].chains : \A rule \in ToSet(was[Iptables].chains[chain]) :
           \/ rule \in ToSet(m[Iptables].chains[chain])
           \/ \E i \in DOMAIN c.rules : c.rules[i].chain = chain /\ c.rules[i].add = rule.add
    [] c.kind = "tools.sysctl" ->
         IsFile(was, c.target) =>
           \A pair \in ToSet(At(was, c.target).body) :
             \/ pair \in ToSet(At(m, c.target).body)
             \/ ~c.merge \/ (~c.comment /\ IsSysctlComment(pair))
             \/ \E i \in DOMAIN c.properties : c.properties[i][1] = pair[1]
    [] c.kind \in {"tools.cron.add", "tools.cron.remove"} ->
         StateOf(was, Crontab) # Absent =>
           \A job \in ToSet(was[Crontab].jobs) : job[2] = c.command \/ job \in ToSet(m[Crontab].jobs)
    [] c.kind \in {"tools.npm", "tools.apm", "tools.npm.upgrade", "tools.npm.uninstall", "tools.apm.uninstall"} ->
         \A n \in Libs(was) \ c.name : m[Lib(n)] = was[Lib(n)]
    [] c.kind \in {"tools.rubygems.install", "tools.rubygems.remove"} ->
         c.kind = "tools.rubygems.install" \/ c.version # Unset =>
           Versions(was, c.name) \ {c.version} \subseteq Versions(m, c.name)
    [] c.kind = "java.keystore_add" ->
         \A a \in DOMAIN Entries(was, c) :
           a \in {c.name, c.caname} \/ Len(c.cacert) > 1 \/ Entries(m, c)[a] = Entries(was, c)[a]
    [] c.kind = "java.keystore_remove" ->
         \A a \in DOMAIN Entries(was, c) \ c.aliases : Entries(m, c)[a] = Entries(was, c)[a]
    [] c.kind = "tools.ssh.keygen" -> IsFile(was, c.target) => m[c.target] = was[c.target]
    [] c.kind = "tools.backup" ->             \* the other backups, the source
         \A r \in DOMAIN was : ~IsPrefix(c.target \o <<c.name, c.filename>>, r) /\ There(was, r) => m[r] = was[r]
    [] c.kind \in {"tools.repo", "tools.compress", "tools.extract", "tools.git", "tools.dconf", "tools.gsettings",
                   "tools.rubygems.fetch"} -> TRUE

\* What the code does not give.
ToolsExcept(c, was) ==
  CASE c.kind = "tools.iptables" ->
         {"StatusTells", "Converges"}     \* the status is that of the service; rules are not saved after a cut
         \* a rule is taken for one that matches less
         \cup (IF \E i \in DOMAIN c.rules : \E chain \in DOMAIN was[Iptables].chains :
                     \E rule \in ToSet(was[Iptables].chains[chain]) :
                        \/ c.rules[i].add # rule.add /\ Fits(c.rules[i], rule)
                        \/ \E p \in rule.mod : \A q \in c.rules[i].mod : q[1] # p[1]
               THEN {"Delivers", "Converges", "LeavesTheRest"} ELSE {})
         \* the position of a rule is not that of when the rules were listed
         \cup (IF Len(c.rules) > 1 THEN {"Delivers", "Converges", "LeavesTheRest", "QuietAgain"} ELSE {})
    [] c.kind = "tools.repo" -> {"Converges"}          \* a key is not imported after a cut
    [] c.kind = "tools.sysctl" ->
         (IF c.load THEN {"Converges"} ELSE {})        \* not loaded after a cut
         \cup (IF c.merge THEN {} ELSE {"Delivers", "Converges", "QuietAgain"})
         \cup (IF \E i \in DOMAIN c.properties : c.properties[i][2] = Null THEN {"Delivers", "Converges"} ELSE {})
    [] c.kind = "tools.compress" ->
         {"StatusTells"} \cup (IF c.clean THEN {"QuietAgain", "Repairable"} ELSE {})
    [] c.kind \in {"tools.extract", "tools.gsettings", "tools.rubygems.fetch"} -> {"StatusTells"}
    [] c.kind = "tools.backup" ->             \* written again; a directory is copied into the one that is there
         (IF c.compress \/ c.command # NoText THEN {"StatusTells"} ELSE {})
         \cup (IF c.source # NoPath /\ IsDir(was, c.source) /\ ~c.compress
               THEN {"Converges", "QuietAgain"}
                    \cup (IF There(was, c.target \o <<c.name, c.filename>>) THEN {"Delivers"} ELSE {})
               ELSE {})
    [] c.kind = "tools.cron.add" ->
         IF StateOf(was, Crontab) # Absent
            /\ Cardinality({i \in DOMAIN was[Crontab].jobs : Finds(c.command, was[Crontab].jobs[i])}) > 0
         THEN {"LeavesTheRest"} ELSE {}
    [] c.kind = "tools.cron.remove" ->
         {"LeavesTheRest"}
         \cup (IF StateOf(was, Crontab) # Absent
                  /\ Cardinality({i \in DOMAIN was[Crontab].jobs : Finds(c.command, was[Crontab].jobs[i])}) > 1
               THEN {"Delivers", "Converges", "QuietAgain"} ELSE {})
    [] c.kind \in {"tools.npm", "tools.npm.upgrade", "tools.apm"} ->
         IF c.upgrade \/ c.kind = "tools.npm.upgrade" THEN {"LeavesTheRest"} ELSE {}
    [] c.kind = "tools.rubygems.install" -> IF c.version = SomeVersion THEN {"StatusTells"} ELSE {}
    [] c.kind = "tools.rubygems.remove" -> IF c.version = Unset THEN {} ELSE {"QuietAgain", "Repairable"}
    [] c.kind = "java.keystore_add" -> IF Len(c.cacert) > 1 THEN {"StatusTells"} ELSE {}
    [] c.kind = "tools.git" ->   \* what HEAD is at the source is not looked at
         IF c.revision = GitHead /\ Exists(was, c.target) THEN {"Delivers", "Converges"} ELSE {}
    [] c.kind \in {"tools.dconf", "tools.npm.uninstall", "tools.apm.uninstall",
                   "tools.ssh.keygen", "java.keystore_remove"} -> {}
=============================================================================
