------------------------------ MODULE FileFormats ------------------------------
(***************************************************************************)
(* The actions of packages/file that write a file in a format: json, yaml, *)
(* cson, properties, ini and the types.  They read the file, merge it with *)
(* the content they are given and let `file` write the result.             *)
(***************************************************************************)
EXTENDS FileActions, Ini

\* json, yaml, cson, properties and xml: one line for every key.
Document(tree) == SetToSeq({<<p, tree[p]>> : p \in DOMAIN tree})
Tree(body) ==
  [p \in {body[i][1] : i \in DOMAIN body} |-> (CHOOSE line \in ToSet(body) : line[1] = p)[2]]

\* The action `file` with the options the formats pass on.
Written(m, c, text) ==
  FileWrite(m, [Plain(c.target, text) EXCEPT !.backup = c.backup, !.mode = c.mode, !.owner = c.owner])

\* Faulty: the content replaces what the file holds.
FileJsonOver(m, c) == Written(m, c, Document(c.content))

\* An empty file is not a document: JSON.parse throws.
FileJson(m, c) ==
  LET read(p) == Tree(At(m, p).body)
      there   == c.merge /\ Exists(m, c.target)
      old     == IF there THEN Merge(read(c.target), c.content) ELSE c.content
      all     == IF c.source # NoPath THEN Merge(read(c.source), old) ELSE old
      parses(p) == IsFile(m, p) /\ At(m, p).body # Truncated
  IN  IF (there /\ ~parses(c.target)) \/ (c.source # NoPath /\ ~parses(c.source))
      THEN Throw
      ELSE Written(m, c, Document(all))

\* `file` refuses a source next to the content it is passed.
FileYaml(m, c) ==
  LET old   == IF c.merge /\ IsFile(m, c.target) THEN Tree(At(m, c.target).body) ELSE << >>
      all   == Merge(old, c.content)
  IN  IF (c.merge /\ IsDir(m, c.target)) \/ c.source # NoPath
      THEN Throw
      ELSE Written(m, c, Document(IF c.clean THEN Clean(all) ELSE all))

FileCson(m, c) ==
  LET old == IF c.merge /\ IsFile(m, c.target) THEN Tree(At(m, c.target).body) ELSE << >>
  IN  IF c.merge /\ IsDir(m, c.target) THEN Throw ELSE Written(m, c, Document(Merge(old, c.content)))

FilePropertiesRead(m, p) == IF IsFile(m, p) THEN Tree(At(m, p).body) ELSE << >>

(***************************************************************************)
(* The status is that of the comparison of the properties, `file` is shy:  *)
(* a key that is only removed is not told.  The owner and the mode are set *)
(* by actions that are not registered.                                     *)
(***************************************************************************)
FileProperties(m, c) ==
  LET org     == FilePropertiesRead(m, c.target)
      new     == c.content
      differs == {p \in DOMAIN new : p \notin DOMAIN org \/ org[p] # new[p]}
  IN  IF IsDir(m, c.target)
      THEN Throw
      ELSE Returns(Nothing, \E p \in differs : new[p] # Null)
           \bullet Shy(FileWrite(m, [Plain(c.target, Document(IF c.merge THEN Merge(org, new) ELSE new))
                                       EXCEPT !.backup = c.backup]))
           \bullet When(c.mode # Unset \/ c.owner # Unset, Throw)

\* A target or a source that does not exist is empty.
FileIniRead(m, c, p) == IF p # NoPath /\ IsFile(m, p) THEN Parse(c.parse, At(m, p).body) ELSE Parsing

FileIniWrite(m, c, old, source) ==
  LET asked == Merge(source.tree, c.content)
      all   == IF c.merge THEN Merge(old.tree, asked) ELSE asked
  IN  IF IsDir(m, c.target) \/ old.fails \/ source.fails
      THEN Throw
      ELSE Written(m, c, Dump(c.stringify, IF c.clean THEN Clean(all) ELSE all))

FileIni(m, c) == FileIniWrite(m, c, FileIniRead(m, c, c.target), FileIniRead(m, c, c.source))

-----------------------------------------------------------------------------
(* The types.                                                              *)

\* The options of all of them, when the user gives the content only.
FormatDefaults(kind, target, content) ==
  [kind |-> kind, target |-> target, content |-> content, source |-> NoPath, merge |-> FALSE,
   clean |-> kind \notin {"file.yaml"}, backup |-> Unset, mode |-> Unset, owner |-> Unset,
   rootdir |-> NoPath, parse |-> "ini", stringify |-> "ini", reload |-> Unset]

In(c, dir) == [c EXCEPT !.target = dir \o @]
As(c, parse, stringify) == [c EXCEPT !.parse = parse, !.stringify = stringify]

CephConf(c)      == As(In(c, c.rootdir), "multi_brackets", "ini")
Krb5Conf(c)      == As(c, "brackets_then_curly", "brackets_then_curly")
MyCnf(c)         == As(c, "ini", "single_key")
PacmanConf(c)    == As(In(c, c.rootdir), "ini", "single_key")
WireguardConf(c) == As(In(c, c.rootdir), "multi_brackets", "multi_brackets")
YumRepo(c)       == As(In(c, <<"etc">>), "multi_brackets", "ini")

\* A daemon that runs with the configuration it has read.
Daemon(name)  == <<"daemon", name>>
Reads(config) == [type |-> "daemon", config |-> config]

(***************************************************************************)
(* The content goes under one section, and of the other options only the   *)
(* merge is passed on; the daemon is restarted when the file was written   *)
(* or when the user wants it.  The output is that of the restart.          *)
(***************************************************************************)
Beneath(section, tree) == [p \in {section \o q : q \in DOMAIN tree} |-> tree[SubSeq(p, Len(section) + 1, Len(p))]]

SystemdConf(m, c, name, section, reload) ==
  LET target == c.rootdir \o c.target
      ini    == [FormatDefaults("file.ini", target, (section :> Obj) @@ Beneath(section, c.content))
                  EXCEPT !.merge = c.merge]
      restart(n)    == Run(Daemon(name) :> Reads(At(n, target).body))
      output(write) ==
        LET again == IF reload = Unset THEN write.status ELSE reload = "yes"
        IN  Returns(Then(m, write, LAMBDA n : When(again, restart(n))), again)
  IN  output(FileIni(m, ini))

\* An option of type boolean with null as its default: when the user does not
\* give it, the schema converts null to false.
Coerced(option) == IF option = Unset THEN "no" ELSE option

Timesyncd(m, c) == SystemdConf(m, c, "timesyncd", <<"Time">>, c.reload)
Resolved(m, c)  == SystemdConf(m, c, "resolved", <<"Resolve">>, Coerced(c.reload))

(***************************************************************************)
(* /etc/locale.gen has a line for every locale, a comment when it is not   *)
(* wanted; what locale-gen builds is a resource of its own.                *)
(***************************************************************************)
Locales == <<"locales">>

LocaleGen(m, c) ==
  LET p      == c.rootdir \o c.target
      old    == At(m, p).body
      new    == [i \in DOMAIN old |-> <<old[i][1], old[i][1] \in c.locales>>]
      status == \E i \in DOMAIN old : old[i] # new[i]
      write  == When(status, BaseWriteFile(m, p, new, Unset))
      built  == [type |-> "built", locales |-> {new[i][1] : i \in {j \in DOMAIN new : new[j][2]}}]
      again  == Coerced(c.generate) = "yes"
  IN  IF ~IsFile(m, p)
      THEN Throw
      ELSE Returns(write \bullet When(again, Run(Locales :> built)), status \/ again)

\* Every key is a line of its own.
SshAuthorizedKeys(m, c) ==
  LET line(key) == [match |-> {key}, replace |-> key, append |-> Always, place_before |-> Unset,
                    from |-> Unset, to |-> Unset]
      lines     == [i \in DOMAIN c.keys |-> line(c.keys[i])]
      joined    == FlattenSeq([i \in DOMAIN c.keys |->
                                 IF i = 1 THEN <<c.keys[i]>> ELSE <<NL, c.keys[i]>>])
  IN  IF ~Exists(m, Dirname(c.target))
      THEN Throw
      ELSE FileWrite(m, IF c.merge
                        THEN [Plain(c.target, NoText) EXCEPT !.write = lines, !.eof = TRUE,
                                                             !.mode = c.mode, !.owner = c.owner]
                        ELSE [Plain(c.target, joined) EXCEPT !.eof = TRUE,
                                                             !.mode = c.mode, !.owner = c.owner])

(***************************************************************************)
(* The target is always parsed, and an empty file is not XML.  The option  *)
(* `source` reads the target.                                              *)
(***************************************************************************)
Hfile(m, c) ==
  LET org  == IF IsFile(m, c.target) THEN Tree(At(m, c.target).body) ELSE << >>
      kept == IF c.merge \/ c.source # NoPath THEN org ELSE << >>
      all  == Clean(Merge(kept, c.content))
  IN  CASE Exists(m, c.target) /\ (IsDir(m, c.target) \/ At(m, c.target).body = Truncated) -> Throw
        [] ~Exists(m, c.target) /\ c.source # NoPath -> Throw
        [] OTHER -> Written(m, c, Document(all))

-----------------------------------------------------------------------------
(* What a user may ask, from the schemas.                                  *)

IsTree(tree) ==
  \A p \in DOMAIN tree : /\ p \in Seq(STRING) \ {<< >>}
                         /\ tree[p] \in STRING
                         /\ Len(p) > 1 => Front(p) \in DOMAIN tree /\ tree[Front(p)] = Obj

Documents == {"file.json", "file.yaml", "file.cson", "file.properties", "file.types.hfile"}
IniTypes  == {"file.types.ceph_conf", "file.types.krb5_conf", "file.types.my_cnf",
              "file.types.pacman_conf", "file.types.wireguard_conf", "file.types.yum_repo"}
Daemons   == {"file.types.systemd.timesyncd", "file.types.systemd.resolved"}
FormatKinds ==
  Documents \cup IniTypes \cup Daemons
  \cup {"file.ini", "file.types.locale_gen", "file.types.ssh_authorized_keys"}

LocaleGenConfig ==
  [kind : {"file.types.locale_gen"}, target : Path, rootdir : Path, locales : SUBSET STRING,
   generate : {Unset, "yes", "no"}]
SshAuthorizedKeysConfig ==
  [kind : {"file.types.ssh_authorized_keys"}, target : Path, keys : Text, merge : BOOLEAN,
   mode : Option, owner : Option]

IsFormatConfig(c) ==
  CASE c.kind = "file.types.locale_gen"          -> c \in LocaleGenConfig
    [] c.kind = "file.types.ssh_authorized_keys" -> c \in SshAuthorizedKeysConfig
    [] c.kind \in Documents \cup IniTypes \cup Daemons \cup {"file.ini"} ->
         /\ IsTree(c.content) /\ {c.merge, c.clean} \subseteq BOOLEAN
         /\ {c.target, c.source, c.rootdir} \subseteq Path
         /\ {c.backup, c.mode, c.owner} \subseteq Option
         /\ c.parse \in {"ini", "brackets_then_curly", "multi_brackets", "multi_lines"}
         /\ c.stringify \in {"ini", "single_key", "brackets_then_curly", "multi_brackets"}
         /\ c.reload \in {Unset, "yes", "no"}
         /\ c.kind \in Daemons => {c.backup, c.mode, c.owner} = {Unset} /\ c.source = NoPath /\ c.clean

\* What file.ini is asked by the actions that are a file.ini.
IniOf(c) ==
  CASE c.kind = "file.ini"                  -> c
    [] c.kind = "file.types.ceph_conf"      -> CephConf(c)
    [] c.kind = "file.types.krb5_conf"      -> Krb5Conf(c)
    [] c.kind = "file.types.my_cnf"         -> MyCnf(c)
    [] c.kind = "file.types.pacman_conf"    -> PacmanConf(c)
    [] c.kind = "file.types.wireguard_conf" -> WireguardConf(c)
    [] c.kind = "file.types.yum_repo"       -> YumRepo(c)

FormatHandler(c, m) ==
  CASE c.kind = "file.json"        -> FileJson(m, c)
    [] c.kind = "file.yaml"        -> FileYaml(m, c)
    [] c.kind = "file.cson"        -> FileCson(m, c)
    [] c.kind = "file.properties"  -> FileProperties(m, c)
    [] c.kind \in IniTypes \cup {"file.ini"} -> FileIni(m, IniOf(c))
    [] c.kind = "file.types.hfile"          -> Hfile(m, c)
    [] c.kind = "file.types.systemd.timesyncd"   -> Timesyncd(m, c)
    [] c.kind = "file.types.systemd.resolved"    -> Resolved(m, c)
    [] c.kind = "file.types.locale_gen"          -> LocaleGen(m, c)
    [] c.kind = "file.types.ssh_authorized_keys" -> SshAuthorizedKeys(m, c)

(***************************************************************************)
(* What they promise, and what they leave.  Effective is the path that is  *)
(* written, with the format it is read in.                                 *)
(***************************************************************************)
Effective(c) ==
  CASE c.kind \in Documents -> [path |-> c.target, parse |-> "document"]
    [] c.kind = "file.ini"  -> [path |-> c.target, parse |-> c.parse]
    [] c.kind = "file.types.krb5_conf" -> [path |-> c.target, parse |-> "brackets_then_curly"]
    [] c.kind = "file.types.yum_repo"  -> [path |-> <<"etc">> \o c.target, parse |-> "multi_brackets"]
    [] c.kind \in {"file.types.ceph_conf", "file.types.wireguard_conf"} ->
         [path |-> c.rootdir \o c.target, parse |-> "multi_brackets"]
    [] c.kind = "file.types.my_cnf" -> [path |-> c.target, parse |-> "ini"]
    [] c.kind \in Daemons \cup {"file.types.pacman_conf"} -> [path |-> c.rootdir \o c.target, parse |-> "ini"]

TreeAt(m, e) ==
  CASE ~IsFile(m, e.path) -> << >>
    [] IsFile(m, e.path) /\ e.parse = "document" -> Tree(At(m, e.path).body)
    [] IsFile(m, e.path) /\ e.parse # "document" -> Parse(e.parse, At(m, e.path).body).tree

\* What a value may be read as: true is a word in some formats.
SameValue(old, new) == IF old = True THEN new \in {True, "true", Null} ELSE new = old

\* The content, where the file has it.
Placed(c) ==
  CASE c.kind = "file.types.systemd.timesyncd" -> Beneath(<<"Time">>, c.content)
    [] c.kind = "file.types.systemd.resolved"  -> Beneath(<<"Resolve">>, c.content)
    [] c.kind \notin Daemons                   -> c.content

\* Its keys with the values a file keeps.
Asked(c) ==
  [p \in {q \in DOMAIN Placed(c) : Placed(c)[q] \notin {Obj, Null, False}} |-> Placed(c)[p]]

FormatGoal(c, was, m) ==
  CASE c.kind = "file.types.locale_gen" ->
         LET body == At(m, c.rootdir \o c.target).body
         IN  /\ \A i \in DOMAIN body : body[i][2] <=> body[i][1] \in c.locales
             /\ c.generate # "no" /\ m # was =>
                  StateOf(m, Locales) = [type |-> "built",
                        locales |-> {body[i][1] : i \in {j \in DOMAIN body : body[j][2]}}]
    [] c.kind = "file.types.ssh_authorized_keys" ->
         \A i \in DOMAIN c.keys : LinesOf(At(m, c.target).body, c.keys[i]) # {}
    [] c.kind \in Documents \cup IniTypes \cup Daemons \cup {"file.ini"} ->
         /\ \A p \in DOMAIN Asked(c) :
              p \in DOMAIN TreeAt(m, Effective(c)) /\ SameValue(Asked(c)[p], TreeAt(m, Effective(c))[p])
         /\ c.source # NoPath =>
              LET given == TreeAt(was, [Effective(c) EXCEPT !.path = c.source])
              IN  \A p \in DOMAIN given :
                    \/ given[p] \in {Obj, Null, False}
                    \/ \E q \in DOMAIN c.content : q = p \/ Under(q, p) \/ Under(p, q)
                    \/ p \in DOMAIN TreeAt(m, Effective(c)) /\ SameValue(given[p], TreeAt(m, Effective(c))[p])
         /\ HasAttributes(c, m, Effective(c).path)
         /\ c.kind \in Daemons /\ c.reload # "no" /\ At(m, Effective(c).path) # At(was, Effective(c).path) =>
              StateOf(m, Daemon(IF c.kind = "file.types.systemd.resolved" THEN "resolved" ELSE "timesyncd"))
                = Reads(At(m, Effective(c).path).body)

\* A merge keeps the other keys.
FormatSpares(c, was, m) ==
  CASE c.kind = "file.types.locale_gen" -> TRUE
    [] c.kind = "file.types.ssh_authorized_keys" ->
         c.merge /\ IsFile(was, c.target) =>
           \A w \in ToSet(At(was, c.target).body) : w \in ToSet(At(m, c.target).body)
    [] c.kind \in Documents \cup IniTypes \cup Daemons \cup {"file.ini"} ->
         LET old == TreeAt(was, Effective(c))
             new == TreeAt(m, Effective(c))
             gone(p) == \E q \in DOMAIN Placed(c) : q = p \/ Under(q, p) \/ Under(p, q)
         IN  c.merge =>
               \A p \in DOMAIN old : gone(p) \/ old[p] = Obj
                                     \/ (c.clean /\ old[p] = Null)
                                     \/ (p \in DOMAIN new /\ SameValue(old[p], new[p]))

\* What the code does not give.
FormatExcept(c) ==
  CASE c.kind = "file.json" -> IF c.merge THEN {"Repairable"} ELSE {}
    [] c.kind = "file.types.hfile" ->
         {"Repairable"} \cup (IF c.source # NoPath THEN {"Delivers", "Converges"} ELSE {})
    [] c.kind = "file.properties" -> IF c.merge THEN {} ELSE {"StatusTells"}
    [] c.kind \in Daemons /\ c.reload # Unset           -> {"StatusTells"}
    [] c.kind = "file.types.systemd.timesyncd" /\ c.reload = Unset ->
         {"Converges"}                             \* not restarted after a cut
    [] c.kind = "file.types.systemd.resolved" /\ c.reload = Unset ->
         {"Delivers", "Converges", "StatusTells"}  \* never restarted, and the output says so
    [] c.kind = "file.types.locale_gen" /\ c.generate = Unset ->
         {"Delivers", "Converges"}                 \* locale-gen is never run
    [] c.kind = "file.types.locale_gen" /\ c.generate = "yes" -> {"StatusTells"}
    [] c.kind = "file.types.locale_gen" /\ c.generate = "no"  -> {}
    [] c.kind \in {"file.types.ceph_conf", "file.types.yum_repo"} ->
         \* a section in a section is read as a section with a dot in its name
         IF \E p \in DOMAIN c.content : Len(p) > 2 THEN {"Delivers", "Converges", "QuietAgain"} ELSE {}
    [] c.kind = "file.types.krb5_conf" ->   \* a word gets the value null
         IF c.clean THEN {} ELSE {"LeavesTheRest"}
    [] c.kind \in {"file.types.my_cnf", "file.types.pacman_conf", "file.types.wireguard_conf",
                  "file.yaml", "file.cson", "file.ini", "file.types.ssh_authorized_keys"} -> {}
=============================================================================
