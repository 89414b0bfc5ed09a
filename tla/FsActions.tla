------------------------------- MODULE FsActions -------------------------------
(***************************************************************************)
(* The actions of packages/core/lib/actions/fs, as effects on a file       *)
(* system.  A path is the sequence of the names that lead to it; a machine *)
(* maps the paths of interest to what is there.  An owner stands for the   *)
(* pair (uid, gid): both are compared and changed by the same code.        *)
(***************************************************************************)
EXTENDS Effects, FiniteSets

File(body, mode, owner) == [type |-> "file", body |-> body, mode |-> mode, owner |-> owner]
Dir(mode, owner)        == [type |-> "dir", mode |-> mode, owner |-> owner]
Link(dest)              == [type |-> "link", dest |-> dest]

Or(option, default) == IF option = Unset THEN default ELSE option

\* The content of a file is a sequence: words and ends of lines, or what a
\* format (module Ini and others) makes of it.  A file is truncated before
\* it is written.
Truncated == << >>

\* What commands create when they are not told otherwise.
FileMode == "644"
DirMode  == "755"
Me       == "root"

Dirname(p)  == Front(p)
Basename(p) == Last(p)
Within(m, p) == {q \in DOMAIN m : Len(q) > Len(p) /\ SubSeq(q, 1, Len(p)) = p}

\* What a command that follows links changes.
Real(m, p) == IF p \in DOMAIN m /\ m[p].type = "link" THEN m[p].dest ELSE p

At(m, p) == IF p = << >> THEN Dir(DirMode, Me) ELSE StateOf(m, Real(m, p))

Exists(m, p) == At(m, p) # Absent
IsDir(m, p)  == At(m, p).type = "dir"
IsFile(m, p) == At(m, p).type = "file"

-----------------------------------------------------------------------------
(* fs.base: one command each.                                              *)

\* `install -d` creates the missing parents with the default attributes.
BaseMkdir(m, p, mode, owner) ==
  IF Exists(m, p)
  THEN Throw
  ELSE Run([q \in {SubSeq(p, 1, i) : i \in {j \in 1..Len(p) : ~Exists(m, SubSeq(p, 1, j))}} |->
              IF q = p THEN Dir(Or(mode, DirMode), Or(owner, Me)) ELSE Dir(DirMode, Me)])

\* The target is truncated, then written.  The mode is that of a file the
\* stream creates.
BaseWriteFile(m, p, body, mode) ==
  IF ~IsDir(m, Dirname(p)) \/ IsDir(m, p)
  THEN Throw
  ELSE LET file(b) == IF IsFile(m, p) THEN [At(m, p) EXCEPT !.body = b]
                      ELSE File(b, Or(mode, FileMode), Me)
       IN  Write(Real(m, p) := file(Truncated)) \bullet Write(Real(m, p) := file(body))

\* The flag "a": a copy is appended to, then moved over the target.
BaseAppendFile(m, p, body) ==
  IF ~IsFile(m, p)
  THEN BaseWriteFile(m, p, body, Unset)
  ELSE Write(p := [At(m, p) EXCEPT !.body = @ \o body])

\* cp keeps the attributes of a file that exists.
BaseCopy(m, s, p) ==
  IF ~IsDir(m, Dirname(p)) \/ ~IsFile(m, s)
  THEN Throw
  ELSE LET file(b) == IF IsFile(m, p) THEN [At(m, p) EXCEPT !.body = b]
                      ELSE File(b, At(m, s).mode, Me)
       IN  Run(Real(m, p) := file(Truncated)) \bullet Run(Real(m, p) := file(At(m, s).body))

BaseChmod(m, p, mode) ==
  IF Exists(m, p) THEN Run(Real(m, p) := [At(m, p) EXCEPT !.mode = mode]) ELSE Throw

BaseChown(m, p, owner) ==
  IF Exists(m, p) THEN Run(Real(m, p) := [At(m, p) EXCEPT !.owner = owner]) ELSE Throw

\* `ln -sf` replaces a file, and puts the link in a directory.
BaseSymlink(m, s, p) ==
  Run((IF IsDir(m, p) THEN Append(p, Basename(s)) ELSE p) := Link(s))

BaseUnlink(m, p) ==
  IF Exists(m, p) /\ (IsDir(m, p) => m[p].type = "link") THEN Run(p := Absent) ELSE Throw

\* A path and what is there under it.
Below(m, p) == {p} \cup {q \in Within(m, p) : m[q] # Absent}

\* What is under one path, under another.
Rebased(q, from, to) == to \o SubSeq(q, Len(from) + 1, Len(q))

\* `mv`: what is under the source moves with it, into a target that is a
\* directory.
BaseRename(m, s, p) ==
  LET to == IF IsDir(m, p) THEN Append(p, Basename(s)) ELSE p
  IN  IF ~There(m, s) \/ ~IsDir(m, Dirname(p)) \/ to \in Below(m, s)
      THEN Throw
      ELSE Run([q \in Below(m, s) |-> Absent] ++ [q \in {Rebased(r, s, to) : r \in Below(m, s)} |-> m[Rebased(q, to, s)]])

BaseRmdir(m, p, recursive) ==
  IF ~IsDir(m, p) \/ (~recursive /\ \E q \in Within(m, p) : m[q] # Absent)
  THEN Throw
  ELSE Run([q \in {p} \cup Within(m, p) |-> Absent])

-----------------------------------------------------------------------------
(* The actions of users.  `stats` is what the caller already knows of the  *)
(* target, Absent when it does not.                                        *)

\* Faulty: does not compare before it changes.
FsChmodAlways(m, p, mode, stats) == BaseChmod(m, p, mode)

FsChmod(m, p, mode, stats) ==
  LET known == IF stats = Absent THEN At(m, p) ELSE stats
  IN  IF known = Absent THEN Throw ELSE When(known.mode # mode, BaseChmod(m, p, mode))

FsChown(m, p, owner, stats) ==
  LET known == IF stats = Absent THEN At(m, p) ELSE stats
  IN  IF known = Absent THEN Throw ELSE When(known.owner # owner, BaseChown(m, p, owner))

\* When the user gives a mode, or an owner.
Chmoded(m, p, mode, stats)  == When(mode # Unset, FsChmod(m, p, mode, stats))
Chowned(m, p, owner, stats) == When(owner # Unset, FsChown(m, p, owner, stats))

FsMkdir(m, c) ==
  LET creates == {j \in 1..Len(c.target) :
                    \A i \in j..Len(c.target) : ~Exists(m, SubSeq(c.target, 1, i))}
      first   == Len(c.target) - Cardinality(creates) + 1
      kept    == {j \in creates : \A i \in first..j : c.target[i] \notin c.exclude}
      dir(j)  == IF j = Len(c.target) THEN Dir(Or(c.mode, DirMode), Or(c.owner, Me))
                                      ELSE Dir(Or(c.parent, DirMode), Me)
  IN  IF first > 1 /\ ~IsDir(m, SubSeq(c.target, 1, first - 1))
      THEN Throw
      ELSE IF creates # {}
      THEN [do     |-> [i \in 1..Cardinality(kept) |->
                          SubSeq(c.target, 1, first + i - 1) := dir(first + i - 1)],
            status |-> kept # {},
            fails  |-> FALSE]
      ELSE When(c.force,
             Then(m, Chowned(m, c.target, c.owner, At(m, c.target)), LAMBDA n :
               Chmoded(n, c.target, c.mode, At(m, c.target))))

Directory(target) ==
  [target |-> target, mode |-> Unset, owner |-> Unset, parent |-> Unset,
   force |-> FALSE, exclude |-> {}]

\* rm -d [-r] of every path the pattern matches.
FsRemove(m, p, recursive) ==
  CASE ~Exists(m, p)                -> Nothing
    [] IsDir(m, p)                  -> BaseRmdir(m, p, recursive)
    [] Exists(m, p) /\ ~IsDir(m, p) -> Run(p := Absent)

(***************************************************************************)
(* A hash is told by the contents that are hashed, each as often as it is  *)
(* found: the hash of a directory is that of its file when it has one,     *)
(* that of an empty file when it has none.                                 *)
(***************************************************************************)
HashOf(body) == body := 1

Hash(m, p) ==
  LET files == IF IsFile(m, p) THEN {p} ELSE {q \in Within(m, p) : IsFile(m, q)}
  IN  IF files = {} THEN HashOf(Truncated)
      ELSE [body \in {At(m, q).body : q \in files} |-> Cardinality({q \in files : At(m, q).body = body})]

Replace(m, s, p) ==
  LET removed == FsRemove(m, p, FALSE)
  IN  Then(m, removed, LAMBDA n : BaseRename(n, s, p))

FsMove(m, c) ==
  CASE ~Exists(m, c.target) ->
         Returns(BaseRename(m, c.source, c.target), TRUE)
    [] Exists(m, c.target) /\ c.force ->
         Returns(Replace(m, c.source, c.target), TRUE)
    [] Exists(m, c.target) /\ ~c.force ->
         IF ~Exists(m, c.source) THEN Throw
         ELSE IF Hash(m, c.source) = Hash(m, c.target)
              THEN Returns(FsRemove(m, c.source, FALSE), FALSE)
              ELSE Replace(m, c.source, c.target)

\* The script written for the option `exec`.
Script(source) == <<"exec">> \o source

FsLink(m, c) ==
  LET parent == IF IsDir(m, Dirname(c.target)) THEN Nothing
                ELSE BaseMkdir(m, Dirname(c.target), Unset, Unset)
      m1     == After(m, parent)
      isLink == c.target \in DOMAIN m1 /\ m1[c.target].type = "link"
      clear  == When(isLink, Relaxed(BaseUnlink(m1, c.target)))
      parsed == IsFile(m1, c.target) /\ At(m1, c.target).body \in {Script(s) : s \in DOMAIN m1}
      script == BaseWriteFile(m1, c.target, Script(c.source), Unset)
      mod    == BaseChmod(After(m1, script), c.target, c.mode)
  IN  CASE c.exec /\ Exists(m1, c.target) /\ ~parsed ->
             parent \bullet Throw          \* `exec_command` of null
        [] c.exec /\ parsed /\ At(m1, c.target).body = Script(c.source) ->
             parent
        [] c.exec /\ (parsed => At(m1, c.target).body # Script(c.source))
                  /\ (Exists(m1, c.target) => parsed) ->
             Returns(parent \bullet script \bullet mod, TRUE)
        [] ~c.exec /\ isLink /\ m1[c.target].dest = c.source ->
             parent
        [] ~c.exec /\ ~(isLink /\ m1[c.target].dest = c.source) ->
             Returns(parent \bullet clear
                       \bullet BaseSymlink(After(m1, clear), c.source, c.target), TRUE)

-----------------------------------------------------------------------------
(* fs.copy.                                                                *)

Duplicate(source, target) ==
  [source |-> source, target |-> target, mode |-> Unset, owner |-> Unset,
   parent |-> TRUE, preserve |-> FALSE, slash |-> FALSE]

CopyTarget(m, s, target) == IF IsDir(m, target) THEN Append(target, Basename(s)) ELSE target

CopyContent(m, s, p) == When(~Exists(m, p) \/ Hash(m, s) # Hash(m, p), BaseCopy(m, s, p))

Preserved(c, option, value) == IF c.preserve THEN Or(option, value) ELSE option

\* Faulty: the owner and the mode are not applied to a file that is copied.
FsCopyFileContent(m, s, target, c) == CopyContent(m, s, CopyTarget(m, s, target))

(***************************************************************************)
(* A file: its directory, its content, its owner, its mode.  `known` is    *)
(* the target as it was looked up first: the directory, when the source is *)
(* copied into one.                                                        *)
(***************************************************************************)
FsCopyFile(m, s, target, c) ==
  LET known == At(m, target)
      p     == CopyTarget(m, s, target)
  IN  Then(m, When(c.parent /\ known = Absent, Shy(FsMkdir(m, Directory(Dirname(target))))), LAMBDA m1 :
        Then(m1, CopyContent(m1, s, p), LAMBDA m2 :
          Then(m2, Chowned(m2, p, Preserved(c, c.owner, At(m, s).owner), known), LAMBDA m3 :
            Chmoded(m3, p, Preserved(c, c.mode, At(m, s).mode), known))))

\* Every entry of a directory, parents first.  An entry is looked up before
\* it is copied, so that a copy of a directory is never asked for again.
FsCopyTree(m, s, target, c) ==
  LET entries == SetToSortSeq({q \in Within(m, s) : m[q] # Absent},
                              LAMBDA q, r : Len(q) < Len(r))
      entry(e, q) ==
        LET to    == target \o SubSeq(q, Len(s) + 1, Len(q))
            mode  == Preserved(c, c.mode, At(m, q).mode)
            owner == Preserved(c, c.owner, At(m, q).owner)
        IN  Then(m, e, LAMBDA n :
              CASE ~Exists(m, q) -> Throw
                [] IsDir(m, q)   -> FsMkdir(n, [Directory(to) EXCEPT !.mode = mode, !.owner = owner])
                [] IsFile(m, q)  -> FsCopyFile(n, q, to, [Duplicate(q, to) EXCEPT !.mode = mode, !.owner = owner]))
  IN  FoldLeft(entry, Nothing, entries)

FsCopy(m, c) ==
  LET into == IF Exists(m, c.target) /\ ~c.slash
              THEN Append(c.target, Basename(c.source)) ELSE c.target
  IN  CASE ~Exists(m, c.source) -> Throw
        [] IsDir(m, c.source)   -> 
             Then(m, When(c.parent /\ ~Exists(m, c.target), Shy(FsMkdir(m, Directory(Dirname(c.target))))),
                  LAMBDA n : FsCopyTree(n, c.source, into, c))
        [] IsFile(m, c.source)  -> FsCopyFile(m, c.source, c.target, c)

-----------------------------------------------------------------------------
(* What a user may ask, from the schemas.                                  *)

Path   == Seq(STRING)
Option == STRING            \* a mode, an owner, or Unset

ChmodConfig  == [kind : {"fs.chmod"}, target : Path, mode : Option]
ChownConfig  == [kind : {"fs.chown"}, target : Path, owner : Option]
MkdirConfig  == [kind : {"fs.mkdir"}, target : Path, mode : Option, owner : Option,
                 parent : Option, force : BOOLEAN, exclude : SUBSET STRING]
RemoveConfig == [kind : {"fs.remove"}, target : Path, recursive : BOOLEAN]
MoveConfig   == [kind : {"fs.move"}, source : Path, target : Path, force : BOOLEAN]
LinkConfig   == [kind : {"fs.link"}, source : Path, target : Path, exec : BOOLEAN, mode : Option]
CopyConfig   == [kind : {"fs.copy"}, source : Path, target : Path, mode : Option, owner : Option,
                 parent : BOOLEAN, preserve : BOOLEAN, slash : BOOLEAN]

IsFsConfig(c) ==
  \/ c \in ChmodConfig \/ c \in ChownConfig \/ c \in MkdirConfig \/ c \in RemoveConfig
  \/ c \in MoveConfig \/ c \in LinkConfig \/ c \in CopyConfig

FsKinds == {"fs.chmod", "fs.chown", "fs.mkdir", "fs.remove", "fs.move", "fs.link", "fs.copy"}

FsHandler(c, m) ==
  CASE c.kind = "fs.chmod"  -> FsChmod(m, c.target, c.mode, Absent)
    [] c.kind = "fs.chown"  -> FsChown(m, c.target, c.owner, Absent)
    [] c.kind = "fs.mkdir"  -> FsMkdir(m, c)
    [] c.kind = "fs.remove" -> FsRemove(m, c.target, c.recursive)
    [] c.kind = "fs.move"   -> FsMove(m, c)
    [] c.kind = "fs.link"   -> FsLink(m, c)
    [] c.kind = "fs.copy"   -> FsCopy(m, c)

(***************************************************************************)
(* What they promise, from what the machine was and what it has become.    *)
(***************************************************************************)
HasMode(m, p, mode)   == mode # Unset => At(m, p).mode = mode
HasOwner(m, p, owner) == owner # Unset => At(m, p).owner = owner

\* The file at `p` is what the source was, with the attributes asked for.
IsCopy(was, m, s, p, c) ==
  /\ IsFile(m, p)
  /\ At(m, p).body = At(was, s).body
  /\ HasMode(m, p, IF c.preserve THEN Or(c.mode, At(was, s).mode) ELSE c.mode)
  /\ HasOwner(m, p, IF c.preserve THEN Or(c.owner, At(was, s).owner) ELSE c.owner)

FsGoal(c, was, m) ==
  CASE c.kind = "fs.chmod"  -> HasMode(m, c.target, c.mode)
    [] c.kind = "fs.chown"  -> HasOwner(m, c.target, c.owner)
    [] c.kind = "fs.mkdir"  ->
         /\ c.exclude = {} => IsDir(m, c.target)
         /\ (c.exclude = {} /\ (c.force \/ ~Exists(was, c.target)))
              => HasMode(m, c.target, c.mode) /\ HasOwner(m, c.target, c.owner)
    [] c.kind = "fs.remove" -> ~Exists(m, c.target)
    [] c.kind = "fs.move"   ->
         /\ ~Exists(m, c.source)
         /\ \/ \A q \in Below(was, c.source) : StateOf(m, Rebased(q, c.source, c.target)) = was[q]
            \/ Exists(was, c.target) /\ Hash(was, c.source) = Hash(was, c.target)
    [] c.kind = "fs.link"   ->
         IF c.exec THEN At(m, c.target) = File(Script(c.source), c.mode, Me)
                   ELSE m[c.target] = Link(c.source)
    [] c.kind = "fs.copy"   ->
         LET into == IF Exists(was, c.target) /\ (IsFile(was, c.source) => IsDir(was, c.target))
                        /\ (IsDir(was, c.source) => ~c.slash)
                     THEN Append(c.target, Basename(c.source)) ELSE c.target
         IN  IF IsFile(was, c.source)
             THEN IsCopy(was, m, c.source, into, c)
             ELSE \A q \in Within(was, c.source) :
                    IsFile(was, q) => IsCopy(was, m, q, into \o SubSeq(q, Len(c.source) + 1, Len(q)), c)

\* What the code does not give.
FsExcept(c, was) ==
  CASE c.kind \in {"fs.chmod", "fs.chown", "fs.mkdir", "fs.remove"} -> {}
    [] c.kind = "fs.move" -> {"StatusTells", "QuietAgain", "Repairable"}   \* the source is gone
    [] c.kind = "fs.link" /\ c.exec -> {"Converges", "Repairable"}   \* a script which is cut cannot be parsed
    [] c.kind = "fs.link" /\ ~c.exec ->   \* in a directory, the link is put into it
         IF StateOf(was, c.target).type = "dir" THEN {"Delivers", "Converges", "StatusTells"} ELSE {}
    [] c.kind = "fs.copy" ->
         CASE IsFile(was, c.source) /\ IsDir(was, c.target) ->
                {"Delivers", "Converges", "StatusTells"}   \* the attributes are compared with those of the directory
           [] IsDir(was, c.source) /\ ~c.slash /\ ~Exists(was, c.target) ->
                {"Converges", "QuietAgain"}                \* the next run copies into what this one made
           [] OTHER -> {}
=============================================================================
