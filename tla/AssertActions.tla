----------------------------- MODULE AssertActions -----------------------------
(***************************************************************************)
(* The actions that change nothing and fail when what they are told of the *)
(* machine is not so: assert, fs.assert, execute.assert.                   *)
(* `not` "negates the validation" (packages/core/lib/actions/assert.js:104).*)
(***************************************************************************)
EXTENDS FileActions

Program(name) == <<"command", name>>     \* its exit code and its output

\* Spaces are removed at both ends.
Trim(text) ==
  LET kept == {i \in DOMAIN text : text[i] # NL}
  IN  IF kept = {} THEN << >> ELSE SubSeq(text, Min(kept), Max(kept))

-----------------------------------------------------------------------------
(* assert: what a handler returned.                                        *)

Returned == {"undefined", "null", "true", "false", "0", "1", "-1", "''", "'x'", "{}", "{k}", "function"}

Cast(v) == v \in {"true", "1", "-1", "'x'", "{k}"}

IsTrue(v, strict) == IF strict THEN v = "true" ELSE Cast(v)

AssertOutput(c) ==
  IF \/ ~c.strict /\ "function" \in ToSet(c.output)
     \/ \E v \in ToSet(c.output) : IsTrue(v, c.strict) = c.not
  THEN Throw ELSE Nothing

-----------------------------------------------------------------------------
(* fs.assert: each of these holds, or the action throws.                   *)

\* The file must exist, or not, when nothing else tells that it is read.
FsAssertExists(m, c) ==
  (c.content = NoText /\ c.md5 = NoText /\ c.mode = {}) => Exists(m, c.target) # c.not

\* lstat, whatever `not` is: the file is of every type of the list.
FsAssertFiletype(m, c) ==
  c.filetype # {} =>
    Exists(m, c.target) /\ \A type \in c.filetype : m[c.target].type = type

Filtered(m, c) ==
  LET data == SelectSeq(At(m, c.target).body, LAMBDA w : w \notin c.filter)
  IN  IF c.trim THEN Trim(data) ELSE data

Occurs(text, data) == \E i \in 0..(Len(data) - Len(text)) : SubSeq(data, i + 1, i + Len(text)) = text

\* The content is a text, or an expression which is found in it.
FsAssertContent(m, c) ==
  c.content # NoText =>
    /\ IsFile(m, c.target)
    /\ c.not # IF c.regexp THEN Occurs(c.content, Filtered(m, c))
               ELSE Filtered(m, c) = (IF c.trim THEN Trim(c.content) ELSE c.content)

FsAssertHash(m, c) ==
  c.md5 # NoText =>
    /\ Exists(m, c.target)
    /\ c.not # (Hash(m, c.target) = HashOf(c.md5))

\* The uid is that of a link, the gid is that of what it leads to.
LinkOwner(m, p) == IF m[p].type = "link" THEN Me ELSE m[p].owner

FsAssertUid(m, c) == c.uid # Unset => Exists(m, c.target) /\ (LinkOwner(m, c.target) = c.uid) # c.not
FsAssertGid(m, c) == c.gid # Unset => Exists(m, c.target) /\ (At(m, c.target).owner = c.gid) # c.not

FsAssertMode(m, c) == c.mode # {} => Exists(m, c.target) /\ (At(m, c.target).mode \in c.mode) # c.not

\* What reads the file tells nothing.
FsAssert(m, c) ==
  IF /\ FsAssertExists(m, c) /\ FsAssertFiletype(m, c) /\ FsAssertContent(m, c) /\ FsAssertHash(m, c)
     /\ FsAssertUid(m, c) /\ FsAssertGid(m, c) /\ FsAssertMode(m, c)
  THEN Nothing
  ELSE Throw

-----------------------------------------------------------------------------
(* execute.assert                                                          *)

\* An empty content does not count.
Codes(c) == IF c.code = << >> /\ c.content \in {NoText, << >>} THEN <<0>> ELSE c.code

Exit(m, c)   == m[Program(c.command)].code
Stdout(m, c) == LET out == m[Program(c.command)].out IN IF c.trim THEN Trim(out) ELSE out

\* The command fails for a code which is not listed; the first one tells true.
Executed(m, c) ==
  LET codes == IF Codes(c) = << >> THEN <<0>> ELSE Codes(c)
  IN  IF Exit(m, c) \in ToSet(codes) THEN Returns(Nothing, Exit(m, c) = Head(codes)) ELSE Throw

Expected(c) == IF c.trim /\ c.content # NoText THEN Trim(c.content) ELSE c.content

\* It is run once for its code, relaxed, and once for its output.  An
\* expression has no method `trim`.
ExecuteAssert(m, c) ==
  When(c.regexp /\ c.trim, Throw)
    \bullet
  When(Codes(c) # << >>,
       Relaxed(Executed(m, c)) \bullet When((Exit(m, c) \in ToSet(Codes(c))) = c.not, Throw))
    \bullet
  When(c.content # NoText,
       Executed(m, c) \bullet
         When((IF c.regexp THEN Occurs(c.content, Stdout(m, c)) ELSE Stdout(m, c) = Expected(c)) = c.not, Throw))

-----------------------------------------------------------------------------
(* What a user may ask, what is promised, what the code does not give.     *)

AssertConfig == [kind : {"assert"}, output : Seq(Returned), not : BOOLEAN, strict : BOOLEAN]
FsAssertConfig ==
  [kind : {"fs.assert"}, target : Path, content : Path, regexp : BOOLEAN, filter : SUBSET STRING, trim : BOOLEAN,
   filetype : SUBSET {"file", "dir", "link"}, md5 : Path, mode : SUBSET STRING, uid : Option, gid : Option,
   not : BOOLEAN]
ExecuteAssertConfig ==
  [kind : {"execute.assert"}, command : STRING, code : Seq(Nat), content : Path, regexp : BOOLEAN, trim : BOOLEAN,
   not : BOOLEAN]

AssertKinds == {"assert", "fs.assert", "execute.assert"}

IsAssertConfig(c) ==
  c \in AssertConfig \/ c \in FsAssertConfig \/ c \in ExecuteAssertConfig

AssertHandler(c, m) ==
  CASE c.kind = "assert"             -> AssertOutput(c)
    [] c.kind = "fs.assert"          -> FsAssert(m, c)
    [] c.kind = "execute.assert"     -> ExecuteAssert(m, c)

\* Numbers above 0 are true; a function is neither true nor false.
AssertValue(v, strict) ==
  CASE v = "true" \/ (~strict /\ v \in {"1", "'x'", "{k}"}) -> {TRUE}
    [] v = "false" \/ (~strict /\ v \in {"undefined", "null", "0", "-1", "''", "{}"}) -> {FALSE}
    [] OTHER -> {}

\* What is claimed of the file: each of these, or with `not` none of them.
FileClaims(c, m) ==
  LET data == Filtered(m, c)
  IN  (IF c.filetype = {} THEN {} ELSE {m[c.target].type \in c.filetype})
      \cup (IF c.content = NoText THEN {}
            ELSE {IF c.regexp THEN Occurs(c.content, data)
                  ELSE data = IF c.trim THEN Trim(c.content) ELSE c.content})
      \cup (IF c.md5 = NoText THEN {}
            ELSE {Hash(m, c.target) = HashOf(c.md5)})
      \cup (IF c.mode = {} THEN {} ELSE {At(m, c.target).mode \in c.mode})
      \cup {At(m, c.target).owner = o : o \in {c.uid, c.gid} \ {Unset}}

AssertGoal(c, m) ==
  CASE c.kind = "assert" -> \A v \in ToSet(c.output) : AssertValue(v, c.strict) = {~c.not}
    [] c.kind = "fs.assert" ->
         IF c.content = NoText /\ c.md5 = NoText /\ {c.filetype, c.mode} = {{}} /\ {c.uid, c.gid} = {Unset}
         THEN Exists(m, c.target) # c.not
         ELSE /\ Exists(m, c.target) /\ (c.content # NoText => IsFile(m, c.target))
              /\ FileClaims(c, m) \subseteq {~c.not}
    [] c.kind = "execute.assert" ->
         /\ Codes(c) # << >> => (Exit(m, c) \in ToSet(Codes(c))) # c.not
         /\ c.content # NoText =>
              c.not # IF c.regexp THEN Occurs(c.content, Stdout(m, c)) ELSE Stdout(m, c) = Expected(c)

AssertExcept(c, was) ==
  CASE c.kind = "assert" ->
         \* a negative number is taken for true, all but true for false
         IF "-1" \in ToSet(c.output) \/ (c.strict /\ c.not) THEN {"Delivers"} ELSE {}
    [] c.kind = "fs.assert" ->
         \* with `not`, the type is not negated, and the existence is with
         \* the owner; one file has one type; a link has an owner of its own
         IF \/ c.not /\ c.filetype # {}
            \/ c.not /\ {c.uid, c.gid} # {Unset} /\ c.content = NoText /\ c.md5 = NoText /\ c.mode = {}
            \/ Cardinality(c.filetype) > 1
            \/ c.uid # Unset /\ Real(was, c.target) # c.target
         THEN {"Delivers"} ELSE {}
    [] c.kind = "execute.assert" ->
         \* it has the status of its command; the output is not looked at when
         \* the code is not 0, or not one of those
         {"StatusTells"}
         \cup (IF \/ c.content # NoText /\ Executed(was, c).fails /\ (c.not \/ Codes(c) = << >>)
                  \/ c.regexp /\ c.trim
               THEN {"Delivers"} ELSE {})
=============================================================================
