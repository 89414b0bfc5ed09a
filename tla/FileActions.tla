------------------------------ MODULE FileActions ------------------------------
(***************************************************************************)
(* The actions of packages/file that write a file: file, touch, render,    *)
(* upload, cache and download.  A text is a sequence of words and of ends  *)
(* of lines; a hash of a file is its content.  A resource whose name       *)
(* starts with Http is a document a server has.                            *)
(***************************************************************************)
EXTENDS FsActions

NL     == "\n"
NoText == <<Unset>>       \* no content, no hash
NoPath == << >>           \* no path
Http   == "http:"

Suffixed(p, suffix) == Append(Front(p), Last(p) \o suffix)

EndsWithNL(text) == text = << >> \/ Last(text) = NL

\* The positions of a line that is exactly this word.
LinesOf(text, word) ==
  {i \in DOMAIN text : /\ text[i] = word
                       /\ i = 1 \/ text[i - 1] = NL
                       /\ i = Len(text) \/ text[i + 1] = NL}

First(positions) == CHOOSE i \in positions : \A j \in positions : i <= j

\* Where the line of the word at position i starts, and where it ends.
LineStart(text, i) == First({j \in 1..i : \A k \in j..(i - 1) : text[k] # NL})
LineEnd(text, i) ==
  IF \A j \in i..Len(text) : text[j] # NL
  THEN Len(text) ELSE First({j \in i..Len(text) : text[j] = NL}) - 1

\* `word` stands before, or after, every line of `text` that has `mark`.
Beside(text, word, mark, where) ==
  LET marked == {IF where = "before" THEN LineStart(text, i) ELSE LineEnd(text, i) :
                   i \in {j \in DOMAIN text : text[j] = mark}}
      piece(i) == CASE i \in marked /\ where = "before" -> <<word, NL, text[i]>>
                    [] i \in marked /\ where = "after"  -> <<text[i], NL, word>>
                    [] i \notin marked                  -> <<text[i]>>
  IN  FlattenSeq([i \in DOMAIN text |-> piece(i)])

Always == "always"        \* the boolean true of `append` and `place_before`

(***************************************************************************)
(* One replacement of the option `write`.  `match` is the set of the words *)
(* the expression matches, empty when it is not given.                     *)
(***************************************************************************)
Partial(text, op) ==
  LET break  == IF EndsWithNL(text) THEN << >> ELSE <<NL>>
      from   == LinesOf(text, op.from)
      to     == LinesOf(text, op.to)
      before == SubSeq(text, 1, First(from))
      after  == SubSeq(text, First(to), Len(text))
  IN  CASE op.match # {} /\ \E i \in DOMAIN text : text[i] \in op.match ->
             [i \in DOMAIN text |-> IF text[i] \in op.match THEN op.replace ELSE text[i]]
        [] op.match # {} /\ \A i \in DOMAIN text : text[i] \notin op.match ->
            (CASE op.place_before = Always -> <<op.replace>> \o break \o text
               [] op.place_before \notin {Unset, Always} ->
                    Beside(text, op.replace, op.place_before, "before")
               [] op.place_before = Unset /\ op.append = Always ->
                    text \o break \o <<op.replace>>
               [] op.place_before = Unset /\ op.append \notin {Unset, Always} ->
                    Beside(text, op.replace, op.append, "after")
               [] op.place_before = Unset /\ op.append = Unset -> text)
        [] op.match = {} /\ op.place_before # Always /\ op.from # Unset /\ op.to # Unset ->
            (CASE from = {} /\ to = {} /\ op.append # Unset ->
                    text \o <<NL, op.from, NL, op.replace, NL, op.to>>
               [] from # {} /\ to # {} -> before \o <<NL, op.replace, NL>> \o after
               [] (from = {} \/ to = {}) /\ ~(from = {} /\ to = {} /\ op.append # Unset) -> text)
        [] op.match = {} /\ op.place_before # Always /\ op.from # Unset /\ op.to = Unset ->
             IF from = {} THEN text ELSE before \o <<NL, op.replace>>
        [] op.match = {} /\ op.place_before # Always /\ op.from = Unset /\ op.to # Unset ->
             IF to = {} THEN text ELSE <<op.replace, NL>> \o after
        [] op.match = {} /\ (op.place_before = Always \/ (op.from = Unset /\ op.to = Unset)) ->
             text

\* Without `match`, `from` or `to`, the replacement is what is looked for.
Matching(op) ==
  IF op.match = {} /\ op.from = Unset /\ op.to = Unset /\ op.replace # Unset
  THEN [op EXCEPT !.match = {op.replace}] ELSE op

\* A template: the words the context defines are replaced.
Rendered(text, context) ==
  [i \in DOMAIN text |-> IF text[i] \in DOMAIN context THEN context[text[i]] ELSE text[i]]

\* The line ends the options ask for.
NonEmpty(text) ==
  FlattenSeq([i \in DOMAIN text |->
    IF i > 1 /\ text[i] = NL /\ text[i - 1] = NL THEN << >> ELSE <<text[i]>>])

Ended(text) == IF text = << >> \/ Last(text) # NL THEN Append(text, NL) ELSE text

Substituted(text, ops) == FoldLeft(LAMBDA t, op : Partial(t, Matching(op)), text, ops)

Finished(text, c) ==
  IF c.eof
  THEN Ended(Substituted(IF c.remove_empty_lines THEN NonEmpty(text) ELSE text, c.write))
  ELSE Substituted(IF c.remove_empty_lines THEN NonEmpty(text) ELSE text, c.write)

\* What fs.mkdir is asked for the directory of a file.
Executable(mode) == IF mode = Unset THEN DirMode ELSE mode \o "+x"

\* The content: that of the source, what the user gives, or what is there.
FileContent(m, c) ==
  CASE c.source # NoPath                       -> At(m, c.source).body
    [] c.source = NoPath /\ c.content # NoText -> c.content
    [] c.source = NoPath /\ c.content = NoText ->
         IF IsFile(m, c.target) THEN At(m, c.target).body ELSE << >>

\* A link is its own, unless it is unlinked: its mode is 777.
FileStats(m, c) ==
  LET node == StateOf(m, c.target)
  IN  CASE node.type # "link"             -> node
        [] node.type = "link" /\ c.unlink -> Absent
        [] node.type = "link" /\ ~c.unlink -> File(<< >>, "777", Me)

\* What the lookup of the target changes.
FileLookup(m, c) ==
  CASE StateOf(m, c.target) = Absent ->
         Shy(FsMkdir(m, [Directory(Dirname(c.target)) EXCEPT
                           !.owner = c.owner, !.mode = Executable(c.mode)]))
    [] StateOf(m, c.target).type = "dir" -> Throw
    [] StateOf(m, c.target).type = "link" ->
         IF c.unlink THEN Shy(BaseUnlink(m, c.target))
                     ELSE When(~IsFile(m, c.target), Throw)
    [] StateOf(m, c.target).type = "file" -> Nothing

\* What is there is copied before it changes; only that there is nothing to
\* copy is relaxed.
FileBackup(m, c) ==
  When(c.backup # Unset /\ Exists(m, c.target),
       FsCopy(m, [Duplicate(c.target, Suffixed(c.target, c.backup)) EXCEPT !.mode = c.backup_mode]))

FileBody(m, c, stats, content) ==
  When(stats = Absent \/ At(m, c.target).body # content,
       Then(m, FileBackup(m, c), LAMBDA n :
         Returns(IF c.append THEN BaseAppendFile(n, c.target, content)
                 ELSE BaseWriteFile(n, c.target, content, IF stats = Absent THEN Unset ELSE stats.mode),
                 TRUE)))

FileWrite(m, c) ==
  LET stats == FileStats(m, c)
  IN  IF c.source # NoPath /\ ~IsFile(m, c.source)
      THEN Throw
      ELSE Then(m, FileLookup(m, c), LAMBDA m1 :
             Then(m1, FileBody(m1, c, stats, Finished(Rendered(FileContent(m, c), c.transform), c)),
               LAMBDA m2 :
                 Then(m2, Chmoded(m2, c.target, c.mode, stats), LAMBDA m3 :
                   Chowned(m3, c.target, c.owner, stats))))

\* What other actions ask to `file`.
Plain(target, content) ==
  [kind |-> "file", target |-> target, source |-> NoPath, content |-> content,
   transform |-> << >>, write |-> << >>, append |-> FALSE, eof |-> FALSE,
   remove_empty_lines |-> FALSE, unlink |-> FALSE, backup |-> Unset, backup_mode |-> "400",
   mode |-> Unset, owner |-> Unset]

FileTouch(m, c) ==
  IF Exists(m, c.target)
  THEN Nothing
  ELSE Returns(Nothing, TRUE) \bullet
       FileWrite(m, [Plain(c.target, << >>) EXCEPT !.mode = c.mode, !.owner = c.owner])

\* The source is read first and becomes the content.
FileRender(m, c) ==
  IF c.source # NoPath /\ ~IsFile(m, c.source)
  THEN Throw
  ELSE FileWrite(m, [Plain(c.target, IF c.source = NoPath THEN c.content ELSE At(m, c.source).body)
                       EXCEPT !.transform = c.context, !.mode = c.mode, !.owner = c.owner])

-----------------------------------------------------------------------------
(* Files that are staged next to the target, then moved over it.           *)

Stage(p) == Append(Dirname(p), Staged)

Into(m, source, target) ==
  IF IsDir(m, target) THEN Append(target, Basename(source)) ELSE target

Moved(source, target) == [source |-> source, target |-> target, force |-> FALSE]

Same(m, source, target) == IsFile(m, target) /\ Hash(m, source) = Hash(m, target)

\* What was staged takes the place of the target.
Place(m, c, target) ==
  Then(m, When(IsFile(m, Stage(target)), FsMove(m, Moved(Stage(target), target))), LAMBDA m1 :
    Then(m1, Chmoded(m1, target, c.mode, Absent), LAMBDA m2 :
      Chowned(m2, target, c.owner, Absent)))

\* The attributes are those of a target that changes.
FileUpload(m, c) ==
  LET target == Into(m, c.source, c.target)
      stage  == Stage(target)
  IN  IF ~IsFile(m, c.source) \/ (Exists(m, target) /\ ~IsFile(m, target))
      THEN Throw
      ELSE When(~Same(m, c.source, target),
                Returns(Nothing, TRUE) \bullet
                Then(m, FsMkdir(m, Directory(Dirname(stage))), LAMBDA m1 :
                  Then(m1, BaseWriteFile(m1, stage, At(m1, c.source).body, Unset), LAMBDA m2 :
                    Place(m2, c, target))))

\* curl: without --fail, the page of an error is a document as any other.
Curl(m, source, target, fail) ==
  CASE Exists(m, source) -> Shy(BaseWriteFile(m, target, At(m, source).body, Unset))
    [] ~Exists(m, source) /\ ~fail -> Shy(BaseWriteFile(m, target, <<"404">>, Unset))
    [] ~Exists(m, source) /\ fail -> Throw

IsUrl(p) == Head(p) = Http

FileCacheFetch(m, c) ==
  IF IsUrl(c.source)
  THEN When(~Exists(m, c.target), Curl(m, c.source, c.target, c.fail))
  ELSE FsCopy(m, Duplicate(c.source, c.target))

\* Faulty: the hash is not looked at when there is a file.
FileCacheOnce(m, c) ==
  When(~Exists(m, c.target),
       FileCacheFetch(m, c))

(***************************************************************************)
(* The cache holds the file once: a file that is there is not looked at,   *)
(* unless a hash is given.  md5 is false by default, so that the options   *)
(* sha1 and sha256 are not read.                                           *)
(***************************************************************************)
FileCache(m, c) ==
  LET there == Exists(m, c.target)
      stale == there /\ ~c.force /\ c.md5 # NoText /\ Hash(m, c.target) # HashOf(c.md5)
  IN  When(~there \/ c.force \/ stale,
           Returns(Nothing, TRUE) \bullet
           Then(m, When(stale, BaseUnlink(m, c.target)), LAMBDA m1 :
             Then(m1, FsMkdir(m1, Directory(Dirname(c.target))), LAMBDA m2 :
               Then(m2, FileCacheFetch(m2, c), LAMBDA m3 :
                 When(c.md5 # NoText /\ Hash(m3, c.target) # HashOf(c.md5), Throw)))))

\* The source is staged next to the target: what curl downloads always, a
\* file when it differs.
FileDownloadFetch(m, c, target) ==
  LET stage == Stage(target)
  IN  When(IsUrl(c.source) \/ ~Same(m, c.source, target),
        Then(m, Shy(FsMkdir(m, Directory(Dirname(stage)))), LAMBDA n :
          CASE IsUrl(c.source) ->
                 Then(n, Curl(n, c.source, stage, FALSE), LAMBDA o :
                   IF c.md5 # NoText /\ Hash(o, stage) # HashOf(c.md5)
                   THEN Throw
                   ELSE When(Same(o, stage, target), Shy(FsRemove(o, stage, FALSE))))
            [] ~IsUrl(c.source) /\ c.ssh  -> BaseWriteFile(n, stage, At(n, c.source).body, Unset)
            [] ~IsUrl(c.source) /\ ~c.ssh -> FsCopy(n, Duplicate(c.source, stage))))

(***************************************************************************)
(* The cache is filled, but the source stays what it was: it is downloaded *)
(* again.  The hash is checked for what curl downloads.                    *)
(***************************************************************************)
FileDownloadInto(m, c, target) ==
  IF ~IsUrl(c.source) /\ ~IsFile(m, c.source)
  THEN Throw
  ELSE Then(m, FileDownloadFetch(m, c, target), LAMBDA n : Place(n, c, target))

FileDownload(m, c) ==
  LET fresh == [p \in {q \in DOMAIN m : Last(q) # Staged} |-> m[p]]
      asked == [source |-> c.source, target |-> c.cache_file, md5 |-> c.md5, force |-> FALSE, fail |-> FALSE]
  IN  Then(fresh, When(c.cache, FileCache(fresh, asked)), LAMBDA n :
        FileDownloadInto(n, c, Into(n, c.source, c.target)))

-----------------------------------------------------------------------------
(* What a user may ask, from the schemas.                                  *)

Text == Seq(STRING)

Replacement ==
  [match : SUBSET STRING, replace : Option, append : Option, place_before : Option,
   from : Option, to : Option]

FileConfig ==
  [kind : {"file"}, target : Path, source : Path, content : Text, write : Seq(Replacement),
   transform : {<< >>}, append : BOOLEAN, eof : BOOLEAN, remove_empty_lines : BOOLEAN,
   unlink : BOOLEAN, backup : Option, backup_mode : Option, mode : Option, owner : Option]
FileTouchConfig ==
  [kind : {"file.touch"}, target : Path, mode : Option, owner : Option]
FileUploadConfig ==
  [kind : {"file.upload"}, source : Path, target : Path, mode : Option, owner : Option]
FileCacheConfig ==
  [kind : {"file.cache"}, source : Path, target : Path, md5 : Text, force : BOOLEAN, fail : BOOLEAN]
FileDownloadConfig ==
  [kind : {"file.download"}, source : Path, target : Path, cache : BOOLEAN, cache_file : Path,
   md5 : Text, ssh : BOOLEAN, mode : Option, owner : Option]

\* `context` maps words to words.
IsFileRenderConfig(c) ==
  /\ DOMAIN c = {"kind", "source", "content", "context", "target", "mode", "owner"}
  /\ c.kind = "file.render"
  /\ c.source # NoPath \/ c.content # NoText
  /\ \A w \in DOMAIN c.context : c.context[w] \in STRING

IsFileConfig(c) ==
  \/ c \in FileConfig /\ ~(c.source # NoPath /\ c.content # NoText)
                       /\ (c.source # NoPath \/ c.content # NoText \/ c.write # << >>)
  \/ c \in FileTouchConfig \/ IsFileRenderConfig(c)
  \/ c \in FileUploadConfig \/ c \in FileCacheConfig \/ c \in FileDownloadConfig

FileHandler(c, m) ==
  CASE c.kind = "file"          -> FileWrite(m, c)
    [] c.kind = "file.touch"    -> FileTouch(m, c)
    [] c.kind = "file.render"   -> FileRender(m, c)
    [] c.kind = "file.upload"   -> FileUpload(m, c)
    [] c.kind = "file.cache"    -> FileCache(m, c)
    [] c.kind = "file.download" -> FileDownload(m, c)

(***************************************************************************)
(* What they promise, and what they leave.                                 *)
(***************************************************************************)
HasAttributes(c, m, p) == HasMode(m, p, c.mode) /\ HasOwner(m, p, c.owner)

\* A replacement is done: nothing else matches and the text is a line.
Replaced(text, op) ==
  op.match # {} =>
    /\ \A i \in DOMAIN text : text[i] \in op.match => text[i] = op.replace
    /\ Always \in {op.append, op.place_before} => LinesOf(text, op.replace) # {}

FileGoal(c, was, m) ==
  CASE c.kind = "file" ->
         /\ IsFile(m, c.target) /\ HasAttributes(c, m, c.target)
         /\ c.content # NoText /\ ~c.append =>
              At(m, c.target).body = Finished(Rendered(c.content, c.transform), c)
         /\ c.source # NoPath /\ ~c.append => At(m, c.target).body = Finished(At(was, c.source).body, c)
         /\ \A i \in DOMAIN c.write : Replaced(At(m, c.target).body, c.write[i])
    [] c.kind = "file.touch" -> IsFile(m, c.target) /\ (~Exists(was, c.target) => HasAttributes(c, m, c.target))
    [] c.kind = "file.render" ->
         /\ HasAttributes(c, m, c.target)
         /\ \A i \in DOMAIN At(m, c.target).body : At(m, c.target).body[i] \notin DOMAIN c.context
    [] c.kind = "file.upload" ->
         /\ At(m, Into(was, c.source, c.target)).body = At(was, c.source).body
         /\ HasAttributes(c, m, Into(was, c.source, c.target))
    [] c.kind = "file.cache" ->
         /\ IsFile(m, c.target)
         /\ c.md5 # NoText => At(m, c.target).body = c.md5
         /\ (~Exists(was, c.target) \/ c.force) /\ Exists(was, c.source)
              => At(m, c.target).body = At(was, c.source).body
    [] c.kind = "file.download" ->
         /\ HasAttributes(c, m, Into(was, c.source, c.target))
         /\ Exists(was, c.source) => At(m, Into(was, c.source, c.target)).body = At(was, c.source).body

\* The words no replacement matches.
Others(text, c) ==
  SelectSeq(text, LAMBDA w : w # NL /\ \A i \in DOMAIN c.write :
                               w # c.write[i].replace /\ w \notin c.write[i].match)

FileSpares(c, was, m) ==
  c.kind = "file" /\ c.source = NoPath /\ c.content = NoText /\ IsFile(was, c.target)
    /\ (\A i \in DOMAIN c.write : c.write[i].match # {})
  => Others(At(m, c.target).body, c) = Others(At(was, c.target).body, c)

\* What the code does not give.
FileExcept(c, was) ==
  CASE c.kind = "file" ->
         (IF c.append THEN {"QuietAgain"} ELSE {})
         \cup (IF c.mode # Unset /\ ~c.unlink /\ Real(was, c.target) # c.target
               THEN {"StatusTells"} ELSE {})      \* the mode of the link is compared
    [] c.kind = "file.touch" ->                   \* "todo check uid/gid/mode"
         IF c.mode # Unset \/ c.owner # Unset THEN {"Converges"} ELSE {}
    [] c.kind = "file.upload" ->                  \* nothing is done when the hash matches
         IF c.mode # Unset \/ c.owner # Unset THEN {"Delivers", "Converges"} ELSE {}
    [] c.kind = "file.cache" ->                   \* what was cut is kept, `force` is not done
         (IF c.md5 = NoText THEN {"Converges"} ELSE {})
         \cup (IF IsUrl(c.source) /\ c.force
               THEN {"Delivers", "Converges", "StatusTells", "Repairable"} ELSE {})
         \cup (IF c.force THEN {"StatusTells"} ELSE {})
    [] c.kind \in {"file.render", "file.download"} -> {}
=============================================================================
