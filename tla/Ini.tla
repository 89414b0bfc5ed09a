---------------------------------- MODULE Ini ----------------------------------
(***************************************************************************)
(* packages/file/lib/utils/ini.js: the formats of a configuration.         *)
(*                                                                         *)
(* An object is a function from the paths of its keys to their values; a   *)
(* key that holds an object has the value Obj.  A text is a sequence of    *)
(* lines: the header of a section, at a depth, the opening and the closing *)
(* of a block, a key with its value, and a single word, which a comment is *)
(* too.                                                                    *)
(***************************************************************************)
EXTENDS Naturals, Sequences, SequencesExt, TLC

Obj   == "<object>"
Null  == "<null>"
True  == "<true>"
False == "<false>"

Line(is, depth, key, value) == [is |-> is, depth |-> depth, key |-> key, value |-> value]
Section(depth, key) == Line("section", depth, key, Obj)
Pair(key, value)    == Line("pair", 0, <<key>>, value)
Word(key)           == Line("word", 0, <<key>>, Null)
Opening(key)        == Line("open", 0, <<key>>, Obj)
Closing             == Line("close", 0, << >>, Obj)

IsComment(key) == Head(key) = ";"

Under(p, q) == Len(q) > Len(p) /\ SubSeq(q, 1, Len(p)) = p

\* A key is given a value, and loses the object it held.
Set(tree, p, value) ==
  (p :> value) @@ [q \in {r \in DOMAIN tree : ~Under(p, r)} |-> tree[q]]

\* What mixme's merge does: the second object wins, deeply.
Merge(tree, other) ==
  other @@ [p \in {q \in DOMAIN tree :
                     \A r \in DOMAIN other : ~(Under(r, q) /\ other[r] # Obj)
                                             /\ ~(Under(q, r) /\ tree[q] # Obj)} |-> tree[p]]

\* utils.object.clean
Clean(tree) == [p \in {q \in DOMAIN tree : tree[q] # Null} |-> tree[p]]

Keys(tree, p)     == {q \in DOMAIN tree : Under(p, q) /\ Len(q) = Len(p) + 1}
Leaves(tree, p)   == SetToSeq({q \in Keys(tree, p) : tree[q] # Obj})
Branches(tree, p) == SetToSeq({q \in Keys(tree, p) : tree[q] = Obj})

-----------------------------------------------------------------------------
(* Parsers.                                                                *)

Parsing == [tree |-> << >>, stack |-> << << >> >>, fails |-> FALSE, key |-> << >>]

\* A comment, a key without a value, or a key with its value.
Member(s, line) ==
  LET p == Last(s.stack) \o line.key
  IN  [s EXCEPT !.tree = Set(@, p, line.value),
                !.key  = IF line.is = "pair" /\ ~IsComment(Last(p)) THEN p ELSE << >>]

\* A header replaces the section it names.
BracketsThenCurly(s, line) ==
  LET p == Last(s.stack) \o line.key
  IN  CASE line.is = "section" ->
             [s EXCEPT !.tree = Set(@, line.key, Obj), !.stack = <<line.key>>]
        [] line.is = "open"  -> [s EXCEPT !.tree = Set(@, p, Obj), !.stack = Append(@, p)]
        [] line.is = "close" -> [s EXCEPT !.stack = Front(@)]
        [] line.is \in {"pair", "word"} -> Member(s, line)

\* The name of a section, with the dots that join the keys it has.
Joined(key) == FoldLeft(LAMBDA name, k : name \o "." \o k, Head(key), Tail(key))

\* A header goes one level deeper than those it is in; its name is one key.
Nested(s, line) ==
  LET p == Append(s.stack[line.depth], Joined(line.key))
  IN  IF line.depth > Len(s.stack)
      THEN [s EXCEPT !.fails = TRUE]
      ELSE [s EXCEPT !.tree = Set(@, p, Obj), !.stack = Append(SubSeq(@, 1, line.depth), p)]

MultiBrackets(s, line) == IF line.is = "section" THEN Nested(s, line) ELSE Member(s, line)

\* A word that follows a value is more of it.
MultiLines(s, line) ==
  CASE line.is = "section" -> Nested(s, line)
    [] line.is = "word" /\ s.key # << >> /\ ~IsComment(line.key[1]) ->
         [s EXCEPT !.tree = [@ EXCEPT ![s.key] = @ \o line.key[1]]]
    [] line.is = "pair" \/ (line.is = "word" /\ (s.key = << >> \/ IsComment(line.key[1]))) ->
         Member(s, line)

\* The library `ini`: comments are dropped, a word is a key that is true.
Library(s, line) ==
  CASE line.is = "section" ->
         LET missing == {SubSeq(line.key, 1, i) : i \in 1..Len(line.key)} \ DOMAIN s.tree
         IN  [s EXCEPT !.tree = [p \in missing |-> Obj] @@ @, !.stack = <<line.key>>]
    [] line.is # "section" /\ IsComment(line.key[1]) -> s
    [] line.is = "pair" /\ ~IsComment(line.key[1])   -> Member(s, line)
    [] line.is = "word" /\ ~IsComment(line.key[1])   -> Member(s, [line EXCEPT !.value = True])

Parse(format, text) ==
  FoldLeft(LAMBDA s, line :
             IF s.fails THEN s
             ELSE CASE format = "ini"                  -> Library(s, line)
                    [] format = "brackets_then_curly"  -> BracketsThenCurly(s, line)
                    [] format = "multi_brackets"       -> MultiBrackets(s, line)
                    [] format = "multi_lines"          -> MultiLines(s, line),
           Parsing, text)

-----------------------------------------------------------------------------
(* Writers.                                                                *)

\* A value that is false is not written, one that is null is the word null.
IniLeaf(key, value) ==
  CASE value = True  -> <<Word(key)>>
    [] value = False -> << >>
    [] value = Null  -> <<Pair(key, "null")>>
    [] value \notin {True, False, Null} -> <<Pair(key, value)>>

SingleKeyLeaf(key, value) ==
  CASE value \in {True, ""} -> <<Word(key)>>
    [] value = Null         -> <<Pair(key, "null")>>
    [] value = False        -> <<Pair(key, "false")>>
    [] value \notin {True, False, Null, ""} -> <<Pair(key, value)>>

CurlyLeaf(key, value) ==
  <<Pair(key, CASE value = True -> "true" [] value = False -> "false" [] value = Null -> "null"
                [] value \notin {True, False, Null} -> value)>>

MultiLeaf(key, value) == IF value = Null THEN <<Word(key)>> ELSE CurlyLeaf(key, value)

\* A section that holds nothing but sections has no header.
Headed(own, p) == IF own = << >> \/ p = << >> THEN own ELSE <<Section(1, p)>> \o own

Sections(tree) == {<< >>} \cup {p \in DOMAIN tree : tree[p] = Obj}

\* The lines of the leaves of a section, and those of the sections it holds.
LeafLines(tree, p, Leaf(_, _)) ==
  LET leaves == Leaves(tree, p)
  IN  FlattenSeq([i \in DOMAIN leaves |-> Leaf(Last(leaves[i]), tree[leaves[i]])])

BranchLines(tree, p, Lines(_)) ==
  LET branches == Branches(tree, p)
  IN  FlattenSeq([i \in DOMAIN branches |-> Lines(branches[i])])

Stringify(tree) ==
  LET text[p \in Sections(tree)] ==
        Headed(LeafLines(tree, p, IniLeaf), p) \o BranchLines(tree, p, LAMBDA q : text[q])
  IN  text[<< >>]

StringifySingleKey(tree) ==
  LET text[p \in Sections(tree)] ==
        Headed(LeafLines(tree, p, SingleKeyLeaf), p) \o BranchLines(tree, p, LAMBDA q : text[q])
  IN  text[<< >>]

\* Sections at the top, blocks below.
StringifyCurly(tree) ==
  LET text[p \in Sections(tree)] ==
        LeafLines(tree, p, CurlyLeaf)
        \o BranchLines(tree, p, LAMBDA q :
             IF p = << >> THEN <<Section(1, q)>> \o text[q]
             ELSE <<Opening(Last(q))>> \o text[q] \o <<Closing>>)
  IN  text[<< >>]

StringifyMulti(tree) ==
  LET text[p \in Sections(tree)] ==
        LeafLines(tree, p, MultiLeaf)
        \o BranchLines(tree, p, LAMBDA q : <<Section(Len(p) + 1, <<Last(q)>>)>> \o text[q])
  IN  text[<< >>]

Dump(format, tree) ==
  CASE format = "ini"                 -> Stringify(tree)
    [] format = "single_key"          -> StringifySingleKey(tree)
    [] format = "brackets_then_curly" -> StringifyCurly(tree)
    [] format = "multi_brackets"      -> StringifyMulti(tree)
=============================================================================
