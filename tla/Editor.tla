-------------------------------- MODULE Editor --------------------------------
(***************************************************************************)
(* edit/edit.c: teptris_edit_scalar looks for a key line by line, without  *)
(* parsing, and replaces the bytes of its value.                           *)
(*                                                                         *)
(* A source is a sequence of physical lines.  A line is a header, a pair   *)
(* or another line; a pair opens a value that goes on over the next lines  *)
(* when its value is "string", "inline" or "array", and "close" ends it.   *)
(* A component of a path is its name and whether it is written in quotes.  *)
(* The replacement is lines too: the editor's probe "k = <replacement>",   *)
(* the value of the key k first and whatever the caller wrote below it.    *)
(* The other half of the module works on characters: where a value ends.   *)
(***************************************************************************)
EXTENDS Integers, Sequences
LOCAL INSTANCE SequencesExt
T == INSTANCE ScalarText

CONSTANTS Name,                        \* keys
          LinePath, TargetPath,        \* the paths that are written, and asked for
          MaxLines, MaxText,           \* lines of a source, and of it and the replacement
          Replacements,                \* the probes: lines, the first a pair of the key k
          ValuePieces, MaxValue        \* the pieces a value is put together from, their number

VARIABLES source,                      \* the lines of the source
          target,                      \* the path asked for
          replacement,                 \* the lines of the probe
          edit,                        \* what teptris_edit_scalar returned
          value                        \* a value by itself, as a sequence of pieces
vars == <<source, target, value, edit, replacement>>

Component == [n : Name, q : BOOLEAN]
ASSUME PathAssumption == LinePath \cup TargetPath \subseteq Seq(Component) \ {<< >>}
ASSUME ReplacementAssumption ==
  \A r \in Replacements : r # << >> /\ r[1].t = "pair" /\ Len(r[1].path) = 1 /\ r[1].path[1].n \notin Name

Header(path) == [t |-> "head", path |-> path, val |-> "none", comma |-> FALSE]
Pair(path, val, comma) == [t |-> "pair", path |-> path, val |-> val, comma |-> comma]
Close == [t |-> "close", path |-> << >>, val |-> "none", comma |-> FALSE]
\* An element of an array on a line of its own, [x]: a header to the editor.
Row(path) == [t |-> "row", path |-> path, val |-> "none", comma |-> FALSE]

-------------------------------------------------------------------------------
\* What the source means.  inside: how the value that is open spans lines.
Start == [sec |-> << >>, inside |-> "none", key |-> << >>, open |-> FALSE, ok |-> TRUE]
Names(path) == [i \in DOMAIN path |-> path[i].n]
Step(st, l) ==
  CASE st.inside = "string" -> IF l.t = "close" THEN [st EXCEPT !.inside = "none"] ELSE st
    [] st.inside = "inline" ->
         CASE l.t = "close" -> [st EXCEPT !.inside = "none"]
           [] l.t = "pair" -> [st EXCEPT !.open = ~l.comma, !.ok = @ /\ ~st.open /\ l.val = "scalar"]
           [] OTHER -> [st EXCEPT !.ok = FALSE]
    [] st.inside = "array" ->
         CASE l.t = "close" -> [st EXCEPT !.inside = "none"]
           [] l.t = "row" -> st
           [] OTHER -> [st EXCEPT !.ok = FALSE]
    [] OTHER ->
         CASE l.t = "head" -> [st EXCEPT !.sec = Names(l.path)]
           [] l.t = "pair" -> [st EXCEPT !.inside = IF l.val = "scalar" THEN "none" ELSE l.val,
                                         !.key = Names(l.path), !.open = FALSE, !.ok = @ /\ ~l.comma]
           [] OTHER -> [st EXCEPT !.ok = FALSE]
Before(s, i) == FoldLeft(Step, Start, SubSeq(s, 1, i - 1))
AtEnd(s) == FoldLeft(Step, Start, s)
\* The key a line gives a value to, as a path from the root: empty for none.
Given(st, l) ==
  CASE l.t # "pair" \/ st.inside \in {"string", "array"} -> << >>
    [] l.t = "pair" /\ st.inside = "inline" -> st.sec \o st.key \o Names(l.path)
    [] OTHER -> st.sec \o Names(l.path)
Address(s, i) == Given(Before(s, i), s[i])
Keys(s) == {Address(s, i) : i \in DOMAIN s} \ {<< >>}

\* The tables that headers open.
Tables(s) == {Names(s[i].path) : i \in {j \in DOMAIN s : s[j].t = "head" /\ Before(s, j).inside = "none"}}
Related(p, q) == IsPrefix(p, q) \/ IsPrefix(q, p)

\* A key is written below base, the open section or inline table: it has no
\* value yet, is no table, and no header opens the first table it goes through.
FreshKey(s, address, base) ==
  /\ \A k \in Keys(s) \ {base} : ~Related(k, address)
  /\ \A p \in Tables(s) : ~IsPrefix(SubSeq(address, 1, Len(base) + 1), p)
\* A header opens a table that no header opened and no key made, or is.
FreshTable(s, path) ==
  /\ path \notin Tables(s)
  /\ \A i \in DOMAIN s : Address(s, i) # << >> =>
       /\ ~IsPrefix(Address(s, i), path)
       /\ IsPrefix(path, Address(s, i)) => IsPrefix(path, Before(s, i).sec)

\* The line may follow in a document of TOML.
Legal(s, l) ==
  LET st == AtEnd(s)
      base == IF st.inside = "inline" THEN st.sec \o st.key ELSE st.sec
      address == Given(st, l)
  IN /\ Step(st, l).ok
     /\ st.inside = "none" /\ l.t = "head" => FreshTable(s, Names(l.path))
     /\ address # << >> => FreshKey(s, address, base)
Whole(s) == AtEnd(s).inside = "none"
IsToml(s) == Whole(s) /\ \A i \in DOMAIN s : Legal(SubSeq(s, 1, i - 1), s[i])

-------------------------------------------------------------------------------
\* edit_match_component: the target's quotes are compared as characters, so
\* a quoted component of the target matches nothing.
MatchComponent(c, comp) == ~comp.q /\ c.n = comp.n

\* edit_match_path up to the equals sign of the line.
MatchPath(line, path) ==
  Len(line) = Len(path) /\ \A i \in DOMAIN path : MatchComponent(line[i], path[i])

\* edit_section_header: what looks like a header.
SectionHeader(l) == l.t \in {"head", "row"}

\* Mutant: the prefix of the target is not compared with the section.
SectionMatches_Any(prefix, sec) == prefix # << >>

\* edit_section_matches on the parts of edit_split_target: the same text.
SectionMatches(prefix, sec) == sec = prefix

\* edit_strip_section_prefix: what follows the section in the target.
StripSection(path, sec) ==
  IF sec # << >> /\ Len(sec) < Len(path) /\ SubSeq(path, 1, Len(sec)) = sec
  THEN SubSeq(path, Len(sec) + 1, Len(path)) ELSE << >>

\* The line is taken for the target under the section remembered.
Matches(l, path, sec) ==
  /\ l.t = "pair"
  /\ \/ sec = << >> /\ MatchPath(l.path, path)
     \/ SectionMatches(Front(path), sec) /\ MatchPath(l.path, <<Last(path)>>)
     \/ StripSection(path, sec) # << >> /\ MatchPath(l.path, StripSection(path, sec))

\* The section the editor remembers at line i.
Section(s, i) ==
  LET H == {j \in 1 .. i - 1 : SectionHeader(s[j])}
  IN IF H = {} THEN << >> ELSE s[CHOOSE j \in H : \A k \in H : k <= j].path

\* The span of a value: to the end of the line for a scalar, the comma of an
\* inline table included; to the close for what goes on over lines.
ValueEnd(s, i) ==
  LET H == {j \in i + 1 .. Len(s) : s[j].t = "close"}
  IN IF s[i].val = "scalar" THEN i ELSE IF H = {} THEN 0 ELSE CHOOSE j \in H : \A k \in H : j <= k

\* The text of the replacement goes between what is before and after the
\* span: the value of its first line to the key of line i, and its other lines.
Splice(s, i, repl) == SubSeq(s, 1, i - 1) \o <<Pair(s[i].path, repl[1].val, FALSE)>>
                        \o Tail(repl) \o SubSeq(s, ValueEnd(s, i) + 1, Len(s))

\* The replacements whose probe parses.
Probed == {r \in Replacements : IsToml(r)}

Nothing(status) == [status |-> status, line |-> 0, out |-> << >>]

\* teptris_edit_scalar: the probe must parse, as a document; the first line
\* that matches is changed; a result that replaces more than a bare scalar is
\* parsed before it is handed back.
EditScalar(s, path, repl) ==
  LET M == {i \in DOMAIN s : Matches(s[i], path, Section(s, i))}
      i == CHOOSE j \in M : \A k \in M : j <= k
      verified == s[i].val # "scalar"
  IN CASE repl \notin Probed -> Nothing("ERR_ARG")
       [] repl \in Probed /\ M = {} -> Nothing("ERR_STATE")
       [] repl \in Probed /\ M # {} /\ (ValueEnd(s, i) = 0 \/ (verified /\ ~IsToml(Splice(s, i, repl)))) ->
            Nothing("ERR_ARG")
       [] OTHER -> [status |-> "OK", line |-> i, out |-> Splice(s, i, repl)]

-------------------------------------------------------------------------------
\* Where a string ends, to the editor: edit_skip_string from the quote at i;
\* 0 when it does not end.
RECURSIVE SkipBody(_, _, _, _)
SkipBody(s, i, q, ml) ==
  LET run == T!First(s, i, LAMBDA c : c # q) - i
  IN CASE i > Len(s) -> 0
       [] i <= Len(s) /\ s[i] = "\\" /\ q = "\"" -> IF i = Len(s) THEN 0 ELSE SkipBody(s, i + 2, q, ml)
       [] i <= Len(s) /\ s[i] = q ->
            IF ~ml THEN i + 1 ELSE IF run >= 3 THEN i + run ELSE SkipBody(s, i + run, q, ml)
       [] OTHER -> SkipBody(s, i + 1, q, ml)
SkipString(s, i) ==
  LET ml == T!Is(s, i + 1, s[i]) /\ T!Is(s, i + 2, s[i])
  IN SkipBody(s, IF ml THEN i + 3 ELSE i + 1, s[i], ml)

\* Mutant: strings inside a collection are not skipped.
Skipped_Never(s, i) == i + 1

Skipped(s, i) == IF s[i] \in {"'", "\""} THEN SkipString(s, i) ELSE i + 1

\* edit_value_span of a collection: brackets are counted outside strings.
RECURSIVE Balanced(_, _, _)
Balanced(s, i, depth) ==
  LET d == CASE s[i] = "[" -> depth + 1 [] s[i] = "]" -> depth - 1 [] OTHER -> depth
  IN CASE i = 0 \/ i > Len(s) -> 0
       [] i \in 1 .. Len(s) /\ s[i] = "]" /\ d = 0 -> i + 1
       [] OTHER -> Balanced(s, Skipped(s, i), d)

ValueSpan(s) == IF s[1] \in {"'", "\""} THEN SkipString(s, 1) ELSE Balanced(s, 1, 0)

\* The end of the value the parser reads at i, 0 for an error: a string, or
\* an array of strings, arrays and the scalar "a" (commas left out).
RECURSIVE ParseEnd(_, _), ItemsEnd(_, _)
ParseEnd(s, i) ==
  CASE i > Len(s) -> 0
    [] i <= Len(s) /\ s[i] \in {"'", "\""} -> T!ParseString(s, i, FALSE).pos
    [] i <= Len(s) /\ s[i] = "[" -> ItemsEnd(s, i + 1)
    [] i <= Len(s) /\ s[i] = "a" -> i + 1
    [] OTHER -> 0
ItemsEnd(s, i) ==
  CASE i > Len(s) -> 0
    [] i <= Len(s) /\ s[i] = "]" -> i + 1
    [] i <= Len(s) /\ s[i] = "lf" -> ItemsEnd(s, i + 1)
    [] OTHER -> LET e == ParseEnd(s, i) IN IF e = 0 THEN 0 ELSE ItemsEnd(s, e)

-------------------------------------------------------------------------------
NoEdit == Nothing("none")
Init == source = << >> /\ target = << >> /\ value = << >> /\ edit = NoEdit /\ replacement = << >>

Line == {Header(p) : p \in LinePath} \cup {Close} \cup {Row(p) : p \in {x \in LinePath : Len(x) = 1}}
          \cup {Pair(p, v, c) : p \in LinePath, v \in {"scalar", "string", "inline", "array"}, c \in BOOLEAN}

\* A line is added to a source that stays TOML; what a multi-line string
\* holds opens no value of its own.
Write == /\ edit = NoEdit /\ value = << >> /\ Len(source) < MaxLines
         /\ \E l \in Line : /\ Legal(source, l)
                            /\ AtEnd(source).inside = "string" => l.val \in {"none", "scalar"}
                            /\ source' = Append(source, l)
         /\ UNCHANGED <<target, value, edit, replacement>>

Edit == /\ edit = NoEdit /\ source # << >> /\ Whole(source)
        /\ replacement' \in {r \in Replacements : Len(source) + Len(r) <= MaxText}
        /\ \E p \in TargetPath : target' = p /\ edit' = EditScalar(source, p, replacement')
        /\ UNCHANGED <<source, value>>

\* A value, piece by piece.
Text(pieces) == FlattenSeq(pieces)
Grow == /\ source = << >> /\ Len(value) < MaxValue
        /\ \E piece \in ValuePieces :
             (value = << >> => piece[1] \in {"'", "\"", "["}) /\ value' = Append(value, piece)
        /\ UNCHANGED <<source, target, edit, replacement>>

Next == Write \/ Edit \/ Grow
Spec == Init /\ [][Next]_vars

-------------------------------------------------------------------------------
\* No line inside a value that spans lines looks like a header or a pair.
Clear(s) == \A i \in DOMAIN s : Before(s, i).inside = "none" \/ s[i].t = "close"

\* The replacements that are one value: the probe gives nothing but k a
\* value, and opens no table.
OneValue == {r \in Probed : Tables(r) = {} /\ \A k \in Keys(r) : k[1] = r[1].path[1].n}

\* In a source whose multi-line values hold nothing that looks like a key or
\* a header, teptris_edit_scalar changes the one line that gives the target
\* its value.  When the replacement is one value, it finds that line whenever
\* it is written under a header spelled as in the target, and hands back TOML
\* in which every other key keeps its place, although the result of replacing
\* a scalar is parsed by nobody.
EditsTheKey ==
  edit # NoEdit /\ Clear(source) =>
    LET Means(i) == Address(source, i) = Names(target)
        Spelled(i) == Section(source, i) = SubSeq(target, 1, Len(Section(source, i)))
    IN /\ edit.status = "OK" => Means(edit.line)
       /\ edit.status = "OK" /\ replacement \in OneValue =>
            /\ IsToml(edit.out)
            /\ Keys(edit.out) = Keys(source) \cup {Names(target) \o Tail(k) : k \in Keys(replacement)}
       /\ replacement \in OneValue /\ (\A i \in DOMAIN target : ~target[i].q)
            /\ (\E i \in DOMAIN source : Means(i) /\ Spelled(i)) => edit.status = "OK"

\* The editor replaces the value of the target and nothing else, in every
\* source.
EditsNothingElse == edit.status = "OK" => Address(source, edit.line) = Names(target)

\* ERRORS.md:58: a replacement that is not one valid value is refused.  The
\* probe is parsed as a document, and "1", a line end and "b = 2" is one.
TakesOneValue == edit.status = "OK" => replacement \in OneValue

\* What is handed back is TOML, whatever the replacement.
HandsBackToml == edit.status = "OK" /\ Clear(source) => IsToml(edit.out)

\* Whatever the parser reads as a value - a string with quotes, escapes and
\* brackets in it, over several lines, an array of them - the editor's scan
\* ends where the parser's does.
SpanIsValue ==
  LET text == Text(value)
  IN value # << >> /\ ParseEnd(text, 1) # 0 => ValueSpan(text) = ParseEnd(text, 1)
===============================================================================
