----------------------------- MODULE RegexLanguage -----------------------------
(***************************************************************************)
(* What regular expressions mean, and regex.c checked against it.  A term  *)
(* is an expression; Spell writes it as a pattern; Ends says where a match *)
(* may end, without an automaton.                                          *)
(***************************************************************************)
EXTENDS Regex
LOCAL INSTANCE SequencesExt

CONSTANTS Terms, Texts

VARIABLE term           \* history: what the pattern says

\* lo, hi: the bounds of a quantifier (-1: none), the code point of a char,
\* the letter of a shorthand, the ends of a range; lo of a group: ( (?: (?<a>.
T(op, lo, hi, neg, subs) == [op |-> op, lo |-> lo, hi |-> hi, neg |-> neg, subs |-> subs]
Char(ch) == T("char", Code[ch], Code[ch], FALSE, << >>)
Short(ch) == T("short", Code[ch], 0, FALSE, << >>)
Span(ch, to) == T("span", Code[ch], Code[to], FALSE, << >>)
Sign(op) == T(op, 0, 0, FALSE, << >>)
Set(neg, items) == T("set", 0, 0, neg, items)
Group(t) == T("group", 0, 0, FALSE, <<t>>)
GroupAs(form, t) == T("group", form, 0, FALSE, <<t>>)
Quant(t, lo, hi) == T("quant", lo, hi, FALSE, <<t>>)
Cat(ts) == T("cat", 0, 0, FALSE, ts)
Or(ts) == T("or", 0, 0, FALSE, ts)
NoCase(t) == T("nocase", 0, 0, FALSE, <<t>>)

Chars(cs) == [i \in DOMAIN cs |-> Code[cs[i]]]
Num(n) == <<Code["0"] + n>>

RECURSIVE Spell(_)
Spell(t) ==
  LET in == [i \in DOMAIN t.subs |-> Spell(t.subs[i])]
      all == FlattenSeq(in)
  IN CASE t.op = "char" -> <<t.lo>>
       [] t.op = "short" -> <<Code["\\"], t.lo>>
       [] t.op = "span" -> <<t.lo, Code["-"], t.hi>>
       [] t.op = "set" -> <<Code["["]>> \o (IF t.neg THEN <<Code["^"]>> ELSE << >>) \o all \o <<Code["]"]>>
       [] t.op = "any" -> Chars(<<".">>)
       [] t.op = "bol" -> Chars(<<"^">>)
       [] t.op = "eol" -> Chars(<<"$">>)
       [] t.op = "wordb" -> Chars(<<"\\", "b">>)
       [] t.op = "nwordb" -> Chars(<<"\\", "B">>)
       [] t.op = "look" -> Chars(<<"(", "?", "=", "a", ")">>)
       [] t.op = "back" -> Chars(<<"\\", "1">>)
       [] t.op = "group" -> <<Code["("]>> \o
            (CASE t.lo = 0 -> << >> [] t.lo = 1 -> Chars(<<"?", ":">>) [] t.lo = 2 -> Chars(<<"?", "<", "a", ">">>))
              \o all \o <<Code[")"]>>
       [] t.op = "quant" -> all \o
            (CASE t.lo = 0 /\ t.hi = -1 -> Chars(<<"*">>)
               [] t.lo = 1 /\ t.hi = -1 -> Chars(<<"+">>)
               [] t.lo = 0 /\ t.hi = 1 -> Chars(<<"?">>)
               [] t.lo = t.hi -> Chars(<<"{">>) \o Num(t.lo) \o Chars(<<"}">>)
               [] t.lo > 1 /\ t.hi = -1 -> Chars(<<"{">>) \o Num(t.lo) \o Chars(<<",", "}">>)
               [] OTHER -> Chars(<<"{">>) \o Num(t.lo) \o Chars(<<",">>) \o Num(t.hi) \o Chars(<<"}">>))
       [] t.op = "cat" -> all
       [] t.op = "or" -> FlattenSeq([i \in DOMAIN in |-> IF i = 1 THEN in[i] ELSE Chars(<<"|">>) \o in[i]])
       [] t.op = "nocase" -> Chars(<<"(", "?", "i", ")">>) \o all

\* What is said of the search is said of automata; patterns compile to them.
ASSUME CompiledAssumption == \A t \in Terms : Compiled(Spell(t)) = NoRegex \/ IsAutomaton(Compiled(Spell(t)))

\* The code points a leaf stands for.
Spaces == {Code[ch] : ch \in {" ", "\t", "\n", "\r", "\f", "vt"}}
ShortSet(c) ==
  CASE c = Code["d"] -> Digit
    [] c = Code["D"] -> CodePoint \ Digit
    [] c = Code["w"] -> {x \in CodePoint : IsWordCp(x)}
    [] c = Code["W"] -> {x \in CodePoint : ~IsWordCp(x)}
    [] c = Code["s"] -> Spaces
    [] c = Code["S"] -> CodePoint \ Spaces

AnyCase(S) == {x \in CodePoint : \E y \in S : FoldCp(x) = FoldCp(y)}

RECURSIVE Means(_, _)
Means(t, nocase) ==
  LET S == CASE t.op \in {"char", "span"} -> t.lo .. t.hi
             [] t.op = "short" -> ShortSet(t.lo)
             [] t.op = "any" -> CodePoint
             [] t.op = "set" -> UNION {Means(t.subs[i], nocase) : i \in DOMAIN t.subs}
      C == IF nocase THEN AnyCase(S) ELSE S
  IN IF t.neg THEN CodePoint \ C ELSE C

\* Where a match of t that begins before code point i + 1 of s may end; of
\* the terms ts in a row, and of lo to hi copies of t, from the places I.
RECURSIVE Ends(_, _, _, _)
RECURSIVE EndsRow(_, _, _, _)
EndsRow(ts, s, I, nocase) ==
  IF ts = << >> \/ I = {} THEN I
  ELSE EndsRow(Tail(ts), s, UNION {Ends(Head(ts), s, i, nocase) : i \in I}, nocase)

RECURSIVE EndsMany(_, _, _, _, _, _)
EndsMany(t, s, I, lo, hi, nocase) ==
  IF hi = 0 \/ I = {} THEN I
  ELSE LET J == UNION {Ends(t, s, i, nocase) : i \in I}
       IN IF lo > 0 THEN EndsMany(t, s, J, lo - 1, hi - 1, nocase)
          ELSE I \cup EndsMany(t, s, J \ I, 0, hi - 1, nocase)

Ends(t, s, i, nocase) ==
  CASE t.op \in {"char", "short", "any", "set"} ->
         IF i < Len(s) /\ s[i + 1] \in Means(t, nocase) THEN {i + 1} ELSE {}
    [] t.op = "bol" -> IF i = 0 THEN {i} ELSE {}
    [] t.op = "eol" -> IF i = Len(s) THEN {i} ELSE {}
    [] t.op = "wordb" -> IF AtBoundary(s, i) THEN {i} ELSE {}
    [] t.op = "nwordb" -> IF AtBoundary(s, i) THEN {} ELSE {i}
    [] t.op = "group" -> Ends(t.subs[1], s, i, nocase)
    [] t.op = "nocase" -> Ends(t.subs[1], s, i, TRUE)
    [] t.op = "cat" -> EndsRow(t.subs, s, {i}, nocase)
    [] t.op = "or" -> UNION {Ends(t.subs[k], s, i, nocase) : k \in DOMAIN t.subs}
    [] t.op = "quant" -> EndsMany(t.subs[1], s, {i}, t.lo, IF t.hi = -1 THEN t.lo + Len(s) ELSE t.hi, nocase)

Found(t, s) == \E i \in 0 .. Len(s) : Ends(t, s, i, FALSE) # {}

-------------------------------------------------------------------------------
LangInit == SearchInit /\ term = Sign("none")

LangNext ==
  \/ pc = "idle" /\ \E t \in Terms : Compile(Spell(t)) /\ term' = t
  \/ pc = "compiled" /\ (\E s \in Texts : Search(s)) /\ UNCHANGED term
  \/ (Begin \/ Scan) /\ UNCHANGED term

LangSpec == LangInit /\ [][LangNext]_<<searchVars, term>>

-------------------------------------------------------------------------------
\* A piece that only matches the empty text and gets no state.
RECURSIVE Epsilon(_)
Epsilon(t) ==
  CASE t.op = "cat" -> \A i \in DOMAIN t.subs : Epsilon(t.subs[i])
    [] t.op = "group" -> Epsilon(t.subs[1])
    [] t.op = "quant" -> t.hi = 0 \/ Epsilon(t.subs[1])
    [] OTHER -> FALSE

\* What regex.c gets wrong: \w and \s outside a class (ranges that are not
\* sorted are searched by bisection), a negated shorthand inside one, a lower
\* case letter of a class under (?i), an empty piece after another one.
RECURSIVE Mistaken(_, _)
Mistaken(t, nocase) ==
  \/ t.op = "short" /\ t.lo \notin {Code["d"], Code["D"]}
  \/ t.op = "set" /\ \E i \in DOMAIN t.subs :
       \/ t.subs[i].op = "short" /\ t.subs[i].lo \in Upper
       \/ nocase /\ t.subs[i].op = "char" /\ t.subs[i].lo \in Lower
  \/ t.op = "cat" /\ \E i, j \in DOMAIN t.subs : i < j /\ ~Epsilon(t.subs[i]) /\ Epsilon(t.subs[j])
  \/ t.op # "set" /\ \E i \in DOMAIN t.subs : Mistaken(t.subs[i], nocase \/ t.op = "nocase")

\* Lookahead, backreferences, quantified anchors.
RECURSIVE Unsupported(_)
Unsupported(t) ==
  \/ t.op \in {"look", "back"}
  \/ t.op = "quant" /\ t.subs[1].op \in {"bol", "eol", "wordb", "nwordb"}
  \/ \E i \in DOMAIN t.subs : Unsupported(t.subs[i])

\* The search finds a match exactly where the expression has one; apart from
\* the four mistakes above, every pattern that compiles is matched as written,
\* whatever branches, loops, optional copies and anchors it nests, unless a
\* state misses its turn: then a match may be missed, and none is made up.
\* What is not supported does not compile.
SearchIsLanguage ==
  /\ pc = "done" /\ ~Mistaken(term, FALSE) =>
       /\ matched => Found(term, text)
       /\ Found(term, text) => matched \/ \E s \in DOMAIN text : TurnMissed(s - 1, Len(text))
  /\ Unsupported(term) => pc = "failed"

\* A pattern is never silently wrong.
NeverSilentlyWrong == pc = "done" => (matched <=> Found(term, text))
===============================================================================
