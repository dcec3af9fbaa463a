-------------------------------- MODULE Regex --------------------------------
(***************************************************************************)
(* The regular expressions of schema/regex.c: the parser of a pattern, a   *)
(* sequence of code points, and the Thompson automaton made of it.  Not    *)
(* modelled: \p, \x, \u and the control escapes, whose code points and     *)
(* ranges go where those of a literal or a shorthand go.                   *)
(***************************************************************************)
EXTENDS RegexSearch, FiniteSets
LOCAL INSTANCE SequencesExt

CONSTANT MaxStates      \* REGEX_MAX_STATES

ASSUME RegexAssumption == MaxStates \in Nat

-------------------------------------------------------------------------------
(***************************************************************************)
(* The parser.  A function returns what it made and where it stopped;      *)
(* pos = 0 is an error (pfail), Null the NULL of a missing atom.           *)
(***************************************************************************)
Node(k, rs, neg, kids, lo, hi) ==
  [k |-> k, rs |-> rs, neg |-> neg, kids |-> kids, lo |-> lo, hi |-> hi]
Leaf(k) == Node(k, << >>, FALSE, << >>, 0, 0)
Null == Leaf("null")
Got(node, i) == [node |-> node, pos |-> i]
Failed == Got(Null, 0)

Is(s, i, ch) == i <= Len(s) /\ s[i] = Code[ch]
Within(s, i, S) == i <= Len(s) /\ s[i] \in S

\* cls_add, cls_add_cp: the ranges a class item adds.
ClsAdd(lo, hi, fold) ==
  LET Mirror(S, d) ==
        LET M == S \cap (lo .. hi)
        IN IF ~fold \/ M = {} THEN << >>
           ELSE <<<<d + CHOOSE x \in M : \A y \in M : x <= y, d + CHOOSE x \in M : \A y \in M : x >= y>>>>
  IN  Mirror(Upper, Offset) \o Mirror(Lower, -Offset) \o <<<<lo, hi>>>>

ClsAddCp(c, fold) ==
  (IF fold /\ c \in Upper \cup Lower THEN <<<<FoldCp(c), FoldCp(c)>>>> ELSE << >>) \o <<<<c, c>>>>

\* cls_shorthand: the same for \d and \D, \w and \W, \s and \S.
Blanks == <<Code[" "], Code["\t"], Code["\n"], Code["\r"], Code["\f"], Code["vt"]>>
ClsShorthand(e, fold) ==
  CASE e \in {Code["d"], Code["D"]} -> <<<<Code["0"], Code["2"]>>>>
    [] e \in {Code["w"], Code["W"]} ->
         ClsAdd(Code["a"], Code["w"], fold) \o ClsAdd(Code["A"], Code["W"], fold)
           \o ClsAdd(Code["0"], Code["2"], fold) \o ClsAdd(Code["_"], Code["_"], fold)
    [] OTHER -> FlattenSeq([i \in 1 .. 6 |-> ClsAddCp(Blanks[i], fold)])

Shorthand == {Code[e] : e \in {"d", "D", "w", "W", "s", "S"}}
BackReference == {Code["1"], Code["2"]}

\* cls_sort_merge.
ClsSortMerge(rs) ==
  LET sorted == SortSeq(rs, LAMBDA x, y : x[1] < y[1])
      Add(r, acc) == IF acc # << >> /\ r[1] <= acc[Len(acc)][2] + 1
                     THEN [acc EXCEPT ![Len(acc)][2] = IF r[2] > @ THEN r[2] ELSE @]
                     ELSE Append(acc, r)
  IN FoldLeft(LAMBDA acc, r : Add(r, acc), << >>, sorted)

\* One endpoint of a class item at i, class_escape included: c = 0 is an
\* error, c = -1 a shorthand.
ClassPoint(s, i) ==
  IF ~Is(s, i, "\\") THEN [c |-> s[i], pos |-> i + 1]
  ELSE IF i + 1 > Len(s) \/ Within(s, i + 1, BackReference) THEN [c |-> 0, pos |-> 0]
  ELSE [c |-> IF s[i + 1] \in Shorthand THEN -1 ELSE s[i + 1], pos |-> i + 2]

RECURSIVE ClassItems(_, _, _, _, _, _)

\* One item of a class, at i, whose first endpoint is x.
ClassItem(s, i, x, rs, neg, fold) ==
  LET dash == Is(s, x.pos, "-") /\ x.pos + 1 <= Len(s) /\ ~Is(s, x.pos + 1, "]")
      y == ClassPoint(s, x.pos + 1)
      More(p, add) == ClassItems(s, p, FALSE, rs \o add, neg, fold)
  IN CASE x.c = 0  -> Failed
       [] x.c = -1 -> More(x.pos, ClsShorthand(s[i + 1], fold))
       [] x.c > 0 /\ dash  -> IF y.c < x.c THEN Failed ELSE More(y.pos, ClsAdd(x.c, y.c, fold))
       [] x.c > 0 /\ ~dash -> More(x.pos, ClsAddCp(x.c, fold))

\* rclass after '[' and '^': rs is what the items so far added.
ClassItems(s, i, first, rs, neg, fold) ==
  IF i > Len(s) THEN Failed
  ELSE IF Is(s, i, "]") /\ ~first
  THEN Got(Node("class", ClsSortMerge(rs), neg, << >>, 0, 0), i + 1)
  ELSE ClassItem(s, i, ClassPoint(s, i), rs, neg, fold)

RClass(s, i, fold) ==
  LET neg == Is(s, i, "^")
  IN  ClassItems(s, IF neg THEN i + 1 ELSE i, TRUE, << >>, neg, fold)

RECURSIVE Number(_, _, _)
Number(s, i, n) ==
  IF Within(s, i, Digit) THEN Number(s, i + 1, 10 * n + s[i] - Code["0"]) ELSE [n |-> n, pos |-> i]

NoQuant(i) == [lo |-> 1, hi |-> 1, pos |-> i]
Times(s, lo, hi, p) == [lo |-> lo, hi |-> hi, pos |-> IF Is(s, p, "?") THEN p + 1 ELSE p]

\* '{' at i, with the numbers read after it and after the comma.
Braces(s, i, lo, hi) ==
  CASE lo.pos = i + 1 -> NoQuant(i)
    [] Is(s, lo.pos, "}") -> Times(s, lo.n, lo.n, lo.pos + 1)
    [] Is(s, lo.pos, ",") /\ Is(s, lo.pos + 1, "}") -> Times(s, lo.n, -1, lo.pos + 2)
    [] Is(s, lo.pos, ",") /\ hi.pos > lo.pos + 1 /\ Is(s, hi.pos, "}") ->
         IF hi.n < lo.n THEN [NoQuant(i) EXCEPT !.pos = 0] ELSE Times(s, lo.n, hi.n, hi.pos + 1)
    [] OTHER -> NoQuant(i)

\* rquant: hi = -1 is unbounded; pos = i when there is no quantifier, which
\* makes a '{' that begins none a literal; pos = 0 is an error.
RQuant(s, i) ==
  LET lo == Number(s, i + 1, 0)
  IN CASE Is(s, i, "*") -> Times(s, 0, -1, i + 1)
       [] Is(s, i, "+") -> Times(s, 1, -1, i + 1)
       [] Is(s, i, "?") -> Times(s, 0, 1, i + 1)
       [] Is(s, i, "{") -> Braces(s, i, lo, Number(s, lo.pos + 1, 0))
       [] OTHER -> NoQuant(i)

\* The group's '(' is at i - 1: where its body begins, 0 for the forms that
\* are refused ((?=, (?!, (?<=, (?<!, inline flags).
GroupBody(s, i) ==
  LET name == {p \in i + 2 .. Len(s) : Is(s, p, ">")}
  IN CASE ~Is(s, i, "?") -> i
       [] Is(s, i, "?") /\ Is(s, i + 1, ":") -> i + 2
       [] Is(s, i, "?") /\ Is(s, i + 1, "<") /\ ~Is(s, i + 2, "=") /\ name # {} ->
            1 + CHOOSE p \in name : \A q \in name : p <= q
       [] OTHER -> 0

\* RA_CHAR: under (?i) a letter is stored folded and, with ci, matches both.
CharNode(c, ci, fold) ==
  LET f == IF fold THEN FoldCp(c) ELSE c
  IN Node("class", IF ci THEN <<<<f - Offset, f - Offset>>, <<f, f>>>> ELSE <<<<f, f>>>>,
          FALSE, << >>, 0, 0)

\* '\\' at i - 1, outside a class.
REscape(s, i, fold) ==
  CASE i > Len(s) \/ Within(s, i, BackReference) -> Failed
    [] Within(s, i, Shorthand) ->
         Got(Node("class", ClsShorthand(s[i], fold), s[i] \in Upper, << >>, 0, 0), i + 1)
    [] Is(s, i, "b") -> Got(Leaf("wordb"), i + 1)
    [] Is(s, i, "B") -> Got(Leaf("nwordb"), i + 1)
    [] OTHER -> Got(CharNode(s[i], fold /\ s[i] \in Lower, fold), i + 1)

RECURSIVE RAlternation(_, _, _)

\* A group whose body has been read.
GroupEnd(s, body) ==
  IF body.pos = 0 \/ ~Is(s, body.pos, ")") THEN Failed
  ELSE Got(Node("alt", << >>, FALSE, <<body.node>>, 0, 0), body.pos + 1)

\* ratom.
RAtom(s, i, fold) ==
  CASE i > Len(s) \/ Is(s, i, ")") -> Got(Null, i)
    [] Is(s, i, "^") -> Got(Leaf("bol"), i + 1)
    [] Is(s, i, "$") -> Got(Leaf("eol"), i + 1)
    [] Is(s, i, ".") -> Got(Leaf("any"), i + 1)
    [] Is(s, i, "[") -> RClass(s, i + 1, fold)
    [] Is(s, i, "\\") -> REscape(s, i + 1, fold)
    [] Is(s, i, "(") ->
         LET at == GroupBody(s, i + 1)
         IN  IF at = 0 THEN Failed ELSE GroupEnd(s, RAlternation(s, at, fold))
    [] OTHER -> Got(CharNode(s[i], fold /\ s[i] \in Upper \cup Lower, fold), i + 1)

\* rrepeat: the quantifier q after an atom.
Quantified(atom, q) ==
  CASE q.pos = 0 -> Failed
    [] q.pos = atom.pos -> atom
    [] atom.node.k \in {"bol", "eol", "wordb", "nwordb"} -> Failed
    [] OTHER -> Got(Node("quant", << >>, FALSE, <<atom.node>>, q.lo, q.hi), q.pos)
Repeated(s, atom) ==
  IF atom.pos = 0 \/ atom.node = Null THEN atom ELSE Quantified(atom, RQuant(s, atom.pos))
RRepeat(s, i, fold) == Repeated(s, RAtom(s, i, fold))

\* rconcat: pieces up to a bar, a closing parenthesis or the end.
RECURSIVE RConcat(_, _, _, _)
Concat(s, i, fold, seq, piece) ==
  LET Done == Got(Node("seq", << >>, FALSE, seq, 0, 0), i)
  IN CASE Is(s, i, "|") -> Done
       [] piece.pos = 0 -> Failed
       [] piece.node = Null -> Done
       [] OTHER -> RConcat(s, piece.pos, fold, Append(seq, piece.node))
RConcat(s, i, fold, seq) == Concat(s, i, fold, seq, RRepeat(s, i, fold))

RECURSIVE Branches(_, _, _, _)
Branch(s, fold, bs, b) ==
  CASE b.pos = 0 -> Failed
    [] Is(s, b.pos, "|") -> Branches(s, b.pos + 1, fold, Append(bs, b.node))
    [] bs = << >> -> b
    [] OTHER -> Got(Node("alt", << >>, FALSE, Append(bs, b.node), 0, 0), b.pos)
Branches(s, i, fold, bs) == Branch(s, fold, bs, RConcat(s, i, fold, << >>))

\* ralternation.
RAlternation(s, i, fold) == Branches(s, i, fold, << >>)

-------------------------------------------------------------------------------
(***************************************************************************)
(* The automaton.  A fragment has an entry (0: none, it is pure epsilon)   *)
(* and a tail, the out-slots the next fragment is patched into.            *)
(***************************************************************************)
Split == State("split", << >>, FALSE)
Frag(ns, out, entry, tail) == [ns |-> ns, out |-> out, entry |-> entry, tail |-> tail]
NoFrag == Frag(<< >>, {}, -1, {})
Broken(f) == f.entry = -1

\* frag_thread: out holds, for each slot that is set, <<slot, state>>.
Thread(out, tail, to) ==
  {e \in out : e[1] \notin tail} \cup (IF to = 0 THEN {} ELSE {<<slot, to>> : slot \in tail})

\* nstate, refused beyond MaxStates.
Full(ns) == Len(ns) >= MaxStates

RECURSIVE EmitNode(_, _, _)

\* A piece after f: the entry never moves, the tail is the piece's.
Chain(f, piece) ==
  IF Broken(piece) THEN NoFrag
  ELSE Frag(piece.ns, Thread(piece.out, f.tail, piece.entry),
            IF f.entry = 0 THEN piece.entry ELSE f.entry, piece.tail)

\* RA_SEQ: the pieces after f.
RECURSIVE EmitSeq(_, _)
EmitSeq(f, kids) ==
  IF kids = << >> \/ Broken(f) THEN f
  ELSE EmitSeq(Chain(f, EmitNode(f.ns, f.out, Head(kids))), Tail(kids))

\* Mutant: the exits of the earlier branches are dropped.
AltTail_Last(f, b, slot) == b.tail \cup (IF b.entry = 0 THEN {slot} ELSE {})

\* merged: the exits of the branches; the slot of an epsilon branch is one.
AltTail(f, b, slot) == f.tail \cup b.tail \cup (IF b.entry = 0 THEN {slot} ELSE {})

\* RA_ALT: branch i of kids; split is prev_split.
RECURSIVE EmitAlt(_, _, _, _)
EmitAlt(f, kids, i, split) ==
  IF i > Len(kids) THEN f
  ELSE LET b == EmitNode(f.ns, f.out, kids[i])
           middle == i # 1 /\ i # Len(kids)
           ns == IF middle THEN Append(b.ns, Split) ELSE b.ns
           use == IF middle THEN Len(ns) ELSE split
           slot == <<use, IF i = Len(kids) THEN "b" ELSE "a">>
           out == IF middle THEN Thread(b.out, {<<split, "b">>}, use) ELSE b.out
       IN IF Broken(b) \/ (middle /\ Full(b.ns)) THEN NoFrag
          ELSE EmitAlt(Frag(ns, Thread(out, {slot}, b.entry), f.entry, AltTail(f, b, slot)),
                       kids, i + 1, use)

\* The n mandatory copies of RA_QUANT.
RECURSIVE EmitCopies(_, _, _)
EmitCopies(f, child, n) ==
  IF n = 0 \/ Broken(f) THEN f
  ELSE EmitCopies(Chain(f, EmitNode(f.ns, f.out, child)), child, n - 1)

\* A split after f whose a leads to one more copy.
SplitBody(f, child) ==
  LET split == Len(f.ns) + 1
      body == EmitNode(Append(f.ns, Split), Thread(f.out, f.tail, split), child)
  IN IF Full(f.ns) \/ Broken(body) THEN NoFrag
     ELSE [body EXCEPT !.out = Thread(@, {<<split, "a">>}, body.entry)]

\* The unbounded tail: the copy loops back, b exits.
EmitLoop(f, child) ==
  LET split == Len(f.ns) + 1
      body == SplitBody(f, child)
  IN IF Broken(body) \/ body.entry = 0 THEN NoFrag
     ELSE Frag(body.ns, Thread(body.out, body.tail, split),
               IF f.entry = 0 THEN split ELSE f.entry, {<<split, "b">>})

\* The n optional copies.
RECURSIVE EmitOptional(_, _, _)
EmitOptional(f, child, n) ==
  IF n = 0 \/ Broken(f) THEN f
  ELSE LET split == Len(f.ns) + 1
           body == SplitBody(f, child)
       IN IF Broken(body) THEN NoFrag
          ELSE EmitOptional(Frag(body.ns, body.out,
                                 IF f.entry = 0 /\ body.entry # 0 THEN split ELSE f.entry,
                                 {<<split, "b">>} \cup body.tail),
                            child, n - 1)

\* emit_node, after the states ns.
EmitNode(ns, out, r) ==
  LET one == Len(ns) + 1
      Single(state) == IF Full(ns) THEN NoFrag ELSE Frag(Append(ns, state), out, one, {<<one, "a">>})
      Nothing == Frag(ns, out, 0, {})
  IN CASE r.k = "class" -> Single(State("char", r.rs, r.neg))
       [] r.k = "any" -> Single(State("any", << >>, FALSE))
       [] r.k \in {"bol", "eol", "wordb", "nwordb"} -> Single(State(r.k, << >>, FALSE))
       [] r.k = "seq" -> EmitSeq(Nothing, r.kids)
       [] r.k = "alt" /\ Len(r.kids) = 1 -> EmitNode(ns, out, r.kids[1])
       [] r.k = "alt" /\ Len(r.kids) > 1 ->
            IF Full(ns) THEN NoFrag
            ELSE EmitAlt(Frag(Append(ns, Split), out, one, {}), r.kids, 1, one)
       [] r.k = "quant" /\ r.hi = 0 -> Nothing
       [] r.k = "quant" /\ r.hi # 0 ->
            LET f == EmitCopies(Nothing, r.kids[1], r.lo)
            IN CASE Broken(f) -> NoFrag
                 [] ~Broken(f) /\ r.hi = -1 -> EmitLoop(f, r.kids[1])
                 [] OTHER -> EmitOptional(f, r.kids[1], r.hi - r.lo)

\* The automaton f of the whole pattern, closed by the match state.
Closed(f) ==
  LET match == Len(f.ns) + 1
  IN IF Broken(f) \/ Full(f.ns) THEN NoRegex
     ELSE [ns |-> Append(f.ns, State("match", << >>, FALSE)), out |-> Thread(f.out, f.tail, match),
           start |-> IF f.entry = 0 THEN match ELSE f.entry, match |-> match]

\* sch_regex_compile: NoRegex is NULL.
Built(s, ast) == IF ast.pos # Len(s) + 1 THEN NoRegex ELSE Closed(EmitNode(<< >>, {}, ast.node))
Compiled(s) ==
  LET fold == Is(s, 1, "(") /\ Is(s, 2, "?") /\ Is(s, 3, "i") /\ Is(s, 4, ")")
  IN  Built(s, RAlternation(s, IF ~fold THEN 1 ELSE IF Is(s, 5, ":") THEN 6 ELSE 5, fold))

Compile(pattern) == Load(Compiled(pattern))
===============================================================================
