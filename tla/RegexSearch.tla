----------------------------- MODULE RegexSearch ------------------------------
(***************************************************************************)
(* sch_regex_search and closure of schema/regex.c: an automaton is run on  *)
(* a text from each of its places, all its states at once.  The sets of    *)
(* states are generations of stamps in one array, which nothing clears.    *)
(*                                                                         *)
(* A text is a sequence of code points.  The code points are those of a    *)
(* small alphabet in the order ASCII has them, with the letters a lower    *)
(* case Offset above the upper case.                                       *)
(***************************************************************************)
EXTENDS Integers, Sequences

CONSTANT MaxGen         \* INT_MAX
ASSUME GenAssumption == MaxGen \in Nat

VARIABLES
  pc,           \* idle | compiled | failed | start | scan | done
  re,           \* the struct sch_regex
  text, start, pos, gen, mark,  \* the locals of sch_regex_search
  matched

searchVars == <<pc, re, text, start, pos, gen, mark, matched>>

Ascii == <<"\t", "\n", "vt", "\f", "\r", " ", "$", "(", ")", "*", "+", ",", "-", ".", "0", "1", "2",
           ":", "<", "=", ">", "?", "A", "B", "D", "I", "S", "W", "[", "\\", "]", "^", "_", "a", "b", "d", "i", "s",
           "w", "{", "|", "}">>
CodePoint == DOMAIN Ascii
Code == [ch \in {Ascii[i] : i \in CodePoint} |-> CHOOSE i \in CodePoint : Ascii[i] = ch]
Offset == Code["a"] - Code["A"]

Upper == Code["A"] .. Code["W"]
Lower == Code["a"] .. Code["w"]
Digit == Code["0"] .. Code["2"]

\* fold_cp, is_word_cp.
FoldCp(c) == IF c \in Upper THEN c + Offset ELSE c
IsWordCp(c) == c \in Upper \cup Lower \cup Digit \cup {Code["_"]}

-------------------------------------------------------------------------------
State(k, rs, neg) == [k |-> k, rs |-> rs, neg |-> neg]
NoRegex == [ns |-> << >>, out |-> {}, start |-> 0, match |-> 0]

\* The struct sch_regex of a pattern that compiled.
IsAutomaton(a) ==
  /\ a.ns \in Seq([k : {"char", "any", "split", "bol", "eol", "wordb", "nwordb", "match"},
                   rs : Seq(Int \X Int), neg : BOOLEAN])
  /\ a.start \in DOMAIN a.ns /\ a.match \in DOMAIN a.ns
  /\ a.out \subseteq ((DOMAIN a.ns) \X {"a", "b"}) \X (DOMAIN a.ns)

\* cls_match: a binary search of the ranges.
Bisect(rs, c) ==
  LET among[lo \in 1 .. Len(rs) + 1] ==
        [hi \in 0 .. Len(rs) |->
           LET mid == (lo + hi) \div 2
           IN  lo <= hi /\ IF c < rs[mid][1] THEN among[lo][mid - 1] ELSE c <= rs[mid][2] \/ among[mid + 1][hi]]
  IN  among[1][Len(rs)]
ClsMatch(state, c) == state.k = "any" \/ Bisect(state.rs, c) # state.neg

AtBoundary(t, p) == (p > 0 /\ IsWordCp(t[p])) # (p < Len(t) /\ IsWordCp(t[p + 1]))

Leads(i, slots) == {x \in DOMAIN re.ns : \E slot \in slots : <<<<i, slot>>, x>> \in re.out}

\* Where state i leads without consuming a code point, at position p of t.
Targets(i, t, p) ==
  LET k == re.ns[i].k
  IN CASE k = "split" -> Leads(i, {"a", "b"})
       [] \/ k = "bol" /\ p = 0
          \/ k = "eol" /\ p >= Len(t)
          \/ k = "wordb" /\ AtBoundary(t, p)
          \/ k = "nwordb" /\ ~AtBoundary(t, p) -> Leads(i, {"a"})
       [] OTHER -> {}

\* closure: the states in open and all they reach, none in closed visited.
Grown(S, closed, t, p) == S \cup (UNION {Targets(i, t, p) : i \in S} \ closed)
Closure(open, closed, t, p) ==
  LET after[n \in 0 .. Len(re.ns)] == IF n = 0 THEN open ELSE Grown(after[n - 1], closed, t, p)
  IN  closed \cup after[Len(re.ns)]

Consumes(i, c) == re.ns[i].k \in {"char", "any"} /\ ClsMatch(re.ns[i], c)

\* The states of S, in the order of the array, mark for the next set where
\* they lead to.  That overwrites the stamp of a state whose turn is still to
\* come, which is then out of S.
Turn(next, S, i, c) ==
  IF i \in S \ next /\ Consumes(i, c) THEN next \cup Leads(i, {"a"}) ELSE next
Consumed(S, c) ==
  LET next[i \in 0 .. Len(re.ns)] == IF i = 0 THEN {} ELSE Turn(next[i - 1], S, i, c)
  IN  next[Len(re.ns)]

\* -gen, in an int.
Negated(g) == IF g = -MaxGen - 1 THEN g ELSE -g

Stamped(g) == {i \in DOMAIN mark : mark[i] \in {g, Negated(g)}}

SearchInit ==
  /\ pc = "idle" /\ re = NoRegex
  /\ text = << >> /\ start = 0 /\ pos = 0 /\ gen = 0 /\ mark = << >> /\ matched = FALSE

\* What sch_regex_compile returns is there; NoRegex is NULL.
Load(a) ==
  /\ pc = "idle" /\ re' = a
  /\ pc' = IF a = NoRegex THEN "failed" ELSE "compiled"
  /\ UNCHANGED <<text, start, pos, gen, mark, matched>>

\* sch_regex_search is called.
Search(t) ==
  /\ pc = "compiled"
  /\ text' = t /\ start' = 0 /\ pos' = 0 /\ gen' = 0 /\ mark' = [i \in DOMAIN re.ns |-> 0]
  /\ matched' = FALSE /\ pc' = "start"
  /\ UNCHANGED re

\* Mutant: a new start keeps the generation of the one before it.
NextGen_Kept == IF pc = "start" /\ gen > 0 THEN gen ELSE gen + 1

\* gen++: an int, which wraps in the builds that do not trap.
NextGen == IF gen = MaxGen THEN -MaxGen - 1 ELSE gen + 1

\* mark[] after the closure of the states in S at position p: what is not
\* stamped -g yet is stamped g, then it and all it reaches -g.
Stamp(S, g, p) ==
  LET closed == {i \in DOMAIN mark : mark[i] = Negated(g)}
      all == Closure((S \cup {i \in DOMAIN mark : mark[i] = g}) \ closed, closed, text, p)
  IN [i \in DOMAIN mark |-> IF i \in all THEN Negated(g) ELSE mark[i]]

\* The outer loop: simulate from start.
Begin ==
  /\ pc = "start"
  /\ IF start > Len(text) THEN pc' = "done" /\ UNCHANGED <<gen, mark, pos>>
     ELSE /\ gen' = NextGen /\ pos' = start /\ pc' = "scan"
          /\ mark' = Stamp({re.start}, gen', start)
  /\ UNCHANGED <<re, text, start, matched>>

\* The inner loop: one code point.
Scan ==
  /\ pc = "scan"
  /\ CASE re.match \in Stamped(gen) ->
            matched' = TRUE /\ pc' = "done" /\ UNCHANGED <<start, pos, gen, mark>>
       [] re.match \notin Stamped(gen) /\ pos >= Len(text) ->
            start' = start + 1 /\ pc' = "start" /\ UNCHANGED <<matched, pos, gen, mark>>
       [] OTHER ->
            /\ gen' = NextGen /\ pos' = pos + 1
            /\ mark' = Stamp(Consumed(Stamped(gen), text[pos + 1]), gen', pos')
            /\ UNCHANGED <<matched, start, pc>>
  /\ UNCHANGED <<re, text>>

\* Any automaton, on any text.
SearchNext ==
  \/ \E a : (IsAutomaton(a) \/ a = NoRegex) /\ Load(a)
  \/ \E t \in Seq(CodePoint) : Search(t)
  \/ Begin \/ Scan
SearchSpec == SearchInit /\ [][SearchNext]_searchVars

-------------------------------------------------------------------------------
\* Where S leads to when every state has its turn.
Onward(S, c) == UNION {Leads(i, {"a"}) : i \in {j \in S : Consumes(j, c)}}

\* What an automaton may be in after the code points of text from s to p.
Reached(s, p) ==
  LET after[n \in 0 .. Len(text)] ==
        IF n = 0 THEN Closure({re.start}, {}, text, s)
        ELSE Closure(Onward(after[n - 1], text[s + n]), {}, text, s + n)
  IN  after[p - s]

\* A state of S would consume c, but an earlier one that does leads to it; and
\* that happens between s and p.
Misses(S, c) == \E i, j \in S : j < i /\ Consumes(j, c) /\ Consumes(i, c) /\ i \in Leads(j, {"a"})
TurnMissed(s, p) == \E q \in s .. p - 1 : Misses(Reached(s, q), text[q + 1])

\* One array of stamps serves every start and every position: a stamp of an
\* earlier generation never passes for one of the current set of states, as
\* long as the text is too short for the generations to wrap; and none of the
\* current set is lost but by a state that missed its turn.
StampsAreFresh ==
  pc = "scan" /\ (Len(text) + 1) * (Len(text) + 1) <= MaxGen =>
    /\ Stamped(gen) \subseteq Reached(start, pos)
    /\ Stamped(gen) = Reached(start, pos) \/ TurnMissed(start, pos)
===============================================================================
