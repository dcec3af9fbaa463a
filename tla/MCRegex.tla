-------------------------------- MODULE MCRegex --------------------------------
(***************************************************************************)
(* Two layers of expressions over two letters with every way to combine    *)
(* them, and one layer of everything a class, a shorthand, an anchor and   *)
(* (?i) can be.                                                            *)
(***************************************************************************)
EXTENDS RegexLanguage

Bounds == {<<0, -1>>, <<1, -1>>, <<0, 1>>, <<0, 0>>, <<2, 2>>, <<1, 2>>, <<2, -1>>}
ab == {Char("a"), Char("b")}
Quants(S) == {Quant(t, q[1], q[2]) : t \in S, q \in Bounds}

Pieces1 == ab \cup {Group(Cat(<< >>))} \cup Quants({Char("a"), Group(Cat(<< >>))})
Cats1 == {Cat(s) : s \in UNION {[1 .. n -> Pieces1] : n \in 0 .. 2}}
Ors1 == {Or(<<x, y>>) : x, y \in {Cat(<<Char("a")>>), Cat(<< >>), Cat(<<Quant(Char("a"), 0, -1)>>)}}
          \cup {Or(<<Cat(<<Char("a")>>), x, Cat(<<Char("b")>>), Cat(<< >>)>>) : x \in {Cat(<< >>), Cat(<<Char("a"), Char("b")>>)}}
Groups1 == {Group(t) : t \in Cats1 \cup Ors1}
Nested == {Cat(<<p>>) : p \in Groups1 \cup Quants(Groups1)}
            \cup {Cat(<<Char("b"), p, Char("b")>>) : p \in Quants({g \in Groups1 : g.subs[1].op = "or"})}
            \cup {Or(<<Cat(<<p, Char("b")>>), Cat(<<Char("b"), Char("b")>>)>>) : p \in Groups1}

Leaves == {Char("a"), Char("A"), Sign("any"), Short("d"), Short("D"), Short("w"), Short("W"), Short("s")}
Items == {Char("a"), Char("A"), Char("0"), Char("_"), Span("A", "b"), Span("0", "A"), Span("a", "b"), Short("d"), Short("w"), Short("S")}
Sets == {Set(n, <<x, y>>) : n \in BOOLEAN, x, y \in Items}
Anchored == {Cat(<<x, c, y>>) : x, y \in {Sign("bol"), Sign("eol"), Sign("wordb"), Sign("nwordb")}, c \in {Char("a"), Quant(Char(" "), 0, 1)}}
Classes == LET one == {Cat(<<l>>) : l \in Leaves \cup Sets} IN one \cup {NoCase(t) : t \in one} \cup Anchored

Forms == {Cat(<<GroupAs(f, Cat(<<Char("a"), x>>)), Char("b")>>) : f \in {1, 2},
            x \in {Char("b"), Char("{"), Sign("look"), Sign("back"), Quant(Sign("bol"), 0, 1)}}

MCTerms == Nested \cup Classes \cup Forms

MCTexts == UNION {[1 .. n -> {Code["a"], Code["b"]}] : n \in 0 .. 4}
             \cup {<<Code[c]>> : c \in {"A", "0", "_", " "}}
             \cup {<<Code["a"], Code["{"], Code["b"]>>, <<Code["a"], Code[" "]>>, <<Code[" "], Code["a"]>>}
===============================================================================
