------------------------------- MODULE MCEditor -------------------------------
EXTENDS Editor, TLC

Bare(n) == [n |-> n, q |-> FALSE]
Quoted(n) == [n |-> n, q |-> TRUE]
Short == {<<Bare(n)>> : n \in Name}
Long == {<<Bare(n), Bare(m)>> : n \in Name, m \in Name}
Lines == Short \cup Long \cup {<<Quoted(n)>> : n \in Name}
Targets == Short \cup Long \cup {<<Quoted(n)>> : n \in Name} \cup {p \o <<Bare(n)>> : p \in Long, n \in Name}

\* The probe: a value for the key k, then at most two lines.  Those that
\* parse, a value that does not end and one that ends before it begins.
CONSTANT k
First(v) == <<Pair(<<Bare(k)>>, v, FALSE)>>
Further == {Close} \cup {Header(<<Bare(n)>>) : n \in Name} \cup {Pair(<<Bare(n)>>, "scalar", c) : n \in Name, c \in BOOLEAN}
Longer(P) == {p \o <<l>> : p \in P, l \in Further}
Probes ==
  LET One == {First(v) : v \in {"scalar", "string", "inline", "array"}}
      Bad == {First("scalar") \o <<Close>>} \cup {First("string") \o <<Header(<<Bare(n)>>)>> : n \in Name}
  IN Bad \cup {p \in One \cup Longer(One) \cup Longer(Longer(One)) : IsToml(p)}

Quotes(q) == {<<q>>, <<q, q, q>>}
Pieces == Quotes("'") \cup Quotes("\"") \cup {<<c>> : c \in {"\\", "[", "]", "a", "lf"}}
Symmetry == Permutations(Name)
===============================================================================
