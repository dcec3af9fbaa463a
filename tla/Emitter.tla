-------------------------------- MODULE Emitter --------------------------------
(***************************************************************************)
(* The TOML emitter of emit/emitter.c, as a function from a document's     *)
(* nodes (ns, as in Parser and Builder) to the tokens of its text.  What a *)
(* key or a scalar looks like is left out; which tokens come, and in which *)
(* order, is all here.                                                     *)
(***************************************************************************)
EXTENDS Integers, Sequences, FiniteSets
LOCAL INSTANCE SequencesExt

Token(tok, path) == [tok |-> tok, path |-> path]

\* The members of a table or array, in order.
Members(ns, t) == SetToSortSeq({i \in DOMAIN ns : ns[i].up = t}, <)

\* is_section.
Sectioned(v) == \/ v.kind = "table" /\ v.flag # "inline"
                \/ v.kind = "array" /\ v.flag = "aot"

\* emit_value and emit_inline_table.
RECURSIVE ValueTokens(_, _)
ValueTokens(ns, v) ==
  LET inside == [k \in DOMAIN Members(ns, v) |-> LET m == Members(ns, v)[k]
                 IN IF ns[v].kind = "array" THEN ValueTokens(ns, m)
                    ELSE <<Token("key", <<ns[m].key>>)>> \o ValueTokens(ns, m)]
  IN CASE ns[v].kind = "scalar" -> <<Token("scalar", << >>)>>
       [] ns[v].kind = "array"  -> <<Token("[", << >>)>> \o FlattenSeq(inside) \o <<Token("]", << >>)>>
       [] ns[v].kind = "table"  -> <<Token("{", << >>)>> \o FlattenSeq(inside) \o <<Token("}", << >>)>>

ValueLines(ns, t) ==
  LET values == SelectSeq(Members(ns, t), LAMBDA m : ~Sectioned(ns[m]))
  IN FlattenSeq([k \in DOMAIN values |->
       <<Token("key", <<ns[values[k]].key>>)>> \o ValueTokens(ns, values[k])])

\* Mutants: arrays of tables get plain headers; parents are named again.
HeaderTokens_NoAot(n, path) == <<Token("header", path)>>
HeaderTokens_Parents(n, path) ==
  (IF Len(path) > 1 THEN <<Token("header", SubSeq(path, 1, Len(path) - 1))>> ELSE << >>)
    \o <<Token(IF n.kind = "array" THEN "aot" ELSE "header", path)>>

HeaderTokens(n, path) == <<Token(IF n.kind = "array" THEN "aot" ELSE "header", path)>>

\* emit_table_children and emit_section: the values of the table at path
\* prefix, then its sections; an array of tables is one section per element.
RECURSIVE ChildTokens(_, _, _)
ChildTokens(ns, prefix, t) ==
  LET Section(n) ==
        LET path == Append(prefix, ns[n].key)
            tables == IF ns[n].kind = "array" THEN Members(ns, n) ELSE <<n>>
        IN FlattenSeq([k \in DOMAIN tables |->
             HeaderTokens(ns[n], path) \o ChildTokens(ns, path, tables[k])])
      sections == SelectSeq(Members(ns, t), LAMBDA m : Sectioned(ns[m]))
  IN ValueLines(ns, t) \o FlattenSeq([k \in DOMAIN sections |-> Section(sections[k])])

\* teptris_emit_document.
Emit(ns) == ChildTokens(ns, << >>, 1)

\* What a document denotes: tables as functions of their keys, arrays as
\* sequences; flags and the order of table entries do not count.
RECURSIVE Denotation(_, _)
Denotation(ns, v) ==
  LET m == Members(ns, v)
      InTable(k) == CHOOSE i \in DOMAIN ns : ns[i].up = v /\ ns[i].key = k
  IN [kind |-> ns[v].kind,
      of |-> IF ns[v].kind = "table"
             THEN [k \in {ns[m[j]].key : j \in DOMAIN m} |-> Denotation(ns, InTable(k))]
             ELSE [j \in DOMAIN m |-> Denotation(ns, m[j])]]
===============================================================================
