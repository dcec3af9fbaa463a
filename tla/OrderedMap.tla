------------------------------ MODULE OrderedMap ------------------------------
(***************************************************************************)
(* What a TOML table promises its users: a map that remembers insertion    *)
(* order.  The parser, the builder and the emitter rely on nothing else.   *)
(* TableIndex shows that the open-addressing table of dom.c keeps it.      *)
(***************************************************************************)
EXTENDS Naturals, Sequences

CONSTANTS Key, Value

VARIABLE map    \* the <<key, value>> pairs, oldest first

Init == map = << >>

KeysOf(m) == {m[i][1] : i \in DOMAIN m}

\* A key is added once, at the end, and no earlier pair changes.
Insert(k, v) ==
  /\ k \notin KeysOf(map)
  /\ map' = Append(map, <<k, v>>)

Next == \E k \in Key, v \in Value : Insert(k, v)

Spec == Init /\ [][Next]_map
===============================================================================
