-------------------------------- MODULE Builder --------------------------------
(***************************************************************************)
(* The document builder of build.c: a stack of open containers, scalars    *)
(* and containers attached to the one on top, and arrays whose nature      *)
(* (inline or array of tables) is decided by their first element.          *)
(*                                                                         *)
(* The caller makes any sequence of calls, also after a call that failed.  *)
(* Nodes are kept as in Parser: a sequence with parent links.              *)
(***************************************************************************)
EXTENDS Integers, Sequences, FiniteSets

CONSTANTS
  Key,
  NoKey,        \* key == NULL
  MaxDepth,     \* BUILDER_MAX_DEPTH
  MaxNodes      \* bound: nodes of a document

ASSUME BuilderAssumption ==
  NoKey \notin Key /\ MaxDepth \in Nat \ {0} /\ MaxNodes \in Nat

VARIABLES
  nodes,        \* the document's nodes, 1 is the root
  stack,        \* b->stack[0 .. depth]
  owner,        \* who owns the document: builder | caller | none
  st,           \* what the last call returned
  oom           \* history: some call has returned ERR_ALLOC

vars == <<nodes, stack, owner, st, oom>>

Root == 1
Node(kind, flag, up, key) == [kind |-> kind, flag |-> flag, up |-> up, key |-> key]
Frame(n, nature) == [node |-> n, nature |-> nature]

Children(t) == {i \in DOMAIN nodes : nodes[i].up = t}

Init ==
  /\ nodes = <<Node("table", "explicit", 0, NoKey)>>
  /\ stack = <<Frame(Root, "undecided")>>
  /\ owner = "builder" /\ st = "OK" /\ oom = FALSE

Top == stack[Len(stack)]        \* current(b)
InArray == nodes[Top.node].kind = "array"

-------------------------------------------------------------------------------
(***************************************************************************)
(* attach().                                                               *)
(***************************************************************************)
\* Mutant: no test for a value in an array of tables.
Refuses_NotMixed(key, isTable) ==
  ~InArray /\ (key = NoKey \/ \E i \in Children(Top.node) : nodes[i].key = key)

\* ERR_ARG: a value among sections, a NULL key in a table, a duplicate key.
Refuses(key, isTable) ==
  IF InArray THEN ~isTable /\ Top.nature = "aot"
             ELSE key = NoKey \/ \E i \in Children(Top.node) : nodes[i].key = key

\* The nature of the current array once it has an element.
Decided(isTable) ==
  IF ~InArray \/ Top.nature # "undecided" THEN Top.nature
  ELSE IF isTable THEN "aot" ELSE "inline"

DecidedStack(isTable) == [stack EXCEPT ![Len(stack)].nature = Decided(isTable)]
DecidedNodes(isTable) ==
  [nodes EXCEPT ![Top.node].flag = IF Decided(isTable) = "aot" THEN "aot" ELSE @]

\* The document with n attached to the current container; an element's key
\* is ignored.
Attached(kind, flag, key) ==
  Append(DecidedNodes(kind = "table"),
         Node(kind, flag, Top.node, IF InArray THEN NoKey ELSE key))

Return(code) == st' = code /\ oom' = (oom \/ code = "ALLOC")

Room == Len(nodes) < MaxNodes

-------------------------------------------------------------------------------
(***************************************************************************)
(* The calls.                                                              *)
(***************************************************************************)
\* teptris_builder_put_*: the node is attached, then its value filled in.  A
\* string's copy may still fail: the node stays, with an empty value.
PutScalar(key) ==
  /\ owner = "builder" /\ ~Refuses(key, FALSE) /\ Room
  /\ nodes' = Attached("scalar", "none", key)
  /\ stack' = DecidedStack(FALSE)
  /\ \E code \in {"OK", "ALLOC"} : Return(code)
  /\ UNCHANGED owner

\* Mutant: the result of attach is not tested.
PushContainer_Unchecked(kind, flag, key, nature) ==
  /\ owner = "builder" /\ Room /\ Len(stack) < MaxDepth
  /\ nodes' = IF Refuses(key, kind = "table") THEN Append(nodes, Node(kind, flag, 0, NoKey))
              ELSE Attached(kind, flag, key)
  /\ stack' = Append(IF Refuses(key, kind = "table") THEN stack ELSE DecidedStack(kind = "table"),
                     Frame(Len(nodes) + 1, nature))
  /\ Return("OK")
  /\ UNCHANGED owner

\* push_container: attach first, then the depth test.
PushContainer(kind, flag, key, nature) ==
  /\ owner = "builder" /\ ~Refuses(key, kind = "table") /\ Room
  /\ nodes' = Attached(kind, flag, key)
  /\ IF Len(stack) >= MaxDepth
     THEN stack' = DecidedStack(kind = "table") /\ Return("DEPTH")
     ELSE /\ stack' = Append(DecidedStack(kind = "table"), Frame(Len(nodes) + 1, nature))
          /\ Return("OK")
  /\ UNCHANGED owner

\* The flags open_table gives the new table.
TableFlag ==
  IF IF InArray THEN Top.nature = "inline" ELSE nodes[Top.node].flag = "inline"
  THEN "inline" ELSE "explicit"

OpenTable(key) == PushContainer("table", TableFlag, key, "undecided")

\* open_array: attach has decided the parent's nature when it is read.
InlineTerritory ==
  IF InArray THEN Decided(FALSE) = "inline" ELSE nodes[Top.node].flag = "inline"

OpenArray(key) ==
  PushContainer("array", "plain", key, IF InlineTerritory THEN "inline" ELSE "undecided")

OpenInlineArray(key) == PushContainer("array", "plain", key, "inline")

\* Any put or open call that attach() refuses; a datetime out of range, which
\* put_datetime tests before anything else.
Refused == owner # "none" /\ Return("ARG") /\ UNCHANGED <<nodes, stack, owner>>

\* The node, the key's copy or the table's entry cannot be allocated; or the
\* array cannot grow, after its nature was decided.
AllocFails(key, isTable) ==
  /\ owner = "builder"
  /\ \/ UNCHANGED <<nodes, stack>>
     \/ /\ InArray /\ ~Refuses(key, isTable)
        /\ nodes' = DecidedNodes(isTable) /\ stack' = DecidedStack(isTable)
  /\ Return("ALLOC") /\ UNCHANGED owner

Close ==
  /\ owner = "builder" /\ Len(stack) > 1
  /\ stack' = SubSeq(stack, 1, Len(stack) - 1)
  /\ Return("OK") /\ UNCHANGED <<nodes, owner>>

Finish ==
  /\ owner = "builder" /\ Len(stack) = 1
  /\ owner' = "caller" /\ Return("OK") /\ UNCHANGED <<nodes, stack>>

\* close at the root, finish with containers open, any call after finish.
WrongState ==
  /\ owner # "none" /\ Return("STATE") /\ UNCHANGED <<nodes, stack, owner>>

\* teptris_builder_free; after finish the document is the caller's.
Free ==
  /\ owner = "builder" /\ owner' = "none"
  /\ UNCHANGED <<nodes, stack, st, oom>>

Call ==
  \E key \in Key \cup {NoKey} :
    \/ PutScalar(key) \/ OpenTable(key) \/ OpenArray(key) \/ OpenInlineArray(key)
    \/ \E isTable \in BOOLEAN : AllocFails(key, isTable)

Next == Call \/ Refused \/ Close \/ Finish \/ WrongState \/ Free

Spec == Init /\ [][Next]_vars

-------------------------------------------------------------------------------
(***************************************************************************)
(* Properties.                                                             *)
(***************************************************************************)
NodeType ==
  [kind : {"table", "array", "scalar"}, flag : {"explicit", "inline", "plain", "aot", "none"},
   up : Nat, key : Key \cup {NoKey}]

\* The shape of the builder's state; the stack never outgrows its array.
TypeOK ==
  /\ nodes \in Seq(NodeType) /\ nodes # << >>
  /\ \A i \in DOMAIN nodes : nodes[i].up \in 0 .. i - 1
  /\ stack \in Seq([node : DOMAIN nodes, nature : {"undecided", "inline", "aot"}])
  /\ Len(stack) \in 1 .. MaxDepth
  /\ owner \in {"builder", "caller", "none"} /\ oom \in BOOLEAN
  /\ st \in {"OK", "ARG", "DEPTH", "ALLOC", "STATE"}

IsSection(i) == nodes[i].flag \in {"explicit", "aot"}

\* Inline territory stays inline: a section table or an array of tables is
\* only ever below section tables and arrays of tables, through every mix of
\* open_array, open_inline_array and failed calls.  ("arrays in inline
\* territory ... can never become [[..]] sections", open_array.)
SectionsOutside ==
  \A i \in DOMAIN nodes \ {Root} :
    IsSection(i) => nodes[nodes[i].up].flag \in
                      (IF nodes[i].kind = "table" THEN {"explicit", "aot"} ELSE {"explicit"})

\* emit_section takes every element of an array of tables for a section
\* table: the builder never puts anything else into one.
AotHoldsTables ==
  \A i \in DOMAIN nodes \ {Root} :
    nodes[nodes[i].up].flag = "aot" => nodes[i].flag = "explicit"

\* The open containers are a path from the root along youngest children:
\* what is attached next is last in document order, whatever call failed
\* before.
OpenPath ==
  /\ stack[1].node = Root
  /\ \A s \in 2 .. Len(stack) :
       LET n == stack[s].node IN
       /\ nodes[n].up = stack[s - 1].node /\ nodes[n].kind # "scalar"
       /\ \A i \in Children(stack[s - 1].node) : i <= n

\* No table holds a key twice.
NoKeyTwice ==
  \A i, j \in DOMAIN nodes :
    nodes[i].up = nodes[j].up /\ nodes[i].key = nodes[j].key /\ nodes[i].key # NoKey => i = j

\* An array of tables has an element, else its key would vanish from the
\* emitted text; only a failed allocation may leave one without.
AotNotEmpty ==
  \A i \in DOMAIN nodes : nodes[i].flag = "aot" /\ ~oom => Children(i) # {}

\* What the emitter and the accessors rely on, through every sequence of
\* calls, refused, failed or neither: sections lie in sections only, arrays of
\* tables hold section tables and are not empty, and no table has a key twice.
DocumentSound == TypeOK /\ SectionsOutside /\ AotHoldsTables /\ NoKeyTwice /\ AotNotEmpty
===============================================================================
