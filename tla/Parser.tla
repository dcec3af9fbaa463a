-------------------------------- MODULE Parser --------------------------------
(***************************************************************************)
(* The parser of parse/parser.c above the level of characters: lines,      *)
(* headers, key paths, values, and the tree they build.  A document is any *)
(* sequence of header and key/value lines; the environment chooses it line *)
(* by line and token by token.                                             *)
(*                                                                         *)
(* A header or a dotted key is resolved one component per step (pc =       *)
(* "walk"), as the loops of resolve_header, try_header_fast and            *)
(* insert_dotted do.  Values are parsed before they are inserted; an open  *)
(* array or inline table is a frame of the stack.  The tree is kept as a   *)
(* sequence of nodes with parent links; tables are the ordered maps that   *)
(* TableIndex implements.                                                  *)
(***************************************************************************)
EXTENDS Integers, Sequences, FiniteSets

CONSTANTS
  Key,
  NoKey,        \* the key of a node that is not in a table
  MaxDepth,     \* teptris_options.max_depth
  FastParts,    \* parts[8] of try_header_fast
  MaxPath,      \* bound: components of a key path
  MaxNodes      \* bound: nodes of a document

ASSUME ParserAssumption ==
  NoKey \notin Key /\ MaxDepth \in Nat \ {0} /\ FastParts \in Nat /\ MaxPath \in Nat /\ MaxNodes \in Nat

VARIABLES
  nodes,        \* the arena: every node allocated so far, 1 is the root
  bodies,       \* history: the tables opened by the root and by headers
  pc,           \* line | walk | value | items | done | fail
  walk,         \* the path being resolved
  stack,        \* where values go: the line's table, then open containers
  st            \* status

vars == <<nodes, bodies, pc, walk, stack, st>>

Root == 1
Path == UNION {[1 .. n -> Key] : n \in 1 .. MaxPath}

cur == bodies[Len(bodies)]      \* ps->cur

\* flag: the TBL_ and ARR_ flags of dom.h, and what plain values have.
\* up = 0: not in the document (yet).  body, via: history, not in the code.
Node(kind, flag, up, key, via) ==
  [kind |-> kind, flag |-> flag, up |-> up, key |-> key,
   body |-> Len(bodies), via |-> via]

Children(t) == {i \in DOMAIN nodes : nodes[i].up = t}

\* teptris_dom_table_probe_slot, for a table: 0 is NULL.
Child(t, k) ==
  LET S == {i \in Children(t) : nodes[i].key = k}
  IN  IF S = {} THEN 0 ELSE CHOOSE i \in S : TRUE

\* v->as.array.items[len - 1] of an array of tables.
LastElem(a) == CHOOSE i \in Children(a) : \A j \in Children(a) : j <= i

-------------------------------------------------------------------------------
NoWalk == [mode |-> "none", at |-> Root, rest |-> << >>, path |-> << >>,
           val |-> 0, mark |-> 0]

Init ==
  /\ nodes = <<[kind |-> "table", flag |-> "explicit", up |-> 0, key |-> NoKey,
                body |-> 1, via |-> "root"]>>
  /\ bodies = <<Root>>
  /\ pc = "line" /\ walk = NoWalk /\ stack = << >> /\ st = "OK"

\* tep_fail_at: the first error ends the parse; the teptris_parser is gone.
Fail(code) ==
  /\ pc' = "fail" /\ st' = code
  /\ walk' = NoWalk /\ stack' = << >>
  /\ UNCHANGED <<nodes, bodies>>

StartWalk(mode, t, path, v) ==
  /\ walk' = [mode |-> mode, at |-> t, rest |-> path, path |-> path,
              val |-> v, mark |-> Len(nodes)]
  /\ pc' = "walk"

\* try_header_fast: [bare.bare], at most FastParts components.
HeaderFast(path) ==
  /\ pc = "line" /\ Len(path) <= FastParts
  /\ StartWalk("fast", Root, path, 0)
  /\ UNCHANGED <<nodes, bodies, stack, st>>

\* parse_header: any other shape, and [[...]].
Header(path, aot) ==
  /\ pc = "line"
  /\ IF Len(path) > MaxDepth THEN Fail("DEPTH")
     ELSE /\ StartWalk(IF aot THEN "aot" ELSE "header", Root, path, 0)
          /\ UNCHANGED <<nodes, bodies, stack, st>>

\* parse_keyval / try_keyval_fast up to the value.
KeyVal(path) ==
  /\ pc = "line"
  /\ IF Len(path) > MaxDepth THEN Fail("DEPTH")
     ELSE /\ stack' = <<[box |-> cur, path |-> path]>>
          /\ pc' = "value"
          /\ UNCHANGED <<nodes, bodies, walk, st>>

Top == stack[Len(stack)]

\* The key of a member of an open inline table.
Member(path) ==
  /\ pc = "items" /\ nodes[Top.box].kind = "table"
  /\ IF Len(path) > MaxDepth THEN Fail("DEPTH")
     ELSE /\ stack' = [stack EXCEPT ![Len(stack)].path = path]
          /\ pc' = "value"
          /\ UNCHANGED <<nodes, bodies, walk, st>>

\* Mutant: no element after the first.
Element_First ==
  /\ pc = "items" /\ nodes[Top.box].kind = "array" /\ Children(Top.box) = {}
  /\ pc' = "value"
  /\ UNCHANGED <<nodes, bodies, walk, stack, st>>

\* The next element of an open array.
Element ==
  /\ pc = "items" /\ nodes[Top.box].kind = "array"
  /\ pc' = "value"
  /\ UNCHANGED <<nodes, bodies, walk, stack, st>>

\* A value is complete: it becomes an element, or its key path is resolved.
Deliver(ns, stk, v) ==
  LET top == stk[Len(stk)] IN
  /\ stack' = stk
  /\ IF ns[top.box].kind = "array"
     THEN /\ nodes' = [ns EXCEPT ![v].up = top.box, ![v].via = "elem"]
          /\ pc' = "items" /\ UNCHANGED walk
     ELSE nodes' = ns /\ StartWalk("dotted", top.box, top.path, v)
  /\ UNCHANGED <<bodies, st>>

Room == Len(nodes) < MaxNodes

\* A scalar value.
Scalar ==
  /\ pc = "value" /\ Room
  /\ Deliver(Append(nodes, Node("scalar", "none", 0, NoKey, "none")), stack,
             Len(nodes) + 1)

\* Mutant: the container is attached when it is opened.
Open_Attached(kind, flag) ==
  /\ pc = "value" /\ Room
  /\ nodes' = Append(nodes, Node(kind, flag, Top.box, NoKey, "none"))
  /\ stack' = Append(stack, [box |-> Len(nodes) + 1, path |-> << >>])
  /\ pc' = "items"
  /\ UNCHANGED <<bodies, walk, st>>

\* teptris_parse_array, teptris_parse_inline: the node, then the depth test.
Open(kind, flag) ==
  /\ pc = "value" /\ Room
  /\ IF Len(stack) > MaxDepth THEN Fail("DEPTH")
     ELSE /\ nodes' = Append(nodes, Node(kind, flag, 0, NoKey, "none"))
          /\ stack' = Append(stack, [box |-> Len(nodes) + 1, path |-> << >>])
          /\ pc' = "items"
          /\ UNCHANGED <<bodies, walk, st>>

\* ']' or '}'.
Close ==
  /\ pc = "items"
  /\ Deliver(nodes, SubSeq(stack, 1, Len(stack) - 1), Top.box)

-------------------------------------------------------------------------------
(***************************************************************************)
(* Resolving a path.                                                       *)
(***************************************************************************)
Part == Head(walk.rest)
Found == Child(walk.at, Part)
Inner == pc = "walk" /\ Len(walk.rest) > 1
Last == pc = "walk" /\ Len(walk.rest) = 1
Dotted == walk.mode = "dotted"

Go(t) == walk' = [walk EXCEPT !.at = t, !.rest = Tail(@)]

\* Mutant: the walk stays where it was ("t = child" is missing).
InnerCreate_StaysPut ==
  /\ Inner /\ Found = 0 /\ Room
  /\ nodes' = Append(nodes, Node("table", IF Dotted THEN "dotted" ELSE "implicit",
                                 walk.at, Part, IF Dotted THEN "key" ELSE "header"))
  /\ Go(walk.at)
  /\ UNCHANGED <<bodies, pc, stack, st>>

\* A missing intermediate table: DOTTED for a key, IMPLICIT for a header.
InnerCreate ==
  /\ Inner /\ Found = 0 /\ Room
  /\ nodes' = Append(nodes, Node("table", IF Dotted THEN "dotted" ELSE "implicit",
                                 walk.at, Part, IF Dotted THEN "key" ELSE "header"))
  /\ Go(Len(nodes) + 1)
  /\ UNCHANGED <<bodies, pc, stack, st>>

\* Mutant: dotted keys may extend tables that headers defined.
KeyMayPass_Headers(v) == v.kind = "table" /\ v.flag # "inline"

\* Mutants: headers may extend inline tables; may not enter dotted ones.
HeaderMayPass_Inline(v) == v.kind = "table" \/ (v.kind = "array" /\ v.flag = "aot")
HeaderMayPass_NotDotted(v) == \/ v.kind = "table" /\ v.flag \notin {"inline", "dotted"}
                              \/ v.kind = "array" /\ v.flag = "aot"

\* What a key path and a header path may pass through.
KeyMayPass(v) == v.kind = "table" /\ v.flag = "dotted"
HeaderMayPass(v) == \/ v.kind = "table" /\ v.flag # "inline"
                    \/ v.kind = "array" /\ v.flag = "aot"
MayPass(v) == IF Dotted THEN KeyMayPass(v) ELSE HeaderMayPass(v)

InnerDown ==
  /\ Inner /\ Found # 0 /\ MayPass(nodes[Found])
  /\ IF nodes[Found].kind = "array"
     THEN IF nodes[LastElem(Found)].kind # "table" /\ walk.mode # "fast"
          THEN Fail("STATE")
          ELSE Go(LastElem(Found)) /\ UNCHANGED <<nodes, bodies, pc, stack, st>>
     ELSE Go(Found) /\ UNCHANGED <<nodes, bodies, pc, stack, st>>

InnerStuck ==
  /\ Inner /\ Found # 0 /\ ~MayPass(nodes[Found])
  /\ Fail("SEMANTIC")

\* The header's table is t: ps->cur = t.
OpenBody(t) ==
  /\ bodies' = Append(bodies, t)
  /\ pc' = "line" /\ walk' = NoWalk
  /\ UNCHANGED <<stack, st>>

\* [path] of a new table.
LastNewTable ==
  /\ Last /\ walk.mode \in {"fast", "header"} /\ Found = 0 /\ Room
  /\ nodes' = Append(nodes, Node("table", "explicit", walk.at, Part, "header"))
  /\ OpenBody(Len(nodes) + 1)

\* try_header_fast leaves an existing table to parse_header, which reads the
\* line again.
FastFallback ==
  /\ Last /\ walk.mode = "fast" /\ Found # 0
  /\ IF Len(walk.path) > MaxDepth THEN Fail("DEPTH")
     ELSE /\ StartWalk("header", Root, walk.path, 0)
          /\ UNCHANGED <<nodes, bodies, stack, st>>

\* Mutant: a header takes over a dotted table.
LastImplicit_TakesDotted ==
  /\ Last /\ walk.mode = "header" /\ Found # 0
  /\ nodes[Found].kind = "table" /\ nodes[Found].flag \in {"implicit", "dotted"}
  /\ nodes' = [nodes EXCEPT ![Found].flag = "explicit"]
  /\ OpenBody(Found)

\* [path] of a table that only longer headers have named so far.
LastImplicit ==
  /\ Last /\ walk.mode = "header" /\ Found # 0
  /\ nodes[Found].kind = "table" /\ nodes[Found].flag = "implicit"
  /\ nodes' = [nodes EXCEPT ![Found].flag = "explicit"]
  /\ OpenBody(Found)

\* Any other existing node: defined more than once.
LastTaken ==
  /\ Last /\ Found # 0
  /\ \/ walk.mode = "header" /\ ~(nodes[Found].kind = "table" /\ nodes[Found].flag = "implicit")
     \/ walk.mode = "aot" /\ nodes[Found].flag # "aot"
     \/ Dotted
  /\ Fail("SEMANTIC")

\* [[path]]: the array first, then its next element.
LastNewAot ==
  /\ Last /\ walk.mode = "aot" /\ Found = 0 /\ Room
  /\ nodes' = Append(nodes, Node("array", "aot", walk.at, Part, "header"))
  /\ UNCHANGED <<bodies, pc, walk, stack, st>>

LastAotElem ==
  /\ Last /\ walk.mode = "aot" /\ Found # 0 /\ nodes[Found].flag = "aot" /\ Room
  /\ nodes' = Append(nodes, Node("table", "explicit", Found, NoKey, "elem"))
  /\ OpenBody(Len(nodes) + 1)

\* Mutant: the last component is not looked up.
LastInsert_Unchecked ==
  /\ Last /\ Dotted
  /\ nodes' = [nodes EXCEPT ![walk.val].up = walk.at, ![walk.val].key = Part,
                            ![walk.val].via = "key"]
  /\ walk' = NoWalk
  /\ IF Len(stack) = 1 THEN pc' = "line" /\ stack' = << >>
     ELSE pc' = "items" /\ stack' = [stack EXCEPT ![Len(stack)].path = << >>]
  /\ UNCHANGED <<bodies, st>>

\* The value goes in under the last component; back to the line or to the
\* inline table that holds the member.
LastInsert ==
  /\ Last /\ Dotted /\ Found = 0
  /\ nodes' = [nodes EXCEPT ![walk.val].up = walk.at, ![walk.val].key = Part,
                            ![walk.val].via = "key"]
  /\ walk' = NoWalk
  /\ IF Len(stack) = 1 THEN pc' = "line" /\ stack' = << >>
     ELSE pc' = "items" /\ stack' = [stack EXCEPT ![Len(stack)].path = << >>]
  /\ UNCHANGED <<bodies, st>>

-------------------------------------------------------------------------------
\* An allocation fails: a value's node, or an entry of the table being walked.
AllocFails ==
  /\ \/ pc = "value"
     \/ pc = "walk" /\ Found = 0
     \/ Last /\ walk.mode = "aot" /\ Found # 0 /\ nodes[Found].flag = "aot"
  /\ Fail("ALLOC")

\* A token that no rule accepts, or the end of the input inside a value.
SyntaxError == pc \in {"line", "value", "items"} /\ Fail("SYNTAX")

EndOfInput ==
  /\ pc = "line" /\ pc' = "done"
  /\ UNCHANGED <<nodes, bodies, walk, stack, st>>

Line ==
  \E path \in Path :
    \/ HeaderFast(path)
    \/ \E aot \in BOOLEAN : Header(path, aot)
    \/ KeyVal(path)

Value == Scalar \/ Open("array", "plain") \/ Open("table", "inline")

Items == Element \/ (\E path \in Path : Member(path)) \/ Close

Walk == \/ InnerCreate \/ InnerDown \/ InnerStuck
        \/ LastNewTable \/ FastFallback \/ LastImplicit \/ LastTaken
        \/ LastNewAot \/ LastAotElem \/ LastInsert

Next == Line \/ Value \/ Items \/ Walk \/ AllocFails \/ SyntaxError \/ EndOfInput

Spec == Init /\ [][Next]_vars

-------------------------------------------------------------------------------
(***************************************************************************)
(* Properties.                                                             *)
(***************************************************************************)
Ids == 0 .. Len(nodes)

NodeType ==
  [kind : {"table", "array", "scalar"},
   flag : {"explicit", "implicit", "dotted", "inline", "aot", "plain", "none"},
   up : Nat, key : Key \cup {NoKey}, body : Nat,
   via : {"root", "header", "key", "elem", "none"}]

\* The shape of the parser's state; links point at allocated nodes.
TypeOK ==
  /\ nodes \in Seq(NodeType) /\ \A i \in DOMAIN nodes : nodes[i].up \in Ids
  /\ bodies \in Seq(DOMAIN nodes) /\ bodies # << >>
  /\ pc \in {"line", "walk", "value", "items", "done", "fail"}
  /\ walk \in [mode : {"none", "fast", "header", "aot", "dotted"}, at : DOMAIN nodes,
               rest : Seq(Key), path : Seq(Key), val : Ids, mark : Ids]
  /\ stack \in Seq([box : DOMAIN nodes, path : Seq(Key)])
  /\ st \in {"OK", "SYNTAX", "SEMANTIC", "DEPTH", "ALLOC", "STATE"}

\* No table ever holds one key twice: no later line replaces or hides what an
\* earlier one defined, whichever of the four insertion sites ran.
NoKeyTwice ==
  \A i, j \in DOMAIN nodes :
    /\ nodes[i].up # 0 /\ nodes[i].up = nodes[j].up
    /\ nodes[i].key = nodes[j].key /\ nodes[i].key # NoKey
    => i = j

\* No two headers (nor a header and the root) open the same table.
NoTableTwice == \A a, b \in DOMAIN bodies : bodies[a] = bodies[b] => a = b

\* A key/value line adds entries to the table its header opened, and through
\* dotted keys only to tables that lines of that same body created: dotted
\* keys never reach into a table defined elsewhere.
DottedStaysHome ==
  \A i \in DOMAIN nodes :
    nodes[i].via = "key" =>
      LET t == nodes[i].up IN
      CASE nodes[t].flag = "explicit" -> bodies[nodes[i].body] = t
        [] nodes[t].flag = "dotted"   -> nodes[t].via = "key" /\ nodes[t].body = nodes[i].body
        [] nodes[t].flag = "inline"   -> nodes[t].body = nodes[i].body
        [] OTHER -> FALSE

\* An array of tables holds tables only, and is never empty when a later
\* header walks through it: items[len - 1] exists, the "corrupt array of
\* tables" branch is dead, and the fast path may do without it.
AotSound ==
  \A i \in DOMAIN nodes :
    nodes[i].flag = "aot" =>
      /\ \A c \in Children(i) : nodes[c].kind = "table" /\ nodes[c].flag = "explicit"
      /\ Children(i) = {} => \/ pc = "fail"
                             \/ Last /\ walk.mode = "aot" /\ Found = i

\* What every later line, the emitter and the accessors rely on, together.
TreeSound == TypeOK /\ NoKeyTwice /\ NoTableTwice /\ AotSound

\* try_header_fast has created nothing when it returns false.
FastFalseIsPure ==
  Last /\ walk.mode = "fast" /\ Found # 0 => Len(nodes) = walk.mark

\* A container that is open is not in the document, and one that is in the
\* document is complete: a failed value leaves no half-built node behind.
OpenIsDetached ==
  \A s \in 2 .. Len(stack) : nodes[stack[s].box].up = 0

\* The nodes above i, i included.
Above(i) ==
  LET anc[n \in Nat] ==
        IF n = 0 THEN {i}
        ELSE anc[n - 1] \cup ({nodes[j].up : j \in anc[n - 1]} \ {0})
  IN  anc[Len(nodes)]

Sealed(i) == /\ nodes[i].flag \in {"inline", "plain"}
             /\ \A s \in DOMAIN stack : stack[s].box # i

\* A complete inline table or array never gets another entry, at any depth
\* below it: every path into it is stopped.
SealedStaysClosed ==
  [][\A i \in DOMAIN nodes' :
       LET t == nodes'[i].up IN
       t # 0 /\ (IF i \in DOMAIN nodes THEN nodes[i].up # t ELSE TRUE) =>
         \A a \in Above(t) : ~Sealed(a)]_vars

\* What is in the document stays as it is; a table named only by longer
\* headers may become explicit, once.
DefinedIsFinal ==
  [][\A i \in DOMAIN nodes :
       nodes[i].up # 0 =>
         \/ nodes'[i] = nodes[i]
         \/ /\ nodes[i].flag = "implicit"
            /\ nodes'[i] = [nodes[i] EXCEPT !.flag = "explicit"]]_vars

\* The node the first n components of a path denote from the root: 0 nothing,
\* -1 a place no header may pass through.
Denotes(path, n) ==
  LET at[m \in Nat] ==
        IF m = 0 THEN Root
        ELSE LET t == at[m - 1]
             IN  IF t <= 0 THEN t
                 ELSE IF nodes[t].flag \in {"inline", "plain", "none"} THEN -1
                 ELSE Child(IF nodes[t].kind = "array" THEN LastElem(t) ELSE t, path[m])
  IN  at[n]

\* TOML's rule for a header, read off the tree as it was before the line.
HeaderAllowed(path, aot) ==
  LET i == Denotes(path, Len(path)) IN
  \/ i = 0
  \/ i > 0 /\ IF aot THEN nodes[i].flag = "aot" ELSE nodes[i].flag = "implicit"

\* The verdict on a header is TOML's whichever way the line was read: the
\* fast path, its fallback and the general path accept and reject the same.
VerdictIsToml ==
  [][pc = "walk" /\ walk.mode \in {"fast", "header", "aot"}
       /\ pc' # "walk" /\ st' \notin {"ALLOC", "DEPTH"} =>
       (pc' = "line" <=> HeaderAllowed(walk.path, walk.mode = "aot"))]_vars
===============================================================================
