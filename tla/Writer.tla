-------------------------------- MODULE Writer --------------------------------
(***************************************************************************)
(* The streaming writer of emit/writer.c: operations in, the text of a     *)
(* document out.  An action is one operation of a chunk; where one call of *)
(* teptris_writer_feed ends and the next begins makes no difference, for   *)
(* all that is kept between operations is kept in the teptris_writer.      *)
(* The text is a sequence of tokens, separators and line ends included.    *)
(* A refused operation leaves a status that no later operation changes, so *)
(* the text it may have begun is never handed out and is not modelled.     *)
(***************************************************************************)
EXTENDS Integers, Sequences, FiniteSets

CONSTANTS
  Key,
  NoKey,        \* a key pointer that is NULL
  PathFrames,   \* stack[600] of w_path
  MaxNodes      \* bound: tables, arrays and values written

ASSUME WriterAssumption ==
  NoKey \notin Key /\ PathFrames \in Nat \ {0} /\ MaxNodes \in Nat \ {0}

VARIABLES
  key,          \* w->key
  frames,       \* w->top and what is below it; the root table is the first
  out,          \* w->out
  lost,         \* w->out.st: the buffer could not grow and was freed
  st,           \* w->st
  finished,     \* w->finished
  doc,          \* history: what the operations so far describe, as nodes
  section,      \* history: the node of the table whose lines are being written
  slips         \* history: departures from the grammar that were accepted

vars == <<key, frames, out, lost, st, finished, doc, section, slips>>

Root == 1
Token(tok, path) == [tok |-> tok, path |-> path]
Mark(tok) == <<Token(tok, << >>)>>

\* kind: F_TABLE, F_ARRAY, F_AOT, F_ITAB; sub: saw_subtable; node: history.
Frame(kind, k, node) == [kind |-> kind, key |-> k, first |-> FALSE, sub |-> FALSE, node |-> node]

\* teptris_writer_new.
Init ==
  /\ key = NoKey /\ out = << >> /\ lost = FALSE /\ st = "OK" /\ finished = FALSE
  /\ frames = <<Frame("table", NoKey, Root)>>
  /\ doc = <<[kind |-> "table", flag |-> "explicit", up |-> 0, key |-> NoKey]>>
  /\ section = Root /\ slips = {}

-------------------------------------------------------------------------------
Here == Len(frames)
Top == frames[Here]

\* The loop of teptris_writer_feed runs.
Fed == ~finished /\ st = "OK"

Refuse(code) == st' = code /\ UNCHANGED <<key, frames, out, lost, finished, doc, section, slips>>

Keyless == Top.kind \in {"array", "aot"}

\* The node an operation describes, in the container that is open.
Described(kind, flag) ==
  /\ Len(doc) < MaxNodes
  /\ doc' = Append(doc, [kind |-> kind, flag |-> flag, up |-> Top.node,
                         key |-> IF Keyless THEN NoKey ELSE key])

\* What the grammar of operations forbids and the code lets pass.
Slip(what) == slips' = slips \cup what

\* Mutant: the members of inline tables are not separated.
Separated_Arrays(f) == f.kind = "array" /\ f.first

\* w_sep_val: a separator before every item but the first.
Separated(f) == f.kind \in {"array", "itab"} /\ f.first
SepVal(f) == IF Separated(f) THEN Mark(",") ELSE << >>

\* w_keyed_prefix, and the same tests where BEGIN_ARRAY and
\* BEGIN_INLINE_TABLE make them: an array asks for no key.
PrefixStatus(f) ==
  CASE f.kind = "array" -> "OK"
    [] f.kind # "array" /\ key = NoKey -> "ARG"
    [] f.kind # "array" /\ key # NoKey /\ f.sub -> "STATE"
    [] OTHER -> "OK"

KeyedPrefix(f) == SepVal(f) \o IF f.kind = "array" THEN << >> ELSE <<Token("key", <<key>>)>>

\* w_clear_key once the key is written.
KeyAfter(f) == IF f.kind = "array" THEN key ELSE NoKey

Begun == [frames EXCEPT ![Here].first = TRUE]

\* w_end_line.
EndLine(f) == IF f.kind = "table" THEN Mark("nl") ELSE << >>

Stray == (IF Top.kind = "array" /\ key # NoKey THEN {"key in array"} ELSE {})
           \cup (IF Top.kind = "aot" THEN {"value in aot"} ELSE {})

\* A value that is written at once.
Put(kind, flag, tokens) ==
  /\ Fed
  /\ IF PrefixStatus(Top) # "OK" THEN Refuse(PrefixStatus(Top))
     ELSE /\ Described(kind, flag)
          /\ out' = out \o KeyedPrefix(Top) \o tokens \o EndLine(Top)
          /\ key' = KeyAfter(Top) /\ frames' = Begun /\ Slip(Stray)
          /\ UNCHANGED <<lost, st, finished, section>>

\* W_STRING, W_INT, W_FLOAT, W_FALSE, W_TRUE, W_DATETIME.
FeedScalar == Put("scalar", "none", Mark("scalar"))

\* W_EMPTY_TABLE and W_EMPTY_ARRAY.
FeedEmpty ==
  \/ Put("table", "inline", Mark("{") \o Mark("}"))
  \/ Put("array", "plain", Mark("[") \o Mark("]"))

\* W_KEY: the pending key is replaced.
FeedKey(k) ==
  /\ Fed /\ key' = k
  /\ UNCHANGED <<frames, out, lost, st, finished, doc, section, slips>>

\* w_push and w_push_steal.
Push(fs, kind, k) == Append(fs, Frame(kind, k, Len(doc) + 1))

\* W_BEGIN_ARRAY and W_BEGIN_INLINE_TABLE as values.
BeginValue(kind, node, flag, mark) ==
  IF PrefixStatus(Top) # "OK" THEN Refuse(PrefixStatus(Top))
  ELSE /\ Described(node, flag)
       /\ out' = out \o KeyedPrefix(Top) \o Mark(mark)
       /\ key' = KeyAfter(Top) /\ frames' = Push(Begun, kind, NoKey) /\ Slip(Stray)
       /\ UNCHANGED <<lost, st, finished, section>>

BeginArray ==
  /\ Fed
  /\ IF Top.kind = "aot" THEN Refuse("ARG")
     ELSE BeginValue("array", "array", "plain", "[")

BeginInlineTable ==
  /\ Fed
  /\ IF Top.kind = "array" /\ key # NoKey THEN Refuse("ARG")
     ELSE BeginValue("itab", "table", "inline", "{")

-------------------------------------------------------------------------------
\* Mutant: an array of tables adds nothing to the path of its elements.
PathOf_Tables(fs) ==
  LET p[i \in 0 .. Len(fs)] ==
        IF i = 0 THEN << >>
        ELSE IF Len(fs) - i < PathFrames /\ fs[i].kind = "table" /\ fs[i].key # NoKey
        THEN Append(p[i - 1], fs[i].key)
        ELSE p[i - 1]
  IN  p[Len(fs)]

\* w_path: the keys of the PathFrames innermost frames, outermost first.
PathOf(fs) ==
  LET p[i \in 0 .. Len(fs)] ==
        IF i = 0 THEN << >>
        ELSE IF Len(fs) - i < PathFrames /\ fs[i].kind \in {"table", "aot"} /\ fs[i].key # NoKey
        THEN Append(p[i - 1], fs[i].key)
        ELSE p[i - 1]
  IN  p[Len(fs)]

LongPath == IF Len(frames) > PathFrames THEN {"long path"} ELSE {}

\* Mutant: saw_subtable is not set.
Sectioned_Forgotten == frames

\* t->saw_subtable = 1.
Sectioned == [frames EXCEPT ![Here].sub = TRUE]

HeaderLine(tok, path) == <<Token(tok, path)>> \o Mark("nl")

\* W_BEGIN_TABLE: the next element of an array of tables, or a section.
BeginTable ==
  /\ Fed
  /\ CASE Top.kind \in {"array", "itab"} -> Refuse("ARG")
       [] Top.kind = "aot" ->
            /\ Described("table", "explicit")
            /\ out' = out \o HeaderLine("aot", PathOf(frames))
            /\ key' = NoKey /\ frames' = Push(frames, "table", NoKey) /\ Slip(LongPath)
            /\ section' = Len(doc) + 1
            /\ UNCHANGED <<lost, st, finished>>
       [] Top.kind = "table" /\ key = NoKey -> Refuse("ARG")
       [] Top.kind = "table" /\ key # NoKey ->
            /\ Described("table", "explicit")
            /\ out' = out \o HeaderLine("header", Append(PathOf(frames), key))
            /\ key' = NoKey /\ frames' = Push(Sectioned, "table", key) /\ Slip(LongPath)
            /\ section' = Len(doc) + 1
            /\ UNCHANGED <<lost, st, finished>>

\* W_BEGIN_AOT: nothing is written before the first element.
BeginAot ==
  /\ Fed
  /\ IF key = NoKey \/ Top.kind # "table" THEN Refuse("ARG")
     ELSE /\ Described("array", "aot")
          /\ key' = NoKey /\ frames' = Push(Sectioned, "aot", key)
          /\ UNCHANGED <<out, lost, st, finished, section, slips>>

\* The frame goes first: w_end_line sees the one below it.
Closing(f, below) ==
  CASE f.kind = "array" -> Mark("]") \o EndLine(below)
    [] f.kind = "itab" -> Mark("}") \o EndLine(below)
    [] OTHER -> << >>

\* W_CLOSE; the root table is never closed.
FeedClose ==
  /\ Fed
  /\ IF Here = 1 THEN Refuse("ARG")
     ELSE /\ frames' = SubSeq(frames, 1, Here - 1)
          /\ out' = out \o Closing(Top, frames[Here - 1])
          /\ UNCHANGED <<key, lost, st, finished, doc, section, slips>>

\* An operation cut off by the end of the chunk, an unknown operation, a
\* kind of date-time that is none, and a failed malloc of a key or a frame.
FeedFails == Fed /\ \E code \in {"ARG", "ALLOC"} : Refuse(code)

\* eb_reserve: the buffer is freed, and every later write is dropped.
OutFails ==
  /\ Fed /\ ~lost /\ lost' = TRUE
  /\ UNCHANGED <<key, frames, out, st, finished, doc, section, slips>>

\* teptris_writer_finish hands the text over.
Finish ==
  /\ ~finished /\ st = "OK" /\ Here = 1
  /\ finished' = TRUE
  /\ UNCHANGED <<key, frames, out, lost, st, doc, section, slips>>

Next ==
  \/ \E k \in Key : FeedKey(k)
  \/ FeedScalar \/ FeedEmpty \/ BeginArray \/ BeginInlineTable
  \/ BeginTable \/ BeginAot \/ FeedClose \/ FeedFails \/ OutFails \/ Finish

Spec == Init /\ [][Next]_vars

-------------------------------------------------------------------------------
TypeOK ==
  /\ key \in Key \cup {NoKey} /\ lost \in BOOLEAN /\ finished \in BOOLEAN
  /\ st \in {"OK", "ARG", "STATE", "ALLOC"}
  /\ slips \subseteq {"key in array", "value in aot", "long path"}
  /\ frames # << >>
  /\ \A i \in DOMAIN frames :
       /\ frames[i].kind \in {"table", "array", "aot", "itab"}
       /\ frames[i].key \in Key \cup {NoKey} /\ frames[i].node \in DOMAIN doc

\* What the caller receives: an empty text when the buffer was freed.
Text == IF lost THEN << >> ELSE out

(***************************************************************************)
(* TOML's grammar of tokens, read from left to right: now is what the last *)
(* token was, open the brackets not closed yet.                            *)
(***************************************************************************)
AtLine == [now |-> "line", open |-> << >>]
Misread == [now |-> "error", open |-> << >>]

Inside(r) == IF r.open = << >> THEN "line" ELSE r.open[Len(r.open)]

Value == {"scalar", "[", "{"}
MayFollow(r) ==
  CASE r.now = "line" -> {"header", "aot", "key"}
    [] r.now = "header" -> {"nl"}
    [] r.now = "key" -> Value
    [] r.now = "open" -> IF Inside(r) = "[" THEN Value \cup {"]"} ELSE {"key", "}"}
    [] r.now = "comma" -> IF Inside(r) = "[" THEN Value ELSE {"key"}
    [] r.now = "value" -> CASE Inside(r) = "[" -> {",", "]"}
                            [] Inside(r) = "{" -> {",", "}"}
                            [] OTHER -> {"nl"}
    [] r.now = "error" -> {}

Class(tok) ==
  CASE tok = "nl" -> "line"
    [] tok \in {"header", "aot"} -> "header"
    [] tok = "key" -> "key"
    [] tok \in {"[", "{"} -> "open"
    [] tok = "," -> "comma"
    [] tok \in {"scalar", "]", "}"} -> "value"

ReadToken(r, tok) ==
  IF tok \notin MayFollow(r) THEN Misread
  ELSE [now |-> Class(tok),
        open |-> CASE tok \in {"[", "{"} -> Append(r.open, tok)
                   [] tok \in {"]", "}"} -> SubSeq(r.open, 1, Len(r.open) - 1)
                   [] OTHER -> r.open]

Reading(text) ==
  LET r[n \in 0 .. Len(text)] == IF n = 0 THEN AtLine ELSE ReadToken(r[n - 1], text[n].tok)
  IN  r[Len(text)]

\* Whatever operations the writer accepted, the text it hands over is made of
\* whole lines, every bracket closed by its own kind, one separator between
\* two items, a key before every value of a table and none before an item:
\* only values fed into an array of tables itself escape w_end_line.
TextIsWellFormed == finished /\ "value in aot" \notin slips => Reading(Text) = AtLine

\* The nodes on the way from the root of d to node n, and their keys.
LineOf(d, n) ==
  LET line[i \in 0 .. Len(d)] ==
        IF i = 0 THEN <<n>>
        ELSE IF d[line[i - 1][1]].up = 0 THEN line[i - 1]
        ELSE <<d[line[i - 1][1]].up>> \o line[i - 1]
  IN  line[Len(d)]
KeysOf(d, nodes) ==
  LET keys[i \in 0 .. Len(nodes)] ==
        IF i = 0 THEN << >>
        ELSE IF d[nodes[i]].key = NoKey THEN keys[i - 1]
        ELSE Append(keys[i - 1], d[nodes[i]].key)
  IN  keys[Len(nodes)]
PlaceOf(d, n) == KeysOf(d, LineOf(d, n))

\* A header spells the place of the table it opens, through every nesting of
\* tables and arrays of tables, and a line with a value is written only while
\* the header before it is that of the table the value was fed to: no value
\* ends up in another table than the one that was open.
LinesInPlace ==
  [][Len(out') > Len(out) =>
       LET new == out'[Len(out) + 1] IN
       /\ new.tok \in {"header", "aot"} /\ "long path" \notin slips' => new.path = PlaceOf(doc', section')
       /\ new.tok = "key" /\ Top.kind = "table" => section = Top.node]_vars

\* An array element carries no key: a key fed inside an array is refused.
StrayKeyRefused == "key in array" \notin slips

\* teptris_writer_finish reports the text it could not keep.
NothingLost == finished => ~lost
===============================================================================
