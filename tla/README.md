# A TLA+ model of teptris

teptris is a TOML 1.1 library in C99: a parser that builds a document tree, an
emitter, a builder and a streaming writer for dumping, an in-place editor, a
descriptor walk for bindings, and a JSON Schema validator for TOML documents.
It is single-threaded and keeps nothing on disk. What is hard about it is not
concurrency but long sequences of legal calls, several routes into one data
structure, failures in the middle of an operation, limits, and recursion that
re-enters itself.

The project models the parts where these matter, checks them with TLC on small
instances and proves the most important results with TLAPS for every instance.
`PROJECT.json` is its index: components, runs, the mutants that show each
property can fail, the map from definitions to source lines, hazards, findings
and theorems. Paths below are relative to `src/src/teptris/` unless they start
with `src/`.

## 1. The system

| Component | State | Operations | Interacts with |
| --- | --- | --- | --- |
| arena (`memory/`) | list of blocks, bump offset | alloc, try_grow, destroy | everything below allocates from one arena per document or schema |
| DOM tables (`dom/`) | entry array, open-addressing index, both growing | find, probe_slot, insert, insert_slot | parser, builder, accessors |
| parser (`parse/parser.c`, `keys.c`) | cursor, current table, the tree, error | one header or key/value line at a time; arrays and inline tables by recursion | DOM tables, scalars |
| scalars, date-times (`parse/scalars.c`, `datetime.c`) | none across calls | parse one value | parser |
| API (`api.c`) | a document: arena, root, error | parse, parse_batch, free, accessors, flatten, emit | all of the above |
| builder (`build.c`) | stack of open containers with their nature, document, owner | put_*, open_table, open_array, open_inline_array, close, finish, free | DOM, emitter |
| emitter (`emit/emitter.c`, `emit_shared.h`) | output buffer | canonical TOML text; JSON views | DOM; its text goes to the parser |
| writer (`emit/writer.c`) | frames, pending key, sticky status | feed, finish | its text goes to the parser |
| editor (`edit/edit.c`) | none | replace one scalar in a text | parser, twice, as a check |
| plans (`plan/plan.c`) | rows and sub-plans | build, walk | DOM; bindings |
| schema compiler (`schema/schema.c`, `refs.c`) | memo, current resource, accumulators, resources | compile a JSON document into nodes | JSON reader, regex, metaschemas |
| validator (`schema/validate.c`) | frames of evaluated keys, mute level, error signal, report, scopes, paths | validate a document | compiled nodes, DOM |
| regex, formats, JSON reader (`schema/`) | an NFA; none; none | match; test; read | schema |
| ryu, chartype, simd, metaschemas, unicode_props, CLI | vendored, tables, generated or a thin shell | | |

What makes each part correct, and what is hard to test about it:

- **DOM tables.** A lookup returns the entry with the key and nothing else; every
  probing loop ends. Hard: a slot handed out by `probe_slot` is used after a
  rebuild may have happened; an allocation fails between the rebuild of the
  index and the growth of the entries.
- **Parser.** No key or table is defined twice; dotted keys stay in the body that
  wrote them; closed values are never extended; the verdict is TOML's. Hard: four
  insertion sites and a fast route beside the general one must agree, also after
  any sequence of headers.
- **Builder and emitter.** The document has a shape that can be written as TOML,
  whatever calls failed on the way; the text reads back as the same document.
  Hard: `attach` commits before the tests that may still fail.
- **Schema compiler.** Compilation ends on cyclic references; the verdict does not
  depend on what lies in annotations. Hard: building a node's dynamic scope
  compiles objects the keyword loop never asked for.
- **Validator.** Failing trials leave no trace; a key counts as evaluated only if
  an application that did not fail evaluated it. Hard: the index of evaluated
  keys is cut back lazily, and the frames live in an array that moves.
- **Writer.** In whatever order and chunks the operations come, what is accepted is
  TOML and describes what was fed, provided the caller gives no key twice and feeds an
  array of tables nothing but tables. Hard: keys pending across nested containers,
  headers rebuilt from a bounded number of frames.
- **Scalars.** A text is accepted exactly when TOML has it, and what is emitted reads
  as the value it was written from. Hard: five ways to read a number, chosen by its
  length and first characters; runs of three to five quotes; the layouts of floats.
- **Editor.** The edit changes the value of the key that was named and nothing
  else. Hard: it follows lines without parsing them.
- **Plans.** A row of a view is what the document holds there. Hard: views of array
  elements and of views; a depth gate computed in one pass.
- **Regular expressions.** A search finds a match exactly where the expression has
  one. Hard: fragments chained by patching, one array of stamps for all starts, which
  holds the set of states that is read and the one that is written.
- **Dynamic scopes.** `$dynamicRef` goes to the outermost resource that defines the
  anchor; recursion ends. Hard: three stacks pushed and popped by every branch of
  one function of 450 lines, at capacities of their own.
- **Arena, API**: see the hazards in `PROJECT.json`.

## 2. Modules and how they correspond to the code

**TableIndex**, **OrderedMap** (`dom/dom.c`, `dom.h`). `entries`, `cap`, `index`,
`idx_cap` are the fields of a table. An insertion takes the code's steps: a miss
(`ProbeMiss` from the parser's probe, `FindMiss` from find), the load test, the
rebuild of the index entry by entry, the growth of the entries, the store; an
allocation may fail at each one (`AllocFails`). Linear probing is described by
the distance at which a walk stops, so that no recursion is needed. `OrderedMap`
is what the table promises: an insertion-ordered map. `ImplementsMap` is the
refinement, with the entry array as the map.

**Parser** (`parse/parser.c`, `keys.c`). Characters are abstracted to lines and
tokens the environment chooses; control is kept. A path is resolved one component
per step, in the mode of the routine that walks it: `fast` (try_header_fast),
`header` and `aot` (resolve_header), `dotted` (insert_dotted). The tree is a
sequence of nodes with parent links and the flags of `dom.h`; a container under
construction is a frame of `stack` and not yet in the tree (`up = 0`). `bodies`,
and `via` and `body` of a node, are history the properties need.

**Builder** (`build.c`). One action per call; `Refuses` collects the refusals of
`attach`, `Decided` its decision what an array is, `PushContainer` keeps the order
of the code: attach first, depth test second. `AllocFails` is any call whose
allocation fails; `oom` remembers that one did.

**Emitter**, **Replay**, **DumpRoundTrip**, **ParseRoundTrip** (`emit/emitter.c`,
`api.c`). `Emit` maps a tree to a sequence of tokens (headers, keys, brackets,
scalars), values of a table before its sections as `emit_table_children` does.
`Replay` instantiates Parser with the token sequence as its environment.
DumpRoundTrip composes Builder, Emitter and Parser; ParseRoundTrip composes Parser,
Emitter and Parser. They ask whether parse(emit(d)) is d.

**EvalFrames** (`schema/validate.c`). `frames` is the stack of annotation frames,
each belonging to one activation of `val`; `keys` and `hash` are a frame's list and
its stamped index, `pings` the error signal, `mute` the trial depth. The schema is
not represented: it only chooses which application comes next, within the order of
keywords in `val`. Each frame also carries, as history, what the standard says is
evaluated.

**SchemaCompile** (`schema/schema.c`). The recursion of `sch_compile_node` and
`build_self_scope` is a stack of activation records, `ret` the value returned.
The initial state is any document of `Size` objects, each a subschema of the one
above it or mere data in it, with or without `$id`, and with one keyword that
matters. `memo`, `cur`, `acc`, `scope`, `deps`, `depcap` are the fields of `sctx`
and `sch_node`. A pointer read from the wrong resource may lead to any object there
or nowhere (`Resolve`).

**DynamicScopes** (`schema/validate.c`). The same recursion seen from the other side:
`stack` holds the activations of `val` with the calls each still has to make,
`scopes`, `path`, `ssegs`, `sdepth` and `ref_depth` are the fields of `vctx`; `spath` is
the schema path they show, and `saved` of an activation the depth that a trial which
failed puts back. The schema is any
tree of `Size` objects, each applied to a member, in place, or only by reference;
`Compiled` derives from it what the compiler leaves in the nodes. A member of the
instance is there or not each time it is looked for. `left` of an activation (it
came back from a reference of its own) and `cut` (a segment found no room) are history.

**Writer**, **WriterRoundTrip** (`emit/writer.c`). One action per operation; all the
state that survives an operation is in the model, so chunk boundaries make no
difference and do not appear. The text is a sequence of tokens, separators and line
ends included. `doc` and `section` are history: what the operations described, and the
table whose lines are being written. `Reading` is TOML's grammar of those tokens, one
token after the other; WriterRoundTrip gives a text that keeps it to Replay as well,
and refuses any other as the parser does.

**ScalarText**, **ScalarNumbers**, **Scalars** (`parse/scalars.c`,
`parse/datetime.c`, `parse/keys.c`, `emit/emit_shared.h`). The scanners, the number
paths, the date-time parser and the corresponding writers as operators on sequences
of characters, one character per class the code tells apart. Widths and digit
limits (64 bits, 18 and 15 digits, 10^22, what ryu takes and what its copy of a float
holds, 512-byte runs, 9 digits of a second) are constants; the copy of the path for
underscores is taken to hold its three runs. `Scalars` enumerates inputs and states them against a grammar of TOML
written independently of the code's structure.

**RegexSearch**, **Regex**, **RegexLanguage** (`schema/regex.c`). RegexSearch is the
simulation of an automaton with its stamps, a state at a time where the code reads and
writes them in one loop; Regex adds the pattern parser and the Thompson construction
with its patch lists. `CompiledAssumption` has TLC check that the latter makes what
RegexSearch takes an automaton to be (`IsAutomaton`).
RegexLanguage spells a term as a pattern and says, without an automaton, where
its matches end.

**Editor** (`edit/edit.c`). `EditScalar` scans the lines of a source in the order of
the code; `ValueSpan` is its scan of a value, character by character. `Address` is
what the same line means to a parser, `IsToml` whether the parser takes the lines. The
replacement is lines too, a value for the key of the probe and what the caller wrote
below it: the probe is parsed as a document (`Probed`), and the result only where more
than a bare scalar was replaced.

**PlanBuild**, **Plan** (`plan/plan.c`). PlanBuild lists the rows of a plan and decides
on it, with the loop over the rows and the one pass that computes depths; Plan extends it
with the walk, and every accessor as a step on a chain of views.

Parser, Builder and SchemaCompile use tables and lists as what OrderedMap says they
are; TableIndex shows that the code's tables are that. Composition is by Replay:
the token sequences of Emitter and of Writer are the environment of a second Parser.

The models were also compared with the compiled library. TLC listed behaviours together
with what the model answers, and a C driver put the same inputs through the library:
patterns and texts (95 675), sources and edits (634 880), writer operations (1 240 731),
token sequences for the parser and the emitter (574 400), scalar texts (648 497; another
597 870 with the code's widths, the limits of ryu and the copies shrunk to those of the model), builder calls (294 369),
and schemas (57 276 of three objects and 46 000 random ones of four to six with calls
that stay, 57 276 and 36 000 with trials that fail, 10 351 with trials that hold; the
answer is the order of the calls and both paths at each). They agree on all of them.

## 3. Runs

| Run | Bounds | Shows |
| --- | --- | --- |
| `table_index` | six keys, four of which share a first slot, first capacities 4 and 2 (34 000 states) | every insertion order through three rebuilds, a failure possible at each allocation: the inductive invariant of the proofs (in it: a slot handed to a caller is still free), ending walks, right lookups, refinement of OrderedMap, insertions return |
| `parse_round_trip` | two keys, paths of three components, fast route for two, depth 3, five nodes (2.2 million states) | the redefinition rules on all routes; the verdict on a header is TOML's; abandoned containers are unreachable; what is accepted is emitted and accepted again as the same document |
| `dump_round_trip` | two keys, stack of three, five nodes (280 000 states) | the builder's document has the shape the emitter relies on, and every finished document is read back as the same document, with the same text |
| `eval_frames` | two members, six applications, two errors, index of four slots (508 000 states) | verdicts of trials are private, the report is the verdict, lists hold evaluated keys only, and so does the index unless the frame was cut back |
| `dynamic_scopes` | three objects, one `$ref`, one `$dynamicRef`, two levels of instance, paths of 1 and 3 segments, two references deep (2.2 million states) | `$dynamicRef` goes to the outermost resource, error paths are those of the open calls, the recursion is bounded |
| `schema_compile` | three objects, six keywords, any tree, any reference (675 000 states) | compilation ends, nothing is re-entered, the verdict is right unless a scope walk dropped a failure, scopes hold the subtree's anchors |
| `writer_round_trip` | two keys, four nodes below the root, four path frames (3 million states) | the text of a caller that keeps to the contract is read back as what was described; the text of any caller is made of whole lines and closed brackets, unless a value was fed into an array of tables itself, and repeats a key only where one was fed twice; headers spell the place of the table they open, up to the frames kept, and no line is written to another table |
| `scalars` | integers of five characters, floats of six, strings of four, on one line and on several, date-times with each part at and beyond its limits, 8-bit integers, copies of floats of 3 and 5 bytes (1 million states) | accepted exactly when TOML has it, with its value but where a copy is too small, the same by every path; what is emitted reads back; escapes, continued lines and runs of quotes of multi-line strings |
| `regex` | about 2 500 patterns up to three operators deep, texts of up to four letters, automata of 14 states (761 000 states) | a search makes no match up and misses none, but for four named mistakes and states that miss their turn; stamps never mix two sets of states |
| `edit` | four lines over two keys, replacements of three (five with the source), targets of three components, values of six pieces: runs of one to six quotes, escapes, line ends, brackets (1.2 million states) | the line that means the target is edited; a replacement that is one value leaves TOML with the same other keys; a value ends where the parser's does |
| `plan` | three sub-plans, three rows, documents of three levels, walked from any node (753 000 states) | the depth gate is exact for forward references; a row is what the document holds, through any chain of views |
| `eval_spin` | five keys, index of four slots | expects a violation, see below |

Why the bounds are enough: two keys are what a conflict needs (a third would only be
"another key"); five nodes fit a root, a table, an array of tables, its element and
an entry, or two levels of each container with an entry; limits (depth 2 or 3, fast
route of 1 to 3 parts, capacities 1 to 4, 8 bits) are set so low that behaviours lie
on both sides of them; three objects allow a cycle of references through a data
object and an embedded resource beside the current one. Four lines of text fit a
header, a multi-line value and two keys. Keys are symmetric, and declared so by the
runs of the parser, the editor and the frames, which check no liveness.
Deadlock is not checked: a parse, a compilation, a validation and a walk end, a
builder or writer may be abandoned.

The exemption of `TargetUnlessLeft` for resources entered below their root matters
from four objects on; the property was also checked there, for the trees in which
one resource holds a child and another stands beside it (15 million states), too
long for a regular run.

Fairness. `InsertReturns` (table_index), `LoadEnds` (dump_round_trip) and `Ends`
(schema_compile) assume only that a running call keeps running: weak fairness of
the internal steps of one C function. Nothing is assumed about callers.

### Where code and documentation disagree

`eval_spin` expects a violation and is the finding in `PROJECT.json`: merging a
child's keys fills every slot of the new index, and the next probing loop does not
end. The other disagreements are kept as configurations outside the regular runs;
each ends in a counterexample (`tlc -config <cfg> <module>`). Where a configuration
lists several properties TLC stops at the first that fails; each of them fails when
the others are taken off the list.

| Configuration, module | Property | What the counterexample shows |
| --- | --- | --- |
| `MCScopesLeft`, DynamicScopes | `TargetIsOutermost` | after an object's own `$ref` or `$dynamicRef` returns, its anchors are out of scope for its members and applicators (`validate.c:891`, `908`), and `$dynamicRef` below them goes elsewhere than `src/SCHEMAS.md:86` and the comment at `validate.c:852` say |
| the same | `TargetIsInnermost` | two other comments say the opposite of those, "resolves through the innermost scope entered on the evaluation path" (`validate.c:875-877`) and "the innermost scope wins at validation time" (`schema.c:1102-1103`); `scope_resolve` takes the outermost, which is what `TargetUnlessLeft` states |
| `MCRegexWrong`, MCRegex | `NeverSilentlyWrong` | outside a class `\w` and `\s` are searched by bisection in unsorted ranges and miss letters and spaces; `[\D]` is `[\d]`; `(?i)[a]` does not match `A`; a piece that matches only the empty text breaks the chain after it; `a?a` does not match `a`, because the loop at `regex.c:1159` marks the second `a` for the next set before its turn in this one (`regex.c:10`: "never silently wrong") |
| `MCParseRoundTripCap`, ParseRoundTrip | `Reparses` | key paths and nesting are capped one by one, their sum is not: an accepted document is emitted with a header the parser refuses |
| `MCWriterStray`, WriterRoundTrip | `StrayKeyRefused` | a key fed where none belongs stays pending and names a later value, where `writer.c:13-16` says it is refused |
| the same | `NeverInvalid` | a value fed into an array of tables is written without an end of line, and a key fed twice is written twice, where `src/src/include/teptris/teptris.h:217` says "invalid TOML is never emitted" |
| `MCEvalStale`, MCEvalFrames | `SeenIsEvaluated` | after a failed trial was cut back, the next key added revives the dropped one in the index |
| `MCEvalMoved`, MCEvalFrames | `FrameIsThere` | the loop of unevaluatedProperties keeps a pointer to a frame while applications may move the array |
| `MCSchemaLost`, SchemaCompile | `Verdict` | a scope walk compiles annotations as schemas and drops their failure; the memo and the current resource keep its traces |
| the same | `RejectsDynamic` | `$dynamicRef`, `$dynamicAnchor` (and the recursive and unevaluated keywords) are compiled, as `src/SCHEMAS.md:86` says, where `src/src/include/teptris/schema.h:43-47` says they are "REJECTED at compile"; `VerdictUnlessLost` counts such a document as valid |
| `MCSchemaDeps`, SchemaCompile | `NoStrayWrite` | the capacity of dependency lists is shared by all nodes: the second list gets no storage |
| `MCEditorElse`, MCEditor | `EditsNothingElse` | a line inside a `"""` string or a multi-line inline table is edited in place of the key; a row `[1],` of an array is taken for a header and the key below is not found |
| the same | `TakesOneValue`, `HandsBackToml` | the probe `k = <replacement>` is parsed as a document (`edit.c:379`), so `1`, a line end and `b = 2` or `[x]` pass where `src/ERRORS.md:58` says that what "is not one valid TOML value" is refused; in place of a bare scalar, whose result is not parsed (`edit.c:266`, `462`), this moves keys under another header or gives a key twice |

For most of them a regular run says where the code is right: `TargetUnlessLeft`,
`SearchIsLanguage` (which names the mistakes), `SameDocument` up to the cap,
`TextIsDocument` (callers that keep to the contract), `SeenUnlessCut`,
`VerdictUnlessLost`, `EditsTheKey`. `PathUnlessCut` holds until a segment finds no
room: `path_push` drops it at depth 128, `path_pop` takes another in its place, and
every later path in that container is short of a segment; for the same reason the
test of `vc->depth` against 512 (`validate.c:863`) never fires. `ScopeExact` is stated
for documents without `$dynamicRef`, because `resource_local_anchor` returns on a
match without rewinding the accumulator. A walk may also meet a node that is still
being compiled and whose anchor has not been read (`missed`): then a scope lacks that
anchor, and `resource_local_anchor` may fall back on an anchor of another resource,
the first that `collect_anchors` met (`FirstCollected`: it reads members in their
order, so that an object's own anchor may come after those below it), which is
compiled although nothing refers to it. `VerdictUnlessLost` therefore claims that
a rejected schema is invalid only where no anchor was missed. The
fallback matters from four objects on and the missed anchor from five; such documents
were checked apart, in selections of 1.4 million states each, too long for a regular
run.

Smaller divergences met while modelling, each an explicit exemption in the property
that would otherwise fail, or outside a run's inputs:

- a fraction after a time without seconds is accepted (`datetime.c`);
- a float with a plus sign, or with more than 17 significant digits or 4 of an exponent,
  is converted from a copy of 1032 bytes, and the digits of a fraction beyond byte 1008 or of
  an exponent beyond 1024 are dropped (`scalars.c:704`, `728`): `+0.`, 1010 zeros and
  `1e1011` read as 0, without the sign as 1;
- a short literal with a backslash is left to the scanner where a long one is taken over
  whole (`scalars.c:327`): slower, and the same;
- a key with a DEL is written bare of escapes and refused when read back;
- `finish` of the writer returns OK and an empty text after a failed `realloc`;
- a quoted component of a key path never matches in the editor, and a comment with a
  quote or bracket inside an array moves the end of its value;
- the plan's depth gate does not follow references to the plan itself or an
  earlier one, so for those the depth of the document is the only bound;
- the generations of a regex search are an `int`: on a text of 65 535 code points
  without a match they overflow, and where they wrap old stamps pass for new ones;
- two references to the root in one object make the number of calls exponential in
  the guard on references: bounded, but not soon.

The MC modules hold the values, input sets and symmetry sets of their
configurations; the other modules are instantiated by a `.cfg` alone.

## 4. Proofs

Each theorem holds for every value of the constants its module's named assumption
allows: the bounds of section 3, and the numbers that only limit a run (`MaxNodes`,
`MaxPath`, `MaxApps`, `MaxPings`, `MaxRefs`, `MaxDoc`, `MaxHeight`), are arbitrary there. TLC
had found each stated property to hold on the instances of section 3 first.

**NatRecursion** holds what the other proof modules share: induction and recursion
without operators as parameters. A predicate is the set of the arguments it holds for
(`InductiveSet`), a recursive definition is the function that computes one step of it
(`RecursiveFunction`, `RecursiveUpTo`), and a tree given by parent numbers smaller
than the child's is walked with `ForestInduction` and the `Ascent` and `Line` lemmas.
The models therefore write recursion as local functions over numbers, or as a closure
under one step (`Line`, `InOrder`, `PathOf`), wherever something is proved about it.

**TableIndexProofs** proves, for every set of keys, every hash function and every
pair of initial capacities: type correctness, `IInv`, `WalkEnds`, `SlotStillFree`,
`FindIsLookup` and the refinement of OrderedMap. Assumptions: `NonEmpty`,
`KeyHashAssumption` and `CapAssumption` (at least two slots, at least one entry). The
invariant `IInv` adds to the checked properties what makes them inductive: fewer
entries than 7/10 of the slots once the load test has passed (so that every walk
meets an empty slot), an exact index during a rebuild for the entries already put
back, cached hashes, and the fact that the key of a pending insertion is not in the
table. `PutKeeps` is the central lemma: filling the first free slot of a walk breaks
no other chain.

**BuilderProofs** proves, for every set of keys and every stack size: type
correctness, `SectionsOutside`, `AotHoldsTables`, `OpenPath`, `NoKeyTwice`,
`AotNotEmpty`, and together `DocumentSound`, which `dump_round_trip` checks. None of
them is inductive alone. When `attach` turns an undecided array into an array of
tables, the array must have no element yet and its parent must be an explicit
table; that is what `FrameOK` adds for every open container. The lemmas follow the
code: `DecideInv` and `AppendInv` for the two halves of `attach`, `PushInv` and `PopInv`
for the stack, then one lemma per call.

**ParserProofs** proves all that `parse_round_trip` checks of the parser alone, for
every set of keys, every depth and every length of path the fast route takes. The
invariants `TreeSound`, `DottedStaysHome`, `FastFalseIsPure` and `OpenIsDetached` follow
from `IInv`: what a node owes to the node it lies in (`Placed`), what the open
containers hold (`StackOK`), and where a walk may stand (`WalkOK`, one case per
routine). A tree changes in three ways only - a node is appended, a detached node is
attached, an implicit table becomes explicit - and each has one lemma that the actions
share. The action properties need one fact more, `OpenLine`: from every place where an
entry may still go, all the way up, no complete inline table or array is passed.
`VerdictIsToml` also carries along a header's walk that the parts not yet walked are
judged on the tree as it was when the header began: what a walk adds lies on the path it
has behind it.

**EvalFramesProofs** proves `VerdictIsPrivate`, `ListIsSound` and `SeenUnlessCut`, for
every set of members, every hash function and every first size of the index above 3
(`EvalAssumption`; the code's is 16). The first part is about one frame: as long as its
list was not cut, every slot in use holds a listed key and the probing loop for a listed
key ends at it (`IndexOK`), through growth, merges and duplicates; for another key the
loop never ends at it, though it may not end at all, which is the finding of `eval_spin`
and not an answer. The second is about frames together: `Linked` says that what an
application found when it began is still there in the frame below, so that the error
signal splits between the open applications and the mute level is the number of trials.
Where the list was cut `IndexOK` is false, and the model reaches states in which the
index answers wrongly (`MCEvalStale`).

**SchemaCompileProofs** proves `NoReentry`, for documents of any size. An object that is
on the stack is busy in the memo, a failed one for good, and a call of a busy object
returns at once; so no two activations compile one object, and the stack holds at most
two frames for each (a `$dynamicRef`'s walk stands on the activation that began it). The
invariant also orders the bases of the open walks in the accumulator.

It also proves `ScopeExact`. Without a `$dynamicRef` the open walks cut the accumulator
in segments (`Segment`), one per walk, each beginning at its walk's base. `SInv` says
of each that it holds anchors of the walk's object, in order and below the object the
walk has come to (`Sound`), and all of these if nothing was dropped or missed (`Whole`);
the steps of the stack either keep all segments (`SegPush`, `SegPop`, `SegTurn`), add to
the last (`SegSkip`, `SegKeep`) or cut it off (`SegCut`). `LInv` ties a call to the walk
that made it: what comes back to a walk is the object it has come to. When the walk has
passed the last object of the subtree its segment is the list that `InOrder` builds,
since two ascending lists of one set are equal (`ListsUnique` of NatRecursion).

`VerdictUnlessLost` equates a fixed point (`Reached`, the closure of the root under
`Edge`) with the outcome of a depth-first recursion whose memo answers before an object
is finished. Four invariants carry it, all about compilations in which no walk dropped a
failure (`lost`). `HInv`: the current resource is that of the newest object whose
keywords are being read, and until something fails every busy object is on the stack; so
a `$ref` leads where the document says, and a finished compilation leaves no object busy.
`RInv`: a finished object has had everything called that it depends on, one that is being
read what it has read so far, and a walk of `resource_local_anchor` what lies behind it
in its resource. The entry `resource_local_anchor` takes need not be the first anchor of
its resource, but the walk has called that one too. `WInv`: calls and entries of the
accumulator stay in the resource of the object they were made for until a fallback leads
out, and a fallback leads to the document's first anchor only; so an entry taken in a
resource that has no anchor means that the first anchor was called before. When the
compilation has ended with a node, the called objects are finished and closed under
`Edge`, so they include `Reached`, and none was rejected. The other half is `FInv`: with
no walk on the stack whatever is being compiled is in `Reached`, so that what fails there
is a fault of the document; it needs that a local walk which met an anchor has an entry,
which is where `missed` comes in. TLC had found the four to hold on all documents of
three objects and on a selection of four.

**ValidationProofs** proves `RecursionBounded`, `PathUnlessCut` and
`TargetUnlessLeft`, for schemas and instances of any size and any capacities. `SchemaOK`
states what compilation leaves behind, and is proved of `Compiled`, the objects'
recursion included (`OwnScope`: a self scope is the anchors of the subtree in document
order). `ScopesOK` cuts the array of scope entries in segments, one per open call: the
anchors of its object, or nothing once a reference of that call has come back. If all
segments are whole and every resource was entered at its root, the first segment with an
entry of a resource holds all of them, so that `scope_resolve`, which looks for the
first owner and its last entry, finds the outermost. `DepthOK` bounds the stack: calls
that are no references go down the schema, where the numbers rise. `SlotsOK` says that
whatever segment is shown, or may be shown again when a trial puts `sdepth` back, was
written; `ChainOK` that until a segment is dropped `sdepth` rises by one with each call
that pushes, so that putting it back changes nothing.

It also proves `StampsAreFresh`, for every automaton and every text of which all pairs
of places can be counted in an `int` (`MaxGen`): with `MaxGen` = 2^31 - 1 those are the
texts of up to 46 339 code points. `RInv` says that every stamp lies between the
generation and its negation, so that the next generation is nobody's (`StampIs`), and
that each start uses at most one generation per place left (`Counted`, `Room`). The set
of stamped states is then one closure after another along the text (`ReachedIs`), or
smaller where a state missed its turn (`ConsumedIsOnward`, `ClosureGrows`). The theorem
is about any automaton; that patterns compile to automata is checked by TLC.

**BindingProofs** is about the two interfaces made for bindings.

Of plans it proves `GateIsDepth`, for any number of sub-plans and rows and any
limit (`PlanAssumption`: none is 0). One ascending pass is enough because the rows of a
plan change only depths behind it (`RowRaises`, `PlanRaises`). What it has found after
each plan is `Deep`: a sub-plan lies deeper than every plan that refers to it, and one
deeper than one of them unless its depth is 0. The first makes every chain climb
(`ChainsAreDeep`), the second finds a chain as long as a depth (`DepthsHaveChains`).

It also proves `RowsAreDocument`, for any documents that are finite trees
(`NodeAssumption`: children lie lower than their parent). The gate lets circles of
sub-plans pass, so the recursion of `walk_table` ends only because documents do: `Walked`
is a recursive function on their nodes, and exists because a walk asks for lower nodes
only (`TableLocal`, `WalksExist`). The invariant `VInv` says that a view is the walk of the
place it stands for; one unfolding of it (`ChildIs`, `Made`) gives each row, and each row
and element that is a table is such a walk again.

Of the writer it proves `TextIsWellFormed` and `LinesInPlace`, for any keys, any number
of nodes and any depth, whatever the caller feeds (`WriterAssumption`): the first but for
streams that feed a value into an array of tables itself, the second for headers whose
frames `w_path` keeps. The invariant is `WInv`. `Chained`: the frames are a way down from the root of what was described, each
with its node's key. `Layered`: the arrays and inline tables that are open are the
innermost frames. `Marked`: a table with a table or an array of tables open in it has
`saw_subtable`, and one without it is the section being written. `Grammatical`: a reader of the
text has open exactly the brackets of the open values, in their order (`Mirrors`), and its
last token is what the innermost frame's `first` says. A value is then a prefix, its
tokens and an end of line, each with one lemma on what a reader makes of it
(`PrefixReads`, `ScalarReads`, `OpenReads`, `CloseReads`, `EndReads`). For the headers,
`PlaceIsPath` equates two recursions that run in opposite directions: the keys `w_path`
collects from the frames, and those met when one climbs from the new table to the root;
`LineIsFrames` and `CollectionsAgree` do it for lists of any length.

Only model-checked:

- liveness (`InsertReturns`, `LoadEnds`, `Ends`): fairness and ENABLED are out of the
  prover's reach;
- Emitter and the round trips, that of the writer's text among them: `EmitNode` and `Replay`
  are recursive operators, and `TextIsDocument` speaks of ENABLED;
- the scans of Editor, which are recursive operators or nested folds;
- the scanners of ScalarText and ScalarNumbers and the parser and the construction of
  Regex, recursive operators over sequences of characters, and with them
  `SearchIsLanguage`.

## 5. Not modelled

Formats and URI joining (predicates and rewriting of characters), the keywords of the
validator that compare a value with a constant, the JSON reader of schemas, the JSON
views of the emitter, accessors and flatten (they read a document and change
nothing). Decoding of UTF-8 and Unicode properties. The arena appears as "an
allocation that may fail". In the schema compiler each keyword's own fields,
`$recursiveRef`, references by URI, the table of resources and vocabularies are left
out, in the validator `$recursiveRef`. Inside the validator and the compiler allocation
failure is left out: the code does not test for it. Vendored and generated code (ryu,
unicode_props, metaschemas), the vector loops and the bindings, which are other
repositories, are out of scope, but for the limits beyond which ryu declines a text.

## 6. Plan

In order of weight:

1. **Arena**: no two live allocations overlap, `try_grow` included; a natural
   candidate for proof.
2. **SchemaCompile** with several keywords per object, references by URI and the cap
   on resources; `parse_batch`'s clean-up.
