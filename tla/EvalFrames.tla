------------------------------ MODULE EvalFrames ------------------------------
(***************************************************************************)
(* The walk of schema/validate.c over a table: nested applications of      *)
(* schemas, trials, the error signal, and the annotation frames that       *)
(* unevaluatedProperties reads.  The schema is not represented: it chooses *)
(* which application comes next, within the order of keywords val() has.   *)
(*                                                                         *)
(* A frame lists the keys evaluated so far in keys, and indexes them in an *)
(* open-addressing table whose slots carry a stamp, the length of keys     *)
(* when the slot was filled.  A failed trial cuts keys back and leaves the *)
(* index alone.  The frames of array items (idx, ihash) work alike.        *)
(***************************************************************************)
EXTENDS Integers, Sequences, FiniteSets

CONSTANTS
  Key,          \* the members of the instance
  NoKey,
  Hash,         \* frame_mix(frame_str_hash(key))
  Cap0,         \* slots of a new index: 16
  FrameCap0,    \* frames allocated first: 16
  MaxApps,      \* bound: applications of a schema
  MaxPings      \* bound: errors

ASSUME EvalAssumption ==
  /\ NoKey \notin Key /\ IsFiniteSet(Key) /\ Hash \in [Key -> Nat]
  /\ Cap0 \in Nat /\ Cap0 > 3 /\ FrameCap0 \in Nat \ {0}
  /\ MaxApps \in Nat /\ MaxPings \in Nat

VARIABLES
  frames,       \* vc->frames[0 .. n_frames - 1], and the val() calls they belong to
  cap,          \* vc->cap_frames
  moved,        \* how often realloc moved vc->frames
  pings,        \* vc->pings
  mute,         \* vc->mute
  errs,         \* vc->n_errors
  apps,         \* bound: applications so far
  pc            \* run | spin (a probing loop that does not end) | done

vars == <<frames, cap, moved, pings, mute, errs, apps, pc>>

Top == frames[Len(frames)]
Under == frames[Len(frames) - 1]

-------------------------------------------------------------------------------
(***************************************************************************)
(* One frame's index.  A hash is a sequence of slots; stamp -1 is empty.   *)
(***************************************************************************)
Free == [key |-> NoKey, stamp |-> -1]
Full(h) == \A s \in DOMAIN h : h[s].stamp # -1

Slot(h, k, i) == ((Hash[k] + i) % Len(h)) + 1

\* The slot at which a probing loop for k ends.
FirstFree(h, k) ==
  LET i == CHOOSE i \in 0 .. Len(h) - 1 :
             /\ h[Slot(h, k, i)].stamp = -1
             /\ \A j \in 0 .. i - 1 : h[Slot(h, k, j)].stamp # -1
  IN  Slot(h, k, i)

Place(h, k, stamp) == [h EXCEPT ![FirstFree(h, k)] = [key |-> k, stamp |-> stamp]]

\* frame_khash_build.
Build(keys) ==
  LET size[c \in Nat] == IF (c * 7) \div 10 < Len(keys) + 1 THEN size[2 * c] ELSE c
      put[i \in 0 .. Len(keys)] ==
        IF i = 0 THEN [s \in 1 .. size[Cap0] |-> Free] ELSE Place(put[i - 1], keys[i], i - 1)
  IN  put[Len(keys)]

\* frame_khash_insert, up to its loop.
Prepared(h, keys) == IF Len(keys) + 1 > (Len(h) * 7) \div 10 THEN Build(keys) ELSE h

\* The index after ks, the last elements of keys, were inserted one by one;
\* << >> when a loop finds no free slot.
Inserted(hash, keys, ks) ==
  LET h[i \in 0 .. Len(ks)] ==
        IF i = 0 THEN hash
        ELSE IF i > 1 /\ h[i - 1] = << >> THEN << >>
        ELSE LET p == Prepared(h[i - 1], keys)
             IN  IF Full(p) THEN << >> ELSE Place(p, ks[i], Len(keys) - 1)
  IN  h[Len(ks)]

\* Mutant: the newest key does not count.
SeenAt_OffByOne(f, k, i) ==
  LET s == f.hash[Slot(f.hash, k, i)] IN s.key = k /\ s.stamp < Len(f.keys) - 1

\* frame_key_seen: TRUE, FALSE, or no answer.
SeenAt(f, k, i) ==
  LET s == f.hash[Slot(f.hash, k, i)] IN s.key = k /\ s.stamp < Len(f.keys)

Seen(f, k) ==
  /\ f.hash # << >>
  /\ \E i \in 0 .. Len(f.hash) - 1 :
       /\ SeenAt(f, k, i) /\ f.hash[Slot(f.hash, k, i)].stamp # -1
       /\ \A j \in 0 .. i - 1 : f.hash[Slot(f.hash, k, j)].stamp # -1

SeenSpins(f, k) == f.hash # << >> /\ Full(f.hash) /\ ~Seen(f, k)

-------------------------------------------------------------------------------
(***************************************************************************)
(* Applications.  mode: plain, trial (passes), free (passes_annot_free).   *)
(* step: how far val() has come, ref (1), properties (2), the in-place     *)
(* applicators (3), unevaluatedProperties (4).  left, ptr: the loop of     *)
(* step 4, its members to come and the frames array its pointer f is into. *)
(* real, real0, bad: history, what the standard says is evaluated (now,    *)
(* and when the application began), and whether the application failed;    *)
(* cut: history, keys of this frame were cut back since it was indexed.    *)
(***************************************************************************)
NewFrame(inst, mode, key, real0) ==
  [inst |-> inst, mode |-> mode, key |-> key, p0 |-> pings, n0 |-> 0,
   keys |-> << >>, hash |-> << >>, step |-> 1, left |-> {}, ptr |-> 0,
   real |-> {}, real0 |-> real0, bad |-> FALSE, cut |-> FALSE]

Init ==
  /\ pings = 0 /\ mute = 0 /\ errs = 0 /\ apps = 1 /\ moved = 0 /\ cap = FrameCap0
  /\ frames = <<NewFrame("table", "plain", NoKey, {})>>
  /\ pc = "run"

\* Entering val(): frame_push, which may move the array of frames.
Enter(inst, mode, key, step) ==
  /\ pc = "run" /\ apps < MaxApps /\ apps' = apps + 1
  /\ frames' = Append([frames EXCEPT ![Len(frames)].step = step],
                      [NewFrame(inst, mode, key, Top.real) EXCEPT !.n0 = Len(Top.keys)])
  /\ IF Len(frames) = cap THEN cap' = 2 * cap /\ moved' = moved + 1
     ELSE UNCHANGED <<cap, moved>>
  /\ UNCHANGED <<pings, errs, pc>>

\* $ref before the properties; allOf, then and else after them.
InPlace == \E step \in {1, 3} :
  /\ Top.step <= step
  /\ Enter(Top.inst, "plain", NoKey, step) /\ UNCHANGED mute

\* anyOf, oneOf, if, dependentSchemas; not.
Trial(mode) == Top.step <= 3 /\ Enter(Top.inst, mode, NoKey, 3) /\ mute' = mute + 1

\* properties, patternProperties, additionalProperties.
Property(k) ==
  /\ Top.inst = "table" /\ Top.step <= 2
  /\ Enter("member", "plain", k, 2) /\ UNCHANGED mute

\* Mutant: errors of muted trials are reported.
Verr_Unmuted ==
  /\ pc = "run" /\ Top.step <= 3 /\ pings < MaxPings
  /\ pings' = pings + 1 /\ errs' = errs + 1
  /\ frames' = [frames EXCEPT ![Len(frames)].bad = TRUE]
  /\ UNCHANGED <<cap, moved, mute, apps, pc>>

\* verr.
Verr ==
  /\ pc = "run" /\ Top.step <= 3 /\ pings < MaxPings
  /\ pings' = pings + 1 /\ errs' = IF mute > 0 THEN errs ELSE errs + 1
  /\ frames' = [frames EXCEPT ![Len(frames)].bad = TRUE]
  /\ UNCHANGED <<cap, moved, mute, apps, pc>>

\* unevaluatedProperties: the loop starts, f = &vc->frames[n_frames - 1].
Unevaluated ==
  /\ pc = "run" /\ Top.inst = "table" /\ Top.step <= 3
  /\ frames' = [frames EXCEPT ![Len(frames)].step = 4, ![Len(frames)].left = Key,
                              ![Len(frames)].ptr = moved]
  /\ UNCHANGED <<cap, moved, pings, mute, errs, apps, pc>>

Spin == pc' = "spin" /\ UNCHANGED <<frames, cap, moved, pings, mute, errs, apps>>

\* One turn: the key is evaluated already; or no value is allowed; or the
\* schema of unevaluatedProperties is applied to the member.
UnevaluatedMember(k) ==
  /\ pc = "run" /\ Top.step = 4 /\ k \in Top.left
  /\ IF SeenSpins(Top, k) THEN Spin
     ELSE IF Seen(Top, k)
     THEN /\ frames' = [frames EXCEPT ![Len(frames)].left = @ \ {k}]
          /\ UNCHANGED <<cap, moved, pings, mute, errs, apps, pc>>
     ELSE \/ /\ pings < MaxPings
             /\ pings' = pings + 1 /\ errs' = IF mute > 0 THEN errs ELSE errs + 1
             /\ frames' = [frames EXCEPT ![Len(frames)].bad = TRUE,
                                         ![Len(frames)].left = @ \ {k}]
             /\ UNCHANGED <<cap, moved, mute, apps, pc>>
          \/ Enter("member", "plain", k, 4) /\ UNCHANGED mute

\* frame_add_key.
AddKey(f, k) ==
  IF Seen(f, k) THEN f
  ELSE LET keys == Append(f.keys, k)
       IN  [f EXCEPT !.keys = keys, !.hash = Inserted(@, keys, <<k>>)]

AddKeySpins(f, k) ==
  \/ SeenSpins(f, k)
  \/ ~Seen(f, k) /\ AddKey(f, k).hash = << >>

\* frame_merge_up: p, with what f evaluated on the same instance.
MergeUp(p, f) ==
  IF p.inst # f.inst \/ f.keys = << >> THEN p
  ELSE LET keys == p.keys \o f.keys
       IN  [p EXCEPT !.keys = keys, !.hash = Inserted(@, keys, f.keys)]

MergeSpins(p, f) == p.inst = f.inst /\ f.keys # << >> /\ MergeUp(p, f).hash = << >>

\* Mutant: one annotation of the trial stays.
Truncate_OffByOne(p, n) ==
  IF Len(p.keys) > n + 1 THEN [p EXCEPT !.keys = SubSeq(@, 1, n + 1), !.cut = TRUE] ELSE p

\* frame_truncate_to.
Truncate(p, n) ==
  IF Len(p.keys) > n THEN [p EXCEPT !.keys = SubSeq(@, 1, n), !.cut = TRUE] ELSE p

\* The frame below once f has returned, by the standard: the history part.
Judged(p, f, merged) ==
  LET got == IF p.inst = f.inst THEN p.real \cup f.real ELSE p.real
  IN [merged EXCEPT
       !.real = CASE f.mode = "plain" /\ f.key = NoKey -> got
                  [] f.mode = "plain" /\ f.key # NoKey -> IF f.bad THEN p.real ELSE p.real \cup {f.key}
                  [] f.mode = "trial" -> IF f.bad THEN f.real0 ELSE got
                  [] f.mode = "free"  -> f.real0,
       !.bad = p.bad \/ (f.mode = "plain" /\ f.bad),
       !.left = IF f.mode = "plain" THEN @ \ {f.key} ELSE @]

Below(p) == Append(SubSeq(frames, 1, Len(frames) - 2), p)

\* The end of val(): frame_pop; then what the caller does with the verdict.
ReturnPlain ==
  /\ pc = "run" /\ Len(frames) > 1 /\ Top.mode = "plain"
  /\ LET p == MergeUp(Under, Top)
         annotate == Top.key # NoKey /\ pings = Top.p0
     IN  IF MergeSpins(Under, Top) \/ (annotate /\ AddKeySpins(p, Top.key)) THEN Spin
         ELSE /\ frames' = Below(Judged(Under, Top, IF annotate THEN AddKey(p, Top.key) ELSE p))
              /\ UNCHANGED <<cap, moved, pings, mute, errs, apps, pc>>

\* Mutant: the pings of a trial are left in the signal.
ReturnTrial_KeepsPings ==
  /\ pc = "run" /\ Len(frames) > 1 /\ Top.mode \in {"trial", "free"}
  /\ IF MergeSpins(Under, Top) THEN Spin
     ELSE LET p == MergeUp(Under, Top)
              drop == Top.mode = "free" \/ pings # Top.p0
          IN  /\ frames' = Below(Judged(Under, Top, IF drop THEN Truncate(p, Top.n0) ELSE p))
              /\ mute' = mute - 1
              /\ UNCHANGED <<cap, moved, pings, errs, apps, pc>>

\* passes, passes_annot_free after val().
ReturnTrial ==
  /\ pc = "run" /\ Len(frames) > 1 /\ Top.mode \in {"trial", "free"}
  /\ IF MergeSpins(Under, Top) THEN Spin
     ELSE LET p == MergeUp(Under, Top)
              drop == Top.mode = "free" \/ pings # Top.p0
          IN  /\ frames' = Below(Judged(Under, Top, IF drop THEN Truncate(p, Top.n0) ELSE p))
              /\ mute' = mute - 1 /\ pings' = Top.p0
              /\ UNCHANGED <<cap, moved, errs, apps, pc>>

Finish ==
  /\ pc = "run" /\ Len(frames) = 1 /\ pc' = "done"
  /\ UNCHANGED <<frames, cap, moved, pings, mute, errs, apps>>

Next ==
  \/ InPlace \/ Trial("trial") \/ Trial("free") \/ Verr \/ Unevaluated
  \/ \E k \in Key : Property(k) \/ UnevaluatedMember(k)
  \/ ReturnPlain \/ ReturnTrial \/ Finish

Spec == Init /\ [][Next]_vars

-------------------------------------------------------------------------------
(***************************************************************************)
(* Properties.                                                             *)
(***************************************************************************)
\* The shape of the walk's state: nested applications, a mute level that
\* counts the trials among them, an error signal no older than any of them.
TypeOK ==
  /\ Len(frames) \in 1 .. cap /\ pc \in {"run", "spin", "done"}
  /\ mute = Cardinality({i \in DOMAIN frames : frames[i].mode # "plain"})
  /\ \A i \in DOMAIN frames :
       LET f == frames[i] IN
       /\ f.inst \in {"table", "member"} /\ f.mode \in {"plain", "trial", "free"}
       /\ f.key \in Key \cup {NoKey} /\ f.p0 \in 0 .. pings /\ f.step \in 1 .. 4
       /\ f.keys \in Seq(Key) /\ f.real \subseteq Key /\ f.left \subseteq Key

\* The verdict on an application is its own: when it returns, the error
\* signal has moved since it began exactly when it, or an application it
\* really depends on, failed; trials inside it leave no trace, and every
\* trial that is open counts once as muted.  In the end an empty report means
\* a valid document: errors of muted trials are not reported, and no other
\* error is lost.
VerdictIsPrivate ==
  /\ TypeOK
  /\ pc = "run" => (Top.bad <=> pings > Top.p0)
  /\ pc = "done" => (errs = 0 <=> ~Top.bad)

\* No key is listed that was not evaluated: failed trials, negated schemas
\* and other instances add nothing to the list of any frame.
ListIsSound == pc = "run" => \A i \in DOMAIN frames :
                  \A j \in DOMAIN frames[i].keys : frames[i].keys[j] \in frames[i].real

\* What unevaluatedProperties asks of the index is answered right: a key is
\* seen exactly when this application or an in-place one below it evaluated
\* it and did not fail.
SeenIsEvaluated ==
  pc = "run" /\ Top.step = 4 => \A k \in Top.left : Seen(Top, k) <=> k \in Top.real

\* The same as long as no trial on this very frame was cut back: merging,
\* duplicates, rebuilds and cuts in the frames below never give a wrong answer.
SeenUnlessCut ==
  pc = "run" /\ Top.step = 4 /\ ~Top.cut =>
    \A k \in Top.left : Seen(Top, k) <=> k \in Top.real

\* Every probing loop ends: the walk always comes to its report.
NeverSpins == pc # "spin"

\* The loop of unevaluatedProperties reads its frame where the frame is.
FrameIsThere ==
  pc = "run" /\ Top.step = 4 /\ Top.left # {} => Top.ptr = moved
===============================================================================
