------------------------------ MODULE ScalarText ------------------------------
(***************************************************************************)
(* Strings and keys between content and text: the scanners of              *)
(* parse/scalars.c and parse/keys.c and the writers of emit_shared.h.      *)
(*                                                                         *)
(* Content and text are sequences of characters, one for each class the    *)
(* code tells apart: "a" a letter of bare keys, "hi" a byte above 0x7F,    *)
(* "ctl" a control character without an escape of its own.  The digits     *)
(* that follow \u are one symbol, the name of the character they denote.   *)
(***************************************************************************)
EXTENDS Integers, Sequences, FiniteSets
LOCAL INSTANCE SequencesExt

Bare == {"a", "n", "t", "r", "u"}
Control == {"lf", "cr", "ctl", "del"}           \* what a string cannot hold as it is
Char == Bare \cup Control \cup {" ", "tab", "\"", "'", "\\", "hi"}

\* read_hex and "\\u%04X": Hex[c] stands for the four digits.
Hex == [c \in {"tab", "lf", "cr", "ctl", "del"} |->
         CASE c = "tab" -> "#tab" [] c = "lf" -> "#lf" [] c = "cr" -> "#cr"
           [] c = "ctl" -> "#ctl" [] c = "del" -> "#del"]
Digits == {Hex[c] : c \in DOMAIN Hex}
Symbol == Char \cup Digits

Escape == [e \in {"n", "t", "r", "\"", "\\"} |->
            CASE e = "n" -> "lf" [] e = "t" -> "tab" [] e = "r" -> "cr" [] OTHER -> e]

Read(content, i) == [ok |-> TRUE, content |-> content, pos |-> i]
Error == [ok |-> FALSE, content |-> << >>, pos |-> 0]

Is(s, i, c) == i <= Len(s) /\ s[i] = c
First(s, i, Test(_)) == LET H == {j \in i .. Len(s) : Test(s[j])}
                        IN IF H = {} THEN Len(s) + 1 ELSE CHOOSE j \in H : \A k \in H : j <= k

-------------------------------------------------------------------------------
\* A backslash before the end of a line: where the text goes on, 0 when
\* anything but blanks precedes the line end.
LineContinues(s, i) ==
  LET q == First(s, i, LAMBDA c : c \notin {" ", "tab"})
      Skipped(j) == s[j] \in {" ", "tab", "lf"} \/ (s[j] = "cr" /\ Is(s, j + 1, "lf"))
      rest == {j \in i .. Len(s) : ~Skipped(j)}
  IN IF ~Is(s, q, "lf") /\ ~(Is(s, q, "cr") /\ Is(s, q + 1, "lf")) THEN 0
     ELSE IF rest = {} THEN Len(s) + 1 ELSE CHOOSE j \in rest : \A k \in rest : j <= k

\* Mutant: all the quotes of a run are content.
QuotesKept_All(run) == run

\* Of a run of quotes in a multi-line string the last three close it.
QuotesKept(run) == IF run >= 3 THEN run - 3 ELSE run

\* tep_scan_basic (quote "\"") and tep_scan_literal ("'") from i on.
RECURSIVE Scan(_, _, _, _, _)
Scan(s, i, quote, ml, out) ==
  LET run == First(s, i, LAMBDA c : c # quote) - i
      kept == [k \in 1 .. QuotesKept(run) |-> quote]
      more == LineContinues(s, i + 1)
      More(c, j) == Scan(s, j, quote, ml, Append(out, c))
  IN CASE i > Len(s) -> Error
       [] Is(s, i, quote) /\ ~ml -> Read(out, i + 1)
       [] Is(s, i, quote) /\ ml ->
            CASE run >= 6 -> Error
              [] run < 3  -> Scan(s, i + run, quote, ml, out \o kept)
              [] OTHER    -> Read(out \o kept, i + run)
       [] Is(s, i, "\\") /\ quote = "\"" ->
            CASE i + 1 > Len(s) -> Error
              [] i < Len(s) /\ ml /\ s[i + 1] \in {" ", "tab", "lf", "cr"} ->
                   IF more = 0 THEN Error ELSE Scan(s, more, quote, ml, out)
              [] i < Len(s) /\ s[i + 1] \in DOMAIN Escape -> More(Escape[s[i + 1]], i + 2)
              [] Is(s, i + 1, "u") /\ i + 2 <= Len(s) /\ s[i + 2] \in Digits ->
                   More(CHOOSE c \in DOMAIN Hex : Hex[c] = s[i + 2], i + 3)
              [] OTHER -> Error
       [] Is(s, i, "lf") -> IF ml THEN More("lf", i + 1) ELSE Error
       [] Is(s, i, "cr") -> IF ml /\ Is(s, i + 1, "lf") THEN More("lf", i + 2) ELSE Error
       [] s[i] \in {"ctl", "del"} -> Error
       [] OTHER -> More(s[i], i + 1)

\* tep_simd_str_stop, as teptris_try_plain_body calls it, and its short loop.
PlainStops(close, long) == IF long /\ close = "'" THEN Control ELSE Control \cup {"\\"}

\* teptris_try_plain_body; long: at least 32 bytes of input are left.
TryPlain(s, i, close, long) ==
  LET hit == First(s, i, LAMBDA c : c = close)
  IN IF hit > Len(s) \/ \E j \in i .. hit - 1 : s[j] \in PlainStops(close, long) THEN Error
     ELSE Read(SubSeq(s, i, hit - 1), hit + 1)

\* parse_string at the opening quote i; quoted_key without the multi-line form.
Quoted(s, i, quote, long) ==
  LET plain == TryPlain(s, i + 1, quote, long)
  IN IF plain.ok THEN plain ELSE Scan(s, i + 1, quote, FALSE, << >>)

ParseString(s, i, long) ==
  LET q == s[i]
      body == IF Is(s, i + 3, "cr") /\ Is(s, i + 4, "lf") THEN i + 5
              ELSE IF Is(s, i + 3, "lf") THEN i + 4 ELSE i + 3
  IN IF Is(s, i + 1, q) /\ Is(s, i + 2, q) THEN Scan(s, body, q, TRUE, << >>)
     ELSE Quoted(s, i, q, long)

\* One component of teptris_parse_key_path.
ParseKey(s, i, long) ==
  LET end == First(s, i, LAMBDA c : c \notin Bare)
  IN CASE i > Len(s) -> Error
       [] s[i] \in {"\"", "'"} -> Quoted(s, i, s[i], long)
       [] end > i -> Read(SubSeq(s, i, end - 1), end)
       [] OTHER -> Error

-------------------------------------------------------------------------------
\* May stand in a literal string.
Literal(s) == \A i \in DOMAIN s : s[i] \notin Control \cup {"'"}

Between(quote, s) == <<quote>> \o s \o <<quote>>

\* emit_basic_bytes.
BasicChar(c) ==
  CASE c \in {"\"", "\\"} -> <<"\\", c>>
    [] c \in {"tab", "lf", "cr"} -> <<"\\", CHOOSE e \in DOMAIN Escape : Escape[e] = c>>
    [] c \in {"ctl", "del"} -> <<"\\", "u", Hex[c]>>
    [] OTHER -> <<c>>

\* emit_string_value.
StringText(s) ==
  IF Literal(s) THEN Between("'", s)
  ELSE Between("\"", FlattenSeq([i \in DOMAIN s |-> BasicChar(s[i])]))

\* The escapes of key_to_buf: every control character but DEL as \u.
KeyChar(c) ==
  CASE c \in {"\"", "\\"} -> <<"\\", c>>
    [] c \in {"tab", "lf", "cr", "ctl"} -> <<"\\", "u", Hex[c]>>
    [] OTHER -> <<c>>

\* key_to_buf, emit_key.
KeyText(s) ==
  CASE s # << >> /\ \A i \in DOMAIN s : s[i] \in Bare -> s
    [] (s = << >> \/ \E i \in DOMAIN s : s[i] \notin Bare) /\ Literal(s) -> Between("'", s)
    [] OTHER -> Between("\"", FlattenSeq([i \in DOMAIN s |-> KeyChar(s[i])]))
===============================================================================
