-------------------------------- MODULE Scalars --------------------------------
(***************************************************************************)
(* A scalar between its text and its value: the dispatch of                *)
(* teptris_parse_value and of its fast variant, checked against the        *)
(* grammar of TOML and against what the emitter writes.                    *)
(*                                                                         *)
(* The behaviours enumerate inputs: the text of a number letter by letter, *)
(* the text of a date-time part by part, the content of a string character *)
(* by character.                                                           *)
(***************************************************************************)
EXTENDS ScalarNumbers, FiniteSets
T == INSTANCE ScalarText
LOCAL INSTANCE SequencesExt

CONSTANTS IntegerChars, FloatChars, TextChars,   \* what a text grows by
          MaxInteger, MaxFloat, MaxText,         \* how long it grows
          MomentParts                            \* the parts of a date-time

VARIABLES sort, input
vars == <<sort, input>>

\* teptris_parse_value on scalars but strings, which ScalarText reads.
ParseValue(s, i) ==
  CASE i > Len(s) -> Refused
    [] At(s, i, {"true", "false"}) -> Value("boolean", s[i] = "true", i + 1)
    [] At(s, i, Dec) /\ Lookahead(s, i) -> ParseDatetime(s, i)
    [] At(s, i, Dec \cup {"inf", "nan", "+", "-"}) /\ ~Lookahead(s, i) ->
         ParseNumber(s, i, At(s, i, {"+", "-"}))
    [] OTHER -> Refused

\* Mutant: the fast path does not look at what follows the digits.
PlainEnd_Any(s, j) == TRUE

PlainEnd(s, j) == ~At(s, j, {".", "e", "_"})

\* teptris_parse_value_fast.
ParseValueFast(s, i) ==
  LET j == After(s, i, Dec)
  IN CASE ~At(s, i, Dec) -> ParseValue(s, i)
       [] At(s, i, Dec) /\ Lookahead(s, i) -> ParseDatetime(s, i)
       [] OTHER -> IF j - i <= FastDigits /\ s[i] # "0" /\ PlainEnd(s, j)
                   THEN Value("integer", Horner(SubSeq(s, i, j - 1), 10), j)
                   ELSE ParseNumber(s, i, FALSE)

\* emit_value on scalars but strings.
ScalarText(r) ==
  CASE r.kind = "boolean" -> <<IF r.v THEN "true" ELSE "false">>
    [] r.kind = "integer" -> IntegerText(r.v)
    [] r.kind = "float" -> FloatText(r.v)
    [] OTHER -> MomentText(r.kind, r.v)

-------------------------------------------------------------------------------
\* The grammar of TOML 1.1, as sets of whole texts and what they denote.
Grouped(s, radix) ==
  s # << >> /\ \A k \in DOMAIN s :
    \/ s[k] \in DigitFor(radix)
    \/ s[k] = "_" /\ k > 1 /\ k < Len(s) /\ s[k - 1] # "_" /\ s[k + 1] # "_"
Number(s, radix) == Horner(SelectSeq(s, LAMBDA c : c # "_"), radix)
DecimalInteger(s) == Grouped(s, 10) /\ (s[1] = "0" => Len(s) = 1)
Unsigned(s) == IF s # << >> /\ s[1] \in {"+", "-"} THEN Tail(s) ELSE s
Negative(s) == s # << >> /\ s[1] = "-"
Signed(s, n) == IF Negative(s) THEN -n ELSE n
Cut(s, c) == LET H == {i \in DOMAIN s : s[i] = c} IN IF H = {} THEN 0 ELSE CHOOSE i \in H : \A k \in H : i <= k

\* Integers: the set of numbers s denotes, empty or one.
TomlInteger(s) ==
  LET u == Unsigned(s)
      prefixed == Len(s) > 2 /\ s[1] = "0" /\ s[2] \in DOMAIN Radix
      body == SubSeq(s, 3, Len(s))
      N == (IF DecimalInteger(u) THEN {Signed(s, Number(u, 10))} ELSE {})
             \cup (IF prefixed /\ Grouped(body, Radix[s[2]]) THEN {Number(body, Radix[s[2]])} ELSE {})
  IN {n \in N : n \in -(IMax + 1) .. IMax}

\* Floats: a decimal integer with a fraction, an exponent or both.
TomlFloat(s) ==
  LET u == Unsigned(s)
      e == Cut(u, "e")
      front == IF e = 0 THEN u ELSE SubSeq(u, 1, e - 1)
      back == IF e = 0 THEN <<"0">> ELSE SubSeq(u, e + 1, Len(u))
      d == Cut(front, ".")
      whole == IF d = 0 THEN front ELSE SubSeq(front, 1, d - 1)
      frac == IF d = 0 THEN << >> ELSE SubSeq(front, d + 1, Len(front))
      ds == SelectSeq(frac, LAMBDA c : c # "_")
      ok == DecimalInteger(whole) /\ (d # 0 => Grouped(frac, 10)) /\ Grouped(Unsigned(back), 10) /\ e + d > 0
  IN CASE Len(u) = 1 /\ u[1] \in {"inf", "nan"} -> {<<Negative(s) /\ u[1] = "inf", u[1]>>}
       [] ~(Len(u) = 1 /\ u[1] \in {"inf", "nan"}) /\ ok ->
            {Normal(Negative(s), Number(whole \o ds, 10), Signed(back, Number(Unsigned(back), 10)) - Len(ds))}
       [] OTHER -> {}

\* Date-times: a day of the calendar, a time of day, an offset.
TwoDigits(s, i, lo, hi) == Digs(s, i, 2) /\ D2(s, i) \in lo .. hi
LeapYear(y) == (y % 4 = 0) # ((y % 100 = 0) # (y % 400 = 0))
Days(y, m) == CASE m \in {1, 3, 5, 7, 8, 10, 12} -> 31
                [] m = 2 -> IF LeapYear(y) THEN 29 ELSE 28 [] OTHER -> 30
TomlDate(s) == /\ Len(s) = 10 /\ DateShape(s, 1) /\ TwoDigits(s, 6, 1, 12)
               /\ TwoDigits(s, 9, 1, Days(Num4(s, 1), D2(s, 6)))
\* The seconds are optional, and so is the fraction even without seconds:
\* TOML 1.1 has no such form.
TomlTime(s) ==
  LET p == IF At(s, 6, {":"}) THEN 9 ELSE 6
  IN /\ Len(s) >= 5 /\ TwoDigits(s, 1, 0, 23) /\ s[3] = ":" /\ TwoDigits(s, 4, 0, 59)
     /\ p = 9 => TwoDigits(s, 7, 0, 60)
     /\ Len(s) >= p => s[p] = "." /\ Len(s) > p /\ Digs(s, p + 1, Len(s) - p)
TomlOffset(s) == s = <<"Z">> \/ (Len(s) = 6 /\ s[1] \in {"+", "-"} /\ s[4] = ":"
                                 /\ TwoDigits(s, 2, 0, 23) /\ TwoDigits(s, 5, 0, 59))
TomlMoment(s) ==
  LET offs == {i \in 12 .. Len(s) : s[i] \in {"Z", "+", "-"}}
      o == IF offs = {} THEN Len(s) + 1 ELSE CHOOSE i \in offs : TRUE
  IN \/ TomlDate(s) \/ TomlTime(s)
     \/ /\ Len(s) > 11 /\ s[11] \in {"T", " "} /\ TomlDate(SubSeq(s, 1, 10))
        /\ TomlTime(SubSeq(s, 12, o - 1))
        /\ o <= Len(s) => TomlOffset(SubSeq(s, o, Len(s)))

\* A run of digits the buffers of the slow path do not hold.
TooLong(s) == \E i \in DOMAIN s : After(s, i, Dec \cup {"_", "b", "e", "f"}) - i >= RunMax

\* A float that is not converted in place and whose digits the copy does not
\* hold: those beyond are left out, and it reads as another number.
Spills(s) ==
  LET u == IF s[1] = "+" THEN Tail(s) ELSE s
      point == Cut(u, ".")
      mark == Cut(u, "e")
      end == IF mark = 0 THEN Len(u) ELSE mark - 1
      mant == SelectSeq(SubSeq(u, 1, end), LAMBDA c : c \in Dec)
      exp == SelectSeq(SubSeq(u, end + 1, Len(u)), LAMBDA c : c \in Dec)
  IN /\ Cut(u, "_") = 0
     /\ s[1] = "+" \/ ~RyuTakes(mant, << >>, exp)
     /\ (point # 0 /\ end > FracRoom) \/ (mark # 0 /\ Len(u) > ExpRoom)

-------------------------------------------------------------------------------
Init == sort \in {"integer", "float", "moment", "text"} /\ input = << >>

Grow(k, S, max) == /\ sort = k /\ Len(input) < max
                   /\ \E c \in S : input' = Append(input, c)
                   /\ UNCHANGED sort

\* A date-time is the next part after the parts so far.
GrowMoment == /\ sort = "moment" /\ Len(input) < Len(MomentParts)
              /\ \E p \in MomentParts[Len(input) + 1] : input' = Append(input, p)
              /\ UNCHANGED sort

Next == \/ Grow("integer", IntegerChars, MaxInteger)
        \/ Grow("float", FloatChars, MaxFloat)
        \/ Grow("text", TextChars, MaxText)
        \/ GrowMoment
Spec == Init /\ [][Next]_vars

-------------------------------------------------------------------------------
text == IF sort = "moment" THEN FlattenSeq(input) ELSE input
Whole(r, s) == r.ok /\ r.pos = Len(s) + 1

\* What was read, r, is what TOML says: an integer of I, a float of F.
ReadAsToml(r, I, F) ==
  CASE sort = "moment" -> Whole(r, text) <=> TomlMoment(text)
    [] sort # "moment" /\ Whole(r, text) /\ r.kind = "integer" -> r.v \in I
    [] sort # "moment" /\ Whole(r, text) /\ r.kind = "float" ->
         F # {} /\ (r.v \in F \/ Spills(text))
    [] OTHER -> (I = {} /\ F = {}) \/ TooLong(text) \/ text[1] \in {"true", "false"}


\* The short cuts change nothing: parse_value_fast reads every text as
\* parse_value does, and a quoted text is taken over whole exactly when the
\* scanner would copy its body as it stands, but for a backslash in a short
\* literal: that one is left to the scanner, which copies it.
ShortCutsAgree ==
  /\ sort # "text" => ParseValueFast(text, 1) = ParseValue(text, 1)
  /\ sort = "text" =>
       \A q \in {"\"", "'"}, long \in BOOLEAN :
         LET s == <<q>> \o text
             scanned == T!Scan(s, 2, q, FALSE, << >>)
             copied == scanned.ok /\ scanned.content = SubSeq(s, 2, scanned.pos - 2)
             left == q = "'" /\ ~long /\ Cut(scanned.content, "\\") # 0
         IN T!TryPlain(s, 2, q, long) = IF copied /\ ~left THEN scanned ELSE T!Error

\* ryu takes what ryu wrote: no double needs more digits or a longer exponent.
Short(f) ==
  Len(f) = 3 => LET nd == Len(DigitsOf(f[2]))
                IN  nd <= RyuDigits /\ f[3] + nd - 1 \in -(10 ^ RyuExp - 1) .. 10 ^ RyuExp - 1

ReadsBack(r) ==
  LET again == ScalarText(r)
  IN  Whole(r, text) /\ (r.kind = "float" => Short(r.v)) => ParseValueFast(again, 1) = [r EXCEPT !.pos = Len(again) + 1]

\* What the emitter writes reads as the value it was written from: integers
\* up to the minimum, floats of every layout, date-times, strings, and keys
\* but those with a DEL, which emit_key leaves as it is.
EmittedReads ==
  /\ sort # "text" => ReadsBack(ParseValue(text, 1))
  /\ sort = "text" =>
       \A long \in BOOLEAN :
         LET str == T!StringText(text)
             key == T!KeyText(text)
         IN /\ T!ParseString(str, 1, long) = T!Read(text, Len(str) + 1)
            /\ "del" \notin {text[i] : i \in DOMAIN text}
                 => T!ParseKey(key, 1, long) = T!Read(text, Len(key) + 1)

\* The content of a multi-line string between its three quotes: a first line
\* end is dropped and every other one is a newline.
RECURSIVE Lines(_)
Lines(s) ==
  CASE s = << >> -> << >>
    [] Len(s) > 1 /\ s[1] = "cr" /\ s[2] = "lf" -> <<"lf">> \o Lines(SubSeq(s, 3, Len(s)))
    [] OTHER -> <<s[1]>> \o Lines(Tail(s))
Body(s) == LET l == Lines(s) IN IF l # << >> /\ l[1] = "lf" THEN Tail(l) ELSE l

\* What the lines l of a multi-line string denote, none or one content: three
\* quotes would close it; in a basic string a backslash begins an escape, or
\* takes the rest of a blank line and all blanks and line ends after it away.
RECURSIVE Denoted(_, _)
Denoted(l, q) ==
  LET Then(c, n) == {<<c>> \o r : r \in Denoted(SubSeq(l, n + 1, Len(l)), q)}
      blank == After(l, 2, {" ", "tab", "lf"})
  IN CASE l = << >> -> {<< >>}
       [] (\A k \in 1 .. 3 : At(l, k, {q})) \/ At(l, 1, {"ctl", "del", "cr"}) -> {}
       [] At(l, 1, {"\\"}) /\ q = "\"" ->
            CASE At(l, 2, DOMAIN T!Escape) -> Then(T!Escape[l[2]], 2)
              [] At(l, After(l, 2, {" ", "tab"}), {"lf"}) -> Denoted(SubSeq(l, blank, Len(l)), q)
              [] OTHER -> {}
       [] OTHER -> Then(l[1], 1)

\* Three quotes close a multi-line string and up to two more before them
\* belong to it; the scanners refuse control characters and a lone carriage
\* return, decode escapes and join continued lines where quotes are double,
\* and read everything else as it stands.
MultiLineReads ==
  sort = "text" =>
    \A q \in {"\"", "'"} :
      LET s == <<q, q, q>> \o text \o <<q, q, q>>
          r == T!ParseString(s, 1, FALSE)
          D == Denoted(Body(text), q)
      IN IF D = {} THEN ~Whole(r, s) ELSE \E content \in D : r = T!Read(content, Len(s) + 1)
===============================================================================
