----------------------------- MODULE ScalarNumbers -----------------------------
(***************************************************************************)
(* Numbers and date-times between value and text: the second half of       *)
(* parse/scalars.c, parse/datetime.c and the writers of emit_shared.h.     *)
(*                                                                         *)
(* A text is a sequence of characters; the words inf, nan, true and false  *)
(* are one symbol each.  A float is the decimal number <<neg, m, e>> =     *)
(* -+ m * 10^e that is handed to the conversion (ryu and strtod convert    *)
(* correctly; they are external).  The widths and digit counts of the code *)
(* are constants: 64 bits, 18 digits, 15 digits, 10^22, |e| <= 400, 17     *)
(* digits and 4 of an exponent for ryu, 1008 bytes of the copy for it up   *)
(* to the end of a fraction and 1024 up to that of an exponent, 512 bytes  *)
(* for a run, 16 digits and 6 zeros of a fixed-point float, 9 digits of a  *)
(* second.  The copy of slow_decimal is taken to hold its three runs.      *)
(***************************************************************************)
EXTENDS Integers, Sequences
LOCAL INSTANCE SequencesExt

CONSTANTS Width, FastDigits, ExactDigits, ExactPower, MaxExp, RyuDigits, RyuExp, FracRoom, ExpRoom,
          RunMax, FixedDigits, FixedZeros, FracDigits
ASSUME ScalarAssumption ==
  /\ {Width, FastDigits, ExactDigits, ExactPower, MaxExp, RyuDigits, RyuExp, FracRoom, ExpRoom,
       RunMax, FixedDigits, FixedZeros, FracDigits} \subseteq Nat \ {0}
  /\ 10 ^ FastDigits <= 2 ^ (Width - 1)          \* FastDigits digits never overflow
  /\ ExactDigits <= FastDigits /\ FracRoom <= ExpRoom

UMax == 2 ^ Width - 1
IMax == 2 ^ (Width - 1) - 1

Decimals == <<"0", "1", "2", "3", "4", "5", "6", "7", "8", "9">>
Val == [c \in {"0", "1", "2", "3", "4", "5", "6", "7", "8", "9", "b", "e", "f"} |->
         CASE c = "b" -> 11 [] c = "e" -> 14 [] c = "f" -> 15
           [] OTHER -> (CHOOSE i \in 1 .. 10 : Decimals[i] = c) - 1]

At(s, i, S) == i <= Len(s) /\ s[i] \in S
DigitFor(radix) == {c \in DOMAIN Val : Val[c] < radix}
Dec == DigitFor(10)
After(s, i, S) == LET H == {j \in i .. Len(s) : s[j] \notin S}
                  IN IF H = {} THEN Len(s) + 1 ELSE CHOOSE j \in H : \A k \in H : j <= k
Horner(ds, radix) == FoldLeft(LAMBDA v, c : v * radix + Val[c], 0, ds)

Minus(neg) == IF neg THEN <<"-">> ELSE << >>

Value(kind, v, pos) == [ok |-> TRUE, kind |-> kind, v |-> v, pos |-> pos]
Refused == [ok |-> FALSE, kind |-> "none", v |-> 0, pos |-> 0]

\* The one double a decimal stands for, as far as the text decides it.
RECURSIVE Normal(_, _, _)
Normal(neg, m, e) ==
  CASE m = 0 -> <<neg, 0, 0>>
    [] m # 0 /\ m % 10 = 0 -> Normal(neg, m \div 10, e + 1)
    [] OTHER -> <<neg, m, e>>

-------------------------------------------------------------------------------
\* scan_run: the digits of a run without its underscores.
ScanRun(s, i, radix) ==
  LET j == After(s, i, DigitFor(radix) \cup {"_"})
      run == SubSeq(s, i, j - 1)
      ds == SelectSeq(run, LAMBDA c : c # "_")
      Apart(k) == run[k] = "_" => k > 1 /\ k < Len(run) /\ run[k - 1] # "_"
  IN [ok |-> ds # << >> /\ Len(ds) < RunMax /\ \A k \in DOMAIN run : Apart(k), ds |-> ds, pos |-> j]


MagStep(v, d, radix) ==
  IF v < 0 \/ v > (UMax - d) \div radix THEN -1 ELSE (v * radix + d) % 2 ^ Width

\* mag_from; negative: out of range.
MagFrom(ds, radix) == FoldLeft(LAMBDA v, c : MagStep(v, Val[c], radix), 0, ds)

Radix == [r \in {"x", "o", "b"} |-> CASE r = "x" -> 16 [] r = "o" -> 8 [] r = "b" -> 2]
RadixInteger(s, i, radix) ==
  LET run == ScanRun(s, i, radix)
      mag == MagFrom(run.ds, radix)
  IN IF run.ok /\ mag \in 0 .. IMax THEN Value("integer", mag, run.pos) ELSE Refused

\* The fraction and the exponent of a float as plain digits: empty when absent.
Fraction(s, q) ==
  LET j == After(s, q + 1, Dec)
  IN IF ~At(s, q, {"."}) THEN [ok |-> TRUE, ds |-> << >>, pos |-> q]
     ELSE [ok |-> j > q + 1, ds |-> SubSeq(s, q + 1, j - 1), pos |-> j]
ExpSign(s, q) == IF At(s, q, {"-"}) THEN -1 ELSE 1
ExpDigits(s, q) == IF At(s, q, {"+", "-"}) THEN q + 1 ELSE q
Exponent(s, q) ==
  LET d == ExpDigits(s, q + 1)
      j == After(s, d, Dec)
  IN IF ~At(s, q, {"e"}) THEN [ok |-> TRUE, head |-> 0, sign |-> 1, ds |-> << >>, pos |-> q]
     ELSE [ok |-> j > d, head |-> d - q, sign |-> ExpSign(s, q + 1), ds |-> SubSeq(s, d, j - 1), pos |-> j]

\* slow_decimal: runs with underscores, or too many digits for the fast path.
SlowExponent(s, whole, frac, neg) ==
  LET ex == IF At(s, frac.pos, {"e"}) THEN ScanRun(s, ExpDigits(s, frac.pos + 1), 10)
            ELSE [ok |-> TRUE, ds |-> << >>, pos |-> frac.pos]
      e10 == ExpSign(s, frac.pos + 1) * Horner(ex.ds, 10)
  IN IF ~frac.ok \/ ~ex.ok THEN Refused
     ELSE Value("float", Normal(neg, Horner(whole.ds \o frac.ds, 10), e10 - Len(frac.ds)), ex.pos)
SlowFloat(s, whole, neg) ==
  LET frac == IF At(s, whole.pos, {"."}) THEN ScanRun(s, whole.pos + 1, 10)
              ELSE [ok |-> TRUE, ds |-> << >>, pos |-> whole.pos]
  IN  SlowExponent(s, whole, frac, neg)

SignedRange(mag, neg) == IF neg THEN mag \in 0 .. IMax + 1 ELSE mag \in 0 .. IMax
SlowRest(s, whole, neg) ==
  LET mag == MagFrom(whole.ds, 10)
  IN CASE ~whole.ok \/ (whole.ok /\ whole.ds[1] = "0" /\ Len(whole.ds) > 1) -> Refused
       [] At(s, whole.pos, {".", "e"}) -> SlowFloat(s, whole, neg)
       [] SignedRange(mag, neg) -> Value("integer", IF neg THEN -mag ELSE mag, whole.pos)
       [] OTHER -> Refused
SlowDecimal(s, i, neg) == SlowRest(s, ScanRun(s, i, 10), neg)

\* teptris_ryu_s2d_n takes a float in place when it is short enough.
Significant(ds) == Len(ds) + 1 - After(ds, 1, {"0"})
RyuTakes(mant, ds, exp) == Significant(mant \o ds) <= RyuDigits /\ Significant(exp) <= RyuExp

Decimal(neg, mant, ds, sign, exp) == Normal(neg, Horner(mant \o ds, 10), sign * Horner(exp, 10) - Len(ds))

\* The digits stored from byte at on of a buffer while less than room is used.
Stored(ds, at, room) == SubSeq(ds, 1, Min({Len(ds), room - at}))

\* What is converted from fbuf: digits that do not fit are left out.
Copied(neg, mant, ds, ex) ==
  LET start == Len(Minus(neg) \o mant)
      point == IF ds = << >> THEN 0 ELSE 1
      kept == Stored(ds, start + point, FracRoom)
  IN  Decimal(neg, mant, kept, ex.sign, Stored(ex.ds, start + point + Len(kept) + ex.head, ExpRoom))

\* The floats of the decimal fast path, its digits from i to j - 1.  The
\* mantissa takes at most FastDigits digits of the fraction; short ones are
\* combined exactly, the others converted in place or from a copy.
PlainRest(s, i, j, neg, plus, frac, ex) ==
  LET fdig == IF Len(frac.ds) < FastDigits THEN Len(frac.ds) ELSE FastDigits
      mant == SubSeq(s, i, j - 1)
      fmag == Horner(mant \o SubSeq(frac.ds, 1, fdig), 10)
      joined == At(s, frac.pos, {"_"}) \/ (ex.ok /\ At(s, ex.pos, {"_"}))
      e10 == ex.sign * Horner(ex.ds, 10)
      dexp == e10 - fdig
      exact == ~plus /\ e10 \in -MaxExp .. MaxExp /\ (j - i) + fdig <= ExactDigits
                 /\ dexp \in -ExactPower .. ExactPower
      value == IF exact THEN Normal(neg, fmag, dexp)
               ELSE IF ~plus /\ RyuTakes(mant, frac.ds, ex.ds) THEN Decimal(neg, mant, frac.ds, ex.sign, ex.ds)
               ELSE Copied(neg, mant, frac.ds, ex)
  IN CASE ~frac.ok -> Refused
       [] frac.ok /\ ~ex.ok /\ ~joined -> Refused
       [] frac.ok /\ joined -> SlowDecimal(s, i, neg)
       [] OTHER -> Value("float", value, ex.pos)
PlainFloat(s, i, j, neg, plus) ==
  LET frac == Fraction(s, j)
  IN  PlainRest(s, i, j, neg, plus, frac, Exponent(s, frac.pos))

\* teptris_parse_number.
ParseNumber(s, i0, signed) ==
  LET neg == signed /\ s[i0] = "-"
      i == IF signed THEN i0 + 1 ELSE i0
      j == After(s, i, Dec)
      mag == Horner(SubSeq(s, i, j - 1), 10)
  IN CASE ~At(s, i, Dec \cup {"inf", "nan"}) -> Refused
       [] At(s, i, {"inf"}) -> Value("float", <<neg, "inf">>, i + 1)
       [] At(s, i, {"nan"}) -> Value("float", <<FALSE, "nan">>, i + 1)
       [] At(s, i, {"0"}) /\ At(s, i + 1, DOMAIN Radix) ->
            IF signed THEN Refused ELSE RadixInteger(s, i + 2, Radix[s[i + 1]])
       [] OTHER ->
            IF j - i > FastDigits \/ At(s, j, {"_"}) THEN SlowDecimal(s, i, neg)
            ELSE IF j - i > 1 /\ s[i] = "0" THEN Refused
            ELSE IF At(s, j, {".", "e"}) THEN PlainFloat(s, i, j, neg, signed /\ ~neg)
            ELSE Value("integer", IF neg THEN -mag ELSE mag, j)

-------------------------------------------------------------------------------
\* The digits of n, at least one.
RECURSIVE DigitsOf(_)
DigitsOf(n) == IF n < 10 THEN <<Decimals[n + 1]>> ELSE Append(DigitsOf(n \div 10), Decimals[(n % 10) + 1])
Zeros(n) == [k \in 1 .. n |-> "0"]

\* Mutant: the magnitude is the negation, which the minimum does not have.
Magnitude_Negated(v) == IF v < 0 THEN (-v) % 2 ^ (Width - 1) ELSE v

\* emit_i64 computes the magnitude of the minimum without overflow.
Magnitude(v) == IF v < 0 THEN (-(v + 1)) + 1 ELSE v
IntegerText(v) == Minus(v < 0) \o DigitsOf(Magnitude(v))

LeadingZeros(nd, e10) == Zeros(-e10 - nd)

\* emit_float: ryu gives the shortest digits and the exponent of the first;
\* FixedDigits (16) and FixedZeros (6) bound the two fixed-point forms.
FloatText(f) ==
  LET ds == DigitsOf(f[2])
      nd == Len(ds)
      e10 == f[3]
      sci == e10 + nd - 1
      fixed == CASE e10 >= 0 /\ e10 + nd <= FixedDigits -> ds \o Zeros(e10) \o <<".", "0">>
                 [] e10 < 0 /\ -e10 < nd -> SubSeq(ds, 1, nd + e10) \o <<".">> \o SubSeq(ds, nd + e10 + 1, nd)
                 [] e10 < 0 /\ -e10 >= nd /\ -e10 - nd <= FixedZeros ->
                      <<"0", ".">> \o LeadingZeros(nd, e10) \o ds
                 [] OTHER -> <<ds[1]>> \o (IF nd > 1 THEN <<".">> \o Tail(ds) ELSE << >>)
                               \o <<"e">> \o Minus(sci < 0) \o DigitsOf(IF sci < 0 THEN -sci ELSE sci)
  IN IF Len(f) = 2 THEN Minus(f[1]) \o <<f[2]>> ELSE Minus(f[1]) \o fixed

-------------------------------------------------------------------------------
(***************************************************************************)
(* parse/datetime.c and emit_dt.                                           *)
(***************************************************************************)
\* is_dig at each of n places; a read past the end is never asked for.
Digs(s, i, n) == i + n - 1 <= Len(s) /\ \A k \in i .. i + n - 1 : s[k] \in Dec
D2(s, i) == 10 * Val[s[i]] + Val[s[i + 1]]
Num4(s, i) == 100 * D2(s, i) + D2(s, i + 2)

DaysInMonth(y, m) ==
  CASE m = 2 -> IF (y % 4 = 0 /\ y % 100 # 0) \/ y % 400 = 0 THEN 29 ELSE 28
    [] m \in {4, 6, 9, 11} -> 30 [] OTHER -> 31

DateShape(s, i) == Digs(s, i, 4) /\ At(s, i + 4, {"-"}) /\ Digs(s, i + 5, 2)
                     /\ At(s, i + 7, {"-"}) /\ Digs(s, i + 8, 2)
TimeShape(s, i) == Digs(s, i, 2) /\ At(s, i + 2, {":"}) /\ Digs(s, i + 3, 2)

\* teptris_datetime_lookahead.
Lookahead(s, i) == DateShape(s, i) \/ TimeShape(s, i)

NoDate == <<0, 0, 0>>
NoTime == <<0, 0, 0, 0>>
Moment(kind, date, time, offset, pos) == Value(kind, <<date, time, offset>>, pos)

\* The first FracDigits digits of a fraction count, the others are skipped.
FracValue(ds) ==
  Horner(SubSeq(ds \o Zeros(FracDigits), 1, FracDigits), 10)

\* The time at i, the same text of both branches of teptris_parse_datetime
\* but for how many characters must be left for seconds (few).
Time(s, i, few) ==
  LET secs == At(s, i + 5, {":"}) /\ Len(s) - i + 1 >= few
      bad == secs /\ ~Digs(s, i + 6, 2)
      sec == IF secs /\ ~bad THEN D2(s, i + 6) ELSE 0
      p == IF secs THEN i + 8 ELSE i + 5
      dot == At(s, p, {"."})
      q == IF dot THEN After(s, p + 1, Dec) ELSE p
      ns == IF dot THEN FracValue(SubSeq(s, p + 1, q - 1)) ELSE 0
      ok == ~bad /\ D2(s, i) <= 23 /\ D2(s, i + 3) <= 59 /\ sec <= 60 /\ (dot => q > p + 1)
  IN [ok |-> ok, v |-> <<D2(s, i), D2(s, i + 3), sec, ns>>, pos |-> q]

OffsetAt(s, i) == IF s[i] = "-" THEN -(60 * D2(s, i + 1) + D2(s, i + 4))
                  ELSE 60 * D2(s, i + 1) + D2(s, i + 4)

\* The date with its time t, and the offset that may follow.
DateTime(s, date, t) ==
  IF ~t.ok THEN Refused
  ELSE IF At(s, t.pos, {"Z"}) THEN Moment("offset", date, t.v, 0, t.pos + 1)
  ELSE IF ~(At(s, t.pos, {"+", "-"}) /\ TimeShape(s, t.pos + 1)) THEN Moment("local", date, t.v, 0, t.pos)
  ELSE IF D2(s, t.pos + 1) > 23 \/ D2(s, t.pos + 4) > 59 THEN Refused
  ELSE Moment("offset", date, t.v, OffsetAt(s, t.pos), t.pos + 6)
TimeAlone(t) == IF t.ok THEN Moment("time", NoDate, t.v, 0, t.pos) ELSE Refused

\* teptris_parse_datetime, once the lookahead has held at i.
ParseDatetime(s, i) ==
  LET date == <<Num4(s, i), D2(s, i + 5), D2(s, i + 8)>>
      p == i + 10
  IN IF s[i + 4] # "-" THEN TimeAlone(Time(s, i, 8))
     ELSE IF date[2] \notin 1 .. 12 \/ date[3] \notin 1 .. DaysInMonth(date[1], date[2]) THEN Refused
     ELSE IF At(s, p, {"T", " "}) /\ TimeShape(s, p + 1) THEN DateTime(s, date, Time(s, p + 1, 6))
     ELSE Moment("date", date, NoTime, 0, p)

-------------------------------------------------------------------------------
PutDigits2(v) == <<Decimals[((v \div 10) % 10) + 1], Decimals[(v % 10) + 1]>>
PutDigits4(v) == PutDigits2(v \div 100) \o PutDigits2(v % 100)

\* The fraction of a second without the zeros at its end.
RECURSIVE Trimmed(_)
Trimmed(ds) == IF ds[Len(ds)] = "0" THEN Trimmed(SubSeq(ds, 1, Len(ds) - 1)) ELSE ds

FracText(ns) == LET ds == DigitsOf(ns) IN <<".">> \o Trimmed(Zeros(FracDigits - Len(ds)) \o ds)

\* emit_dt.
DateText(d) == PutDigits4(d[1]) \o <<"-">> \o PutDigits2(d[2]) \o <<"-">> \o PutDigits2(d[3])
TimeText(t) == PutDigits2(t[1]) \o <<":">> \o PutDigits2(t[2]) \o <<":">> \o PutDigits2(t[3])
                 \o (IF t[4] # 0 THEN FracText(t[4]) ELSE << >>)
OffsetText(o) ==
  LET a == IF o < 0 THEN -o ELSE o
  IN IF o = 0 THEN <<"Z">>
     ELSE <<IF o < 0 THEN "-" ELSE "+">> \o PutDigits2(a \div 60) \o <<":">> \o PutDigits2(a % 60)
MomentText(kind, v) ==
  CASE kind = "date" -> DateText(v[1])
    [] kind = "time" -> TimeText(v[2])
    [] kind = "local" -> DateText(v[1]) \o <<"T">> \o TimeText(v[2])
    [] kind = "offset" -> DateText(v[1]) \o <<"T">> \o TimeText(v[2]) \o OffsetText(v[3])
===============================================================================
