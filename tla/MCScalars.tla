------------------------------- MODULE MCScalars -------------------------------
EXTENDS Scalars

\* A letter, two letters of escapes, the characters the scanners tell apart, and
\* one beyond ASCII.
Characters == {"a", "n", "u", " ", "tab", "lf", "cr", "ctl", "del", "\"", "'", "\\", "hi"}

Text(n) == IF n < 10 THEN <<"0">> \o DigitsOf(n) ELSE DigitsOf(n)
\* The parts of a date-time with the values at and beyond every limit; the
\* first choice leaves the date out.
Dates == {<< >>} \cup
  {y \o <<"-">> \o Text(m) \o <<"-">> \o Text(d) :
     y \in {<<"1", "9", "0", "0">>, <<"2", "0", "0", "0">>, <<"2", "0", "2", "3">>, <<"2", "0", "2", "4">>},
     m \in {0, 2, 4, 13}, d \in {0, 29, 30, 31}}
Parts ==
  << Dates, {<< >>, <<"T">>, <<" ">>},
     {<< >>} \cup {Text(h) \o <<":">> \o Text(m) : h \in {0, 23, 24}, m \in {5, 60}},
     {<< >>, <<":", "5">>} \cup {<<":">> \o Text(n) : n \in {60, 61}},
     {<< >>, <<".">>, <<".", "5">>, <<".", "0", "5">>, <<".", "0", "1", "0", "9">>},
     {<< >>, <<"Z">>, <<"+", "0", "1">>} \cup
       {<<g>> \o Text(h) \o <<":">> \o Text(m) : g \in {"+", "-"}, h \in {0, 24}, m \in {30, 60}} >>
===============================================================================
