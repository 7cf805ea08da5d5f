---------------------------- MODULE Timestamps ------------------------------
(***************************************************************************)
(* The timestamp an agent prints on an observation (Enrich in              *)
(* internal/observation: now.Format(time.RFC3339Nano), in the host's local *)
(* zone) and the collector later compares as a string.  Only the part from *)
(* the seconds on is kept; the fraction has two digits instead of nine.    *)
(***************************************************************************)
EXTENDS Naturals, Sequences

CONSTANT Zone       \* "utc" or "offset": the time zone of the agents' hosts

ASSUME ZoneAssumption == Zone \in {"utc", "offset"}

\* ASCII: "Z", or "+02".
ZoneSuffix == IF Zone = "utc" THEN <<90>> ELSE <<43, 48, 50>>

Digit(d) == 48 + d

\* The layout's fraction of nines: trailing zeros are removed, with the point if
\* nothing remains.
Fraction(c) ==
    IF c = 0 THEN <<>>
    ELSE IF c % 10 = 0 THEN <<46, Digit(c \div 10)>>
    ELSE <<46, Digit(c \div 10), Digit(c % 10)>>

\* The instant t, in hundredths of a second.
Stamp(t) == <<Digit((t \div 100) % 10)>> \o Fraction(t % 100) \o ZoneSuffix
=============================================================================
