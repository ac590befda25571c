------------------------------- MODULE Texts --------------------------------
(***************************************************************************)
(* The C strings of the program as texts: sequences of symbols.  A symbol  *)
(* is a character, or a word that the program only looks at as a whole, so *)
(* that the sizes of the program's buffers are small numbers of symbols.   *)
(***************************************************************************)
EXTENDS Integers, Sequences, FiniteSets

CONSTANTS Symbols,      \* the symbols that occur
          Digit         \* the digits among them, with their values

ASSUME SymbolAssumption ==
  {" ", "%", "p", "e", "m", "v", "'", "match", "reject", "disconnect"} \subseteq Symbols

ASSUME DigitAssumption ==
  /\ Digit \in [DOMAIN Digit -> 0..9]
  /\ DOMAIN Digit \subseteq Symbols \ {" ", "%"}

White == {" "}          \* isspace: a tab is read as a blank is

Prefix(s, k) == SubSeq(s, 1, k)
Rest(s, k)   == SubSeq(s, k + 1, Len(s))

(* How many symbols the text begins with that are in S, or not in S.       *)
Span(s, S) == Cardinality({k \in 1..Len(s) : \A i \in 1..k : s[i] \in S})
UpTo(s, S) == Cardinality({k \in 1..Len(s) : \A i \in 1..k : s[i] \notin S})

(* What maps texts is a function when it is applied to its own results.    *)
SkipWhite[s \in Seq(Symbols)] == Rest(s, Span(s, White))

Holds(s, x) == \E k \in DOMAIN s : s[k] = x

Begins(s, S) == s # <<>> /\ s[1] \in S

StartsWith(s, t) == Len(t) <= Len(s) /\ Prefix(s, Len(t)) = t

(* strstr: the places before which t begins in s.                          *)
Occurrences(s, t) == {k \in 0..Len(s) : StartsWith(Rest(s, k), t)}

Smallest(S) == CHOOSE k \in S : \A j \in S : k <= j
Largest(S)  == CHOOSE k \in S : \A j \in S : j <= k
Shorter(a, b) == IF a < b THEN a ELSE b

(* strncat and snprintf: no more than room symbols.                        *)
Cut(s, room) == Prefix(s, Shorter(room, Len(s)))

(* Blanks at either end removed, as strtol and long_value do.              *)
Trim(s) == LET ink == {k \in DOMAIN s : s[k] \notin White}
           IN  IF ink = {} THEN <<>> ELSE SubSeq(s, Smallest(ink), Largest(ink))

(* atoi: blanks, one sign or none, and digits up to what is no digit.      *)
Signs == {"+", "-"}

Unsigned(s) == IF Begins(s, Signs) THEN Rest(s, 1) ELSE s

AtoiUnsigned(s) ==
  LET digits == Prefix(s, Span(s, DOMAIN Digit))
      value[k \in 0..Len(digits)] ==
        IF k = 0 THEN 0 ELSE 10 * value[k - 1] + Digit[digits[k]]
  IN  value[Len(digits)]

Atoi(s) ==
  LET magnitude == AtoiUnsigned(Unsigned(SkipWhite[s]))
  IN  IF Begins(SkipWhite[s], {"-"}) THEN -magnitude ELSE magnitude
=============================================================================
