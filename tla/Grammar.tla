------------------------------ MODULE Grammar -------------------------------
(***************************************************************************)
(* The configuration language as kryten.html:110-157 and information.c     *)
(* describe it: how a specification is written, and what it means.  It is  *)
(* the reference the reader is compared with.                              *)
(***************************************************************************)
EXTENDS Parsing

Joined(texts, between) ==
  LET joined[k \in 0..Len(texts)] ==
        IF k = 0 THEN <<>>
        ELSE IF k = 1 THEN texts[1]
        ELSE joined[k - 1] \o between \o texts[k]
  IN  joined[Len(texts)]

(* A string may go without quotes when it is not a number and nothing in   *)
(* it has another meaning.                                                 *)
NeedsQuotes(t) ==
  \/ t \in {<<>>} \cup DOMAIN Long \cup DOMAIN Double
  \/ \E k \in DOMAIN t : t[k] \in White \cup {"~", "|"}
  \/ t[1] \in {"<", ">", "=", "/", "["}

(* The ways to write a value.                                              *)
Value(v) ==
  CASE v.kind = "vkInteger"  -> {t \in DOMAIN Long : Long[t] = v.ival}
    [] v.kind = "vkFloating" -> {t \in DOMAIN Double : Double[t] = v.dval}
    [] v.kind = "vkString"   ->
         {<<QuotationMark>> \o v.sval \o <<QuotationMark>>} \cup
         (IF NeedsQuotes(v.sval) THEN {} ELSE {v.sval})

Qualifier(comp) ==
  CASE comp = "ckNotEqual"         -> <<"/", "=">>
    [] comp = "ckLessThan"         -> <<"<">>
    [] comp = "ckLessThanEqual"    -> <<"<", "=">>
    [] comp = "ckGreaterThan"      -> <<">">>
    [] comp = "ckGreaterThanEqual" -> <<">", "=">>
    [] comp = "ckEqual"            -> <<"=">>

(* The ways to write a match item, with a gap where blanks may be.         *)
Item(r, gap) ==
  IF r.comp = "ckRange"
    THEN {x \o gap \o <<"~">> \o gap \o y : x \in Value(r.lower), y \in Value(r.upper)}
    ELSE {Qualifier(r.comp) \o gap \o x : x \in Value(r.lower)} \cup
         (IF r.comp = "ckEqual" THEN Value(r.lower) ELSE {})

Items(match_set, gap) ==
  {Joined(texts, gap \o <<"|">> \o gap) :
     texts \in {t \in [DOMAIN match_set -> UNION {Item(match_set[j], gap) :
                                                   j \in DOMAIN match_set}] :
                  \A j \in DOMAIN match_set : t[j] \in Item(match_set[j], gap)}}

(* No element index means 1.                                               *)
Index(i, gap) ==
  {<<"[">> \o gap \o t \o gap \o <<"]">> \o gap :
     t \in {u \in DOMAIN Long : Long[u] = i}} \cup {t \in {<<>>} : i = 1}

(* The texts of a specification with these parts, and the client it means. *)
Parts(pv_name, i, m, words, gap) ==
  gap \o pv_name \o <<" ">> \o gap \o i \o m \o <<" ">> \o gap
    \o Joined(words, <<" ">> \o gap) \o gap

Written(pv_name, index, match_set, words, gap) ==
  {Parts(pv_name, i, m, words, gap) : i \in Index(index, gap), m \in Items(match_set, gap)}

Meant(pv_name, index, match_set, words) ==
  [pv_name |-> pv_name, element_index |-> index, match_set |-> match_set,
   match_command |-> Joined(words, <<" ">>) \o
                     (IF Len(words) = 1 THEN DefaultParameters ELSE <<>>)]

-----------------------------------------------------------------------------
(* What a specification can say.  A string has no quotation mark and fits  *)
(* its field, as the name and the command do; a blank ends the name and    *)
(* separates the words of the command, which no "~" or "|" may begin.      *)
Expressible(v) ==
  /\ v.kind # "vkVoid"
  /\ v.kind = "vkString" => ~Holds(v.sval, QuotationMark) /\ Len(v.sval) <= MAX_STRING_SIZE

ExpressibleItem(r) == /\ Expressible(r.lower)
                      /\ IF r.comp = "ckRange" THEN Expressible(r.upper)
                                               ELSE r.upper = Void

IsWord(w) == w \in Texts \ {<<>>} /\ \A k \in DOMAIN w : w[k] \notin White

Sayable(pv_name, index, match_set, words) ==
  /\ IsWord(pv_name) /\ Begins(pv_name, Alnum \cup {"$"})
  /\ index \in Ints /\ index >= 1
  /\ match_set \in Seq(ReadRanges)
  /\ Len(match_set) \in 1..NUMBER_OF_VARIENT_RANGES
  /\ \A j \in DOMAIN match_set : ExpressibleItem(match_set[j])
  /\ words \in Seq(Texts) \ {<<>>}
  /\ \A k \in DOMAIN words : IsWord(words[k])
  /\ ~Begins(words[1], {"~", "|"})
  /\ Fits(Meant(pv_name, index, match_set, words))
=============================================================================
