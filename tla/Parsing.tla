------------------------------ MODULE Parsing -------------------------------
(***************************************************************************)
(* The parts of a specification, src/krytenApp/read_configuration.c:       *)
(* functions from a text to what is read at its beginning and the rest.    *)
(***************************************************************************)
EXTENDS Texts, Sizes, Variants

CONSTANTS Alnum,        \* the symbols that begin with a letter or a digit
          Long,         \* the texts that strtol reads to their end, as numbers,
                        \* but for those with blanks before them
          Double          \* those of the others that strtod does

Texts == Seq(Symbols)

ASSUME AlnumAssumption == Alnum \cap {" ", "%", "+", "-"} = {}

ASSUME NumberAssumption == /\ \A t \in DOMAIN Long : Long[t] \in Int
                           /\ \A t \in DOMAIN Double : Double[t] \in Doubles
                           /\ DOMAIN Long \cap DOMAIN Double = {}

QuotationMark == "\""
Quote         == {QuotationMark}

(* What a specification is written with besides names, numbers and words;  *)
(* none of it occurs in a number.                                          *)
Punctuation == {"[", "]", QuotationMark, "~", "|", "<", ">", "=", "/"}

ASSUME PunctuationAssumption == Punctuation \subseteq Symbols

ASSUME NumeralAssumption ==
  \A t \in DOMAIN Long \cup DOMAIN Double :
    t \in Texts \ {<<>>} /\ \A k \in DOMAIN t : t[k] \notin White \cup Punctuation

Ints == -(IntSpan \div 2) .. (IntSpan - 1 - IntSpan \div 2)

ReadValues == [kind : {"vkVoid"}] \cup [kind : {"vkString"}, sval : Texts] \cup
              [kind : {"vkFloating"}, dval : Doubles] \cup
              [kind : {"vkInteger"}, ival : Int]

ReadRanges == [comp : {"ckNotEqual", "ckLessThanEqual", "ckGreaterThanEqual",
                       "ckEqual", "ckLessThan", "ckGreaterThan", "ckRange"},
               lower : ReadValues, upper : ReadValues]

-----------------------------------------------------------------------------
(* The outcome of parsing the beginning of a text: a result and the rest;  *)
(* an error; or a write through strncpy with a length of -1.               *)
Read(value, rest) == [outcome |-> "read", value |-> value, rest |-> rest]
Error             == [outcome |-> "error"]
Overrun           == [outcome |-> "overrun"]

Outcomes(S) == [outcome : {"read"}, value : S, rest : Texts] \cup {Error, Overrun}

(* A value in quotes: its length is counted as if both quotes were there.  *)
QuotedLength(s) ==
  LET body == UpTo(Rest(s, 1), Quote)
  IN  IF body + 1 < Len(s) THEN body + 2 ELSE body + 1

QuotedValue(s) ==
  LET n == QuotedLength(s) - 2
  IN  CASE n < 0               -> Overrun
        [] n > MAX_STRING_SIZE -> Error
        [] n \in 0..MAX_STRING_SIZE ->
             Read(String(SubSeq(s, 2, n + 1)), Rest(s, QuotedLength(s)))

PlainValue(s) ==
  LET item == Prefix(s, UpTo(s, White \cup {"~", "|"}))
      rest == Rest(s, Len(item))
  IN  CASE item \in DOMAIN Long -> Read(Integer(Long[item]), rest)
        [] item \in DOMAIN Double -> Read(Floating(Double[item]), rest)
        [] item \notin DOMAIN Long \cup DOMAIN Double ->
             IF Len(item) > MAX_STRING_SIZE THEN Error
                                            ELSE Read(String(item), rest)

parse_value[input \in Texts] ==
  LET s == SkipWhite[input]
  IN  IF s = <<>> THEN Error
      ELSE IF Begins(s, Quote) THEN QuotedValue(s) ELSE PlainValue(s)

(* The comparison operators in the order they are tried.                   *)
Operator(symbols, comp) == [symbols |-> symbols, comp |-> comp]

comparison_operatorsShortFirst ==
  << Operator(<<"=">>, "ckEqual"),
     Operator(<<"<">>, "ckLessThan"),
     Operator(<<">">>, "ckGreaterThan"),
     Operator(<<"/", "=">>, "ckNotEqual"),
     Operator(<<"<", "=">>, "ckLessThanEqual"),
     Operator(<<">", "=">>, "ckGreaterThanEqual") >>

comparison_operators ==
  << Operator(<<"/", "=">>, "ckNotEqual"),
     Operator(<<"<", "=">>, "ckLessThanEqual"),
     Operator(<<">", "=">>, "ckGreaterThanEqual"),
     Operator(<<"=">>, "ckEqual"),
     Operator(<<"<">>, "ckLessThan"),
     Operator(<<">">>, "ckGreaterThan") >>

Variant_Range(comp, lower, upper) == [comp |-> comp, lower |-> lower, upper |-> upper]

ComparedItem(op, s) ==
  LET operand == parse_value[s]
  IN  IF operand.outcome = "read"
        THEN Read(Variant_Range(op.comp, operand.value, Void), operand.rest)
        ELSE operand

(* value or value ~ value, with something behind the first value.          *)
ValueItem(s) ==
  LET lower == parse_value[s]
      next  == SkipWhite[lower.rest]
      upper == parse_value[Rest(next, 1)]
  IN  CASE lower.outcome # "read" -> lower
        [] lower.outcome = "read" ->
             IF next = <<>> THEN Error
             ELSE IF ~Begins(next, {"~"})
                    THEN Read(Variant_Range("ckEqual", lower.value, Void), lower.rest)
             ELSE IF upper.outcome # "read" THEN upper
             ELSE Read(Variant_Range("ckRange", lower.value, upper.value), upper.rest)

parse_match[line \in Texts] ==
  LET s == SkipWhite[line]
      found == {e \in DOMAIN comparison_operators :
                  StartsWith(s, comparison_operators[e].symbols)}
      op == comparison_operators[Smallest(found)]
  IN  CASE s = <<>>                  -> Error
        [] s # <<>> /\ found # {} -> ComparedItem(op, Rest(s, Len(op.symbols)))
        [] s # <<>> /\ found = {} -> ValueItem(s)

-----------------------------------------------------------------------------
(* The optional element index; it is a long that becomes an int.           *)
AsIntUnchanged(k) == k

AsInt(k) == ((k + IntSpan \div 2) % IntSpan) - IntSpan \div 2

parse_index[s \in Texts] ==
  LET close == UpTo(s, {"]"})
      item  == Trim(SubSeq(s, 2, close))
  IN  CASE ~Begins(s, {"["}) -> Read(1, s)
        [] Begins(s, {"["}) /\ close = Len(s) -> Error
        [] OTHER -> IF item \notin DOMAIN Long THEN Error
                    ELSE IF AsInt(Long[item]) < 1 THEN Error
                    ELSE Read(AsInt(Long[item]), Rest(s, close + 1))

(* A specification as far as its match list: its PV name and the index.    *)
Entries == [pv_name : Texts, element_index : Ints, match_set : Seq(ReadRanges)]

Entry(pv_name, index, match_set) ==
  [pv_name |-> pv_name, element_index |-> index, match_set |-> match_set]

Heading[spec \in Texts] ==
  LET s     == SkipWhite[spec]
      name  == Prefix(s, UpTo(s, White))
      index == parse_index[SkipWhite[Rest(s, Len(name))]]
  IN  IF Begins(name, Alnum \cup {"$"}) /\ index.outcome = "read"
        THEN Read(Entry(name, index.value, <<>>), index.rest)
        ELSE Error

(* Runs of blanks become one, and those at the end none; a command of one  *)
(* word gets the default parameters.                                       *)
DefaultParameters ==
  <<" ", "%", "p">> \o <<" ", "%", "m">> \o <<" ", "%", "v">> \o <<" ", "%", "e">>

Squeezed[s \in Texts] ==
  IF s = <<>> THEN <<>>
  ELSE IF Begins(s, White) /\ (Len(s) = 1 \/ s[2] \in White) THEN Squeezed[Tail(s)]
  ELSE <<s[1]>> \o Squeezed[Tail(s)]

WithDefaults[s \in Texts] ==
  IF \E k \in DOMAIN s : s[k] \in White THEN s ELSE s \o DefaultParameters

Command[s \in Texts] == WithDefaults[Squeezed[s]]

(* A client, and whether it fits its fields.                               *)
Client(e, command) ==
  [pv_name |-> e.pv_name, element_index |-> e.element_index,
   match_set |-> e.match_set, match_command |-> command]

Fits(c) == /\ Len(c.pv_name) <= MAXIMUM_PVNAME_SIZE - 1
           /\ Len(c.match_command) <= MATCH_COMMAND_LENGTH

-----------------------------------------------------------------------------
(* The line a text begins with: at most MAX_LINE_LENGTH - 1 symbols, with  *)
(* its newline, of which what stands before it is used.                    *)
LineLength(t) == Shorter(UpTo(t, {"\n"}) + 1, MAX_LINE_LENGTH - 1)

Line(t) == SkipWhite[Prefix(t, UpTo(Cut(t, LineLength(t)), {"\n"}))]

IsComment(line) == Begins(line, {"#"})
=============================================================================
