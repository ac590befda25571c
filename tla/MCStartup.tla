------------------------------ MODULE MCStartup -----------------------------
(***************************************************************************)
(* Command lines of up to three arguments; configurations of one           *)
(* specification in every way of writing it, of two in one or two lines,   *)
(* the first or the second of them with an error, and of some texts that   *)
(* are not divided as the documents say, or that they do not explain.      *)
(***************************************************************************)
EXTENDS Startup, TLC

G   == INSTANCE Grammar
Ext == INSTANCE SequencesExt

MCSymbols ==
  {" ", "\n", ";", "[", "]", "\"", "~", "|", "#", "<", ">", "=", "/", "%", "'",
   "p", "e", "m", "v", "$", "+", "-", ".", "0", "1", "2", "3", "4", "5", "6", "7", "8",
   "P", "a", "c", "x", "quit", "match", "reject", "disconnect"}
MCDigit == "0" :> 0 @@ "1" :> 1 @@ "2" :> 2 @@ "3" :> 3 @@ "4" :> 4 @@ "5" :> 5
           @@ "6" :> 6 @@ "7" :> 7 @@ "8" :> 8
MCAlnum == DOMAIN MCDigit \cup {"p", "e", "m", "v", "P", "a", "c", "x", "quit"}
MCLong == <<"0">> :> 0 @@ <<"1">> :> 1 @@ <<"2">> :> 2 @@ <<"0", "x", "2">> :> 2
          @@ <<"8">> :> 8 @@ <<"1", "7">> :> 17 @@ <<"a">> :> 10
MCDouble == <<"1", ".", "5">> :> 3
MCDecimal == << <<"1">>, <<"2">>, <<"3">>, <<"4">>, <<"5">>, <<"6">>, <<"7">> >>

MCStrings == {}
MCNothing == [s \in {} |-> 0]

MCArguments == {"f", "", "-m", "-x", "-s", "--check", "--help"}
MCDashed    == MCArguments \ {"f", ""}
MCValueImages == {<<"x">>, <<"%", "p", "%", "e", "x">>}

Spaces(n) == [k \in 1..n |-> " "]
Times(n, s) == [k \in 1..n |-> s]

-----------------------------------------------------------------------------
One == Integer(1)
Two == Integer(2)
MCItems == {Variant_Range(r[1], r[2], r[3]) : r \in
  {<<"ckEqual", One, Void>>, <<"ckLessThanEqual", Two, Void>>,
   <<"ckNotEqual", String(<<"x">>), Void>>, <<"ckGreaterThan", Floating(3), Void>>,
   <<"ckEqual", String(<<"x", " ", "|">>), Void>>,
   <<"ckEqual", String(<<"1">>), Void>>, <<"ckRange", One, Two>>,
   <<"ckRange", String(<<"c">>), String(<<"x">>)>>}}
MCWords == {<< <<"c">> >>, << <<"quit">> >>, << <<"quit">>, <<"-", "1", "7">> >>,
            << <<"quit">>, <<"1", "%", "e">> >>, << <<"quit">>, <<"-", "%", "e">> >>,
            << <<"%", "p">>, <<"7">> >>,
            << <<"c">>, <<"%", "e", "=">>, <<"%", "p", "x", "%", "m", "%", "v">> >>,
            << <<"c">>, <<"%", "p", "%", "v", "%", "v", "%", "v", "%", "v", "%", "v", "%", "v">> >>}
Plain == Variant_Range("ckEqual", One, Void)

(* What the specifications say: each item alone and in pairs; each command *)
(* with several names and both ways to write an index; a full array.       *)
Said ==
  {<< <<"P">>, 1, <<r>>, << <<"c">> >> >> : r \in MCItems} \cup
  {<< <<"P">>, 2, <<r, q>>, << <<"c">> >> >> : r \in MCItems, q \in MCItems} \cup
  {<<name, i, <<Plain>>, w>> :
     name \in {<<"P">>, <<"1", "7", "P">>, <<"$", "P">>, <<"P", "%", "m">>, <<"quit">>},
     i \in 1..2, w \in MCWords} \cup
  {<< <<"P">>, 1, <<Plain, Plain, Plain>>, << <<"c">> >> >>,
   << <<"a">>, 2, <<Variant_Range("ckRange", String(<<"x">>), String(<<"c">>))>>,
      << <<"c">>, <<"x">> >> >>}

ASSUME SaidAssumption == \A p \in Said : G!Sayable(p[1], p[2], p[3], p[4])

Gaps == {<<>>, <<" ">>}

Singles ==
  UNION {{[text |-> t, written |-> <<G!Meant(p[1], p[2], p[3], p[4])>>] :
            t \in UNION {G!Written(p[1], p[2], p[3], p[4], gap) : gap \in Gaps}} :
         p \in Said}

-----------------------------------------------------------------------------
Good == {[text |-> <<"P", " ", "1", " ", "c">>,
          written |-> <<G!Meant(<<"P">>, 1, <<Plain>>, << <<"c">> >>)>>],
         [text |-> <<"a", " ", "[", "2", "]", "x", "~", "c", " ", "c", " ", "x">>,
          written |-> <<G!Meant(<<"a">>, 2,
                          <<Variant_Range("ckRange", String(<<"x">>), String(<<"c">>))>>,
                          << <<"c">>, <<"x">> >>)>>]}

BadTexts ==
  {<<>>, <<" ">>, <<"P">>, <<"P", " ">>, <<"P", " ", "1">>, <<"P", " ", "1", " ">>,
   <<"P", " ", "[", "1", " ", "1", " ", "c">>,
   <<"P", " ", "[", "0", "]", "1", " ", "c">>,
   <<"P", " ", "[", "8", "]", "1", " ", "c">>,
   <<"P", " ", "[", "x", "]", "1", " ", "c">>,
   <<"P", " ", "[", "]", "1", " ", "c">>,
   <<"+", "P", " ", "1", " ", "c">>, <<"P", " ", "<">>, <<"P", " ", "=", " ">>,
   <<"P", " ", "1", " ", "~">>, <<"P", " ", "1", "|">>, <<"P", " ", "1", "|", "c">>,
   <<"P", " ", "1", "|", "1", "|", "1", "|", "1", " ", "c">>,
   Times(4, "P") \o <<" ", "1", " ", "c">>,
   <<"P", " ", "1", " ", "c", " ">> \o Times(15, "x"),
   <<"P", " ", "1", " ">> \o Times(5, "c"),
   <<"P", " ", "1", "~">> \o Times(6, "x") \o <<" ", "c">>,
   <<"P", " ", "\"">> \o Times(6, "x") \o <<"\"", " ", "c">>}

Pieces == Good \cup {[text |-> t, written |-> <<>>] : t \in BadTexts}
Comment == [text |-> <<"#", "P", " ", "1", " ", "c">>, written |-> <<>>]

Joint(a, between, b) == [text |-> a.text \o <<between>> \o b.text \o <<"\n">>,
                         written |-> a.written \o b.written]

Pairs == {Joint(a, ";", b) : a \in Good, b \in Pieces} \cup
         {Joint(a, ";", b) : a \in Pieces, b \in Good} \cup
         {Joint(a, "\n", b) : a \in Pieces \cup {Comment}, b \in Good}

(* What the documents explain and the reader does not do: a comment longer *)
(* than the buffer, a semicolon in quotes.                                 *)
LongComment == [text |-> <<"#">> \o Spaces(46) \o <<"P", " ", "1", " ", "c">>,
                written |-> <<>>]

QuotedSemicolon ==
  [text |-> <<"P", " ", "\"", "x", ";", "x", "\"", " ", "c">>,
   written |-> <<G!Meant(<<"P">>, 1,
                   <<Variant_Range("ckEqual", String(<<"x", ";", "x">>), Void)>>,
                   << <<"c">> >>)>>]

ASSUME QuotedAssumption ==
  QuotedSemicolon.text \in
    G!Written(<<"P">>, 1, <<Variant_Range("ckEqual", String(<<"x", ";", "x">>), Void)>>,
              << <<"c">> >>, <<>>)

(* These, a longer line, a semicolon that leaves a quotation mark alone;   *)
(* quotes that are not closed, an index that is no int.  It is left open   *)
(* what is meant, but all of them are read to an end.                      *)
Odd == {[text |-> t, written |-> Unspecified] :
          t \in {Spaces(44) \o <<"P", " ", "1", " ", "c">>,
                 LongComment.text, QuotedSemicolon.text,
                 <<"P", " ", "\"", ";", "\"", " ", "c">>,
                 <<"P", " ", "\"", "x", "\"", "x", " ", "c">>,
                 <<"P", " ", "<", "\"", "x", "c">>,
                 <<"P", " ", "\"">>,
                 <<"P", " ", "[", "1", "7", "]", "1", " ", "c">>}}

-----------------------------------------------------------------------------
ArgumentLists == UNION {[1..k -> MCArguments] : k \in 0..3}

MCInputs ==
  {[arguments |-> <<"f">>, text |-> t.text, written |-> t.written] :
     t \in Singles \cup Pairs \cup Odd} \cup
  {[arguments |-> a, text |-> <<"P", " ", "1", " ", "c", "\n">>,
    written |-> <<G!Meant(<<"P">>, 1, <<Plain>>, << <<"c">> >>)>>] : a \in ArgumentLists} \cup
  {[arguments |-> <<"-m", "f">>, text |-> <<"#">>, written |-> <<>>]}

(* What an input says is what those of its specifications say that are     *)
(* written as documented, in their order.  That the others give no client  *)
(* follows when ReadAsWritten and ImplementsReadingPolicy hold.            *)
Alone == {<<SkipWhite[s.text], s.written>> : s \in Singles}

Meaning == [spec \in {a[1] : a \in Alone} |-> (CHOOSE a \in Alone : a[1] = spec)[2]]

ASSUME WrittenAssumption ==
  \A i \in {j \in MCInputs : j.written # Unspecified} :
    /\ Ordinary(i.text)
    /\ LET specs == [k \in DOMAIN DocumentedText[i.text] |->
                       SkipWhite[DocumentedText[i.text][k]]]
       IN  i.written = Ext!FlattenSeq([k \in DOMAIN specs |->
             IF specs[k] \in DOMAIN Meaning THEN Meaning[specs[k]] ELSE <<>>])

(* The command line f with both in one text: neither is ordinary alone.    *)
ASSUME MisreadAssumption == ~Ordinary(LongComment.text) /\ ~Ordinary(QuotedSemicolon.text)

MCMisread == {[arguments |-> <<"f">>] @@ Joint(LongComment, "\n", QuotedSemicolon)}
=============================================================================
