------------------------ MODULE StartupReader_proofs ------------------------
(***************************************************************************)
(* What the reader makes of a configuration, for any text: the clients of  *)
(* its specifications, and of those the grammar of the documents gives,    *)
(* the ones they mean.                                                     *)
(***************************************************************************)
EXTENDS Startup_proofs, Grammar

-----------------------------------------------------------------------------
(* The specifications of a line and of a text.                             *)
LEMMA RestIsShorter ==
  ASSUME NEW s \in Texts, s # <<>>, NEW k \in Nat \ {0}
  PROVE  Rest(s, k) \in Texts /\ Len(Rest(s, k)) < Len(s)
  <1>1. Len(s) \in Nat \ {0}
    BY LengthOfText
  <1>2. /\ Rest(s, k) \in Texts
        /\ Len(Rest(s, k)) = IF k <= Len(s) THEN Len(s) - k ELSE 0
    BY RestOfText
  <1> QED BY <1>1, <1>2

LEMMA OneOf ==
  ASSUME NEW S, NEW x \in S
  PROVE  <<x>> \in Seq(S) /\ Len(<<x>>) = 1 /\ <<x>>[1] = x
  OBVIOUS

(* A text is divided into its first part and what the rest of it holds.    *)
Divides(f, first, k) ==
  f = [s \in Texts |-> IF s = <<>> THEN <<>> ELSE first[s] \o f[Rest(s, k[s])]]

LEMMA RestDescends ==
  ASSUME NEW k \in [Texts -> Nat \ {0}]
  PROVE  Descends(Texts, [s \in Texts |-> Len(s)], {<<>>}, [s \in Texts |-> Rest(s, k[s])])
  <1> DEFINE size == [s \in Texts |-> Len(s)]
             rest == [s \in Texts |-> Rest(s, k[s])]
             leaves == {<<>>}
  <1>1. ASSUME NEW s \in Texts
        PROVE  Rest(s, k[s]) \in Texts /\ (s # <<>> => Len(Rest(s, k[s])) < Len(s))
    <2>1. k[s] \in Nat \ {0}
      OBVIOUS
    <2>2. Rest(s, k[s]) \in Texts
      BY <2>1, RestOfText
    <2>3. s # <<>> => Len(Rest(s, k[s])) < Len(s)
      BY <2>1, RestIsShorter
    <2> QED BY <2>2, <2>3
  <1>2. size \in [Texts -> Nat] /\ rest \in [Texts -> Texts]
    BY <1>1, LengthOfText
  <1>3. \A s \in Texts : s \in leaves \/ size[rest[s]] < size[s]
    BY <1>1
  <1> HIDE DEF size, rest, leaves
  <1>4. Descends(Texts, size, leaves, rest)
    BY <1>2, <1>3 DEF Descends
  <1> QED BY <1>4 DEF size, rest, leaves

LEMMA DivisionExists ==
  ASSUME NEW first \in [Texts -> Seq(Texts)], NEW k \in [Texts -> Nat \ {0}]
  PROVE  \E f : Divides(f, first, k)
  <1> DEFINE size == [s \in Texts |-> Len(s)]
             leaf == [s \in Texts |-> <<>>]
             rest == [s \in Texts |-> Rest(s, k[s])]
             step == [y \in Texts \X Seq(Texts) |-> first[y[1]] \o y[2]]
             leaves == {<<>>}
             In(f, s) == IF s = <<>> THEN <<>> ELSE first[s] \o f[Rest(s, k[s])]
  <1>1. Descends(Texts, size, leaves, rest)
    BY RestDescends
  <1>2. leaf \in [Texts -> Seq(Texts)]
    BY EmptySeq
  <1>3. step \in [Texts \X Seq(Texts) -> Seq(Texts)]
    <2>1. ASSUME NEW y \in Texts \X Seq(Texts) PROVE first[y[1]] \o y[2] \in Seq(Texts)
      <3>1. first[y[1]] \in Seq(Texts) /\ y[2] \in Seq(Texts)
        OBVIOUS
      <3> QED BY <3>1, ConcatProperties
    <2> QED BY <2>1
  <1>4. PICK f \in [Texts -> Seq(Texts)] : Recursive(f, Texts, leaves, leaf, rest, step)
    <2> HIDE DEF size, leaf, rest, step, leaves
    <2> QED BY <1>1, <1>2, <1>3, Recursion
  <1>5. ASSUME NEW s \in Texts PROVE f[s] = In(f, s)
    <2>1. CASE s = <<>>
      BY <1>4, <2>1 DEF Recursive
    <2>2. CASE s # <<>>
      <3>1. s \notin leaves /\ rest[s] = Rest(s, k[s])
        BY <2>2
      <3>2. f[s] = step[<<s, f[Rest(s, k[s])]>>]
        <4> HIDE DEF step, leaf, rest, leaves
        <4> QED BY <1>4, <3>1 DEF Recursive
      <3>3. Rest(s, k[s]) \in Texts
        <4>1. k[s] \in Nat
          OBVIOUS
        <4> QED BY <4>1, RestOfText
      <3>4. f[Rest(s, k[s])] \in Seq(Texts)
        BY <3>3
      <3>5. step[<<s, f[Rest(s, k[s])]>>] = first[s] \o f[Rest(s, k[s])]
        BY <3>4
      <3> HIDE DEF step, leaf, rest, leaves
      <3> QED BY <2>2, <3>2, <3>5
    <2> QED BY <2>1, <2>2
  <1>6. f = [s \in Texts |-> f[s]]
    OBVIOUS
  <1>7. f = [s \in Texts |-> In(f, s)]
    <2> HIDE DEF In
    <2> QED BY <1>5, <1>6
  <1> QED BY <1>7 DEF Divides

LEMMA DivisionIs ==
  ASSUME NEW first \in [Texts -> Seq(Texts)], NEW k \in [Texts -> Nat \ {0}],
         NEW f, Divides(f, first, k)
  PROVE  /\ f \in [Texts -> Seq(Texts)]
         /\ f[<<>>] = <<>>
         /\ \A s \in Texts \ {<<>>} : f[s] = first[s] \o f[Rest(s, k[s])]
  <1> DEFINE size == [s \in Texts |-> Len(s)]
             P == {s \in Texts : f[s] \in Seq(Texts)}
             In(s) == IF s = <<>> THEN <<>> ELSE first[s] \o f[Rest(s, k[s])]
  <1>1. f = [s \in Texts |-> In(s)]
    BY DEF Divides
  <1>2. \A s \in Texts : f[s] = In(s)
    <2> HIDE DEF In
    <2> QED BY <1>1
  <1>3. ASSUME NEW s \in Texts, \A t \in Texts : size[t] < size[s] => t \in P
        PROVE  s \in P
    <2>1. CASE s = <<>>
      BY <1>2, <2>1, EmptySeq
    <2>2. CASE s # <<>>
      <3>1. k[s] \in Nat \ {0}
        OBVIOUS
      <3>2. Rest(s, k[s]) \in Texts /\ Len(Rest(s, k[s])) < Len(s)
        BY <2>2, <3>1, RestIsShorter
      <3>3. f[Rest(s, k[s])] \in Seq(Texts)
        BY <1>3, <3>2
      <3>4. first[s] \in Seq(Texts)
        OBVIOUS
      <3>5. first[s] \o f[Rest(s, k[s])] \in Seq(Texts)
        BY <3>3, <3>4, ConcatProperties
      <3> QED BY <1>2, <2>2, <3>5
    <2> QED BY <2>1, <2>2
  <1>4. \A s \in Texts : s \in P
    <2>1. size \in [Texts -> Nat]
      BY LengthOfText
    <2> HIDE DEF P, size
    <2> QED BY <1>3, <2>1, SizeInduction
  <1>5. f \in [Texts -> Seq(Texts)]
    <2>1. f = [s \in Texts |-> f[s]]
      <3> HIDE DEF In
      <3> QED BY <1>1
    <2>2. [s \in Texts |-> f[s]] \in [Texts -> Seq(Texts)]
      BY <1>4
    <2> QED BY <2>1, <2>2
  <1> QED BY <1>2, <1>5, NoSymbol

(* The specifications of a line, up to a semicolon each.                   *)
LEMMA InLineIs ==
  /\ InLine \in [Texts -> Seq(Texts)]
  /\ InLine[<<>>] = <<>>
  /\ \A s \in Texts \ {<<>>} :
       InLine[s] = <<Prefix(s, UpTo(s, {";"}))>> \o InLine[Rest(s, UpTo(s, {";"}) + 1)]
  <1> DEFINE first == [s \in Texts |-> <<Prefix(s, UpTo(s, {";"}))>>]
             k == [s \in Texts |-> UpTo(s, {";"}) + 1]
             In(f, s) == IF s = <<>> THEN <<>>
                         ELSE <<Prefix(s, UpTo(s, {";"}))>> \o f[Rest(s, UpTo(s, {";"}) + 1)]
  <1>1. ASSUME NEW s \in Texts
        PROVE  /\ <<Prefix(s, UpTo(s, {";"}))>> \in Seq(Texts)
               /\ UpTo(s, {";"}) + 1 \in Nat \ {0}
    <2>1. PICK n \in 0..Len(s) : n = UpTo(s, {";"})
      BY SpanOfText
    <2>2. Prefix(s, n) \in Texts /\ n + 1 \in Nat \ {0}
      BY LengthOfText, PrefixOfText
    <2> QED BY <2>1, <2>2, OneOf
  <1>2. first \in [Texts -> Seq(Texts)] /\ k \in [Texts -> Nat \ {0}]
    BY <1>1
  <1>3. ASSUME NEW f PROVE Divides(f, first, k) <=> f = [s \in Texts |-> In(f, s)]
    BY DEF Divides
  <1> HIDE DEF first, k
  <1>4. PICK f : f = [s \in Texts |-> In(f, s)]
    BY <1>2, <1>3, DivisionExists
  <1>5. InLine = CHOOSE f1 : f1 = [s \in Texts |-> In(f1, s)]
    BY DEF InLine
  <1>6. InLine = [s \in Texts |-> In(InLine, s)]
    <2> HIDE DEF In
    <2> QED BY <1>4, <1>5
  <1>7. Divides(InLine, first, k)
    BY <1>3, <1>6
  <1>8. /\ InLine \in [Texts -> Seq(Texts)] /\ InLine[<<>>] = <<>>
        /\ \A s \in Texts \ {<<>>} : InLine[s] = first[s] \o InLine[Rest(s, k[s])]
    BY <1>2, <1>7, DivisionIs
  <1> QED BY <1>1, <1>8 DEF first, k

(* The specifications of the line a text begins with.                      *)
OfLine(t) == IF IsComment(Line(t)) THEN <<>> ELSE InLine[Line(t)]

LEMMA InTextIs ==
  /\ InText \in [Texts -> Seq(Texts)]
  /\ InText[<<>>] = <<>>
  /\ \A s \in Texts \ {<<>>} :
       /\ InText[s] = OfLine(s) \o InText[Rest(s, LineLength(s))]
       /\ OfLine(s) \in Seq(Texts)
  <1> DEFINE first == [s \in Texts |-> OfLine(s)]
             k == [s \in Texts |-> LineLength(s)]
             In(f, s) == IF s = <<>> THEN <<>>
                         ELSE OfLine(s) \o f[Rest(s, LineLength(s))]
  <1>1. ASSUME NEW s \in Texts
        PROVE  OfLine(s) \in Seq(Texts) /\ LineLength(s) \in Nat \ {0}
    <2>1. LineLength(s) \in Nat \ {0} /\ Line(s) \in Texts
      BY LineRead
    <2> QED BY <2>1, InLineIs, EmptySeq DEF OfLine
  <1>2. first \in [Texts -> Seq(Texts)] /\ k \in [Texts -> Nat \ {0}]
    BY <1>1
  <1>3. ASSUME NEW f PROVE Divides(f, first, k) <=> f = [s \in Texts |-> In(f, s)]
    BY DEF Divides
  <1> HIDE DEF first, k
  <1>4. PICK f : f = [s \in Texts |-> In(f, s)]
    BY <1>2, <1>3, DivisionExists
  <1>5. InText = CHOOSE f1 : f1 = [s \in Texts |-> In(f1, s)]
    BY DEF InText, OfLine
  <1>6. InText = [s \in Texts |-> In(InText, s)]
    <2> HIDE DEF In
    <2> QED BY <1>4, <1>5
  <1>7. Divides(InText, first, k)
    BY <1>3, <1>6
  <1>8. /\ InText \in [Texts -> Seq(Texts)] /\ InText[<<>>] = <<>>
        /\ \A s \in Texts \ {<<>>} : InText[s] = first[s] \o InText[Rest(s, k[s])]
    BY <1>2, <1>7, DivisionIs
  <1> QED BY <1>1, <1>8 DEF first, k

-----------------------------------------------------------------------------
(* What the documents say of a line and of a text, and that the reader     *)
(* finds the same in an ordinary one.                                      *)
LEMMA UpToIs ==
  ASSUME NEW s \in Texts, NEW S
  PROVE  /\ UpTo(s, S) \in 0..Len(s)
         /\ \A i \in 1..UpTo(s, S) : s[i] \notin S
         /\ UpTo(s, S) < Len(s) => s[UpTo(s, S) + 1] \in S
  <1> DEFINE T == Symbols \ S
  <1>1. Len(s) \in Nat /\ \A i \in 1..Len(s) : s[i] \in Symbols
    BY LengthOfText
  <1>2. \A i \in 1..Len(s) : s[i] \in T <=> s[i] \notin S
    BY <1>1
  <1>3. {k \in 1..Len(s) : \A i \in 1..k : s[i] \in T} =
        {k \in 1..Len(s) : \A i \in 1..k : s[i] \notin S}
    <2>1. ASSUME NEW k \in 1..Len(s)
          PROVE  (\A i \in 1..k : s[i] \in T) <=> (\A i \in 1..k : s[i] \notin S)
      <3>1. \A i \in 1..k : i \in 1..Len(s)
        BY <1>1
      <3> QED BY <1>2, <3>1
    <2> QED BY <2>1
  <1>4. UpTo(s, S) = Span(s, T)
    BY <1>3 DEF UpTo, Span
  <1> HIDE DEF T
  <1>5. /\ Span(s, T) \in 0..Len(s)
        /\ \A i \in 1..Span(s, T) : s[i] \in T
        /\ Span(s, T) < Len(s) => s[Span(s, T) + 1] \notin T
    BY SpanIs
  <1>6. PICK n : n = Span(s, T)
    OBVIOUS
  <1>7. \A i \in 1..n : i \in 1..Len(s)
    BY <1>1, <1>5, <1>6
  <1>8. n < Len(s) => n + 1 \in 1..Len(s)
    BY <1>1, <1>5, <1>6
  <1> QED BY <1>2, <1>4, <1>5, <1>6, <1>7, <1>8

LEMMA SmallestIs ==
  ASSUME NEW S \in SUBSET Nat, NEW e \in S, \A j \in S : e <= j
  PROVE  Smallest(S) = e
  <1>1. Smallest(S) \in S /\ \A j \in S : Smallest(S) <= j
    BY SmallestExists
  <1>2. PICK k : k = Smallest(S)
    OBVIOUS
  <1>3. k \in Nat /\ e \in Nat /\ k <= e /\ e <= k
    BY <1>1, <1>2
  <1> QED BY <1>2, <1>3

LEMMA UpToUnique ==
  ASSUME NEW s \in Texts, NEW S, NEW n \in 0..Len(s),
         \A i \in 1..n : s[i] \notin S, n < Len(s) => s[n + 1] \in S
  PROVE  UpTo(s, S) = n
  <1>1. PICK m \in 0..Len(s) : m = UpTo(s, S)
    BY SpanOfText
  <1>2. (\A i \in 1..m : s[i] \notin S) /\ (m < Len(s) => s[m + 1] \in S)
    BY <1>1, UpToIs
  <1>3. Len(s) \in Nat
    BY LengthOfText
  <1>4. ~(m < n)
    <2>1. SUFFICES ASSUME m < n PROVE FALSE
      OBVIOUS
    <2>2. m < Len(s) /\ m + 1 \in 1..n
      BY <1>3, <2>1
    <2> QED BY <1>2, <2>2
  <1>5. ~(n < m)
    <2>1. SUFFICES ASSUME n < m PROVE FALSE
      OBVIOUS
    <2>2. n < Len(s) /\ n + 1 \in 1..m
      BY <1>3, <2>1
    <2> QED BY <1>2, <2>2
  <1> QED BY <1>1, <1>3, <1>4, <1>5

LEMMA UpToSeparatorType ==
  ASSUME NEW s \in Texts
  PROVE  UpToSeparator(s) \in 0..Len(s)
  <1>1. Len(s) \in Nat /\ DOMAIN s = 1..Len(s)
    BY LengthOfText DEF Texts
  <1>2. Separators(s) \subseteq 1..Len(s)
    BY <1>1 DEF Separators
  <1>3. CASE Separators(s) = {}
    BY <1>1, <1>3 DEF UpToSeparator
  <1>4. CASE Separators(s) # {}
    <2>1. Separators(s) \in SUBSET Nat
      BY <1>1, <1>2
    <2>2. PICK k \in Separators(s) : k = Smallest(Separators(s))
      BY <1>4, <2>1, SmallestExists
    <2>3. k \in 1..Len(s) /\ k - 1 \in 0..Len(s)
      BY <1>1, <1>2, <2>2
    <2> QED BY <1>4, <2>2, <2>3 DEF UpToSeparator
  <1> QED BY <1>3, <1>4

LEMMA DocumentedLineIs ==
  /\ DocumentedLine \in [Texts -> Seq(Texts)]
  /\ DocumentedLine[<<>>] = <<>>
  /\ \A s \in Texts \ {<<>>} :
       DocumentedLine[s] = <<Prefix(s, UpToSeparator(s))>>
                             \o DocumentedLine[Rest(s, UpToSeparator(s) + 1)]
  <1> DEFINE first == [s \in Texts |-> <<Prefix(s, UpToSeparator(s))>>]
             k == [s \in Texts |-> UpToSeparator(s) + 1]
             In(f, s) == IF s = <<>> THEN <<>>
                         ELSE <<Prefix(s, UpToSeparator(s))>> \o f[Rest(s, UpToSeparator(s) + 1)]
  <1>1. ASSUME NEW s \in Texts
        PROVE  /\ <<Prefix(s, UpToSeparator(s))>> \in Seq(Texts)
               /\ UpToSeparator(s) + 1 \in Nat \ {0}
    <2>1. PICK n \in 0..Len(s) : n = UpToSeparator(s)
      BY UpToSeparatorType
    <2>2. Prefix(s, n) \in Texts /\ n + 1 \in Nat \ {0}
      BY LengthOfText, PrefixOfText
    <2> QED BY <2>1, <2>2, OneOf
  <1>2. first \in [Texts -> Seq(Texts)] /\ k \in [Texts -> Nat \ {0}]
    BY <1>1
  <1>3. ASSUME NEW f PROVE Divides(f, first, k) <=> f = [s \in Texts |-> In(f, s)]
    BY DEF Divides
  <1> HIDE DEF first, k
  <1>4. PICK f : f = [s \in Texts |-> In(f, s)]
    BY <1>2, <1>3, DivisionExists
  <1>5. DocumentedLine = CHOOSE f1 : f1 = [s \in Texts |-> In(f1, s)]
    BY DEF DocumentedLine
  <1>6. DocumentedLine = [s \in Texts |-> In(DocumentedLine, s)]
    <2> HIDE DEF In
    <2> QED BY <1>4, <1>5
  <1>7. Divides(DocumentedLine, first, k)
    BY <1>3, <1>6
  <1>8. /\ DocumentedLine \in [Texts -> Seq(Texts)] /\ DocumentedLine[<<>>] = <<>>
        /\ \A s \in Texts \ {<<>>} : DocumentedLine[s] = first[s] \o DocumentedLine[Rest(s, k[s])]
    BY <1>2, <1>7, DivisionIs
  <1> QED BY <1>1, <1>8 DEF first, k

OfWholeLine(t) == IF IsComment(WholeLine(t)) THEN <<>> ELSE DocumentedLine[WholeLine(t)]

LEMMA DocumentedTextIs ==
  /\ DocumentedText \in [Texts -> Seq(Texts)]
  /\ DocumentedText[<<>>] = <<>>
  /\ \A s \in Texts \ {<<>>} :
       DocumentedText[s] = OfWholeLine(s) \o DocumentedText[Rest(s, UpTo(s, {"\n"}) + 1)]
  <1> DEFINE first == [s \in Texts |-> OfWholeLine(s)]
             k == [s \in Texts |-> UpTo(s, {"\n"}) + 1]
             In(f, s) == IF s = <<>> THEN <<>>
                         ELSE OfWholeLine(s) \o f[Rest(s, UpTo(s, {"\n"}) + 1)]
  <1>1. ASSUME NEW s \in Texts
        PROVE  OfWholeLine(s) \in Seq(Texts) /\ UpTo(s, {"\n"}) + 1 \in Nat \ {0}
    <2>1. PICK n \in 0..Len(s) : n = UpTo(s, {"\n"})
      BY SpanOfText
    <2>2. Prefix(s, n) \in Texts /\ n + 1 \in Nat \ {0}
      BY LengthOfText, PrefixOfText
    <2>3. WholeLine(s) \in Texts
      BY <2>1, <2>2, SkipWhiteOfText DEF WholeLine
    <2> QED BY <2>1, <2>2, <2>3, DocumentedLineIs, EmptySeq DEF OfWholeLine
  <1>2. first \in [Texts -> Seq(Texts)] /\ k \in [Texts -> Nat \ {0}]
    BY <1>1
  <1>3. ASSUME NEW f PROVE Divides(f, first, k) <=> f = [s \in Texts |-> In(f, s)]
    BY DEF Divides
  <1> HIDE DEF first, k
  <1>4. PICK f : f = [s \in Texts |-> In(f, s)]
    BY <1>2, <1>3, DivisionExists
  <1>5. DocumentedText = CHOOSE f1 : f1 = [s \in Texts |-> In(f1, s)]
    BY DEF DocumentedText, OfWholeLine
  <1>6. DocumentedText = [s \in Texts |-> In(DocumentedText, s)]
    <2> HIDE DEF In
    <2> QED BY <1>4, <1>5
  <1>7. Divides(DocumentedText, first, k)
    BY <1>3, <1>6
  <1>8. /\ DocumentedText \in [Texts -> Seq(Texts)] /\ DocumentedText[<<>>] = <<>>
        /\ \A s \in Texts \ {<<>>} : DocumentedText[s] = first[s] \o DocumentedText[Rest(s, k[s])]
    BY <1>2, <1>7, DivisionIs
  <1> QED BY <1>1, <1>8 DEF first, k

LEMMA FirstAndRest ==
  ASSUME NEW p \in Texts, NEW q \in Seq(Texts), NEW s, s = <<p>> \o q
  PROVE  /\ DOMAIN s = 1..(1 + Len(q)) /\ Len(q) \in Nat /\ s[1] = p
         /\ DOMAIN q = 1..Len(q) /\ \A k \in 1..Len(q) : s[k + 1] = q[k]
  <1>1. PICK a : a = <<p>>
    OBVIOUS
  <1>2. a \in Seq(Texts) /\ Len(a) = 1 /\ a[1] = p
    BY <1>1, OneOf
  <1>3. Len(q) \in Nat /\ DOMAIN q = 1..Len(q)
    BY LenProperties
  <1>4. /\ s \in Seq(Texts) /\ Len(s) = 1 + Len(q)
        /\ \A i \in 1..(1 + Len(q)) : s[i] = IF i <= 1 THEN a[i] ELSE q[i - 1]
    BY ONLY <1>1, <1>2, s = <<p>> \o q, q \in Seq(Texts), ConcatProperties
  <1>5. DOMAIN s = 1..(1 + Len(q))
    BY <1>4, LenProperties
  <1>6. s[1] = p
    BY <1>2, <1>3, <1>4
  <1>7. ASSUME NEW k \in 1..Len(q) PROVE s[k + 1] = q[k]
    <2>1. k + 1 \in 1..(1 + Len(q)) /\ ~(k + 1 <= 1) /\ (k + 1) - 1 = k
      BY <1>3
    <2> QED BY <1>4, <2>1
  <1> QED BY <1>3, <1>5, <1>6, <1>7

(* Where a line's first specification ends: at the same semicolon when     *)
(* what precedes that has its quotation marks in pairs.                    *)
LEMMA SameSeparator ==
  ASSUME NEW s \in Texts, Paired(Prefix(s, UpTo(s, {";"})))
  PROVE  UpToSeparator(s) = UpTo(s, {";"})
  <1>1. PICK semicolons : semicolons = {";"}
    OBVIOUS
  <1>2. PICK n \in 0..Len(s) : n = UpTo(s, {";"})
    BY SpanOfText
  <1>3. /\ \A i \in 1..n : s[i] \notin semicolons
        /\ n < Len(s) => s[n + 1] \in semicolons
    BY ONLY <1>1, <1>2, s \in Texts, UpToIs
  <1>4. Len(s) \in Nat /\ DOMAIN s = 1..Len(s)
    BY LengthOfText
  <1>5. Separators(s) = {k \in DOMAIN s : s[k] \in semicolons /\ Paired(Prefix(s, k - 1))}
    BY <1>1 DEF Separators
  <1>6. Paired(Prefix(s, n))
    BY <1>2
  <1>7. CASE n = Len(s)
    <2>1. Separators(s) = {}
      BY ONLY <1>3, <1>4, <1>5, <1>7
    <2> QED BY <1>2, <1>7, <2>1 DEF UpToSeparator
  <1>8. CASE n < Len(s)
    <2>1. n + 1 \in Separators(s)
      <3>1. n + 1 \in DOMAIN s /\ (n + 1) - 1 = n
        BY ONLY <1>4, <1>8, n \in 0..Len(s)
      <3>2. s[n + 1] \in semicolons
        BY <1>3, <1>8
      <3> QED BY ONLY <1>5, <1>6, <3>1, <3>2
    <2>2. ASSUME NEW k \in Separators(s) PROVE k \in Nat /\ n + 1 <= k
      <3>1. k \in 1..Len(s) /\ s[k] \in semicolons
        BY ONLY <1>4, <1>5, k \in Separators(s)
      <3>2. k \notin 1..n
        BY <1>3, <3>1
      <3> QED BY ONLY <1>4, <3>1, <3>2, n \in 0..Len(s)
    <2>3. Separators(s) \in SUBSET Nat
      BY <2>2
    <2>4. Smallest(Separators(s)) = n + 1
      BY ONLY <2>1, <2>2, <2>3, SmallestIs
    <2>5. (n + 1) - 1 = n
      BY ONLY <1>4, n \in 0..Len(s)
    <2>6. Separators(s) # {}
      BY <2>1
    <2> QED BY <1>2, <2>4, <2>5, <2>6 DEF UpToSeparator
  <1>9. n = Len(s) \/ n < Len(s)
    <2>1. PICK z \in Nat : z = Len(s)
      BY <1>4
    <2>2. n \in 0..z
      BY <2>1
    <2>3. n = z \/ n < z
      BY ONLY z \in Nat, <2>2
    <2> QED BY <2>1, <2>3
  <1> QED BY <1>7, <1>8, <1>9

AllPaired(specs) == \A k \in DOMAIN specs : Paired(specs[k])

LEMMA SameLine ==
  \A line \in Texts : AllPaired(InLine[line]) => DocumentedLine[line] = InLine[line]
  <1> DEFINE size == [s \in Texts |-> Len(s)]
             P == {s \in Texts : AllPaired(InLine[s]) => DocumentedLine[s] = InLine[s]}
  <1>1. ASSUME NEW s \in Texts, \A t \in Texts : size[t] < size[s] => t \in P
        PROVE  s \in P
    <2>1. CASE s = <<>>
      BY <2>1, InLineIs, DocumentedLineIs
    <2>2. ASSUME s # <<>>, AllPaired(InLine[s]) PROVE DocumentedLine[s] = InLine[s]
      <3>1. PICK n \in 0..Len(s) : n = UpTo(s, {";"})
        BY SpanOfText
      <3>2. n \in Nat /\ n + 1 \in Nat \ {0}
        BY LengthOfText
      <3>3. PICK r : r = Rest(s, n + 1)
        OBVIOUS
      <3>4. r \in Texts /\ size[r] < size[s]
        BY <2>2, <3>2, <3>3, RestIsShorter
      <3>5. PICK p \in Texts : p = Prefix(s, n)
        BY PrefixOfText
      <3>6. InLine[s] = <<p>> \o InLine[r] /\ InLine[r] \in Seq(Texts)
        BY <2>2, <3>1, <3>3, <3>4, <3>5, InLineIs
      <3>7. PICK q \in Seq(Texts) : q = InLine[r]
        BY <3>6
      <3>8. PICK w : w = InLine[s]
        OBVIOUS
      <3>9. /\ DOMAIN w = 1..(1 + Len(q)) /\ Len(q) \in Nat /\ w[1] = p
            /\ DOMAIN q = 1..Len(q) /\ \A k \in 1..Len(q) : w[k + 1] = q[k]
        BY ONLY <3>5, <3>6, <3>7, <3>8, FirstAndRest
      <3>10. \A k \in DOMAIN w : Paired(w[k])
        BY <2>2, <3>8 DEF AllPaired
      <3>11. Paired(p)
        BY ONLY <3>9, <3>10
      <3>12. \A k \in DOMAIN q : Paired(q[k])
        BY ONLY <3>9, <3>10
      <3>13. DocumentedLine[r] = q
        BY <1>1, <3>4, <3>7, <3>12 DEF AllPaired
      <3>14. UpToSeparator(s) = n
        BY <3>1, <3>5, <3>11, SameSeparator
      <3>15. DocumentedLine[s] = <<p>> \o DocumentedLine[r]
        BY <2>2, <3>3, <3>5, <3>14, DocumentedLineIs
      <3> QED BY <3>6, <3>7, <3>13, <3>15
    <2> QED BY <2>1, <2>2
  <1>2. \A s \in Texts : s \in P
    <2>1. size \in [Texts -> Nat]
      BY LengthOfText
    <2> HIDE DEF P, size
    <2> QED BY <1>1, <2>1, SizeInduction
  <1> QED BY <1>2

LEMMA WholeRest ==
  ASSUME NEW s \in Texts
  PROVE  Rest(s, 0) = s
  <1>1. SubSeq(s, 0 + 1, Len(s)) = s
    BY SubSeqFull DEF Texts
  <1> QED BY <1>1 DEF Rest

(* The line a text begins with, and the text behind it.                    *)
LEMMA OrdinaryLineIs ==
  ASSUME NEW t \in Texts, OrdinaryLine(t)
  PROVE  LineLength(t) = UpTo(t, {"\n"}) + 1 /\ Line(t) = WholeLine(t)
  <1>1. PICK S : S = {"\n"}
    OBVIOUS
  <1>2. PICK n \in 0..Len(t) : n = UpTo(t, S)
    BY SpanOfText
  <1>3. Len(t) \in Nat /\ MAX_LINE_LENGTH \in Nat
    BY LengthOfText, SizeAssumption
  <1>4. n + 1 < MAX_LINE_LENGTH
    BY <1>1, <1>2 DEF OrdinaryLine
  <1>5. LineLength(t) = n + 1
    BY <1>1, <1>2, <1>3, <1>4 DEF LineLength, Shorter
  <1>6. PICK m \in 0..Len(t) : m = Shorter(n + 1, Len(t))
    BY <1>3 DEF Shorter
  <1>7. m = IF n < Len(t) THEN n + 1 ELSE n
    BY <1>3, <1>6 DEF Shorter
  <1>8. PICK c \in Texts : c = Prefix(t, m) /\ Len(c) = m /\ \A i \in 1..m : c[i] = t[i]
    BY PartsOfText
  <1>9. (\A i \in 1..n : t[i] \notin S) /\ (n < Len(t) => t[n + 1] \in S)
    BY <1>2, UpToIs
  <1>10. n \in 0..Len(c)
    BY <1>3, <1>7, <1>8
  <1>11. \A i \in 1..n : c[i] \notin S
    BY <1>3, <1>7, <1>8, <1>9
  <1>12. n < Len(c) => c[n + 1] \in S
    BY <1>3, <1>7, <1>8, <1>9
  <1>13. UpTo(c, S) = n
    BY ONLY <1>8, <1>10, <1>11, <1>12, UpToUnique
  <1>14. Cut(t, LineLength(t)) = c
    BY <1>5, <1>6, <1>8 DEF Cut
  <1>15. Line(t) = SkipWhite[Prefix(t, n)]
    BY <1>1, <1>13, <1>14 DEF Line
  <1>16. WholeLine(t) = SkipWhite[Prefix(t, n)]
    BY <1>1, <1>2 DEF WholeLine
  <1> QED BY <1>1, <1>2, <1>5, <1>15, <1>16

LEMMA OrdinaryRest ==
  ASSUME NEW t \in Texts, Ordinary(t), NEW n, n = UpTo(t, {"\n"}), n < Len(t)
  PROVE  Ordinary(Rest(t, n + 1))
  <1>1. PICK S : S = {"\n"}
    OBVIOUS
  <1>2. n \in 0..Len(t) /\ t[n + 1] \in S
    BY <1>1, UpToIs
  <1>3. Len(t) \in Nat /\ n + 1 \in 1..Len(t)
    BY <1>2, LengthOfText
  <1>4. \A k \in 0..Len(t) : k = 0 \/ t[k] \in S => OrdinaryLine(Rest(t, k))
    BY <1>1 DEF Ordinary
  <1>5. PICK r \in Texts : /\ r = Rest(t, n + 1) /\ Len(r) = Len(t) - (n + 1)
                           /\ \A i \in 1..(Len(t) - (n + 1)) : r[i] = t[(n + 1) + i]
    <2>1. PICK m \in 0..Len(t) : m = n + 1
      BY ONLY <1>3
    <2>2. /\ Rest(t, m) \in Texts /\ Len(Rest(t, m)) = Len(t) - m
          /\ \A i \in 1..(Len(t) - m) : Rest(t, m)[i] = t[m + i]
      BY ONLY <1>3, m \in 0..Len(t), t \in Texts, RestOfText, PartsOfText
    <2> QED BY <2>1, <2>2
  <1>6. ASSUME NEW k \in 0..Len(r), k = 0 \/ r[k] \in S PROVE OrdinaryLine(Rest(r, k))
    <2>1. Rest(r, k) = Rest(t, (n + 1) + k)
      <3>1. n + 1 \in Nat /\ k \in Nat
        BY ONLY <1>3, <1>5, k \in 0..Len(r)
      <3> QED BY ONLY <1>5, <3>1, t \in Texts, RestOfRest
    <2>3. (n + 1) + k \in 0..Len(t)
      BY ONLY <1>3, <1>5, k \in 0..Len(r)
    <2>2. t[(n + 1) + k] \in S
      <3>1. CASE k = 0
        BY <1>2, <1>3, <3>1
      <3>2. CASE k # 0
        <4>1. k \in 1..(Len(t) - (n + 1))
          BY <1>3, <1>5, <3>2
        <4> QED BY <1>5, <1>6, <3>2, <4>1
      <3> QED BY <3>1, <3>2
    <2> QED BY <1>4, <2>1, <2>2, <2>3
  <1> QED BY <1>1, <1>5, <1>6 DEF Ordinary

(* The reader finds in an ordinary text the specifications the documents   *)
(* have it hold: none is cut by the buffer of a line (fgets,               *)
(* read_configuration.c:490-502) or at a semicolon within quotation marks  *)
(* (:512-525).                                                             *)
THEOREM OrdinaryTextsAreDivided ==
  \A t \in Texts : Ordinary(t) => InText[t] = DocumentedText[t]
  <1> DEFINE size == [s \in Texts |-> Len(s)]
             P == {s \in Texts : Ordinary(s) => InText[s] = DocumentedText[s]}
  <1>1. ASSUME NEW s \in Texts, \A t \in Texts : size[t] < size[s] => t \in P
        PROVE  s \in P
    <2>1. CASE s = <<>>
      BY <2>1, InTextIs, DocumentedTextIs
    <2>2. ASSUME s # <<>>, Ordinary(s) PROVE InText[s] = DocumentedText[s]
      <3>1. OrdinaryLine(s)
        <4>1. 0 \in 0..Len(s) /\ Rest(s, 0) = s
          BY LengthOfText, WholeRest
        <4>2. OrdinaryLine(Rest(s, 0))
          BY <2>2, <4>1 DEF Ordinary
        <4> QED BY <4>1, <4>2
      <3>2. PICK n \in 0..Len(s) : n = UpTo(s, {"\n"})
        BY SpanOfText
      <3>3. Len(s) \in Nat /\ n + 1 \in Nat \ {0}
        BY LengthOfText
      <3>4. LineLength(s) = n + 1 /\ Line(s) = WholeLine(s)
        BY <3>1, <3>2, OrdinaryLineIs
      <3>5. OfLine(s) = OfWholeLine(s)
        <4>1. CASE IsComment(WholeLine(s))
          BY <3>4, <4>1 DEF OfLine, OfWholeLine
        <4>2. CASE ~IsComment(WholeLine(s))
          <5>1. AllPaired(InLine[WholeLine(s)])
            BY <3>1, <4>2 DEF OrdinaryLine, AllPaired
          <5>2. WholeLine(s) \in Texts
            BY <3>4, LineRead
          <5> QED BY <3>4, <4>2, <5>1, <5>2, SameLine DEF OfLine, OfWholeLine
        <4> QED BY <4>1, <4>2
      <3>6. PICK r : r = Rest(s, n + 1)
        OBVIOUS
      <3>7. r \in Texts /\ size[r] < size[s]
        BY <2>2, <3>3, <3>6, RestIsShorter
      <3>8. InText[r] = DocumentedText[r]
        <4>1. CASE n < Len(s)
          <5>1. Ordinary(r)
            BY <2>2, <3>2, <3>6, <4>1, OrdinaryRest
          <5> QED BY <1>1, <3>7, <5>1
        <4>2. CASE n = Len(s)
          <5>1. Len(r) = 0
            BY <3>3, <3>6, <4>2, RestOfText
          <5>2. r = <<>>
            BY <3>7, <5>1, EmptySeq DEF Texts
          <5> QED BY <5>2, InTextIs, DocumentedTextIs
        <4> QED BY <3>3, <4>1, <4>2
      <3>9. InText[s] = OfLine(s) \o InText[r]
        BY <2>2, <3>4, <3>6, InTextIs
      <3>10. DocumentedText[s] = OfWholeLine(s) \o DocumentedText[r]
        BY <2>2, <3>2, <3>6, DocumentedTextIs
      <3> QED BY <3>5, <3>8, <3>9, <3>10
    <2> QED BY <2>1, <2>2
  <1>2. \A s \in Texts : s \in P
    <2>1. size \in [Texts -> Nat]
      BY LengthOfText
    <2> HIDE DEF P, size
    <2> QED BY <1>1, <2>1, SizeInduction
  <1> QED BY <1>2

LEMMA GivenIs ==
  ASSUME NEW t \in Texts
  PROVE  Given(t) = InText[t]
  BY OrdinaryTextsAreDivided DEF Given

-----------------------------------------------------------------------------
(* A match list.                                                           *)
Shaped(o) == o = Error \/ o = Overrun \/ o = Read(o.value, o.rest)

LEMMA ReadIsShaped ==
  ASSUME NEW v, NEW r
  PROVE  Shaped(Read(v, r))
  BY DEF Shaped, Read

LEMMA NoReadIsShaped == Shaped(Error) /\ Shaped(Overrun)
  BY DEF Shaped

LEMMA ValueShaped ==
  ASSUME NEW t \in Texts
  PROVE  Shaped(parse_value[t])
  <1> DEFINE s == SkipWhite[t]
             n == QuotedLength(s) - 2
             item == Prefix(s, UpTo(s, White \cup {"~", "|"}))
             rest == Rest(s, Len(item))
  <1>1. s \in Texts
    BY SkipWhiteOfText
  <1>2. \/ parse_value[t] = Error
        \/ s # <<>> /\ parse_value[t] = QuotedValue(s)
        \/ parse_value[t] = PlainValue(s)
    BY DEF parse_value
  <1>3. ASSUME s # <<>> PROVE Shaped(QuotedValue(s))
    <2>1. Len(s) \in Nat \ {0}
      BY <1>1, <1>3, LengthOfText
    <2>2. Rest(s, 1) \in Texts /\ Len(Rest(s, 1)) \in Nat
      BY <1>1, RestOfText, LengthOfText
    <2>3. UpTo(Rest(s, 1), Quote) \in Nat
      BY <2>2, SpanOfText
    <2>4. n \in Int
      BY <2>1, <2>3 DEF QuotedLength
    <2>5. n < 0 \/ n > MAX_STRING_SIZE \/ n \in 0..MAX_STRING_SIZE
      BY <2>4, SizeAssumption
    <2>6. /\ n < 0 => ~(n > MAX_STRING_SIZE) /\ n \notin 0..MAX_STRING_SIZE
          /\ n > MAX_STRING_SIZE => ~(n < 0) /\ n \notin 0..MAX_STRING_SIZE
          /\ n \in 0..MAX_STRING_SIZE => ~(n < 0) /\ ~(n > MAX_STRING_SIZE)
      BY <2>4, SizeAssumption
    <2>7. n < 0 => QuotedValue(s) = Overrun
      BY <2>6 DEF QuotedValue
    <2>8. n > MAX_STRING_SIZE => QuotedValue(s) = Error
      BY <2>6 DEF QuotedValue
    <2>9. n \in 0..MAX_STRING_SIZE =>
            QuotedValue(s) = Read(String(SubSeq(s, 2, n + 1)), Rest(s, QuotedLength(s)))
      BY <2>6 DEF QuotedValue
    <2> HIDE DEF n
    <2> QED BY <2>5, <2>7, <2>8, <2>9, ReadIsShaped, NoReadIsShaped
  <1>4. Shaped(PlainValue(s))
    <2>1. CASE item \in DOMAIN Long
      <3>1. \/ PlainValue(s) = Read(Integer(Long[item]), rest)
            \/ PlainValue(s) = Read(Floating(Double[item]), rest)
        BY <2>1 DEF PlainValue
      <3> HIDE DEF rest, item
      <3> QED BY <3>1, ReadIsShaped
    <2>2. CASE item \in DOMAIN Double /\ item \notin DOMAIN Long
      <3>1. PlainValue(s) = Read(Floating(Double[item]), rest)
        BY <2>2 DEF PlainValue
      <3> HIDE DEF rest, item
      <3> QED BY <3>1, ReadIsShaped
    <2>3. CASE item \notin DOMAIN Double /\ item \notin DOMAIN Long
      <3>1. PlainValue(s) = Error \/ PlainValue(s) = Read(String(item), rest)
        BY <2>3 DEF PlainValue
      <3> HIDE DEF rest, item
      <3> QED BY <3>1, ReadIsShaped, NoReadIsShaped
    <2> QED BY <2>1, <2>2, <2>3
  <1> QED BY <1>2, <1>3, <1>4, NoReadIsShaped

LEMMA ComparedShaped ==
  ASSUME NEW t \in Texts, NEW op
  PROVE  Shaped(ComparedItem(op, t))
  <1>1. \/ ComparedItem(op, t) = Read(Variant_Range(op.comp, parse_value[t].value, Void),
                                      parse_value[t].rest)
        \/ ComparedItem(op, t) = parse_value[t]
    BY DEF ComparedItem
  <1> QED BY <1>1, ValueShaped, ReadIsShaped

LEMMA ValueItemShaped ==
  ASSUME NEW s \in Texts
  PROVE  Shaped(ValueItem(s))
  <1> DEFINE lower == parse_value[s]
             next  == SkipWhite[lower.rest]
             upper == parse_value[Rest(next, 1)]
  <1>1. CASE lower.outcome # "read"
    <2>1. ValueItem(s) = lower
      BY <1>1 DEF ValueItem
    <2> QED BY <2>1, ValueShaped
  <1>2. CASE lower.outcome = "read"
    <2>1. lower.rest \in Texts
      BY <1>2, ValueRead DEF IsRead
    <2>2. next \in Texts /\ Rest(next, 1) \in Texts
      BY <2>1, SkipWhiteOfText, RestOfText
    <2>3. Shaped(upper)
      BY <2>2, ValueShaped
    <2>4. ValueItem(s) =
            IF next = <<>> THEN Error
            ELSE IF ~Begins(next, {"~"})
                   THEN Read(Variant_Range("ckEqual", lower.value, Void), lower.rest)
            ELSE IF upper.outcome # "read" THEN upper
            ELSE Read(Variant_Range("ckRange", lower.value, upper.value), upper.rest)
      BY <1>2 DEF ValueItem
    <2> HIDE DEF lower, next, upper
    <2>5. \/ ValueItem(s) = Error \/ ValueItem(s) = upper
          \/ \E v, r : ValueItem(s) = Read(v, r)
      BY <2>4
    <2> QED BY <2>3, <2>5, ReadIsShaped, NoReadIsShaped
  <1> QED BY <1>1, <1>2

LEMMA MatchShaped ==
  ASSUME NEW line \in Texts
  PROVE  Shaped(parse_match[line])
  <1> DEFINE s == SkipWhite[line]
             found == {e \in DOMAIN comparison_operators :
                         StartsWith(s, comparison_operators[e].symbols)}
             op == comparison_operators[Smallest(found)]
  <1>1. s \in Texts
    BY SkipWhiteOfText
  <1>2. CASE s = <<>>
    <2>1. parse_match[line] = Error
      BY <1>2 DEF parse_match
    <2> QED BY <2>1, NoReadIsShaped
  <1>3. CASE s # <<>> /\ found # {}
    <2> DEFINE t == Rest(s, Len(op.symbols))
    <2>1. found \in SUBSET Nat
      BY OperatorsAre
    <2>2. Smallest(found) \in DOMAIN comparison_operators
      BY <1>3, <2>1, SmallestExists
    <2>3. Len(op.symbols) \in Nat
      BY <2>2, OperatorsAre
    <2>4. t \in Texts
      BY <1>1, <2>3, RestOfText
    <2>5. parse_match[line] = ComparedItem(op, t)
      BY <1>3 DEF parse_match
    <2> HIDE DEF t, op, s
    <2> QED BY <2>4, <2>5, ComparedShaped
  <1>4. CASE s # <<>> /\ found = {}
    <2>1. parse_match[line] = ValueItem(s)
      BY <1>4 DEF parse_match
    <2> QED BY <1>1, <2>1, ValueItemShaped
  <1> QED BY <1>2, <1>3, <1>4

ItemOutcomes == Outcomes(ReadRanges)
ListOutcomes == Outcomes(Seq(ReadRanges))

LEMMA ItemsAre ==
  ASSUME NEW line \in Texts
  PROVE  parse_match[line] \in ItemOutcomes
  <1>1. Shaped(parse_match[line]) /\ IsRead(parse_match[line], Ranges)
    BY MatchShaped, MatchRead
  <1>2. PICK o : o = parse_match[line]
    OBVIOUS
  <1>3. CASE o = Error \/ o = Overrun
    BY <1>2, <1>3 DEF ItemOutcomes, Outcomes
  <1>4. CASE o = Read(o.value, o.rest)
    <2>1. o.outcome = "read"
      BY <1>4 DEF Read
    <2>2. o.value \in ReadRanges /\ o.rest \in Texts
      BY <1>1, <1>2, <2>1 DEF IsRead, Ranges
    <2> QED BY <1>2, <1>4, <2>2 DEF Read, ItemOutcomes, Outcomes
  <1> QED BY <1>1, <1>2, <1>3, <1>4 DEF Shaped

(* The items found with the next one, and what is behind it; whether there *)
(* is another one to read; and what comes of the list if there is none.    *)
FoundWith(x)  == Append(x[1], x[2].value)
Behind(x)     == SkipWhite[x[2].rest]
GoesOn(x)     == /\ x[2].outcome = "read"
                 /\ Begins(Behind(x), {"|"})
                 /\ ~(Len(FoundWith(x)) >= NUMBER_OF_VARIENT_RANGES)
FurtherOn(x)  == <<FoundWith(x), parse_match[Rest(Behind(x), 1)]>>
EndsWith(x)   == IF x[2].outcome # "read" THEN x[2]
                 ELSE IF Behind(x) # <<>> /\ ~Begins(Behind(x), {"|"})
                        THEN Read(FoundWith(x), Behind(x))
                 ELSE Error

BeingRead == Seq(ReadRanges) \X ItemOutcomes

LEMMA ListParts ==
  ASSUME NEW x \in BeingRead
  PROVE  /\ x[1] \in Seq(ReadRanges) /\ x[2] \in ItemOutcomes
         /\ x[2].outcome # "read" => x[2] = Error \/ x[2] = Overrun
         /\ x[2].outcome = "read" =>
              /\ x[2].rest \in Texts
              /\ FoundWith(x) \in Seq(ReadRanges)
              /\ Len(FoundWith(x)) = Len(x[1]) + 1 /\ Len(x[1]) \in Nat
              /\ Behind(x) \in Texts /\ IsRest(Behind(x), x[2].rest)
  <1>1. x[1] \in Seq(ReadRanges) /\ x[2] \in ItemOutcomes
    BY DEF BeingRead
  <1>2. /\ x[2].outcome # "read" => x[2] = Error \/ x[2] = Overrun
        /\ x[2].outcome = "read" => x[2].value \in ReadRanges /\ x[2].rest \in Texts
    BY <1>1 DEF ItemOutcomes, Outcomes, Error, Overrun
  <1>3. x[2].outcome = "read" =>
          /\ FoundWith(x) \in Seq(ReadRanges)
          /\ Len(FoundWith(x)) = Len(x[1]) + 1 /\ Len(x[1]) \in Nat
    BY <1>1, <1>2, AppendProperties, LenProperties DEF FoundWith
  <1>4. x[2].outcome = "read" => Behind(x) \in Texts /\ IsRest(Behind(x), x[2].rest)
    BY <1>2, SkipWhiteOfText, SkipWhiteIsRest DEF Behind
  <1> QED BY <1>1, <1>2, <1>3, <1>4

LEMMA RestNotLonger ==
  ASSUME NEW s \in Texts, NEW t, IsRest(t, s)
  PROVE  t \in Texts /\ Len(t) <= Len(s)
  <1>1. PICK k \in Nat : t = Rest(s, k)
    BY DEF IsRest
  <1>2. Len(s) \in Nat /\ t \in Texts /\ Len(t) = IF k <= Len(s) THEN Len(s) - k ELSE 0
    BY <1>1, RestOfText, LengthOfText
  <1> QED BY <1>1, <1>2

ListSize == [x \in BeingRead |-> IF x[2].outcome = "read" THEN Len(x[2].rest) + 1 ELSE 0]

LEMMA ListSizeIs ==
  /\ ListSize \in [BeingRead -> Nat]
  /\ \A x \in BeingRead :
       GoesOn(x) => FurtherOn(x) \in BeingRead /\ ListSize[FurtherOn(x)] < ListSize[x]
  <1>1. ASSUME NEW x \in BeingRead PROVE ListSize[x] \in Nat
    <2>1. x[2].outcome = "read" => Len(x[2].rest) \in Nat
      BY ListParts, LengthOfText
    <2> QED BY <2>1 DEF ListSize
  <1>2. ASSUME NEW x \in BeingRead, GoesOn(x)
        PROVE  FurtherOn(x) \in BeingRead /\ ListSize[FurtherOn(x)] < ListSize[x]
    <2> DEFINE next == Behind(x)
               item == parse_match[Rest(next, 1)]
    <2>1. /\ x[2].outcome = "read" /\ x[2].rest \in Texts
          /\ next \in Texts /\ IsRest(next, x[2].rest) /\ next # <<>>
          /\ FoundWith(x) \in Seq(ReadRanges)
      BY <1>2, ListParts DEF GoesOn, Begins
    <2>2. Len(next) \in Nat /\ Len(next) <= Len(x[2].rest) /\ Len(x[2].rest) \in Nat
      BY <2>1, RestNotLonger, LengthOfText
    <2>3. Rest(next, 1) \in Texts /\ Len(Rest(next, 1)) < Len(next)
      BY <2>1, RestIsShorter
    <2>4. item \in ItemOutcomes /\ Reads(item, Rest(next, 1))
      BY <2>3, ItemsAre, MatchReads
    <2>5. FurtherOn(x) \in BeingRead /\ FurtherOn(x)[2] = item
      BY <2>1, <2>4 DEF FurtherOn, BeingRead
    <2> HIDE DEF item, next
    <2>6. item.outcome = "read" => Len(item.rest) \in Nat /\ Len(item.rest) < Len(next)
      <3>1. ASSUME item.outcome = "read"
            PROVE  item.rest \in Texts /\ Len(item.rest) <= Len(Rest(next, 1))
        BY <2>3, <2>4, <3>1, RestNotLonger DEF Reads
      <3>2. item.outcome = "read" => Len(item.rest) \in Nat
        BY <3>1, LengthOfText
      <3>3. Len(Rest(next, 1)) \in Nat
        BY <2>3, LengthOfText
      <3> QED BY <2>2, <2>3, <3>1, <3>2, <3>3
    <2>7. ListSize[x] = Len(x[2].rest) + 1
      BY <2>1 DEF ListSize
    <2>8. ListSize[FurtherOn(x)] = IF item.outcome = "read" THEN Len(item.rest) + 1 ELSE 0
      <3>1. PICK y : y = FurtherOn(x)
        OBVIOUS
      <3> QED BY <2>5, <3>1 DEF ListSize
    <2> QED BY <2>2, <2>5, <2>6, <2>7, <2>8
  <1>3. ListSize = [x \in BeingRead |-> ListSize[x]]
    BY DEF ListSize
  <1>4. ListSize \in [BeingRead -> Nat]
    <2>1. [x \in BeingRead |-> ListSize[x]] \in [BeingRead -> Nat]
      BY <1>1
    <2> QED BY <1>3, <2>1
  <1> QED BY <1>2, <1>4

LEMMA EndsWithAList ==
  ASSUME NEW x \in BeingRead
  PROVE  EndsWith(x) \in ListOutcomes
  <1>1. Error \in ListOutcomes /\ Overrun \in ListOutcomes
    BY DEF ListOutcomes, Outcomes
  <1>2. CASE x[2].outcome # "read"
    BY <1>1, <1>2, ListParts DEF EndsWith
  <1>3. CASE x[2].outcome = "read"
    <2>1. Read(FoundWith(x), Behind(x)) \in ListOutcomes
      <3>1. FoundWith(x) \in Seq(ReadRanges) /\ Behind(x) \in Texts
        BY <1>3, ListParts
      <3>2. \A v \in Seq(ReadRanges), r \in Texts : Read(v, r) \in ListOutcomes
        BY DEF Read, ListOutcomes, Outcomes
      <3> QED BY <3>1, <3>2
    <2> QED BY <1>1, <1>3, <2>1 DEF EndsWith
  <1> QED BY <1>2, <1>3

LEMMA MatchListIs ==
  /\ MatchList \in [BeingRead -> ListOutcomes]
  /\ \A x \in BeingRead :
       MatchList[x] = IF GoesOn(x) THEN MatchList[FurtherOn(x)] ELSE EndsWith(x)
  <1> DEFINE leaves == {x \in BeingRead : ~GoesOn(x)}
             leaf == [x \in BeingRead |-> EndsWith(x)]
             rest == [x \in BeingRead |-> IF GoesOn(x) THEN FurtherOn(x) ELSE x]
             step == [y \in BeingRead \X ListOutcomes |-> y[2]]
             Comes(f, x) ==
               IF x[2].outcome # "read" THEN x[2]
               ELSE IF Behind(x) = <<>> THEN Error
               ELSE IF ~Begins(Behind(x), {"|"}) THEN Read(FoundWith(x), Behind(x))
               ELSE IF Len(FoundWith(x)) >= NUMBER_OF_VARIENT_RANGES THEN Error
               ELSE f[FurtherOn(x)]
  <1>0. ASSUME NEW f, NEW x
        PROVE  Comes(f, x) = IF GoesOn(x) THEN f[FurtherOn(x)] ELSE EndsWith(x)
    <2>1. Begins(Behind(x), {"|"}) => Behind(x) # <<>>
      BY DEF Begins
    <2> QED BY <2>1 DEF GoesOn, EndsWith
  <1>1. leaf \in [BeingRead -> ListOutcomes]
    BY EndsWithAList
  <1>2. rest \in [BeingRead -> BeingRead]
    BY ListSizeIs
  <1>3. step \in [BeingRead \X ListOutcomes -> ListOutcomes]
    OBVIOUS
  <1>4. Descends(BeingRead, ListSize, leaves, rest)
    <2>1. \A x \in BeingRead : x \in leaves \/ ListSize[rest[x]] < ListSize[x]
      BY ListSizeIs
    <2> HIDE DEF rest, leaves
    <2> QED BY <1>2, <2>1, ListSizeIs DEF Descends
  <1>5. PICK f \in [BeingRead -> ListOutcomes] : Recursive(f, BeingRead, leaves, leaf, rest, step)
    <2> HIDE DEF leaf, rest, step, leaves
    <2> QED BY <1>1, <1>3, <1>4, Recursion
  <1>6. f = [x \in BeingRead |-> Comes(f, x)]
    <2>1. ASSUME NEW x \in BeingRead PROVE f[x] = Comes(f, x)
      <3>1. f[x] = IF x \in leaves THEN leaf[x] ELSE step[<<x, f[rest[x]]>>]
        <4> HIDE DEF leaf, rest, step, leaves
        <4> QED BY <1>5 DEF Recursive
      <3>2. x \in leaves <=> ~GoesOn(x)
        OBVIOUS
      <3>3. leaf[x] = EndsWith(x)
        OBVIOUS
      <3>4. GoesOn(x) => rest[x] = FurtherOn(x) /\ rest[x] \in BeingRead
        BY ListSizeIs
      <3>5. GoesOn(x) => step[<<x, f[rest[x]]>>] = f[rest[x]]
        <4>1. \A y \in ListOutcomes : step[<<x, y>>] = y
          OBVIOUS
        <4> HIDE DEF step, rest
        <4> QED BY <3>4, <4>1
      <3> HIDE DEF leaf, rest, step, leaves, Comes
      <3> QED BY <1>0, <3>1, <3>2, <3>3, <3>4, <3>5
    <2>2. f = [x \in BeingRead |-> f[x]]
      OBVIOUS
    <2> HIDE DEF Comes
    <2> QED BY <2>1, <2>2
  <1>7. MatchList = CHOOSE g : g = [x \in BeingRead |-> Comes(g, x)]
    BY Zenon DEF MatchList, BeingRead, ItemOutcomes, FurtherOn, FoundWith, Behind
  <1>8. MatchList = [x \in BeingRead |-> Comes(MatchList, x)]
    <2> HIDE DEF Comes
    <2> QED BY <1>6, <1>7
  <1>9. ASSUME NEW x \in BeingRead PROVE MatchList[x] = Comes(MatchList, x)
    <2> HIDE DEF Comes
    <2> QED BY <1>8
  <1>10. \A x \in BeingRead : MatchList[x] \in ListOutcomes
    <2> DEFINE P == {x \in BeingRead : MatchList[x] \in ListOutcomes}
    <2>1. ASSUME NEW x \in BeingRead,
                 \A y \in BeingRead : ListSize[y] < ListSize[x] => y \in P
          PROVE  x \in P
      <3>1. CASE GoesOn(x)
        <4>1. FurtherOn(x) \in P
          BY <2>1, <3>1, ListSizeIs
        <4> HIDE DEF Comes
        <4> QED BY <1>0, <1>9, <3>1, <4>1
      <3>2. CASE ~GoesOn(x)
        <4> HIDE DEF Comes
        <4> QED BY <1>0, <1>9, <3>2, EndsWithAList
      <3> QED BY <3>1, <3>2
    <2>2. \A x \in BeingRead : x \in P
      <3> HIDE DEF P
      <3> QED BY <2>1, ListSizeIs, SizeInduction
    <2> QED BY <2>2
  <1>11. MatchList \in [BeingRead -> ListOutcomes]
    <2>1. MatchList = [x \in BeingRead |-> MatchList[x]]
      <3> HIDE DEF Comes
      <3> QED BY <1>8
    <2>2. [x \in BeingRead |-> MatchList[x]] \in [BeingRead -> ListOutcomes]
      BY <1>10
    <2> QED BY <2>1, <2>2
  <1> HIDE DEF Comes
  <1> QED BY <1>0, <1>9, <1>11

-----------------------------------------------------------------------------
(* The reader takes a specification after the other.                       *)
LEMMA CompletedIs ==
  ASSUME NEW e \in Entries, NEW l \in ListOutcomes,
         NEW c, c = Client(Entry(e.pv_name, e.element_index, l.value), Command[l.rest])
  PROVE  /\ Completed[<<e, l>>] = IF l.outcome = "read" /\ Fits(c) THEN <<c>> ELSE <<>>
         /\ l.outcome = "read" => c \in Clients
         /\ Completed[<<e, l>>] \in Seq(Clients)
  <1>1. <<e, l>> \in Entries \X Outcomes(Seq(ReadRanges))
    BY DEF ListOutcomes
  <1>2. Completed[<<e, l>>] = IF l.outcome = "read" /\ Fits(c) THEN <<c>> ELSE <<>>
    BY <1>1 DEF Completed
  <1>3. ASSUME l.outcome = "read" PROVE c \in Clients
    <2>1. l.value \in Seq(ReadRanges) /\ l.rest \in Texts
      BY <1>3 DEF ListOutcomes, Outcomes, Error, Overrun
    <2>2. Command[l.rest] \in Texts
      BY <2>1, CommandType
    <2> QED BY <2>1, <2>2 DEF Client, Entry, Entries, Clients
  <1>4. <<>> \in Seq(Clients)
    BY EmptySeq
  <1>5. l.outcome = "read" => <<c>> \in Seq(Clients)
    BY <1>3, OneOf
  <1> QED BY <1>2, <1>3, <1>4, <1>5

(* What has been read of an entry besides its name and index is not looked *)
(* at.                                                                     *)
LEMMA CompletedSame ==
  ASSUME NEW e \in Entries, NEW d \in Entries, NEW l \in ListOutcomes,
         e.pv_name = d.pv_name, e.element_index = d.element_index
  PROVE  Completed[<<e, l>>] = Completed[<<d, l>>]
  <1>1. PICK c : c = Client(Entry(e.pv_name, e.element_index, l.value), Command[l.rest])
    OBVIOUS
  <1>2. c = Client(Entry(d.pv_name, d.element_index, l.value), Command[l.rest])
    BY <1>1
  <1> QED BY <1>1, <1>2, CompletedIs

(* What is known of the reader, and its state when nothing has been read.  *)
FollowInv == /\ ReaderInv
             /\ main \in {"special", "options", "config"} => reader = "idle"
             /\ reader = "idle" => clients = <<>>

LEMMA AheadTypes ==
  ASSUME ReaderInv
  PROVE  /\ reader = "match" => /\ <<entry.match_set, parse_match[sub_line]>> \in BeingRead
                                /\ ListAhead \in ListOutcomes
         /\ ClientsAhead \in Seq(Clients)
         /\ entry \in Entries /\ clients \in Seq(Clients)
         /\ text \in Texts /\ source \in Texts /\ sub_line \in Texts
         /\ reader = "command" => Read(entry.match_set, sub_line) \in ListOutcomes
         /\ InLine[source] \in Seq(Texts) /\ InText[text] \in Seq(Texts)
  <1>1. /\ entry \in Entries /\ clients \in Seq(Clients)
        /\ text \in Texts /\ source \in Texts /\ sub_line \in Texts
    BY DEF ReaderInv, ReaderTypeOK, Clients
  <1>2. <<entry.match_set, parse_match[sub_line]>> \in BeingRead
    BY <1>1, ItemsAre DEF Entries, BeingRead
  <1>3. ListAhead \in ListOutcomes
    BY <1>2, MatchListIs DEF ListAhead
  <1>4. Read(entry.match_set, sub_line) \in ListOutcomes
    BY <1>1 DEF Entries, Read, ListOutcomes, Outcomes
  <1>5. <<>> \in Seq(Clients)
    BY EmptySeq
  <1>6. \A l \in ListOutcomes : Completed[<<entry, l>>] \in Seq(Clients)
    BY <1>1, CompletedIs
  <1>7. ClientsAhead \in Seq(Clients)
    BY <1>3, <1>4, <1>5, <1>6, Zenon DEF ClientsAhead
  <1>8. InLine[source] \in Seq(Texts) /\ InText[text] \in Seq(Texts)
    BY <1>1, InLineIs, InTextIs
  <1> QED BY <1>1, <1>2, <1>3, <1>4, <1>7, <1>8

(* Nothing but the reader's steps and the start concern it.                *)
Same == UNCHANGED <<SpecificationsAhead, clients \o ClientsAhead, Phase>>

LEMMA SameIsStutter == Same => UNCHANGED Reading!policyVars
  BY DEF Same, Reading!policyVars

LEMMA ReaderStays ==
  ASSUME UNCHANGED <<readerVars, input>>
  PROVE  Same
  <1>1. UNCHANGED <<reader, text, source, sub_line, entry, clients, input>>
    BY DEF readerVars
  <1> QED BY <1>1 DEF Same, SpecificationsAhead, ClientsAhead, ListAhead, Phase

LEMMA OpensText ==
  ASSUME FollowInv, CreateClientList
  PROVE  Reading!OpenConfiguration
  <1>1. /\ main = "config" /\ reader = "idle" /\ clients = <<>>
        /\ reader' = "line" /\ clients' = <<>> /\ UNCHANGED input
        /\ text' = IF string_config = "" THEN <<>> ELSE input.text
    BY DEF FollowInv, CreateClientList, Open, callVars
  <1>2. input.text \in Texts
    BY DEF FollowInv, ReaderInv
  <1>3. ClientsAhead = <<>> /\ ClientsAhead' = <<>>
    BY <1>1 DEF ClientsAhead
  <1>4. Phase = "closed" /\ Phase' = "open"
    BY <1>1 DEF Phase
  <1>5. SpecificationsAhead' = <<>> \o InText[text']
    BY <1>1 DEF SpecificationsAhead
  <1>6. SpecificationsAhead' \in {Given(input.text), <<>>}
    <2>1. \A t \in Texts : <<>> \o InText[t] = InText[t]
      BY InTextIs, ConcatEmptySeq
    <2>2. InText[<<>>] = <<>> /\ <<>> \in Texts
      BY InTextIs, NoSymbol
    <2>3. Given(input.text) = InText[input.text]
      BY <1>2, GivenIs
    <2> QED BY <1>1, <1>2, <1>5, <2>1, <2>2, <2>3
  <1>7. UNCHANGED (clients \o ClientsAhead)
    BY <1>1, <1>3
  <1> QED BY <1>4, <1>6, <1>7 DEF Reading!OpenConfiguration

LEMMA LineIsRead ==
  ASSUME ReaderInv, ReadLine, UNCHANGED input
  PROVE  Same
  <1>1. /\ reader = "line" /\ text # <<>> /\ text \in Texts
        /\ text' = Rest(text, LineLength(text)) /\ source' = Line(text)
        /\ reader' = IF source' = <<>> \/ IsComment(source') THEN "line" ELSE "spec"
        /\ UNCHANGED <<sub_line, entry, clients>>
    BY DEF ReadLine, ReaderInv, ReaderTypeOK
  <1>2. SpecificationsAhead = InText[text]
    <2>1. SpecificationsAhead = <<>> \o InText[text]
      BY <1>1 DEF SpecificationsAhead
    <2> QED BY <2>1, AheadTypes, ConcatEmptySeq
  <1>3. InText[text] = OfLine(text) \o InText[text']
    BY <1>1, InTextIs
  <1>4. SpecificationsAhead' = (IF reader' = "line" THEN <<>> ELSE InLine[source']) \o InText[text']
    BY <1>1 DEF SpecificationsAhead
  <1>5. OfLine(text) = IF reader' = "line" THEN <<>> ELSE InLine[source']
    <2>1. OfLine(text) = IF IsComment(source') THEN <<>> ELSE InLine[source']
      BY <1>1 DEF OfLine
    <2> QED BY <1>1, <2>1, InLineIs
  <1>6. ClientsAhead = <<>> /\ ClientsAhead' = <<>> /\ Phase = "open" /\ Phase' = "open"
    BY <1>1 DEF ClientsAhead, Phase
  <1> QED BY <1>1, <1>2, <1>3, <1>4, <1>5, <1>6 DEF Same

LEMMA TextEnds ==
  ASSUME ReaderInv, EndOfText, UNCHANGED input
  PROVE  Reading!EndOfConfiguration
  <1>1. /\ reader = "line" /\ reader' = "done" /\ text = <<>>
        /\ UNCHANGED <<text, source, sub_line, entry, clients>>
    BY DEF EndOfText
  <1>2. SpecificationsAhead = <<>> \o InText[text] /\ SpecificationsAhead' = <<>> \o InText[text]
    BY <1>1 DEF SpecificationsAhead
  <1>3. <<>> \o InText[text] = <<>>
    <2>1. InText[text] = <<>>
      BY <1>1, InTextIs
    <2>2. <<>> \in Seq(Texts)
      BY EmptySeq
    <2> QED BY <2>1, <2>2, ConcatEmptySeq
  <1>4. ClientsAhead = <<>> /\ ClientsAhead' = <<>> /\ Phase = "open" /\ Phase' = "done"
    BY <1>1 DEF ClientsAhead, Phase
  <1> QED BY <1>1, <1>2, <1>3, <1>4 DEF Reading!EndOfConfiguration

LEMMA LineEnds ==
  ASSUME ReaderInv, EndOfLine, UNCHANGED input
  PROVE  Same
  <1>1. /\ reader = "spec" /\ reader' = "line" /\ source = <<>>
        /\ UNCHANGED <<text, source, sub_line, entry, clients>>
    BY DEF EndOfLine
  <1>2. /\ SpecificationsAhead = InLine[source] \o InText[text]
        /\ SpecificationsAhead' = <<>> \o InText[text]
    BY <1>1 DEF SpecificationsAhead
  <1>3. InLine[source] = <<>>
    BY <1>1, InLineIs
  <1>4. ClientsAhead = <<>> /\ ClientsAhead' = <<>> /\ Phase = "open" /\ Phase' = "open"
    BY <1>1 DEF ClientsAhead, Phase
  <1> QED BY <1>1, <1>2, <1>3, <1>4 DEF Same

LEMMA HeadOfJoin ==
  ASSUME NEW x \in Texts, NEW t \in Seq(Texts), NEW u \in Seq(Texts)
  PROVE  LET s == (<<x>> \o t) \o u
         IN  s # <<>> /\ Head(s) = x /\ Tail(s) = t \o u
  <1> DEFINE v == t \o u
  <1>1. <<x>> \in Seq(Texts) /\ Len(<<x>>) = 1 /\ <<x>>[1] = x
    BY OneOf
  <1>2. v \in Seq(Texts) /\ Len(v) \in Nat
    BY ConcatProperties, LenProperties
  <1>3. (<<x>> \o t) \o u = <<x>> \o v
    BY <1>1, ConcatAssociative
  <1> HIDE DEF v
  <1>4. /\ <<x>> \o v \in Seq(Texts) /\ Len(<<x>> \o v) = 1 + Len(v)
        /\ \A i \in 1..(1 + Len(v)) : (<<x>> \o v)[i] = IF i <= 1 THEN <<x>>[i] ELSE v[i - 1]
    <2>1. PICK a : a = <<x>>
      OBVIOUS
    <2>2. a \in Seq(Texts) /\ Len(a) = 1
      BY <1>1, <2>1
    <2>3. /\ a \o v \in Seq(Texts) /\ Len(a \o v) = Len(a) + Len(v)
          /\ \A i \in 1..(Len(a) + Len(v)) : (a \o v)[i] = IF i <= Len(a) THEN a[i] ELSE v[i - Len(a)]
      BY <1>2, <2>2, ConcatProperties
    <2> QED BY <2>1, <2>2, <2>3
  <1>5. PICK s : s = <<x>> \o v
    OBVIOUS
  <1>6. s # <<>>
    BY <1>2, <1>4, <1>5, EmptySeq
  <1>7. Head(s) = x
    <2>1. s[1] = x
      BY <1>1, <1>2, <1>4, <1>5
    <2>2. Head(s) = s[1]
      OBVIOUS
    <2> QED BY <2>1, <2>2
  <1>8. Tail(s) = v
    <2>1. /\ Tail(s) \in Seq(Texts) /\ Len(Tail(s)) = Len(s) - 1
          /\ \A i \in 1..Len(Tail(s)) : Tail(s)[i] = s[i + 1]
      BY <1>4, <1>5, <1>6, HeadTailProperties
    <2>2. Len(s) = 1 + Len(v)
      BY <1>4, <1>5
    <2>3. PICK w : w = Tail(s)
      OBVIOUS
    <2>4. w \in Seq(Texts) /\ Len(w) = Len(v)
      BY <1>2, <2>1, <2>2, <2>3
    <2>5. ASSUME NEW i \in 1..Len(w) PROVE w[i] = v[i]
      <3>1. i \in Int /\ i + 1 \in 1..(1 + Len(v)) /\ ~(i + 1 <= 1) /\ (i + 1) - 1 = i
        BY <1>2, <2>4
      <3>2. w[i] = s[i + 1]
        BY <2>1, <2>3
      <3> QED BY <1>4, <1>5, <3>1, <3>2
    <2> QED BY <1>2, <2>3, <2>4, <2>5, SeqEqual
  <1> QED BY <1>3, <1>5, <1>6, <1>7, <1>8 DEF v

LEMMA SpecificationBegins ==
  ASSUME ReaderInv, BeginSpec, UNCHANGED input
  PROVE  Reading!TakeSpecification
  <1> DEFINE k    == UpTo(source, {";"})
             spec == Prefix(source, k)
             head == Heading[spec]
             left == InLine[Rest(source, k + 1)]
  <1>0. text \in Texts /\ source \in Texts /\ source # <<>> /\ reader = "spec"
        /\ clients \in Seq(Clients)
    BY AheadTypes DEF BeginSpec
  <1>1. /\ source' = Rest(source, k + 1)
        /\ UNCHANGED <<text, clients>>
        /\ \/ /\ head.outcome = "read"
              /\ entry' = head.value
              /\ sub_line' = head.rest
              /\ reader' = "match"
           \/ /\ head.outcome = "error" /\ reader' = "spec"
              /\ UNCHANGED <<sub_line, entry>>
    BY Zenon DEF BeginSpec, Skip, next_source
  <1>2. k \in 0..Len(source) /\ Len(source) \in Nat
    BY <1>0, SpanOfText, LengthOfText
  <1>3. spec \in Texts /\ k + 1 \in Nat
    <2> HIDE DEF k
    <2> QED BY <1>0, <1>2, PrefixOfText
  <1>4. left \in Seq(Texts) /\ InText[text] \in Seq(Texts)
    BY <1>0, <1>3, RestOfText, InLineIs, InTextIs
  <1>5. SpecificationsAhead = (<<spec>> \o left) \o InText[text]
    <2>1. SpecificationsAhead = InLine[source] \o InText[text]
      BY <1>0 DEF SpecificationsAhead
    <2>2. InLine[source] = <<spec>> \o left
      BY <1>0, InLineIs
    <2> QED BY <2>1, <2>2
  <1>6. SpecificationsAhead' = left \o InText[text]
    <2>1. SpecificationsAhead' = InLine[source'] \o InText[text']
      BY <1>1 DEF SpecificationsAhead
    <2> QED BY <1>1, <2>1
  <1> HIDE DEF k, left
  <1>7. /\ SpecificationsAhead # <<>> /\ Head(SpecificationsAhead) = spec
        /\ SpecificationsAhead' = Tail(SpecificationsAhead)
    <2> HIDE DEF spec
    <2> QED BY <1>3, <1>4, <1>5, <1>6, HeadOfJoin
  <1>8. Phase = "open" /\ ClientsAhead = <<>>
    BY <1>0 DEF Phase, ClientsAhead
  <1>9. clients \o ClientsAhead = clients
    BY <1>0, <1>8, ConcatEmptySeq
  <1> HIDE DEF spec
  <1>10. spec \in Texts
    BY <1>3
  <1>11. CASE head.outcome = "read"
    <2>1. entry' = head.value /\ sub_line' = head.rest /\ reader' = "match"
      BY <1>1, <1>11
    <2>2. head.value.match_set = <<>>
      BY <1>10, <1>11, HeadingRead DEF Headings, Error
    <2>3. ListAhead' = ListOf(head)
      BY <2>1, <2>2 DEF ListAhead, ListOf
    <2>4. ClientsAhead' = ClientsOf[spec]
      <3>1. ClientsOf[spec] = Completed[<<head.value, ListOf(head)>>]
        BY <1>10, <1>11 DEF ClientsOf
      <3>2. ClientsAhead' = Completed[<<entry', ListAhead'>>]
        BY <2>1 DEF ClientsAhead
      <3> QED BY <2>1, <2>3, <3>1, <3>2
    <2>5. Phase' = IF ListAhead'.outcome = "overrun" THEN "stopped" ELSE "open"
      BY <2>1 DEF Phase
    <2>6. spec \in Fatal <=> ListAhead'.outcome = "overrun"
      BY <1>10, <1>11, <2>3 DEF Fatal
    <2> QED BY <1>1, <1>7, <1>8, <1>9, <2>4, <2>5, <2>6 DEF Reading!TakeSpecification
  <1>12. CASE head.outcome = "error"
    <2>1. reader' = "spec"
      BY <1>1, <1>12
    <2>2. ClientsAhead' = <<>> /\ Phase' = "open"
      BY <2>1 DEF ClientsAhead, Phase
    <2>3. ClientsOf[spec] = <<>> /\ spec \notin Fatal
      BY <1>10, <1>12 DEF ClientsOf, Fatal
    <2> QED BY <1>1, <1>7, <1>8, <1>9, <2>2, <2>3 DEF Reading!TakeSpecification
  <1> QED BY <1>1, <1>11, <1>12

LEMMA ItemIsRead ==
  ASSUME ReaderInv, MatchItem, UNCHANGED input, ReaderInv'
  PROVE  Same
  <1> DEFINE item  == parse_match[sub_line]
             next  == SkipWhite[item.rest]
             found == Append(entry.match_set, item.value)
             x     == <<entry.match_set, item>>
  <1>0. /\ reader = "match" /\ UNCHANGED <<text, source, clients, input>>
    BY Zenon DEF MatchItem, Skip
  <1>1. \/ /\ item.outcome = "read" /\ Begins(next, {"|"})
           /\ Len(found) < NUMBER_OF_VARIENT_RANGES
           /\ entry' = [entry EXCEPT !.match_set = found]
           /\ sub_line' = Rest(next, 1) /\ reader' = "match"
        \/ /\ item.outcome = "read" /\ next # <<>> /\ ~Begins(next, {"|"})
           /\ entry' = [entry EXCEPT !.match_set = found]
           /\ sub_line' = next /\ reader' = "command"
        \/ /\ \/ item.outcome = "error"
              \/ item.outcome = "read" /\ next = <<>>
              \/ /\ item.outcome = "read" /\ Begins(next, {"|"})
                 /\ Len(found) >= NUMBER_OF_VARIENT_RANGES
           /\ reader' = "spec"
        \/ /\ item.outcome = "overrun" /\ reader' = "crashed"
           /\ UNCHANGED <<sub_line, entry>>
    BY <1>0, Zenon DEF MatchItem, Skip
  <1>2. /\ x \in BeingRead /\ ListAhead \in ListOutcomes
        /\ entry \in Entries /\ clients \in Seq(Clients)
    BY <1>0, AheadTypes
  <1>3. ListAhead = IF GoesOn(x) THEN MatchList[FurtherOn(x)] ELSE EndsWith(x)
    BY <1>2, MatchListIs DEF ListAhead
  <1>4. /\ GoesOn(x) <=> /\ item.outcome = "read" /\ Begins(next, {"|"})
                         /\ ~(Len(found) >= NUMBER_OF_VARIENT_RANGES)
        /\ FurtherOn(x) = <<found, parse_match[Rest(next, 1)]>>
        /\ EndsWith(x) = IF item.outcome # "read" THEN item
                         ELSE IF next # <<>> /\ ~Begins(next, {"|"}) THEN Read(found, next)
                         ELSE Error
    BY DEF GoesOn, FurtherOn, EndsWith, FoundWith, Behind
  <1>5. ClientsAhead = Completed[<<entry, ListAhead>>]
    BY <1>0 DEF ClientsAhead
  <1>6. Phase = IF ListAhead.outcome = "overrun" THEN "stopped" ELSE "open"
    BY <1>0 DEF Phase
  <1>7. reader' \notin {"idle", "line", "done"} => UNCHANGED SpecificationsAhead
    BY <1>0 DEF SpecificationsAhead
  <1>8. entry' = [entry EXCEPT !.match_set = found] =>
          /\ entry' \in Entries /\ entry'.match_set = found
          /\ entry'.pv_name = entry.pv_name /\ entry'.element_index = entry.element_index
    <2>1. entry' \in Entries
      BY DEF ReaderInv, ReaderTypeOK
    <2> HIDE DEF found
    <2> QED BY <1>2, <2>1 DEF Entries
  <1> HIDE DEF item, next, found
  <1>9. CASE /\ item.outcome = "read" /\ Begins(next, {"|"})
             /\ Len(found) < NUMBER_OF_VARIENT_RANGES
             /\ entry' = [entry EXCEPT !.match_set = found]
             /\ sub_line' = Rest(next, 1) /\ reader' = "match"
    <2>1. ~(Len(found) >= NUMBER_OF_VARIENT_RANGES)
      <3>1. Len(found) \in Nat /\ NUMBER_OF_VARIENT_RANGES \in Nat
        <4>1. FoundWith(x) = found /\ x[1] = entry.match_set /\ x[2] = item
          BY DEF FoundWith, found
        <4>2. Len(FoundWith(x)) = Len(x[1]) + 1 /\ Len(x[1]) \in Nat
          BY <1>2, <1>9, <4>1, ListParts
        <4> QED BY <4>1, <4>2, SizeAssumption
      <3> QED BY <1>9, <3>1
    <2>2. ListAhead = MatchList[<<found, parse_match[Rest(next, 1)]>>]
      BY <1>3, <1>4, <1>9, <2>1
    <2>3. ListAhead' = ListAhead
      <3>1. ListAhead' = MatchList[<<entry'.match_set, parse_match[sub_line']>>]
        BY DEF ListAhead
      <3> QED BY <1>8, <1>9, <2>2, <3>1
    <2>4. ClientsAhead' = Completed[<<entry', ListAhead'>>]
      BY <1>9 DEF ClientsAhead
    <2>5. ClientsAhead' = ClientsAhead
      BY <1>2, <1>5, <1>8, <1>9, <2>3, <2>4, CompletedSame
    <2>6. Phase' = IF ListAhead'.outcome = "overrun" THEN "stopped" ELSE "open"
      BY <1>9 DEF Phase
    <2> QED BY <1>0, <1>6, <1>7, <1>9, <2>3, <2>5, <2>6 DEF Same
  <1>10. CASE /\ item.outcome = "read" /\ next # <<>> /\ ~Begins(next, {"|"})
              /\ entry' = [entry EXCEPT !.match_set = found]
              /\ sub_line' = next /\ reader' = "command"
    <2>1. ListAhead = Read(found, next)
      BY <1>3, <1>4, <1>10
    <2>2. ClientsAhead' = Completed[<<entry', Read(entry'.match_set, sub_line')>>]
      BY <1>10 DEF ClientsAhead
    <2>3. ClientsAhead' = Completed[<<entry', ListAhead>>]
      BY <1>8, <1>10, <2>1, <2>2
    <2>4. ClientsAhead' = ClientsAhead
      BY <1>2, <1>5, <1>8, <1>10, <2>3, CompletedSame
    <2>5. Phase = "open"
      BY <1>6, <2>1 DEF Read
    <2>6. Phase' = "open"
      BY <1>10 DEF Phase
    <2> QED BY <1>0, <1>7, <1>10, <2>4, <2>5, <2>6 DEF Same
  <1>11. CASE /\ \/ item.outcome = "error"
                 \/ item.outcome = "read" /\ next = <<>>
                 \/ /\ item.outcome = "read" /\ Begins(next, {"|"})
                    /\ Len(found) >= NUMBER_OF_VARIENT_RANGES
              /\ reader' = "spec"
    <2>1. ListAhead.outcome = "error"
      BY <1>3, <1>4, <1>11 DEF Error, Begins
    <2>2. ClientsAhead = <<>>
      <3>1. PICK l \in ListOutcomes : l = ListAhead
        BY <1>2
      <3>2. Completed[<<entry, l>>] = <<>>
        BY <1>2, <2>1, <3>1, CompletedIs
      <3> QED BY <1>5, <3>1, <3>2
    <2>3. ClientsAhead' = <<>> /\ Phase' = "open"
      BY <1>11 DEF ClientsAhead, Phase
    <2>4. Phase = "open"
      BY <1>6, <2>1
    <2> QED BY <1>0, <1>7, <1>11, <2>2, <2>3, <2>4 DEF Same
  <1>12. CASE item.outcome = "overrun" /\ reader' = "crashed" /\ UNCHANGED <<sub_line, entry>>
    <2>1. ListAhead.outcome = "overrun"
      BY <1>3, <1>4, <1>12
    <2>2. ClientsAhead = <<>>
      <3>1. PICK l \in ListOutcomes : l = ListAhead
        BY <1>2
      <3>2. Completed[<<entry, l>>] = <<>>
        BY <1>2, <2>1, <3>1, CompletedIs
      <3> QED BY <1>5, <3>1, <3>2
    <2>3. ClientsAhead' = <<>> /\ Phase' = "stopped"
      BY <1>12 DEF ClientsAhead, Phase
    <2>4. Phase = "stopped"
      BY <1>6, <2>1
    <2> QED BY <1>0, <1>7, <1>12, <2>2, <2>3, <2>4 DEF Same
  <1> QED BY <1>1, <1>9, <1>10, <1>11, <1>12

LEMMA SpecificationEnds ==
  ASSUME ReaderInv, EndSpec, UNCHANGED input
  PROVE  Same
  <1>1. /\ reader = "command" /\ reader' = "spec"
        /\ UNCHANGED <<text, source, sub_line, entry>>
        /\ LET c == Client(entry, Command[sub_line])
           IN  clients' = IF Fits(c) THEN Append(clients, c) ELSE clients
    BY DEF EndSpec
  <1>2. /\ entry \in Entries /\ clients \in Seq(Clients)
        /\ Read(entry.match_set, sub_line) \in ListOutcomes
    BY <1>1, AheadTypes
  <1>3. PICK c : c = Client(entry, Command[sub_line])
    OBVIOUS
  <1>4. ClientsAhead = Completed[<<entry, Read(entry.match_set, sub_line)>>]
    BY <1>1 DEF ClientsAhead
  <1>5. PICK l \in ListOutcomes : l = Read(entry.match_set, sub_line)
    BY <1>2
  <1>6. l.outcome = "read" /\ l.value = entry.match_set /\ l.rest = sub_line
    BY <1>5 DEF Read
  <1>7. c = Client(Entry(entry.pv_name, entry.element_index, l.value), Command[l.rest])
    BY <1>3, <1>6 DEF Client, Entry
  <1>8. ClientsAhead = (IF Fits(c) THEN <<c>> ELSE <<>>) /\ c \in Clients
    BY <1>2, <1>4, <1>5, <1>6, <1>7, CompletedIs
  <1>9. ClientsAhead' = <<>>
    BY <1>1 DEF ClientsAhead
  <1>10. clients' = clients \o ClientsAhead
    <2>1. Append(clients, c) = clients \o <<c>> /\ clients \o <<>> = clients
      BY <1>2, <1>8, AppendIsConcat, ConcatEmptySeq
    <2> QED BY <1>1, <1>3, <1>8, <2>1
  <1>11. clients' \o ClientsAhead' = clients'
    <2>1. clients' \in Seq(Clients)
      BY <1>1, <1>2, <1>3, <1>8, AppendProperties
    <2> QED BY <1>9, <2>1, ConcatEmptySeq
  <1>12. UNCHANGED SpecificationsAhead
    BY <1>1 DEF SpecificationsAhead
  <1>13. Phase = "open" /\ Phase' = "open"
    BY <1>1 DEF Phase
  <1> QED BY <1>10, <1>11, <1>12, <1>13 DEF Same

LEMMA InitFollows == Init => FollowInv /\ Reading!PolicyInit
  <1> SUFFICES ASSUME Init PROVE FollowInv /\ Reading!PolicyInit
    OBVIOUS
  <1>1. /\ reader = "idle" /\ text = <<>> /\ source = <<>> /\ clients = <<>>
    BY DEF Init, ReaderInit
  <1>2. FollowInv
    BY <1>1, InitIInv DEF IInv, FollowInv
  <1>3. Phase = "closed" /\ ClientsAhead = <<>>
    BY <1>1 DEF Phase, ClientsAhead
  <1>4. SpecificationsAhead = <<>>
    <2>1. SpecificationsAhead = <<>> \o InText[text]
      BY <1>1 DEF SpecificationsAhead
    <2>2. <<>> \o <<>> = <<>>
      <3>1. <<>> \in Seq(Texts)
        BY EmptySeq
      <3> QED BY <3>1, ConcatEmptySeq
    <2> QED BY <1>1, <2>1, <2>2, InTextIs
  <1>5. clients \o ClientsAhead = <<>>
    <2>1. <<>> \in Seq(Texts)
      BY EmptySeq
    <2> QED BY <1>1, <1>3, <2>1, ConcatEmptySeq
  <1> QED BY <1>2, <1>3, <1>4, <1>5 DEF Reading!PolicyInit

(* What the steps of Startup do that concerns the reader.                  *)
LEMMA ReaderStepsAre ==
  ASSUME [Next]_vars
  PROVE  \/ UNCHANGED <<readerVars, input>>
         \/ CreateClientList
         \/ ReaderStep /\ UNCHANGED input
  <1>1. CASE ParseOptions
    BY <1>1 DEF ParseOptions, callVars
  <1>2. CASE ScanConfiguration
    BY <1>2 DEF ScanConfiguration, callVars
  <1>3. CASE EmptyList \/ StartRun \/ JustCheck \/ ProcessClients
    BY <1>3 DEF EmptyList, StartRun, JustCheck, ProcessClients, callVars
  <1>4. CASE CallSomeCommand
    BY <1>4 DEF CallSomeCommand, call_command
  <1>5. CASE SubstituteImages \/ QuitOrRun
    BY <1>5 DEF SubstituteImages, QuitOrRun, callVars
  <1>6. CASE UNCHANGED vars
    BY <1>6 DEF vars, callVars
  <1> QED BY <1>1, <1>2, <1>3, <1>4, <1>5, <1>6 DEF Next

LEMMA StepFollows ==
  IInv /\ IInv' /\ ControlInv /\ FollowInv /\ [Next]_vars =>
    FollowInv' /\ [Reading!PolicyNext]_(Reading!policyVars)
  <1> SUFFICES ASSUME IInv, IInv', ControlInv, FollowInv, [Next]_vars
               PROVE  FollowInv' /\ [Reading!PolicyNext]_(Reading!policyVars)
    OBVIOUS
  <1>0. ReaderInv /\ ReaderInv'
    BY DEF IInv
  <1>1. ControlInv'
    BY NextControl
  <1>2. FollowInv'
    <2>1. main' \in {"special", "options", "config"} => reader' = "idle"
      BY <1>1 DEF ControlInv, MainInv
    <2>2. reader' = "idle" => clients' = <<>>
      <3>1. CASE UNCHANGED <<readerVars, input>>
        BY <3>1 DEF readerVars, FollowInv
      <3>2. CASE CreateClientList
        BY <3>2 DEF CreateClientList
      <3>3. CASE ReaderStep
        BY <1>0, <3>3, ReaderGoes
      <3> QED BY <3>1, <3>2, <3>3, ReaderStepsAre
    <2> QED BY <1>0, <2>1, <2>2 DEF FollowInv
  <1>3. Same \/ Reading!PolicyNext
    <2>1. CASE UNCHANGED <<readerVars, input>>
      BY <2>1, ReaderStays
    <2>2. CASE CreateClientList
      BY <2>2, OpensText DEF Reading!PolicyNext
    <2>3. CASE ReaderStep /\ UNCHANGED input
      <3>1. CASE ReadLine
        BY <1>0, <2>3, <3>1, LineIsRead
      <3>2. CASE EndOfText
        BY <1>0, <2>3, <3>2, TextEnds DEF Reading!PolicyNext
      <3>3. CASE EndOfLine
        BY <1>0, <2>3, <3>3, LineEnds
      <3>4. CASE BeginSpec
        BY <1>0, <2>3, <3>4, SpecificationBegins DEF Reading!PolicyNext
      <3>5. CASE MatchItem
        BY <1>0, <2>3, <3>5, ItemIsRead
      <3>6. CASE EndSpec
        BY <1>0, <2>3, <3>6, SpecificationEnds
      <3> QED BY <2>3, <3>1, <3>2, <3>3, <3>4, <3>5, <3>6 DEF ReaderStep
    <2> QED BY <2>1, <2>2, <2>3, ReaderStepsAre
  <1> QED BY <1>2, <1>3, SameIsStutter

(* The reader implements its policy, whatever the text and the sizes are.  *)
(* An ordinary text is the list of specifications the documents have it    *)
(* be, any other the list the reader finds in it: of that list, with its   *)
(* buffer of a line and the one entry it uses for all specifications, the  *)
(* reader makes the clients each one gives alone, in their order, and goes *)
(* on behind one with an error (read_configuration.c:272-577).             *)
THEOREM ReadingIsImplemented == Spec => ImplementsReadingPolicy
  <1>1. Init => FollowInv /\ Reading!PolicyInit
    BY InitFollows
  <1>2. IInv /\ IInv' /\ ControlInv /\ FollowInv /\ [Next]_vars =>
          FollowInv' /\ [Reading!PolicyNext]_(Reading!policyVars)
    BY StepFollows
  <1>3. Spec => [](IInv /\ ControlInv)
    BY AlwaysControlInv
  <1> QED BY <1>1, <1>2, <1>3, PTL DEF Spec, ImplementsReadingPolicy, Reading!PolicySpec

-----------------------------------------------------------------------------
(* How far a text goes that something else stands behind.                  *)
Avoids(t, S) == \A k \in 1..Len(t) : t[k] \notin S
Stops(u, S)  == u = <<>> \/ Begins(u, S)
IsBlank(g)   == g \in Texts /\ \A k \in 1..Len(g) : g[k] \in White

LEMMA UpToJoin ==
  ASSUME NEW a \in Texts, NEW b \in Texts, NEW S, Avoids(a, S), Stops(b, S)
  PROVE  UpTo(a \o b, S) = Len(a)
  <1>1. PICK s : s = a \o b
    OBVIOUS
  <1>2. /\ s \in Texts /\ Len(s) = Len(a) + Len(b)
        /\ \A i \in 1..Len(a) : s[i] = a[i]
        /\ \A i \in 1..Len(b) : s[Len(a) + i] = b[i]
    BY <1>1, JoinOfTexts
  <1>3. PICK n : n = UpTo(s, S)
    OBVIOUS
  <1>4. /\ n \in 0..Len(s)
        /\ \A i \in 1..n : s[i] \notin S
        /\ n < Len(s) => s[n + 1] \in S
    BY <1>2, <1>3, UpToIs
  <1>5. Len(a) \in Nat /\ Len(b) \in Nat /\ (b = <<>> <=> Len(b) = 0)
    BY LengthOfText
  <1>6. ~(n < Len(a))
    <2>1. SUFFICES ASSUME n < Len(a) PROVE FALSE
      OBVIOUS
    <2>2. n + 1 \in 1..Len(a) /\ n < Len(s)
      BY <1>2, <1>4, <1>5, <2>1
    <2> QED BY <1>2, <1>4, <2>2 DEF Avoids
  <1>7. ~(n > Len(a))
    <2>1. SUFFICES ASSUME n > Len(a) PROVE FALSE
      OBVIOUS
    <2>2. 1 \in 1..Len(b) /\ Len(a) + 1 \in 1..n
      BY <1>2, <1>4, <1>5, <2>1
    <2>3. b[1] \in S
      BY <1>5, <2>2 DEF Stops, Begins
    <2> QED BY <1>2, <1>4, <2>2, <2>3
  <1> QED BY <1>1, <1>3, <1>4, <1>5, <1>6, <1>7

LEMMA PrefixOfJoin ==
  ASSUME NEW a \in Texts, NEW b \in Texts
  PROVE  Prefix(a \o b, Len(a)) = a
  <1>1. PICK s : s = a \o b
    OBVIOUS
  <1>2. /\ s \in Texts /\ Len(s) = Len(a) + Len(b)
        /\ \A i \in 1..Len(a) : s[i] = a[i]
    BY <1>1, JoinOfTexts
  <1>3. Len(a) \in 0..Len(s)
    BY <1>2, LengthOfText
  <1>4. /\ Prefix(s, Len(a)) \in Texts /\ Len(Prefix(s, Len(a))) = Len(a)
        /\ \A i \in 1..Len(a) : Prefix(s, Len(a))[i] = s[i]
    BY <1>2, <1>3, PartsOfText
  <1> QED BY <1>1, <1>2, <1>4, EqualTexts

LEMMA JoinBegins ==
  ASSUME NEW a \in Texts, NEW b \in Texts, a # <<>>
  PROVE  /\ a \o b # <<>>
         /\ (a \o b)[1] = a[1]
         /\ \A S : Begins(a \o b, S) <=> Begins(a, S)
  <1>1. Len(a) \in Nat \ {0} /\ Len(b) \in Nat
    BY LengthOfText
  <1>2. PICK s : s = a \o b
    OBVIOUS
  <1>3. s \in Texts /\ Len(s) = Len(a) + Len(b) /\ s[1] = a[1]
    BY <1>1, <1>2, JoinOfTexts
  <1>4. s # <<>>
    BY <1>1, <1>3, LengthOfText
  <1> QED BY <1>2, <1>3, <1>4 DEF Begins

(* A text behind one symbol.                                               *)
LEMMA SymbolBefore ==
  ASSUME NEW x \in Symbols, NEW b \in Texts, NEW s, s = <<x>> \o b
  PROVE  /\ s \in Texts /\ s # <<>> /\ Len(s) = 1 + Len(b) /\ s[1] = x
         /\ \A i \in 1..Len(b) : s[1 + i] = b[i]
         /\ Rest(s, 1) = b
         /\ \A S : Begins(s, S) <=> x \in S
  <1>1. PICK q : q = <<x>>
    OBVIOUS
  <1>2. q \in Texts /\ Len(q) = 1 /\ q[1] = x /\ q # <<>>
    <2>1. <<x>> # <<>>
      OBVIOUS
    <2> QED BY <1>1, <2>1, OneSymbol
  <1>3. s = q \o b
    BY <1>1
  <1>4. /\ s \in Texts /\ Len(s) = Len(q) + Len(b)
        /\ \A i \in 1..Len(b) : s[Len(q) + i] = b[i]
        /\ Rest(s, Len(q)) = b
    <2>1. q \in Texts
      BY <1>2
    <2> QED BY ONLY <1>3, <2>1, b \in Texts, JoinOfTexts
  <1>5. s # <<>> /\ s[1] = q[1]
    BY <1>2, <1>3, JoinBegins
  <1>6. \A S : Begins(s, S) <=> x \in S
    BY <1>2, <1>5 DEF Begins
  <1> QED BY <1>2, <1>4, <1>5, <1>6

LEMMA JoinWithNone ==
  ASSUME NEW a \in Texts
  PROVE  a \o <<>> = a /\ <<>> \o a = a
  BY ConcatEmptySeq DEF Texts

LEMMA JoinInTurn ==
  ASSUME NEW a \in Texts, NEW b \in Texts, NEW c \in Texts
  PROVE  (a \o b) \o c = a \o (b \o c)
  BY ConcatAssociative DEF Texts

(* Blanks before a text that begins with something else are skipped.       *)
LEMMA BlanksSkipped ==
  ASSUME NEW g, IsBlank(g), NEW b \in Texts, ~Begins(b, White)
  PROVE  SkipWhite[g \o b] = b
  <1>0. g \in Texts
    BY DEF IsBlank
  <1>1. PICK s : s = g \o b
    OBVIOUS
  <1>2. /\ s \in Texts /\ Len(s) = Len(g) + Len(b)
        /\ \A i \in 1..Len(g) : s[i] = g[i]
        /\ \A i \in 1..Len(b) : s[Len(g) + i] = b[i]
        /\ Rest(s, Len(g)) = b
    BY <1>0, <1>1, JoinOfTexts
  <1>3. PICK n : n = Span(s, White)
    OBVIOUS
  <1>4. /\ n \in 0..Len(s)
        /\ \A i \in 1..n : s[i] \in White
        /\ n < Len(s) => s[n + 1] \notin White
    BY <1>2, <1>3, SpanIs
  <1>5. Len(g) \in Nat /\ Len(b) \in Nat /\ (b = <<>> <=> Len(b) = 0)
    BY <1>0, LengthOfText
  <1>6. ~(n < Len(g))
    <2>1. SUFFICES ASSUME n < Len(g) PROVE FALSE
      OBVIOUS
    <2>2. n + 1 \in 1..Len(g) /\ n < Len(s)
      BY <1>2, <1>4, <1>5, <2>1
    <2> QED BY <1>2, <1>4, <2>2 DEF IsBlank
  <1>7. ~(n > Len(g))
    <2>1. SUFFICES ASSUME n > Len(g) PROVE FALSE
      OBVIOUS
    <2>2. 1 \in 1..Len(b) /\ Len(g) + 1 \in 1..n
      BY <1>2, <1>4, <1>5, <2>1
    <2>3. b[1] \notin White
      BY <1>5, <2>2 DEF Begins
    <2> QED BY <1>2, <1>4, <2>2, <2>3
  <1>8. n = Len(g)
    BY <1>4, <1>5, <1>6, <1>7
  <1>9. SkipWhite[s] = Rest(s, n)
    BY <1>2, <1>3 DEF SkipWhite, Texts
  <1> QED BY <1>1, <1>2, <1>8, <1>9

-----------------------------------------------------------------------------
(* A value, in each way it may be written.                                 *)
AfterValue == White \cup {"~", "|"}

LEMMA PunctuationIs ==
  /\ Punctuation \subseteq Symbols /\ White \subseteq Symbols
  /\ \A x \in Punctuation : <<x>> \in Texts /\ Len(<<x>>) = 1 /\ <<x>>[1] = x /\ <<x>> # <<>>
  /\ White \cap Punctuation = {}
  <1>1. Punctuation \subseteq Symbols /\ White \subseteq Symbols
    BY PunctuationAssumption, SymbolAssumption DEF White
  <1>2. ASSUME NEW x \in Punctuation
        PROVE  <<x>> \in Texts /\ Len(<<x>>) = 1 /\ <<x>>[1] = x /\ <<x>> # <<>>
    BY <1>1, OneSymbol
  <1>3. White \cap Punctuation = {}
    BY DEF White, Punctuation
  <1> QED BY <1>1, <1>2, <1>3

LEMMA KindsOfValues ==
  ASSUME NEW v \in ReadValues, Expressible(v)
  PROVE  \/ /\ v.kind = "vkString" /\ v.sval \in Texts /\ v = String(v.sval)
            /\ ~Holds(v.sval, QuotationMark) /\ Len(v.sval) <= MAX_STRING_SIZE
         \/ v.kind = "vkInteger" /\ v = Integer(v.ival)
         \/ v.kind = "vkFloating" /\ v = Floating(v.dval)
  <1>1. v.kind # "vkVoid"
    BY DEF Expressible
  <1>2. \/ v.kind = "vkString" /\ v.sval \in Texts /\ v = String(v.sval)
        \/ v.kind = "vkInteger" /\ v = Integer(v.ival)
        \/ v.kind = "vkFloating" /\ v = Floating(v.dval)
    BY <1>1 DEF ReadValues, String, Integer, Floating
  <1> QED BY <1>2 DEF Expressible

LEMMA QuotedIs ==
  ASSUME NEW t \in Texts, ~Holds(t, QuotationMark), Len(t) <= MAX_STRING_SIZE, NEW u \in Texts
  PROVE  QuotedValue((<<QuotationMark>> \o t \o <<QuotationMark>>) \o u) = Read(String(t), u)
  <1>0. QuotationMark \in Symbols
    BY PunctuationIs DEF Punctuation
  <1>1. PICK q : q = <<QuotationMark>>
    OBVIOUS
  <1>2. q \in Texts /\ Len(q) = 1 /\ q[1] = QuotationMark /\ q # <<>>
    BY <1>1, PunctuationIs DEF Punctuation
  <1>3. Len(t) \in Nat /\ Len(u) \in Nat
    BY LengthOfText
  <1>4. PICK r : r = q \o u
    OBVIOUS
  <1>5. r \in Texts /\ Len(r) = 1 + Len(u) /\ Begins(r, Quote) /\ Rest(r, 1) = u
    BY <1>0, <1>1, <1>4, SymbolBefore DEF Quote
  <1>6. PICK b : b = t \o r
    OBVIOUS
  <1>7. b \in Texts /\ Len(b) = Len(t) + Len(r)
        /\ (\A i \in 1..Len(t) : b[i] = t[i]) /\ Rest(b, Len(t)) = r
    BY <1>5, <1>6, JoinOfTexts
  <1>8. PICK s : s = q \o b
    OBVIOUS
  <1>9. /\ s \in Texts /\ Len(s) = 1 + Len(b)
        /\ \A i \in 1..Len(b) : s[1 + i] = b[i]
        /\ Rest(s, 1) = b
    <2>1. s = <<QuotationMark>> \o b
      BY <1>1, <1>8
    <2>2. s \in Texts /\ Len(s) = 1 + Len(b) /\ Rest(s, 1) = b
      BY <1>0, <1>7, <2>1, SymbolBefore
    <2>3. \A i \in 1..Len(b) : s[1 + i] = b[i]
      BY <1>0, <1>7, <2>1, SymbolBefore
    <2> QED BY <2>2, <2>3
  <1>10. (q \o t \o q) \o u = s
    <2>1. q \o t \in Texts /\ (q \o t) \o q \in Texts
      BY <1>2, JoinOfTexts
    <2>2. ((q \o t) \o q) \o u = (q \o t) \o r
      BY <1>2, <1>4, <2>1, JoinInTurn
    <2>3. (q \o t) \o r = q \o (t \o r)
      <3>1. q \in Texts /\ t \in Texts /\ r \in Texts
        BY <1>2, <1>5
      <3> QED BY ONLY <3>1, JoinInTurn
    <2>4. q \o (t \o r) = s
      BY <1>6, <1>8
    <2> QED BY <2>2, <2>3, <2>4
  <1>11. UpTo(Rest(s, 1), Quote) = Len(t)
    <2>1. Avoids(t, Quote)
      BY LengthOfText DEF Avoids, Quote, Holds
    <2>2. Stops(r, Quote)
      BY <1>5 DEF Stops
    <2>3. UpTo(b, Quote) = Len(t)
      BY <1>5, <1>6, <2>1, <2>2, UpToJoin
    <2> QED BY <1>9, <2>3
  <1>12. QuotedLength(s) = Len(t) + 2
    BY <1>3, <1>5, <1>7, <1>9, <1>11 DEF QuotedLength
  <1>13. SubSeq(s, 2, Len(t) + 1) = t
    <2>1. /\ SubSeq(s, 2, Len(t) + 1) \in Texts
          /\ Len(SubSeq(s, 2, Len(t) + 1)) = Len(t)
      <3>1. Len(t) + 1 \in Nat /\ Len(t) + 1 <= Len(s) /\ 2 \in Nat \ {0}
        BY <1>3, <1>5, <1>7, <1>9
      <3> QED BY <1>3, <1>9, <3>1, PartOfText
    <2>2. ASSUME NEW i \in 1..Len(t) PROVE SubSeq(s, 2, Len(t) + 1)[i] = t[i]
      <3>1. /\ i \in 1..(Len(t) + 1 - 2 + 1) /\ 2 + i - 1 = 1 + i
            /\ i \in 1..Len(b)
        BY <1>3, <1>5, <1>7
      <3>2. \A j \in 2..(Len(t) + 1) : s[j] \in Symbols
        <4>1. \A j \in 2..(Len(t) + 1) : j \in 1..Len(s)
          BY <1>3, <1>5, <1>7, <1>9
        <4> QED BY <1>9, <4>1, LengthOfText
      <3>3. \A j \in 1..(Len(t) + 1 - 2 + 1) : SubSeq(s, 2, Len(t) + 1)[j] = s[2 + j - 1]
        BY <1>3, <3>2, SubSeqProperties
      <3> QED BY <1>7, <1>9, <3>1, <3>3
    <2> QED BY <2>1, <2>2, EqualTexts
  <1>14. Rest(s, Len(t) + 2) = u
    <2>1. Rest(Rest(Rest(s, 1), Len(t)), 1) = u
      BY <1>5, <1>7, <1>9
    <2>2. Rest(Rest(s, 1), Len(t)) = Rest(s, 1 + Len(t))
      BY <1>3, <1>9, RestOfRest
    <2>3. Rest(Rest(s, 1 + Len(t)), 1) = Rest(s, (1 + Len(t)) + 1)
      <3>1. 1 + Len(t) \in Nat /\ 1 \in Nat
        BY <1>3
      <3> QED BY <1>9, <3>1, RestOfRest
    <2>4. (1 + Len(t)) + 1 = Len(t) + 2
      BY <1>3
    <2> QED BY <2>1, <2>2, <2>3, <2>4
  <1>15. QuotedValue(s) = Read(String(t), u)
    <2>1. QuotedLength(s) - 2 = Len(t) /\ Len(t) \in 0..MAX_STRING_SIZE
          /\ ~(Len(t) < 0) /\ ~(Len(t) > MAX_STRING_SIZE)
      BY <1>3, <1>12, SizeAssumption
    <2> QED BY <1>12, <1>13, <1>14, <2>1 DEF QuotedValue
  <1> QED BY <1>1, <1>10, <1>15

LEMMA PlainIs ==
  ASSUME NEW x \in Texts, x # <<>>, Avoids(x, AfterValue), NEW u \in Texts, Stops(u, AfterValue)
  PROVE  PlainValue(x \o u) =
           IF x \in DOMAIN Long THEN Read(Integer(Long[x]), u)
           ELSE IF x \in DOMAIN Double THEN Read(Floating(Double[x]), u)
           ELSE IF Len(x) > MAX_STRING_SIZE THEN Error
           ELSE Read(String(x), u)
  <1>1. PICK s : s = x \o u
    OBVIOUS
  <1>2. UpTo(s, White \cup {"~", "|"}) = Len(x)
    BY <1>1, UpToJoin DEF AfterValue
  <1>3. Prefix(s, Len(x)) = x /\ Rest(s, Len(x)) = u
    BY <1>1, PrefixOfJoin, JoinOfTexts
  <1>4. x \in DOMAIN Long => x \notin DOMAIN Double
    BY NumberAssumption
  <1> QED BY <1>1, <1>2, <1>3, <1>4 DEF PlainValue

(* A value is written in quotes, or plainly when it is clear without them. *)
NotFirst == {"[", "<", ">", "=", "/"}

InQuotes(t) == <<QuotationMark>> \o t \o <<QuotationMark>>

MeansPlainly(x) == IF x \in DOMAIN Long THEN Integer(Long[x])
                   ELSE IF x \in DOMAIN Double THEN Floating(Double[x])
                   ELSE String(x)

IsPlain(x) == /\ x \in Texts /\ x # <<>>
              /\ Avoids(x, AfterValue) /\ ~Begins(x, Quote \cup NotFirst)
              /\ x \notin DOMAIN Long \cup DOMAIN Double => ~(Len(x) > MAX_STRING_SIZE)

LEMMA NumeralIs ==
  ASSUME NEW x \in DOMAIN Long \cup DOMAIN Double
  PROVE  IsPlain(x)
  <1>1. x \in Texts /\ x # <<>> /\ \A k \in DOMAIN x : x[k] \notin White \cup Punctuation
    BY NumeralAssumption
  <1>2. Len(x) \in Nat \ {0} /\ DOMAIN x = 1..Len(x)
    BY <1>1, LengthOfText
  <1>3. AfterValue \subseteq White \cup Punctuation
        /\ Quote \cup NotFirst \subseteq White \cup Punctuation
    BY Zenon DEF AfterValue, Punctuation, Quote, NotFirst
  <1>4. Avoids(x, AfterValue)
    BY <1>1, <1>2, <1>3 DEF Avoids
  <1>5. ~Begins(x, Quote \cup NotFirst)
    <2>1. 1 \in DOMAIN x
      BY <1>2
    <2> QED BY <1>1, <1>3, <2>1 DEF Begins
  <1> QED BY <1>1, <1>4, <1>5 DEF IsPlain

LEMMA WaysToWrite ==
  ASSUME NEW v \in ReadValues, Expressible(v), NEW x \in Value(v)
  PROVE  \/ /\ v.sval \in Texts /\ ~Holds(v.sval, QuotationMark)
            /\ Len(v.sval) <= MAX_STRING_SIZE
            /\ v = String(v.sval) /\ x = InQuotes(v.sval)
         \/ IsPlain(x) /\ v = MeansPlainly(x)
  <1>1. CASE /\ v.kind = "vkString" /\ v.sval \in Texts /\ v = String(v.sval)
             /\ ~Holds(v.sval, QuotationMark) /\ Len(v.sval) <= MAX_STRING_SIZE
    <2>1. x \in {InQuotes(v.sval)} \cup (IF NeedsQuotes(v.sval) THEN {} ELSE {v.sval})
      BY <1>1 DEF Value, InQuotes
    <2>2. CASE x = InQuotes(v.sval)
      BY <1>1, <2>2
    <2>3. CASE x = v.sval /\ ~NeedsQuotes(x)
      <3>1. /\ x # <<>> /\ x \notin DOMAIN Long /\ x \notin DOMAIN Double
            /\ \A k \in DOMAIN x : x[k] \notin White \cup {"~", "|"}
            /\ x[1] \notin NotFirst
        BY <2>3, Zenon DEF NeedsQuotes, NotFirst
      <3>2. x \in Texts /\ Len(x) \in Nat \ {0} /\ DOMAIN x = 1..Len(x)
        BY <1>1, <2>3, <3>1, LengthOfText
      <3>3. x[1] \notin Quote
        <4>1. 1 \in DOMAIN x
          BY <3>2
        <4> QED BY <1>1, <2>3, <4>1 DEF Holds, Quote
      <3>4. ~(Len(x) > MAX_STRING_SIZE)
        BY <1>1, <2>3, <3>2, SizeAssumption
      <3>5. IsPlain(x)
        BY <3>1, <3>2, <3>3, <3>4 DEF IsPlain, Avoids, AfterValue, Begins
      <3> QED BY <1>1, <2>3, <3>1, <3>5 DEF MeansPlainly
    <2> QED BY <2>1, <2>2, <2>3
  <1>2. CASE v.kind = "vkInteger" /\ v = Integer(v.ival)
    <2>1. x \in DOMAIN Long /\ Long[x] = v.ival
      BY <1>2 DEF Value
    <2> QED BY <1>2, <2>1, NumeralIs DEF MeansPlainly
  <1>3. CASE v.kind = "vkFloating" /\ v = Floating(v.dval)
    <2>1. x \in DOMAIN Double /\ Double[x] = v.dval
      BY <1>3 DEF Value
    <2>2. x \notin DOMAIN Long
      BY <2>1, NumberAssumption
    <2> QED BY <1>3, <2>1, <2>2, NumeralIs DEF MeansPlainly
  <1> QED BY <1>1, <1>2, <1>3, KindsOfValues

LEMMA InQuotesIs ==
  ASSUME NEW t \in Texts
  PROVE  /\ InQuotes(t) \in Texts /\ InQuotes(t) # <<>>
         /\ InQuotes(t)[1] = QuotationMark
  <1>1. QuotationMark \in Symbols
    BY PunctuationIs DEF Punctuation
  <1>2. <<QuotationMark>> \in Texts
    BY <1>1, OneSymbol
  <1>3. PICK a : a = <<QuotationMark>> \o t
    OBVIOUS
  <1>4. a \in Texts /\ a # <<>> /\ a[1] = QuotationMark
    BY <1>1, <1>3, SymbolBefore
  <1>5. InQuotes(t) = a \o <<QuotationMark>>
    BY <1>3 DEF InQuotes
  <1> QED BY <1>2, <1>4, <1>5, JoinOfTexts, JoinBegins

LEMMA ValueText ==
  ASSUME NEW v \in ReadValues, Expressible(v), NEW x \in Value(v)
  PROVE  x \in Texts /\ x # <<>> /\ x[1] \notin White \cup NotFirst
  <1>1. CASE /\ v.sval \in Texts /\ x = InQuotes(v.sval)
    <2>1. QuotationMark \notin White \cup NotFirst
      BY Zenon DEF QuotationMark, White, NotFirst
    <2> QED BY <1>1, <2>1, InQuotesIs
  <1>2. CASE IsPlain(x)
    <2>1. Len(x) \in Nat \ {0}
      BY <1>2, LengthOfText DEF IsPlain
    <2> QED BY <1>2, <2>1 DEF IsPlain, Avoids, AfterValue, Begins
  <1> QED BY <1>1, <1>2, WaysToWrite

LEMMA ValueIs ==
  ASSUME NEW v \in ReadValues, Expressible(v), NEW x \in Value(v),
         NEW g, IsBlank(g), NEW u \in Texts, Stops(u, AfterValue)
  PROVE  parse_value[g \o (x \o u)] = Read(v, u)
  <1>1. PICK s : s = x \o u
    OBVIOUS
  <1>2. x \in Texts /\ x # <<>> /\ x[1] \notin White
    BY ValueText
  <1>3. s \in Texts /\ s # <<>> /\ s[1] = x[1]
    BY <1>1, <1>2, JoinOfTexts, JoinBegins
  <1>4. g \o s \in Texts /\ SkipWhite[g \o s] = s
    <2>1. ~Begins(s, White) /\ g \in Texts
      BY <1>2, <1>3 DEF Begins, IsBlank
    <2> QED BY <1>3, <2>1, JoinOfTexts, BlanksSkipped
  <1>5. parse_value[g \o s] = IF Begins(s, Quote) THEN QuotedValue(s) ELSE PlainValue(s)
    BY <1>3, <1>4 DEF parse_value
  <1>6. CASE /\ v.sval \in Texts /\ ~Holds(v.sval, QuotationMark)
             /\ Len(v.sval) <= MAX_STRING_SIZE
             /\ v = String(v.sval) /\ x = InQuotes(v.sval)
    <2>1. Begins(s, Quote)
      BY <1>3, <1>6, InQuotesIs DEF Begins, Quote
    <2>2. QuotedValue(s) = Read(v, u)
      BY <1>1, <1>6, QuotedIs DEF InQuotes
    <2> QED BY <1>1, <1>5, <2>1, <2>2
  <1>7. CASE IsPlain(x) /\ v = MeansPlainly(x)
    <2>1. ~Begins(s, Quote)
      BY <1>2, <1>3, <1>7 DEF IsPlain, Begins
    <2>2. PlainValue(s) = Read(v, u)
      BY <1>1, <1>7, PlainIs DEF IsPlain, MeansPlainly
    <2> QED BY <1>1, <1>5, <2>1, <2>2
  <1> QED BY <1>6, <1>7, WaysToWrite

-----------------------------------------------------------------------------
(* A match item, in each way it may be written.                            *)
LEMMA StartsIs ==
  ASSUME NEW s \in Texts, NEW T, NEW t \in Seq(T)
  PROVE  StartsWith(s, t) <=> Len(t) <= Len(s) /\ \A i \in 1..Len(t) : s[i] = t[i]
  <1>1. Len(s) \in Nat /\ Len(t) \in Nat /\ DOMAIN t = 1..Len(t)
    BY LengthOfText, LenProperties
  <1>2. CASE Len(t) <= Len(s)
    <2>1. PICK p : p = Prefix(s, Len(t))
      OBVIOUS
    <2>2. p \in Texts /\ Len(p) = Len(t) /\ \A i \in 1..Len(t) : p[i] = s[i]
      <3>1. Len(t) \in 0..Len(s)
        BY <1>1, <1>2
      <3> QED BY <2>1, <3>1, PartsOfText
    <2>3. ASSUME \A i \in 1..Len(t) : s[i] = t[i] PROVE p = t
      <3>1. p \in Seq(Symbols) /\ t \in Seq(T)
        BY <2>2 DEF Texts
      <3>2. p = [i \in 1..Len(p) |-> p[i]] /\ t = [i \in 1..Len(t) |-> t[i]]
        BY <3>1
      <3> QED BY <2>2, <2>3, <3>2
    <2> QED BY <1>2, <2>1, <2>2, <2>3 DEF StartsWith
  <1>3. CASE ~(Len(t) <= Len(s))
    BY <1>3 DEF StartsWith
  <1> QED BY <1>2, <1>3

(* Which operators a text begins with.                                     *)
OperatorsFound(s) == {e \in DOMAIN comparison_operators :
                        StartsWith(s, comparison_operators[e].symbols)}

LEMMA OperatorsOf ==
  ASSUME NEW s \in Texts, s # <<>>
  PROVE  /\ OperatorsFound(s) \subseteq 1..6
         /\ 1 \in OperatorsFound(s) <=> Len(s) >= 2 /\ s[1] = "/" /\ s[2] = "="
         /\ 2 \in OperatorsFound(s) <=> Len(s) >= 2 /\ s[1] = "<" /\ s[2] = "="
         /\ 3 \in OperatorsFound(s) <=> Len(s) >= 2 /\ s[1] = ">" /\ s[2] = "="
         /\ 4 \in OperatorsFound(s) <=> s[1] = "="
         /\ 5 \in OperatorsFound(s) <=> s[1] = "<"
         /\ 6 \in OperatorsFound(s) <=> s[1] = ">"
  <1>1. Len(s) \in Nat \ {0}
    BY LengthOfText
  <1>2. DOMAIN comparison_operators = 1..6
    BY DEF comparison_operators
  <1>3. ASSUME NEW x
        PROVE  StartsWith(s, <<x>>) <=> s[1] = x
    <2>1. PICK t : t = <<x>>
      OBVIOUS
    <2>2. t \in Seq({x}) /\ Len(t) = 1 /\ t[1] = x
      BY <2>1, OneOf
    <2>3. StartsWith(s, t) <=> Len(t) <= Len(s) /\ \A i \in 1..Len(t) : s[i] = t[i]
      BY <2>2, StartsIs
    <2>4. \A i \in 1..Len(t) : i = 1
      BY <2>2
    <2>5. 1 \in 1..Len(t) /\ Len(t) <= Len(s)
      BY <1>1, <2>2
    <2> QED BY <2>1, <2>2, <2>3, <2>4, <2>5
  <1>4. ASSUME NEW x, NEW y
        PROVE  StartsWith(s, <<x, y>>) <=> Len(s) >= 2 /\ s[1] = x /\ s[2] = y
    <2>1. PICK t : t = <<x, y>>
      OBVIOUS
    <2>2. t \in Seq({x, y}) /\ Len(t) = 2 /\ t[1] = x /\ t[2] = y
      <3>1. \A S : x \in S /\ y \in S => <<x, y>> \in Seq(S)
        OBVIOUS
      <3> QED BY <2>1, <3>1
    <2>3. StartsWith(s, t) <=> Len(t) <= Len(s) /\ \A i \in 1..Len(t) : s[i] = t[i]
      BY <2>2, StartsIs
    <2>4. \A i \in 1..Len(t) : i = 1 \/ i = 2
      BY <2>2
    <2>5. 1 \in 1..Len(t) /\ 2 \in 1..Len(t) /\ (Len(t) <= Len(s) <=> Len(s) >= 2)
      BY <1>1, <2>2
    <2> QED BY <2>1, <2>2, <2>3, <2>4, <2>5
  <1>5. /\ comparison_operators[1].symbols = <<"/", "=">>
        /\ comparison_operators[2].symbols = <<"<", "=">>
        /\ comparison_operators[3].symbols = <<">", "=">>
        /\ comparison_operators[4].symbols = <<"=">>
        /\ comparison_operators[5].symbols = <<"<">>
        /\ comparison_operators[6].symbols = <<">">>
    BY DEF comparison_operators, Operator
  <1>6. ASSUME NEW e
        PROVE  e \in OperatorsFound(s) <=>
                 e \in 1..6 /\ StartsWith(s, comparison_operators[e].symbols)
    BY <1>2 DEF OperatorsFound
  <1>7. /\ 1 \in OperatorsFound(s) <=> StartsWith(s, <<"/", "=">>)
        /\ 2 \in OperatorsFound(s) <=> StartsWith(s, <<"<", "=">>)
        /\ 3 \in OperatorsFound(s) <=> StartsWith(s, <<">", "=">>)
        /\ 4 \in OperatorsFound(s) <=> StartsWith(s, <<"=">>)
        /\ 5 \in OperatorsFound(s) <=> StartsWith(s, <<"<">>)
        /\ 6 \in OperatorsFound(s) <=> StartsWith(s, <<">">>)
    BY <1>5, <1>6
  <1>8. OperatorsFound(s) \subseteq 1..6
    BY <1>6
  <1> HIDE DEF OperatorsFound
  <1> QED BY <1>3, <1>4, <1>7, <1>8

LEMMA QualifiersAre ==
  ASSUME NEW c \in Comparisons
  PROVE  /\ Qualifier(c) \in Texts /\ Qualifier(c) # <<>>
         /\ Qualifier(c)[1] \in {"<", ">", "=", "/"}
         /\ \E e \in 1..6 : /\ comparison_operators[e] = Operator(Qualifier(c), c)
                            /\ e = 1 => Qualifier(c) = <<"/", "=">>
                            /\ e = 2 => Qualifier(c) = <<"<", "=">>
                            /\ e = 3 => Qualifier(c) = <<">", "=">>
                            /\ e = 4 => Qualifier(c) = <<"=">>
                            /\ e = 5 => Qualifier(c) = <<"<">>
                            /\ e = 6 => Qualifier(c) = <<">">>
  <1>1. {"<", ">", "=", "/"} \subseteq Symbols
    BY PunctuationIs DEF Punctuation
  <1>2. ASSUME NEW x \in Symbols PROVE <<x>> \in Texts /\ <<x>> # <<>> /\ <<x>>[1] = x
    BY OneSymbol
  <1>3. ASSUME NEW x \in Symbols, NEW y \in Symbols
        PROVE  <<x, y>> \in Texts /\ <<x, y>> # <<>> /\ <<x, y>>[1] = x
    BY DEF Texts
  <1>4. c = "ckNotEqual" => /\ Qualifier(c) = <<"/", "=">>
                            /\ comparison_operators[1] = Operator(<<"/", "=">>, c)
    BY DEF Qualifier, comparison_operators
  <1>5. c = "ckLessThanEqual" => /\ Qualifier(c) = <<"<", "=">>
                                 /\ comparison_operators[2] = Operator(<<"<", "=">>, c)
    BY DEF Qualifier, comparison_operators
  <1>6. c = "ckGreaterThanEqual" => /\ Qualifier(c) = <<">", "=">>
                                    /\ comparison_operators[3] = Operator(<<">", "=">>, c)
    BY DEF Qualifier, comparison_operators
  <1>7. c = "ckEqual" => /\ Qualifier(c) = <<"=">>
                         /\ comparison_operators[4] = Operator(<<"=">>, c)
    BY DEF Qualifier, comparison_operators
  <1>8. c = "ckLessThan" => /\ Qualifier(c) = <<"<">>
                            /\ comparison_operators[5] = Operator(<<"<">>, c)
    BY DEF Qualifier, comparison_operators
  <1>9. c = "ckGreaterThan" => /\ Qualifier(c) = <<">">>
                               /\ comparison_operators[6] = Operator(<<">">>, c)
    BY DEF Qualifier, comparison_operators
  <1>10. c \in {"ckNotEqual", "ckLessThanEqual", "ckGreaterThanEqual",
                "ckEqual", "ckLessThan", "ckGreaterThan"}
    BY DEF Comparisons
  <1>11. 1 # 2 /\ 1 \in 1..6 /\ 2 \in 1..6 /\ 3 \in 1..6 /\ 4 \in 1..6 /\ 5 \in 1..6 /\ 6 \in 1..6
    OBVIOUS
  <1>12. CASE c = "ckNotEqual"
    BY <1>1, <1>3, <1>4, <1>11, <1>12
  <1>13. CASE c = "ckLessThanEqual"
    BY <1>1, <1>3, <1>5, <1>11, <1>13
  <1>14. CASE c = "ckGreaterThanEqual"
    BY <1>1, <1>3, <1>6, <1>11, <1>14
  <1>15. CASE c = "ckEqual"
    BY <1>1, <1>2, <1>7, <1>11, <1>15
  <1>16. CASE c = "ckLessThan"
    BY <1>1, <1>2, <1>8, <1>11, <1>16
  <1>17. CASE c = "ckGreaterThan"
    BY <1>1, <1>2, <1>9, <1>11, <1>17
  <1> QED BY <1>10, <1>12, <1>13, <1>14, <1>15, <1>16, <1>17

(* The operator that is written is the one found, unless what follows it   *)
(* makes another one of it.                                                *)
LEMMA OperatorIs ==
  ASSUME NEW c \in Comparisons, NEW y \in Texts, ~Begins(y, {"="}),
         NEW g, IsBlank(g)
  PROVE  parse_match[g \o (Qualifier(c) \o y)] = ComparedItem(Operator(Qualifier(c), c), y)
  <1>1. PICK q : q = Qualifier(c)
    OBVIOUS
  <1>2. PICK e \in 1..6 :
          /\ comparison_operators[e] = Operator(q, c)
          /\ e = 1 => q = <<"/", "=">>
          /\ e = 2 => q = <<"<", "=">>
          /\ e = 3 => q = <<">", "=">>
          /\ e = 4 => q = <<"=">>
          /\ e = 5 => q = <<"<">>
          /\ e = 6 => q = <<">">>
    BY <1>1, QualifiersAre
  <1>3. q \in Texts /\ q # <<>> /\ q[1] \in {"<", ">", "=", "/"} /\ Len(q) \in Nat \ {0}
    BY <1>1, QualifiersAre, LengthOfText
  <1>4. PICK s : s = q \o y
    OBVIOUS
  <1>5. /\ s \in Texts /\ Len(s) = Len(q) + Len(y) /\ Rest(s, Len(q)) = y
        /\ \A i \in 1..Len(q) : s[i] = q[i]
        /\ \A i \in 1..Len(y) : s[Len(q) + i] = y[i]
        /\ s # <<>>
    BY <1>3, <1>4, JoinOfTexts, JoinBegins
  <1>6. Len(y) \in Nat /\ (y = <<>> <=> Len(y) = 0) /\ (Len(y) >= 1 => y[1] # "=")
    BY LengthOfText DEF Begins
  <1>7. s[1] = q[1]
    BY <1>3, <1>5
  <1>8. e \in {4, 5, 6} => Len(q) = 1 /\ (Len(s) >= 2 => s[2] # "=")
    <2>1. SUFFICES ASSUME e \in {4, 5, 6} PROVE Len(q) = 1 /\ (Len(s) >= 2 => s[2] # "=")
      OBVIOUS
    <2>2. Len(q) = 1
      <3>1. q = <<"=">> \/ q = <<"<">> \/ q = <<">">>
        BY <1>2, <2>1
      <3>2. Len(<<"=">>) = 1 /\ Len(<<"<">>) = 1 /\ Len(<<">">>) = 1
        OBVIOUS
      <3> QED BY <3>1, <3>2
    <2>3. ASSUME Len(s) >= 2 PROVE s[2] # "="
      <3>1. 1 \in 1..Len(y) /\ Len(y) >= 1
        BY <1>5, <1>6, <2>2, <2>3
      <3>2. s[Len(q) + 1] = y[1]
        BY <1>5, <3>1
      <3> QED BY <1>6, <2>2, <3>1, <3>2
    <2> QED BY <2>2, <2>3
  <1>9. e \in {1, 2, 3} => Len(q) = 2 /\ Len(s) >= 2 /\ s[2] = "="
    <2>1. SUFFICES ASSUME e \in {1, 2, 3} PROVE Len(q) = 2 /\ Len(s) >= 2 /\ s[2] = "="
      OBVIOUS
    <2>2. Len(q) = 2 /\ q[2] = "="
      <3>1. q = <<"/", "=">> \/ q = <<"<", "=">> \/ q = <<">", "=">>
        BY <1>2, <2>1
      <3>2. Len(<<"/", "=">>) = 2 /\ Len(<<"<", "=">>) = 2 /\ Len(<<">", "=">>) = 2
        OBVIOUS
      <3> QED BY <3>1, <3>2
    <2>3. 2 \in 1..Len(q)
      BY <2>2
    <2> QED BY <1>5, <1>6, <2>2, <2>3
  <1>10. /\ e = 1 => s[1] = "/"
         /\ e = 2 => s[1] = "<"
         /\ e = 3 => s[1] = ">"
         /\ e = 4 => s[1] = "="
         /\ e = 5 => s[1] = "<"
         /\ e = 6 => s[1] = ">"
    BY <1>2, <1>7
  <1>11. PICK F : F = OperatorsFound(s)
    OBVIOUS
  <1>12. /\ F \subseteq 1..6
         /\ 1 \in F <=> Len(s) >= 2 /\ s[1] = "/" /\ s[2] = "="
         /\ 2 \in F <=> Len(s) >= 2 /\ s[1] = "<" /\ s[2] = "="
         /\ 3 \in F <=> Len(s) >= 2 /\ s[1] = ">" /\ s[2] = "="
         /\ 4 \in F <=> s[1] = "="
         /\ 5 \in F <=> s[1] = "<"
         /\ 6 \in F <=> s[1] = ">"
    BY <1>5, <1>11, OperatorsOf
  <1>13. e \in F /\ \A j \in F : e <= j
    <2>1. e \in {1, 2, 3} \/ e \in {4, 5, 6}
      BY <1>2
    <2>2. \A j \in F : j = 1 \/ j = 2 \/ j = 3 \/ j = 4 \/ j = 5 \/ j = 6
      BY <1>12
    <2>3. CASE e \in {1, 2, 3}
      BY <1>9, <1>10, <1>12, <2>2, <2>3
    <2>4. CASE e \in {4, 5, 6}
      BY <1>8, <1>10, <1>12, <2>2, <2>4
    <2> QED BY <2>1, <2>3, <2>4
  <1>14. Smallest(F) = e
    <2>1. F \in SUBSET Nat
      BY <1>12
    <2> QED BY <1>13, <2>1, SmallestIs
  <1>15. g \o s \in Texts /\ SkipWhite[g \o s] = s
    <2>1. White \cap {"<", ">", "=", "/"} = {}
      BY PunctuationIs DEF Punctuation
    <2>2. ~Begins(s, White) /\ g \in Texts
      BY <1>3, <1>7, <2>1 DEF Begins, IsBlank
    <2> QED BY <1>5, <2>2, JoinOfTexts, BlanksSkipped
  <1>16. parse_match[g \o s] = ComparedItem(Operator(q, c), y)
    <2>1. Operator(q, c).symbols = q
      BY DEF Operator
    <2>2. s # <<>> /\ F # {}
      BY <1>5, <1>13
    <2>3. parse_match[g \o s] =
            CASE s = <<>> -> Error
              [] s # <<>> /\ F # {} ->
                   ComparedItem(comparison_operators[Smallest(F)],
                     Rest(s, Len(comparison_operators[Smallest(F)].symbols)))
              [] s # <<>> /\ F = {} -> ValueItem(s)
      BY <1>11, <1>15 DEF parse_match, OperatorsFound
    <2>4. parse_match[g \o s] =
            ComparedItem(comparison_operators[Smallest(F)],
              Rest(s, Len(comparison_operators[Smallest(F)].symbols)))
      BY <2>2, <2>3
    <2> QED BY <1>2, <1>5, <1>14, <2>1, <2>4
  <1> QED BY <1>1, <1>4, <1>16

LEMMA NoOperatorIs ==
  ASSUME NEW s \in Texts, s # <<>>, s[1] \notin White \cup {"<", ">", "=", "/"},
         NEW g, IsBlank(g)
  PROVE  parse_match[g \o s] = ValueItem(s)
  <1>1. PICK F : F = OperatorsFound(s)
    OBVIOUS
  <1>2. F = {}
    <2>1. /\ F \subseteq 1..6
          /\ 1 \notin F /\ 2 \notin F /\ 3 \notin F /\ 4 \notin F /\ 5 \notin F /\ 6 \notin F
      BY <1>1, OperatorsOf
    <2>2. \A j \in F : j = 1 \/ j = 2 \/ j = 3 \/ j = 4 \/ j = 5 \/ j = 6
      BY <2>1
    <2> QED BY <2>1, <2>2
  <1>3. g \o s \in Texts /\ SkipWhite[g \o s] = s
    <2>1. ~Begins(s, White) /\ g \in Texts
      BY DEF Begins, IsBlank
    <2> QED BY <2>1, JoinOfTexts, BlanksSkipped
  <1>4. parse_match[g \o s] =
          CASE s = <<>> -> Error
            [] s # <<>> /\ F # {} ->
                 ComparedItem(comparison_operators[Smallest(F)],
                   Rest(s, Len(comparison_operators[Smallest(F)].symbols)))
            [] s # <<>> /\ F = {} -> ValueItem(s)
    BY <1>1, <1>3 DEF parse_match, OperatorsFound
  <1> QED BY <1>2, <1>4

(* Three and five texts and what stands behind them.                       *)
Three(a, b, c)         == a \o b \o c
ThreeAnd(a, b, c, u)   == a \o (b \o (c \o u))
Five(a, b, c, d, e)    == a \o b \o c \o d \o e
FiveAnd(a, b, c, d, e, u) == a \o (b \o (c \o (d \o (e \o u))))

LEMMA JoinThree ==
  ASSUME NEW first \in Texts, NEW second \in Texts, NEW third \in Texts, NEW behind \in Texts
  PROVE  /\ Three(first, second, third) \in Texts
         /\ Three(first, second, third) \o behind = ThreeAnd(first, second, third, behind)
  <1> DEFINE Join(x, y) == x \o y
  <1>1. \A x \in Texts, y \in Texts : Join(x, y) \in Texts
    BY JoinOfTexts
  <1>2. \A x \in Texts, y \in Texts, z \in Texts :
          Join(Join(x, y), z) = Join(x, Join(y, z))
    BY JoinInTurn
  <1> HIDE DEF Join
  <1>3. Join(Join(first, second), third) \in Texts
    BY <1>1
  <1>4. Join(Join(Join(first, second), third), behind) =
        Join(first, Join(second, Join(third, behind)))
    BY <1>1, <1>2
  <1> QED BY <1>3, <1>4 DEF Join, Three, ThreeAnd

LEMMA JoinFive ==
  ASSUME NEW a \in Texts, NEW b \in Texts, NEW c \in Texts, NEW d \in Texts,
         NEW e \in Texts, NEW u \in Texts
  PROVE  /\ Five(a, b, c, d, e) \in Texts
         /\ Five(a, b, c, d, e) \o u = FiveAnd(a, b, c, d, e, u)
  <1>1. PICK p : p = Three(a, b, c)
    OBVIOUS
  <1>2. PICK z : z = d \o (e \o u)
    OBVIOUS
  <1>3. p \in Texts /\ z \in Texts
    BY <1>1, <1>2, JoinThree, JoinOfTexts
  <1>4. Three(p, d, e) \in Texts /\ Three(p, d, e) \o u = ThreeAnd(p, d, e, u)
    BY <1>3, JoinThree
  <1>5. Three(a, b, c) \o z = ThreeAnd(a, b, c, z)
    BY <1>3, JoinThree
  <1>6. Three(p, d, e) = Five(a, b, c, d, e)
    BY <1>1 DEF Three, Five
  <1>7. ThreeAnd(p, d, e, u) = Three(a, b, c) \o z
    BY <1>1, <1>2 DEF ThreeAnd
  <1>8. ThreeAnd(a, b, c, z) = FiveAnd(a, b, c, d, e, u)
    BY <1>2 DEF ThreeAnd, FiveAnd
  <1> QED BY <1>4, <1>5, <1>6, <1>7, <1>8

(* A text whose beginning is blank or not there begins as the rest does,   *)
(* or with a blank.                                                        *)
LEMMA GapBegins ==
  ASSUME NEW g, IsBlank(g), NEW b \in Texts, NEW S, Begins(b, S)
  PROVE  g \o b \in Texts /\ Begins(g \o b, White \cup S)
  <1>1. g \in Texts /\ Len(g) \in Nat /\ (g = <<>> <=> Len(g) = 0)
    BY LengthOfText DEF IsBlank
  <1>2. g \o b \in Texts
    BY <1>1, JoinOfTexts
  <1>3. CASE g = <<>>
    <2>1. g \o b = b
      BY <1>3, JoinWithNone
    <2> QED BY <1>2, <2>1 DEF Begins
  <1>4. CASE g # <<>>
    <2>1. Begins(g, White)
      BY <1>1, <1>4 DEF IsBlank, Begins
    <2>2. Begins(g \o b, White)
      BY <1>1, <1>4, <2>1, JoinBegins
    <2> QED BY <1>2, <2>2 DEF Begins
  <1> QED BY <1>3, <1>4

RangeIs(r) == r = Variant_Range(r.comp, r.lower, r.upper)

LEMMA RangesHave ==
  ASSUME NEW r \in ReadRanges, ExpressibleItem(r)
  PROVE  /\ RangeIs(r) /\ r.lower \in ReadValues /\ Expressible(r.lower)
         /\ r.comp = "ckRange" => r.upper \in ReadValues /\ Expressible(r.upper)
         /\ r.comp # "ckRange" => r.comp \in Comparisons /\ r.upper = Void
  <1>1. /\ r.lower \in ReadValues /\ r.upper \in ReadValues
        /\ r.comp # "ckRange" => r.comp \in Comparisons
    BY DEF ReadRanges, Comparisons
  <1>2. RangeIs(r)
    BY DEF RangeIs, ReadRanges, Variant_Range
  <1> QED BY <1>1, <1>2 DEF ExpressibleItem

(* What may stand behind an item: a blank or a bar, and something that is  *)
(* not a tilde.                                                            *)
ComesNext(u) == /\ u \in Texts /\ Begins(u, White \cup {"|"})
              /\ SkipWhite[u] # <<>> /\ ~Begins(SkipWhite[u], {"~"})

LEMMA FollowerStops ==
  ASSUME NEW u, ComesNext(u)
  PROVE  Stops(u, AfterValue)
  BY DEF ComesNext, Stops, AfterValue, Begins

(* A first value and what stands behind it.                                *)
LEMMA FirstValueIs ==
  ASSUME NEW v \in ReadValues, Expressible(v), NEW x \in Value(v),
         NEW u \in Texts, Stops(u, AfterValue), NEW g, IsBlank(g)
  PROVE  /\ parse_match[g \o (x \o u)] = ValueItem(x \o u)
         /\ parse_value[x \o u] = Read(v, u)
  <1>1. PICK s : s = x \o u
    OBVIOUS
  <1>2. x \in Texts /\ x # <<>> /\ x[1] \notin White \cup NotFirst
    BY ValueText
  <1>3. s \in Texts /\ s # <<>> /\ s[1] = x[1]
    BY <1>1, <1>2, JoinOfTexts, JoinBegins
  <1>4. parse_match[g \o s] = ValueItem(s)
    <2>1. s[1] \notin White \cup {"<", ">", "=", "/"}
      BY <1>2, <1>3 DEF NotFirst
    <2> QED BY <1>3, <2>1, NoOperatorIs
  <1>5. IsBlank(<<>>)
    <2>1. \A k \in 1..0 : FALSE
      OBVIOUS
    <2> QED BY <2>1, NoSymbol DEF IsBlank
  <1>6. parse_value[<<>> \o s] = Read(v, u)
    BY <1>1, <1>5, ValueIs
  <1>7. <<>> \o s = s
    BY <1>3, JoinWithNone
  <1> QED BY <1>1, <1>4, <1>6, <1>7

LEMMA RangeItemIs ==
  ASSUME NEW v \in ReadValues, Expressible(v), NEW x \in Value(v),
         NEW w \in ReadValues, Expressible(w), NEW y \in Value(w),
         NEW gap, IsBlank(gap), NEW g, IsBlank(g), NEW u, ComesNext(u)
  PROVE  LET t == x \o gap \o <<"~">> \o gap \o y
         IN  /\ parse_match[g \o (t \o u)] = Read(Variant_Range("ckRange", v, w), u)
             /\ t \in Texts /\ t # <<>> /\ t[1] = x[1]
  <1>1. x \in Texts /\ x # <<>> /\ y \in Texts /\ y # <<>> /\ gap \in Texts /\ u \in Texts
    BY ValueText DEF IsBlank, ComesNext
  <1>2. PICK m : m = <<"~">> /\ m \in Texts /\ "~" \in Symbols
    BY PunctuationIs DEF Punctuation
  <1>3. PICK z : z = gap \o (y \o u) /\ z \in Texts
    BY <1>1, JoinOfTexts
  <1>4. PICK b : b = m \o z
    OBVIOUS
  <1>5. b \in Texts /\ b # <<>> /\ Rest(b, 1) = z /\ \A S : Begins(b, S) <=> "~" \in S
    <2>1. b = <<"~">> \o z
      BY <1>2, <1>4
    <2> QED BY <1>2, <1>3, <2>1, SymbolBefore, Zenon
  <1>6. PICK c : c = gap \o b
    OBVIOUS
  <1>7. c \in Texts /\ Stops(c, AfterValue)
    BY <1>5, <1>6, GapBegins DEF Stops, AfterValue, Begins
  <1>8. SkipWhite[c] = b
    BY <1>5, <1>6, BlanksSkipped DEF White
  <1>9. /\ parse_match[g \o (x \o c)] = ValueItem(x \o c)
        /\ parse_value[x \o c] = Read(v, c)
    BY <1>7, FirstValueIs
  <1>10. parse_value[z] = Read(w, u)
    BY <1>1, <1>3, FollowerStops, ValueIs
  <1>11. ValueItem(x \o c) = Read(Variant_Range("ckRange", v, w), u)
    <2>1. /\ parse_value[x \o c].outcome = "read" /\ parse_value[x \o c].value = v
          /\ parse_value[x \o c].rest = c
      BY <1>9 DEF Read
    <2>2. /\ parse_value[Rest(b, 1)].outcome = "read" /\ parse_value[Rest(b, 1)].value = w
          /\ parse_value[Rest(b, 1)].rest = u
      BY <1>5, <1>10 DEF Read
    <2>3. Begins(b, {"~"})
      BY <1>5
    <2> QED BY <1>5, <1>8, <2>1, <2>2, <2>3 DEF ValueItem
  <1>12. PICK t : t = Five(x, gap, m, gap, y)
    OBVIOUS
  <1>13. t \in Texts /\ t \o u = x \o c
    <2>1. t \in Texts /\ t \o u = FiveAnd(x, gap, m, gap, y, u)
      <3>1. x \in Texts /\ gap \in Texts /\ m \in Texts /\ y \in Texts /\ u \in Texts
        BY <1>1, <1>2
      <3>2. Five(x, gap, m, gap, y) \in Texts
        BY <3>1, JoinFive
      <3>3. Five(x, gap, m, gap, y) \o u = FiveAnd(x, gap, m, gap, y, u)
        BY <3>1, JoinFive
      <3> QED BY <1>12, <3>2, <3>3
    <2>2. FiveAnd(x, gap, m, gap, y, u) = x \o c
      BY <1>3, <1>4, <1>6 DEF FiveAnd
    <2> QED BY <2>1, <2>2
  <1>14. t # <<>> /\ t[1] = x[1]
    <2>1. PICK p : p = x \o gap
      OBVIOUS
    <2>2. PICK q : q = p \o m
      OBVIOUS
    <2>3. PICK r : r = q \o gap
      OBVIOUS
    <2>4. p \in Texts /\ p # <<>> /\ p[1] = x[1]
      BY <1>1, <2>1, JoinOfTexts, JoinBegins
    <2>5. q \in Texts /\ q # <<>> /\ q[1] = x[1]
      BY <1>2, <2>2, <2>4, JoinOfTexts, JoinBegins
    <2>6. r \in Texts /\ r # <<>> /\ r[1] = x[1]
      BY <1>1, <2>3, <2>5, JoinOfTexts, JoinBegins
    <2>7. t = r \o y
      BY <1>12, <2>1, <2>2, <2>3 DEF Five
    <2> QED BY <1>1, <2>6, <2>7, JoinBegins
  <1>15. t = x \o gap \o <<"~">> \o gap \o y
    BY <1>2, <1>12 DEF Five
  <1> QED BY <1>9, <1>11, <1>13, <1>14, <1>15

LEMMA QualifiedItemIs ==
  ASSUME NEW c \in Comparisons, NEW v \in ReadValues, Expressible(v), NEW x \in Value(v),
         NEW gap, IsBlank(gap), NEW g, IsBlank(g), NEW u, ComesNext(u)
  PROVE  LET t == Qualifier(c) \o gap \o x
         IN  /\ parse_match[g \o (t \o u)] = Read(Variant_Range(c, v, Void), u)
             /\ t \in Texts /\ t # <<>> /\ t[1] \in NotFirst \ {"["}
  <1>1. x \in Texts /\ x # <<>> /\ x[1] \notin NotFirst /\ gap \in Texts /\ u \in Texts
    BY ValueText DEF IsBlank, ComesNext
  <1>2. PICK q : q = Qualifier(c)
    OBVIOUS
  <1>3. q \in Texts /\ q # <<>> /\ q[1] \in {"<", ">", "=", "/"}
    BY <1>2, QualifiersAre
  <1>4. PICK s : s = x \o u
    OBVIOUS
  <1>5. s \in Texts /\ s # <<>> /\ s[1] = x[1]
    BY <1>1, <1>4, JoinOfTexts, JoinBegins
  <1>6. PICK y : y = gap \o s
    OBVIOUS
  <1>7. y \in Texts /\ ~Begins(y, {"="})
    <2>1. Begins(s, Symbols \ {"="})
      <3>1. s[1] # "="
        BY <1>1, <1>5 DEF NotFirst
      <3>2. s[1] \in Symbols
        BY <1>5, LengthOfText
      <3> QED BY <1>5, <3>1, <3>2 DEF Begins
    <2>2. y \in Texts /\ Begins(y, White \cup (Symbols \ {"="}))
      BY <1>5, <1>6, <2>1, GapBegins
    <2>3. "=" \notin White
      BY DEF White
    <2> QED BY <2>2, <2>3 DEF Begins
  <1>8. parse_match[g \o (q \o y)] = ComparedItem(Operator(q, c), y)
    BY <1>2, <1>7, OperatorIs
  <1>9. parse_value[y] = Read(v, u)
    BY <1>1, <1>4, <1>6, FollowerStops, ValueIs
  <1>10. ComparedItem(Operator(q, c), y) = Read(Variant_Range(c, v, Void), u)
    BY <1>9 DEF ComparedItem, Operator, Read
  <1>11. PICK t : t = Three(q, gap, x)
    OBVIOUS
  <1>12. t \in Texts /\ t \o u = q \o y
    <2>1. t \in Texts /\ t \o u = ThreeAnd(q, gap, x, u)
      BY <1>1, <1>3, <1>11, JoinThree
    <2>2. ThreeAnd(q, gap, x, u) = q \o y
      BY <1>4, <1>6 DEF ThreeAnd
    <2> QED BY <2>1, <2>2
  <1>13. t # <<>> /\ t[1] = q[1]
    <2>1. PICK p : p = q \o gap
      OBVIOUS
    <2>2. p \in Texts /\ p # <<>> /\ p[1] = q[1]
      BY <1>1, <1>3, <2>1, JoinOfTexts, JoinBegins
    <2>3. t = p \o x
      BY <1>11, <2>1 DEF Three
    <2> QED BY <1>1, <2>2, <2>3, JoinBegins
  <1>14. t = Qualifier(c) \o gap \o x
    BY <1>2, <1>11 DEF Three
  <1>15. {"<", ">", "=", "/"} \subseteq NotFirst \ {"["}
    BY Zenon DEF NotFirst
  <1> QED BY <1>3, <1>8, <1>10, <1>12, <1>13, <1>14, <1>15

LEMMA EqualItemIs ==
  ASSUME NEW v \in ReadValues, Expressible(v), NEW x \in Value(v),
         NEW g, IsBlank(g), NEW u, ComesNext(u)
  PROVE  parse_match[g \o (x \o u)] = Read(Variant_Range("ckEqual", v, Void), u)
  <1>1. u \in Texts /\ Stops(u, AfterValue) /\ SkipWhite[u] # <<>> /\ ~Begins(SkipWhite[u], {"~"})
    BY FollowerStops DEF ComesNext
  <1>2. PICK s : s = x \o u
    OBVIOUS
  <1>3. parse_match[g \o s] = ValueItem(s) /\ parse_value[s] = Read(v, u)
    BY <1>1, <1>2, FirstValueIs
  <1>4. /\ parse_value[s].outcome = "read" /\ parse_value[s].value = v
        /\ parse_value[s].rest = u
    BY <1>3 DEF Read
  <1>5. ValueItem(s) = Read(Variant_Range("ckEqual", v, Void), u)
    BY <1>1, <1>4 DEF ValueItem
  <1> QED BY <1>2, <1>3, <1>5

(* Whatever way an item is written in, it is what is read.                 *)
LEMMA ItemIs ==
  ASSUME NEW r \in ReadRanges, ExpressibleItem(r), NEW gap, IsBlank(gap),
         NEW t \in Item(r, gap), NEW g, IsBlank(g), NEW u, ComesNext(u)
  PROVE  parse_match[g \o (t \o u)] = Read(r, u)
  <1>1. CASE r.comp = "ckRange"
    <2>1. PICK x \in Value(r.lower), y \in Value(r.upper) :
            t = x \o gap \o <<"~">> \o gap \o y
      BY <1>1 DEF Item
    <2>2. parse_match[g \o (t \o u)] = Read(Variant_Range("ckRange", r.lower, r.upper), u)
      BY <1>1, <2>1, RangesHave, RangeItemIs
    <2> QED BY <1>1, <2>2, RangesHave DEF RangeIs
  <1>2. CASE r.comp # "ckRange"
    <2>1. \/ \E x \in Value(r.lower) : t = Qualifier(r.comp) \o gap \o x
          \/ r.comp = "ckEqual" /\ t \in Value(r.lower)
      BY <1>2 DEF Item
    <2>2. r.lower \in ReadValues /\ Expressible(r.lower) /\ r.comp \in Comparisons
      BY <1>2, RangesHave
    <2>3. CASE \E x \in Value(r.lower) : t = Qualifier(r.comp) \o gap \o x
      <3>1. PICK x \in Value(r.lower) : t = Qualifier(r.comp) \o gap \o x
        BY <2>3
      <3>2. parse_match[g \o (t \o u)] = Read(Variant_Range(r.comp, r.lower, Void), u)
        BY <2>2, <3>1, QualifiedItemIs
      <3> QED BY <1>2, <3>2, RangesHave DEF RangeIs
    <2>4. CASE r.comp = "ckEqual" /\ t \in Value(r.lower)
      <3>1. parse_match[g \o (t \o u)] = Read(Variant_Range("ckEqual", r.lower, Void), u)
        BY <2>2, <2>4, EqualItemIs
      <3> QED BY <1>2, <2>4, <3>1, RangesHave DEF RangeIs
    <2> QED BY <2>1, <2>3, <2>4
  <1> QED BY <1>1, <1>2

LEMMA ItemText ==
  ASSUME NEW r \in ReadRanges, ExpressibleItem(r), NEW gap, IsBlank(gap),
         NEW t \in Item(r, gap)
  PROVE  t \in Texts /\ t # <<>> /\ t[1] \notin White \cup {"["}
  <1>1. PICK u : u = <<" ">> \o <<"|">>
    OBVIOUS
  <1>2. ComesNext(u)
    <2>1. " " \in Symbols /\ "|" \in Symbols
      BY SymbolAssumption, PunctuationIs DEF Punctuation
    <2>2. PICK b : b = <<"|">>
      OBVIOUS
    <2>3. b \in Texts /\ b # <<>> /\ b[1] = "|"
      BY <2>1, <2>2, PunctuationIs DEF Punctuation
    <2>4. PICK a : a = <<" ">>
      OBVIOUS
    <2>5. a \in Texts /\ Len(a) = 1 /\ a[1] = " "
      BY <2>1, <2>4, OneSymbol
    <2>6. IsBlank(a)
      <3>1. \A k \in 1..Len(a) : k = 1
        <4>1. \A k \in 1..1 : k = 1
          OBVIOUS
        <4> QED BY <2>5, <4>1, Zenon
      <3>2. \A k \in 1..Len(a) : a[k] \in White
        BY <2>5, <3>1 DEF White
      <3> QED BY <2>5, <3>2 DEF IsBlank
    <2>7. u \in Texts /\ Begins(u, White)
      <3>1. u = <<" ">> \o b
        BY <1>1, <2>2
      <3> QED BY <2>1, <2>3, <3>1, SymbolBefore DEF White
    <2>8. SkipWhite[u] = b
      <3>1. ~Begins(b, White)
        BY <2>3 DEF Begins, White
      <3> QED BY <1>1, <2>2, <2>3, <2>4, <2>6, <3>1, BlanksSkipped
    <2> QED BY <2>3, <2>7, <2>8 DEF ComesNext, Begins
  <1>3. IsBlank(<<>>)
    <2>1. \A k \in 1..0 : FALSE
      OBVIOUS
    <2> QED BY <2>1, NoSymbol DEF IsBlank
  <1>4. "[" \in NotFirst
    BY Zenon DEF NotFirst
  <1>5. CASE r.comp = "ckRange"
    <2>1. PICK x \in Value(r.lower), y \in Value(r.upper) :
            t = x \o gap \o <<"~">> \o gap \o y
      BY <1>5 DEF Item
    <2>2. t \in Texts /\ t # <<>> /\ t[1] = x[1]
      BY <1>2, <1>3, <1>5, <2>1, RangesHave, RangeItemIs
    <2>3. x[1] \notin White \cup NotFirst
      BY <1>5, RangesHave, ValueText
    <2> QED BY <1>4, <2>2, <2>3
  <1>6. CASE r.comp # "ckRange"
    <2>1. \/ \E x \in Value(r.lower) : t = Qualifier(r.comp) \o gap \o x
          \/ r.comp = "ckEqual" /\ t \in Value(r.lower)
      BY <1>6 DEF Item
    <2>2. CASE \E x \in Value(r.lower) : t = Qualifier(r.comp) \o gap \o x
      <3>1. t \in Texts /\ t # <<>> /\ t[1] \in NotFirst \ {"["}
        BY <1>2, <1>3, <1>6, <2>2, RangesHave, QualifiedItemIs
      <3>2. NotFirst \cap White = {}
        BY Zenon DEF NotFirst, White
      <3> QED BY <3>1, <3>2
    <2>3. CASE t \in Value(r.lower)
      BY <1>4, <1>6, <2>3, RangesHave, ValueText
    <2> QED BY <2>1, <2>2, <2>3
  <1> QED BY <1>5, <1>6

-----------------------------------------------------------------------------
(* Texts joined with something between them.                               *)
LEMMA StepByStep ==
  ASSUME NEW n \in Nat, NEW P, 1 \in P, \A k \in 1..(n - 1) : k \in P => k + 1 \in P
  PROVE  \A k \in 1..n : k \in P
  <1> DEFINE out == {k \in 1..n : k \notin P}
             k == Smallest(out)
  <1>1. SUFFICES ASSUME out # {} PROVE FALSE
    OBVIOUS
  <1>2. k \in out /\ \A j \in out : k <= j
    <2>1. out \in SUBSET Nat
      OBVIOUS
    <2> HIDE DEF out
    <2> QED BY <1>1, <2>1, SmallestExists
  <1> HIDE DEF k
  <1>3. k \in 1..n /\ k \notin P /\ k # 1
    BY <1>2
  <1>4. k - 1 \in 1..(n - 1) /\ k - 1 \in 1..n /\ (k - 1) + 1 = k /\ ~(k <= k - 1)
    BY <1>3
  <1>5. k - 1 \in P
    BY <1>2, <1>4
  <1> QED BY <1>3, <1>4, <1>5

JoinedBy(f, texts, between) ==
  /\ f \in [1..Len(texts) -> Texts] /\ f[1] = texts[1]
  /\ \A k \in 1..(Len(texts) - 1) : f[k + 1] = f[k] \o between \o texts[k + 1]

LEMMA JoinedIs ==
  ASSUME NEW texts \in Seq(Texts), texts # <<>>, NEW between \in Texts
  PROVE  \E f : JoinedBy(f, texts, between) /\ Joined(texts, between) = f[Len(texts)]
  <1> DEFINE n == Len(texts)
             Next1(v, k) == IF k = 0 THEN <<>> ELSE IF k = 1 THEN texts[1]
                            ELSE v[k - 1] \o between \o texts[k]
             joined == CHOOSE v : v = [k \in 0..n |-> Next1(v, k)]
             step == [x \in (1..n) \X Texts |->
                        IF x[1] = 1 THEN texts[1] ELSE x[2] \o between \o texts[x[1]]]
  <1>1. n \in Nat \ {0} /\ \A k \in 1..n : texts[k] \in Texts
    BY LenProperties, ElementOfSeq, EmptySeq
  <1>2. Joined(texts, between) = joined[n]
    BY DEF Joined
  <1> HIDE DEF n
  <1>3. step \in [(1..n) \X Texts -> Texts]
    <2>1. ASSUME NEW a \in Texts, NEW k \in 1..n PROVE a \o between \o texts[k] \in Texts
      <3>1. a \o between \in Texts /\ texts[k] \in Texts
        BY <1>1, JoinOfTexts
      <3> QED BY <3>1, JoinOfTexts
    <2>2. ASSUME NEW x \in (1..n) \X Texts
          PROVE  (IF x[1] = 1 THEN texts[1] ELSE x[2] \o between \o texts[x[1]]) \in Texts
      <3>1. x[1] \in 1..n /\ x[2] \in Texts /\ texts[1] \in Texts
        BY <1>1
      <3> QED BY <2>1, <3>1
    <2> QED BY <2>2
  <1>4. PICK f : BuiltBy(f, n, Texts, <<>>, step)
    <2>1. n \in Nat /\ <<>> \in Texts
      BY <1>1, NoSymbol
    <2> HIDE DEF step
    <2> QED BY <1>3, <2>1, FunctionByStep, Zenon
  <1> DEFINE g == [k \in 0..n |-> f[k]]
  <1>5. ASSUME NEW k \in 1..n PROVE f[k - 1] \in Texts /\ f[k] = Next1(f, k)
    <2>1. f[k] = step[<<k, f[k - 1]>>] /\ f[k - 1] \in Texts
      BY <1>4 DEF BuiltBy
    <2>2. k # 0
      BY <1>1
    <2> QED BY <2>1, <2>2
  <1>6. g = [k \in 0..n |-> Next1(g, k)]
    <2>1. ASSUME NEW k \in 0..n PROVE g[k] = Next1(g, k)
      <3>1. CASE k = 0
        BY <1>4, <3>1 DEF BuiltBy
      <3>2. CASE k # 0
        <4>1. k \in 1..n /\ k - 1 \in 0..n
          BY <1>1, <3>2
        <4>2. g[k] = f[k] /\ g[k - 1] = f[k - 1]
          BY <4>1
        <4> HIDE DEF g
        <4> QED BY <1>5, <4>1, <4>2
      <3> QED BY <3>1, <3>2
    <2>2. g = [k \in 0..n |-> g[k]]
      OBVIOUS
    <2> HIDE DEF Next1, g
    <2> QED BY <2>1, <2>2
  <1>7. joined = [k \in 0..n |-> Next1(joined, k)]
    <2> HIDE DEF Next1, g
    <2> QED BY <1>6
  <1> HIDE DEF joined
  <1>8. ASSUME NEW k \in 0..n PROVE joined[k] = Next1(joined, k)
    <2> HIDE DEF Next1
    <2> QED BY <1>7
  <1>9. joined[1] = texts[1]
    BY <1>1, <1>8
  <1>10. ASSUME NEW k \in 1..(n - 1)
         PROVE  k + 1 \in 1..n /\ joined[k + 1] = joined[k] \o between \o texts[k + 1]
    <2>1. k + 1 \in 0..n /\ k + 1 \in 1..n /\ k + 1 # 0 /\ k + 1 # 1 /\ (k + 1) - 1 = k
      BY <1>1
    <2>2. joined[k + 1] = joined[(k + 1) - 1] \o between \o texts[k + 1]
      BY <1>8, <2>1
    <2> QED BY <2>1, <2>2
  <1>11. \A k \in 1..n : joined[k] \in Texts
    <2> DEFINE P == {k \in 1..n : joined[k] \in Texts}
    <2>1. 1 \in P
      BY <1>1, <1>9
    <2>2. ASSUME NEW k \in 1..(n - 1), k \in P PROVE k + 1 \in P
      <3>1. joined[k] \in Texts /\ texts[k + 1] \in Texts
        BY <1>1, <1>10, <2>2
      <3>2. joined[k] \o between \in Texts
        BY <3>1, JoinOfTexts
      <3>3. joined[k] \o between \o texts[k + 1] \in Texts
        BY <3>1, <3>2, JoinOfTexts
      <3> QED BY <1>10, <3>3
    <2>3. \A k \in 1..n : k \in P
      <3> HIDE DEF P
      <3> QED BY <1>1, <2>1, <2>2, StepByStep
    <2> QED BY <2>3
  <1>12. PICK h : h = [k \in 1..n |-> joined[k]]
    OBVIOUS
  <1>13. h \in [1..n -> Texts] /\ \A k \in 1..n : h[k] = joined[k]
    BY <1>11, <1>12
  <1>14. JoinedBy(h, texts, between)
    <2>1. h[1] = texts[1]
      BY <1>1, <1>9, <1>13
    <2>2. ASSUME NEW k \in 1..(n - 1) PROVE h[k + 1] = h[k] \o between \o texts[k + 1]
      <3>1. k \in 1..n
        BY <1>1
      <3> QED BY <1>10, <1>13, <3>1
    <2> QED BY <1>13, <2>1, <2>2 DEF JoinedBy, n
  <1>15. Joined(texts, between) = h[Len(texts)]
    BY <1>1, <1>2, <1>13 DEF n
  <1> QED BY <1>14, <1>15

-----------------------------------------------------------------------------
(* A match list.                                                           *)
LEMMA BarIs ==
  ASSUME NEW gap, IsBlank(gap), NEW v \in Texts,
         NEW w, w = gap \o <<"|">> \o gap \o v
  PROVE  /\ ComesNext(w) /\ Begins(SkipWhite[w], {"|"})
         /\ Rest(SkipWhite[w], 1) = gap \o v
         /\ gap \o <<"|">> \o gap \in Texts
  <1>1. gap \in Texts
    BY DEF IsBlank
  <1>2. PICK m : m = <<"|">>
    OBVIOUS
  <1>3. m \in Texts /\ "|" \in Symbols
    BY <1>2, PunctuationIs DEF Punctuation
  <1>4. PICK z : z = gap \o v
    OBVIOUS
  <1>5. z \in Texts
    BY <1>1, <1>4, JoinOfTexts
  <1>6. PICK b : b = m \o z
    OBVIOUS
  <1>7. b \in Texts /\ b # <<>> /\ Rest(b, 1) = z /\ \A S : Begins(b, S) <=> "|" \in S
    <2>1. b = <<"|">> \o z
      BY <1>2, <1>6
    <2> QED BY <1>3, <1>5, <2>1, SymbolBefore, Zenon
  <1>8. w = gap \o b
    <2>1. Three(gap, m, gap) \o v = ThreeAnd(gap, m, gap, v)
      BY <1>1, <1>3, JoinThree
    <2>2. Three(gap, m, gap) \o v = w
      BY <1>2 DEF Three
    <2>3. ThreeAnd(gap, m, gap, v) = gap \o b
      BY <1>4, <1>6 DEF ThreeAnd
    <2> QED BY <2>1, <2>2, <2>3
  <1>9. SkipWhite[w] = b
    <2>1. ~Begins(b, White)
      BY <1>7 DEF White
    <2> QED BY <1>7, <1>8, <2>1, BlanksSkipped
  <1>10. w \in Texts /\ Begins(w, White \cup {"|"})
    <2>1. Begins(b, {"|"})
      BY <1>7
    <2>2. PICK S : S = {"|"}
      OBVIOUS
    <2>3. gap \o b \in Texts /\ Begins(gap \o b, White \cup S)
      BY <1>7, <2>1, <2>2, GapBegins
    <2> QED BY <1>8, <2>2, <2>3
  <1>11. Begins(b, {"|"}) /\ ~Begins(b, {"~"})
    BY <1>7
  <1>12. gap \o <<"|">> \o gap \in Texts
    <2>1. Three(gap, m, gap) \in Texts
      BY <1>1, <1>3, JoinThree
    <2> QED BY <1>2, <2>1 DEF Three
  <1> QED BY <1>4, <1>7, <1>9, <1>10, <1>11, <1>12 DEF ComesNext

LEMMA PartsOfList ==
  ASSUME NEW S, NEW s \in Seq(S)
  PROVE  /\ Prefix(s, 0) = <<>> /\ Prefix(s, Len(s)) = s
         /\ \A k \in 1..Len(s) : /\ s[k] \in S /\ Prefix(s, k - 1) \in Seq(S)
                                 /\ Len(Prefix(s, k - 1)) = k - 1
                                 /\ Append(Prefix(s, k - 1), s[k]) = Prefix(s, k)
  <1>1. Len(s) \in Nat /\ \A k \in 1..Len(s) : s[k] \in S
    BY LenProperties, ElementOfSeq
  <1>2. ASSUME NEW k \in 0..Len(s)
        PROVE  /\ Prefix(s, k) \in Seq(S) /\ Len(Prefix(s, k)) = k
               /\ \A i \in 1..k : Prefix(s, k)[i] = s[i]
    <2>1. \A i \in 1..k : s[i] \in S
      BY <1>1
    <2>2. /\ SubSeq(s, 1, k) \in Seq(S) /\ Len(SubSeq(s, 1, k)) = k
          /\ \A i \in 1..(k - 1 + 1) : SubSeq(s, 1, k)[i] = s[1 + i - 1]
      BY <1>1, <2>1, SubSeqProperties
    <2>3. ASSUME NEW i \in 1..k PROVE SubSeq(s, 1, k)[i] = s[i]
      <3>1. i \in 1..(k - 1 + 1) /\ 1 + i - 1 = i
        BY <1>1
      <3> QED BY <2>2, <3>1
    <2> QED BY <2>2, <2>3 DEF Prefix
  <1>3. Prefix(s, 0) = <<>>
    BY <1>1, <1>2, EmptySeq
  <1>4. Prefix(s, Len(s)) = s
    BY SubSeqFull DEF Prefix
  <1>5. ASSUME NEW k \in 1..Len(s)
        PROVE  /\ Prefix(s, k - 1) \in Seq(S) /\ Len(Prefix(s, k - 1)) = k - 1
               /\ Append(Prefix(s, k - 1), s[k]) = Prefix(s, k)
    <2>1. k - 1 \in 0..Len(s) /\ k \in 0..Len(s) /\ (k - 1) + 1 = k
      BY <1>1
    <2>2. PICK p : p = Prefix(s, k - 1)
      OBVIOUS
    <2>3. p \in Seq(S) /\ Len(p) = k - 1 /\ \A i \in 1..(k - 1) : p[i] = s[i]
      BY <1>2, <2>1, <2>2
    <2>4. PICK q : q = Append(p, s[k])
      OBVIOUS
    <2>5. /\ q \in Seq(S) /\ Len(q) = k /\ \A i \in 1..(k - 1) : q[i] = p[i]
          /\ q[k] = s[k]
      BY <1>1, <2>1, <2>3, <2>4, AppendProperties
    <2>6. PICK r : r = Prefix(s, k)
      OBVIOUS
    <2>7. r \in Seq(S) /\ Len(r) = k /\ \A i \in 1..k : r[i] = s[i]
      BY <1>2, <2>1, <2>6
    <2>8. ASSUME NEW i \in 1..k PROVE q[i] = r[i]
      BY <1>1, <2>3, <2>5, <2>7, <2>8
    <2>9. q = r
      BY <2>5, <2>7, <2>8, SeqEqual
    <2> QED BY <2>2, <2>3, <2>4, <2>6, <2>9
  <1> QED BY <1>1, <1>3, <1>4, <1>5

(* A match list with its items, and the ways to write them.                *)
WrittenItems(match_set, gap, texts) ==
  /\ match_set \in Seq(ReadRanges) /\ Len(match_set) \in 1..NUMBER_OF_VARIENT_RANGES
  /\ \A j \in 1..Len(match_set) : ExpressibleItem(match_set[j])
  /\ IsBlank(gap)
  /\ texts \in Seq(Texts) /\ Len(texts) = Len(match_set)
  /\ \A j \in 1..Len(match_set) : texts[j] \in Item(match_set[j], gap)

ListFrom(x) == MatchList[<< <<>>, parse_match[x] >>]

BarAnd(gap, t, u) == gap \o <<"|">> \o gap \o (t \o u)

(* One item more is read behind a bar.                                     *)
LEMMA OneMoreItem ==
  ASSUME NEW match_set, NEW gap, NEW texts, WrittenItems(match_set, gap, texts),
         NEW k \in 1..(Len(match_set) - 1), NEW u, ComesNext(u),
         NEW w, w = BarAnd(gap, texts[k + 1], u)
  PROVE  /\ ComesNext(w)
         /\ MatchList[<<Prefix(match_set, k - 1), Read(match_set[k], w)>>] =
              MatchList[<<Prefix(match_set, k), Read(match_set[k + 1], u)>>]
  <1> DEFINE n == Len(match_set)
  <1>1. /\ match_set \in Seq(ReadRanges) /\ n \in Nat \ {0} /\ n <= NUMBER_OF_VARIENT_RANGES
        /\ NUMBER_OF_VARIENT_RANGES \in Nat /\ IsBlank(gap) /\ gap \in Texts /\ u \in Texts
    BY SizeAssumption DEF WrittenItems, IsBlank, ComesNext
  <1>2. k + 1 \in 1..n /\ k \in 1..n /\ (k + 1) - 1 = k /\ k < n
    BY <1>1
  <1>3. PICK t : t = texts[k + 1]
    OBVIOUS
  <1>4. /\ match_set[k + 1] \in ReadRanges /\ ExpressibleItem(match_set[k + 1])
        /\ t \in Item(match_set[k + 1], gap)
    BY <1>1, <1>2, <1>3, PartsOfList DEF WrittenItems
  <1>5. t \in Texts
    BY <1>1, <1>4, ItemText
  <1>6. PICK v : v = t \o u
    OBVIOUS
  <1>7. v \in Texts /\ w = gap \o <<"|">> \o gap \o v
    <2>1. v \in Texts
      BY ONLY <1>1, <1>5, <1>6, JoinOfTexts
    <2>2. w = BarAnd(gap, t, u)
      BY <1>3
    <2> QED BY ONLY <1>6, <2>1, <2>2 DEF BarAnd
  <1>8. /\ ComesNext(w) /\ Begins(SkipWhite[w], {"|"})
        /\ Rest(SkipWhite[w], 1) = gap \o v
    BY <1>1, <1>7, BarIs
  <1>9. parse_match[gap \o v] = Read(match_set[k + 1], u)
    BY <1>1, <1>4, <1>6, ItemIs
  <1>10. PICK p : p = Prefix(match_set, k - 1)
    OBVIOUS
  <1>11. /\ p \in Seq(ReadRanges) /\ Len(p) = k - 1 /\ match_set[k] \in ReadRanges
         /\ Append(p, match_set[k]) = Prefix(match_set, k)
    <2>1. /\ match_set[k] \in ReadRanges /\ Prefix(match_set, k - 1) \in Seq(ReadRanges)
          /\ Len(Prefix(match_set, k - 1)) = k - 1
          /\ Append(Prefix(match_set, k - 1), match_set[k]) = Prefix(match_set, k)
      BY ONLY <1>1, <1>2, PartsOfList
    <2> QED BY ONLY <1>10, <2>1
  <1>12. PICK x : x = <<p, Read(match_set[k], w)>>
    OBVIOUS
  <1>13. x \in BeingRead
    <2>1. Read(match_set[k], w) \in ItemOutcomes
      BY <1>8, <1>11 DEF ComesNext, Read, ItemOutcomes, Outcomes
    <2> QED BY <1>11, <1>12, <2>1 DEF BeingRead
  <1>14. /\ x[1] = p /\ x[2].outcome = "read" /\ x[2].value = match_set[k] /\ x[2].rest = w
    BY <1>12 DEF Read
  <1>15. FoundWith(x) = Prefix(match_set, k) /\ Behind(x) = SkipWhite[w]
    BY <1>11, <1>14 DEF FoundWith, Behind
  <1>16. ~(Len(FoundWith(x)) >= NUMBER_OF_VARIENT_RANGES)
    <2>1. Len(FoundWith(x)) = k
      <3>1. Len(FoundWith(x)) = Len(x[1]) + 1
        BY <1>13, <1>14, ListParts
      <3> QED BY <1>2, <1>11, <1>14, <3>1
    <2> QED BY <1>1, <1>2, <2>1
  <1>17. GoesOn(x)
    BY <1>8, <1>14, <1>15, <1>16 DEF GoesOn
  <1>18. FurtherOn(x) = <<Prefix(match_set, k), Read(match_set[k + 1], u)>>
    BY <1>8, <1>9, <1>15 DEF FurtherOn
  <1>19. MatchList[x] = MatchList[FurtherOn(x)]
    BY <1>13, <1>17, MatchListIs
  <1> QED BY <1>8, <1>10, <1>12, <1>18, <1>19

LEMMA ListGoesOn ==
  ASSUME NEW match_set, NEW gap, NEW texts, WrittenItems(match_set, gap, texts),
         NEW f, JoinedBy(f, texts, gap \o <<"|">> \o gap), NEW g, IsBlank(g)
  PROVE  \A k \in 1..Len(match_set) : \A u : ComesNext(u) =>
           /\ f[k] \o u \in Texts
           /\ ListFrom(g \o (f[k] \o u)) =
                MatchList[<<Prefix(match_set, k - 1), Read(match_set[k], u)>>]
  <1> DEFINE n == Len(match_set)
             between == gap \o <<"|">> \o gap
             At(k, u) == MatchList[<<Prefix(match_set, k - 1), Read(match_set[k], u)>>]
             P == {k \in 1..n : \A u : ComesNext(u) => ListFrom(g \o (f[k] \o u)) = At(k, u)}
  <1>1. n \in Nat \ {0} /\ gap \in Texts /\ IsBlank(gap) /\ Len(texts) = n
    BY DEF WrittenItems, IsBlank
  <1>2. /\ \A k \in 1..n : f[k] \in Texts
        /\ f[1] = texts[1]
        /\ \A k \in 1..(n - 1) : f[k + 1] = f[k] \o between \o texts[k + 1]
    BY <1>1 DEF JoinedBy
  <1>3. 1 \in P
    <2>1. 1 \in 1..n
      BY <1>1
    <2>2. ASSUME NEW u, ComesNext(u) PROVE ListFrom(g \o (f[1] \o u)) = At(1, u)
      <3>1. /\ match_set[1] \in ReadRanges /\ ExpressibleItem(match_set[1])
            /\ texts[1] \in Item(match_set[1], gap)
        BY <2>1, PartsOfList DEF WrittenItems
      <3>2. parse_match[g \o (texts[1] \o u)] = Read(match_set[1], u)
        BY <1>1, <2>2, <3>1, ItemIs
      <3>3. Prefix(match_set, 1 - 1) = <<>>
        <4>1. 1 - 1 = 0
          OBVIOUS
        <4> QED BY <4>1, PartsOfList DEF WrittenItems
      <3> QED BY <1>2, <3>2, <3>3 DEF ListFrom
    <2> QED BY <2>1, <2>2
  <1>4. ASSUME NEW k \in 1..(n - 1), k \in P PROVE k + 1 \in P
    <2>1. k + 1 \in 1..n /\ k \in 1..n /\ (k + 1) - 1 = k
      BY <1>1
    <2>2. ASSUME NEW u, ComesNext(u) PROVE ListFrom(g \o (f[k + 1] \o u)) = At(k + 1, u)
      <3>1. PICK t : t = texts[k + 1]
        OBVIOUS
      <3>2. t \in Texts
        BY <1>1, <2>1, <3>1, ElementOfSeq DEF WrittenItems
      <3>3. PICK v : v = t \o u
        OBVIOUS
      <3>4. u \in Texts /\ v \in Texts
        BY <2>2, <3>2, <3>3, JoinOfTexts DEF ComesNext
      <3>5. PICK w : w = between \o v
        OBVIOUS
      <3>6. ComesNext(w) /\ At(k, w) = MatchList[<<Prefix(match_set, k), Read(match_set[k + 1], u)>>]
        <4>1. w = BarAnd(gap, texts[k + 1], u)
          BY <3>1, <3>3, <3>5 DEF BarAnd
        <4>2. k \in 1..(Len(match_set) - 1)
          OBVIOUS
        <4>3. ComesNext(w)
          BY <2>2, <4>1, <4>2, OneMoreItem
        <4>4. MatchList[<<Prefix(match_set, k - 1), Read(match_set[k], w)>>] =
                MatchList[<<Prefix(match_set, k), Read(match_set[k + 1], u)>>]
          <5> HIDE DEF P, n, between
          <5>1. PICK i \in 1..(Len(match_set) - 1) : i = k
            BY <4>2
          <5>2. w = BarAnd(gap, texts[i + 1], u)
            BY <4>1, <5>1
          <5>3. MatchList[<<Prefix(match_set, i - 1), Read(match_set[i], w)>>] =
                  MatchList[<<Prefix(match_set, i), Read(match_set[i + 1], u)>>]
            BY <2>2, <5>2, OneMoreItem
          <5> QED BY <5>1, <5>3
        <4> QED BY <4>3, <4>4
      <3>7. f[k + 1] \o u = f[k] \o w
        <4>1. PICK b : b = between
          OBVIOUS
        <4>2. b \in Texts
          BY <1>1, <3>4, <3>5, <4>1, BarIs
        <4>3. f[k] \in Texts /\ f[k + 1] = Three(f[k], b, t)
          BY <1>2, <2>1, <3>1, <4>1 DEF Three
        <4>4. Three(f[k], b, t) \o u = ThreeAnd(f[k], b, t, u)
          BY <3>2, <3>4, <4>2, <4>3, JoinThree
        <4>5. ThreeAnd(f[k], b, t, u) = f[k] \o w
          BY <3>3, <3>5, <4>1 DEF ThreeAnd
        <4> QED BY <4>3, <4>4, <4>5
      <3>8. ListFrom(g \o (f[k] \o w)) = At(k, w)
        BY <1>4, <3>6
      <3> QED BY <2>1, <3>6, <3>7, <3>8
    <2> QED BY <2>1, <2>2
  <1>5. \A k \in 1..n : k \in P
    <2> HIDE DEF P, n
    <2> QED BY <1>1, <1>3, <1>4, StepByStep
  <1>6. \A k \in 1..n : \A u : ComesNext(u) => f[k] \o u \in Texts
    BY <1>2, JoinOfTexts DEF ComesNext
  <1> QED BY <1>5, <1>6

Bar(gap) == gap \o <<"|">> \o gap

(* A list that is followed by something else is read as what was meant.    *)
LEMMA ListIs ==
  ASSUME NEW match_set, NEW gap, NEW texts, WrittenItems(match_set, gap, texts),
         NEW g, IsBlank(g), NEW u, ComesNext(u), ~Begins(SkipWhite[u], {"|"}),
         NEW m, m = Joined(texts, Bar(gap))
  PROVE  /\ m \in Texts /\ m # <<>> /\ m[1] \notin White \cup {"["}
         /\ ListFrom(g \o (m \o u)) = Read(match_set, SkipWhite[u])
  <1> DEFINE n == Len(match_set)
  <1>1. /\ n \in Nat \ {0} /\ Len(texts) = n /\ texts \in Seq(Texts) /\ texts # <<>>
        /\ match_set \in Seq(ReadRanges) /\ IsBlank(gap)
    BY EmptySeq DEF WrittenItems
  <1>2. gap \o <<"|">> \o gap \in Texts
    <2>1. u \in Texts
      BY DEF ComesNext
    <2>2. PICK w : w = gap \o <<"|">> \o gap \o u
      OBVIOUS
    <2> QED BY <1>1, <2>1, <2>2, BarIs
  <1>3. PICK f : JoinedBy(f, texts, gap \o <<"|">> \o gap) /\ m = f[n]
    BY <1>1, <1>2, JoinedIs DEF Bar
  <1>4. n \in 1..n /\ n - 1 \in 0..n
    BY <1>1
  <1>5. ListFrom(g \o (m \o u)) = MatchList[<<Prefix(match_set, n - 1), Read(match_set[n], u)>>]
    BY <1>3, <1>4, ListGoesOn
  <1>6. PICK p : p = Prefix(match_set, n - 1)
    OBVIOUS
  <1>7. p \in Seq(ReadRanges) /\ match_set[n] \in ReadRanges /\ Append(p, match_set[n]) = match_set
    BY <1>1, <1>4, <1>6, PartsOfList
  <1>8. PICK x : x = <<p, Read(match_set[n], u)>>
    OBVIOUS
  <1>9. x \in BeingRead
    <2>1. Read(match_set[n], u) \in ItemOutcomes
      BY <1>7 DEF ComesNext, Read, ItemOutcomes, Outcomes
    <2> QED BY <1>7, <1>8, <2>1 DEF BeingRead
  <1>10. /\ x[1] = p /\ x[2].outcome = "read" /\ x[2].value = match_set[n] /\ x[2].rest = u
    BY <1>8 DEF Read
  <1>11. FoundWith(x) = match_set /\ Behind(x) = SkipWhite[u]
    BY <1>7, <1>10 DEF FoundWith, Behind
  <1>12. MatchList[x] = Read(match_set, SkipWhite[u])
    <2>1. ~GoesOn(x)
      BY <1>11 DEF GoesOn
    <2>2. EndsWith(x) = Read(match_set, SkipWhite[u])
      BY <1>10, <1>11 DEF EndsWith, ComesNext
    <2> QED BY <1>9, <2>1, <2>2, MatchListIs
  <1>13. m \in Texts /\ m # <<>> /\ m[1] \notin White \cup {"["}
    <2> DEFINE P == {k \in 1..n : f[k] # <<>> /\ f[k][1] \notin White \cup {"["}}
    <2>1. \A k \in 1..n : f[k] \in Texts
      BY <1>1, <1>3 DEF JoinedBy
    <2>2. 1 \in P
      <3>1. 1 \in 1..n /\ f[1] = texts[1]
        BY <1>1, <1>3 DEF JoinedBy
      <3>2. /\ match_set[1] \in ReadRanges /\ ExpressibleItem(match_set[1])
            /\ texts[1] \in Item(match_set[1], gap)
        BY <3>1, PartsOfList DEF WrittenItems
      <3>3. texts[1] # <<>> /\ texts[1][1] \notin White \cup {"["}
        BY <1>1, <3>2, ItemText
      <3> QED BY <3>1, <3>3
    <2>3. ASSUME NEW k \in 1..(n - 1), k \in P PROVE k + 1 \in P
      <3>1. k \in 1..n /\ k + 1 \in 1..n
        BY <1>1
      <3>2. PICK b : b = gap \o <<"|">> \o gap
        OBVIOUS
      <3>3. PICK t : t = texts[k + 1]
        OBVIOUS
      <3>4. PICK a : a = f[k]
        OBVIOUS
      <3>5. PICK c : c = a \o b
        OBVIOUS
      <3>6. a \in Texts /\ b \in Texts /\ t \in Texts /\ f[k + 1] = c \o t
        BY <1>1, <1>2, <1>3, <2>1, <3>1, <3>2, <3>3, <3>4, <3>5, ElementOfSeq DEF JoinedBy
      <3>7. a # <<>> /\ a[1] \notin White \cup {"["}
        BY <2>3, <3>4
      <3>8. c \in Texts /\ c # <<>> /\ c[1] = a[1]
        BY <3>5, <3>6, <3>7, JoinOfTexts, JoinBegins
      <3>9. f[k + 1] # <<>> /\ f[k + 1][1] = a[1]
        BY <3>6, <3>8, JoinBegins
      <3> QED BY <3>1, <3>7, <3>9
    <2>4. \A k \in 1..n : k \in P
      <3> HIDE DEF P, n
      <3> QED BY <1>1, <2>2, <2>3, StepByStep
    <2> QED BY <1>3, <1>4, <2>1, <2>4
  <1> QED BY <1>5, <1>6, <1>8, <1>12, <1>13

-----------------------------------------------------------------------------
(* The index and the heading.                                              *)
LEMMA LargestIs ==
  ASSUME NEW S \in SUBSET Nat, NEW e \in S, \A j \in S : j <= e
  PROVE  Largest(S) = e
  <1>1. Largest(S) \in S /\ \A j \in S : j <= Largest(S)
    BY DEF Largest
  <1>2. PICK k : k = Largest(S)
    OBVIOUS
  <1>3. k \in Nat /\ e \in Nat /\ k <= e /\ e <= k
    BY <1>1, <1>2
  <1> QED BY <1>2, <1>3

LEMMA TrimIs ==
  ASSUME NEW g, IsBlank(g), NEW h, IsBlank(h), NEW t \in Texts, t # <<>>, Avoids(t, White)
  PROVE  Trim(g \o t \o h) = t
  <1>1. g \in Texts /\ h \in Texts /\ Len(g) \in Nat /\ Len(h) \in Nat /\ Len(t) \in Nat \ {0}
    BY LengthOfText DEF IsBlank
  <1>2. PICK p : p = g \o t
    OBVIOUS
  <1>3. PICK s : s = p \o h
    OBVIOUS
  <1>4. p \in Texts /\ Len(p) = Len(g) + Len(t)
    BY <1>1, <1>2, JoinOfTexts
  <1>5. \A i \in 1..Len(g) : p[i] = g[i]
    BY <1>1, <1>2, JoinOfTexts
  <1>6. \A i \in 1..Len(t) : p[Len(g) + i] = t[i]
    BY <1>1, <1>2, JoinOfTexts
  <1>7. s \in Texts /\ Len(s) = Len(p) + Len(h)
    BY <1>1, <1>3, <1>4, JoinOfTexts
  <1>8. \A i \in 1..Len(p) : s[i] = p[i]
    BY <1>1, <1>3, <1>4, JoinOfTexts
  <1>9. \A i \in 1..Len(h) : s[Len(p) + i] = h[i]
    BY <1>1, <1>3, <1>4, JoinOfTexts
  <1>10. PICK a : a = Len(g)
    OBVIOUS
  <1>11. PICK n : n = Len(t)
    OBVIOUS
  <1>12. PICK b : b = Len(h)
    OBVIOUS
  <1>13. a \in Nat /\ n \in Nat \ {0} /\ b \in Nat /\ Len(p) = a + n /\ Len(s) = a + n + b
    BY <1>1, <1>4, <1>7, <1>10, <1>11, <1>12
  <1>14. ASSUME NEW i \in 1..a PROVE s[i] \in White
    <2>1. i \in 1..Len(p) /\ i \in 1..Len(g)
      BY <1>10, <1>13
    <2> QED BY <1>5, <1>8, <2>1 DEF IsBlank
  <1>15. ASSUME NEW i \in 1..n PROVE s[a + i] = t[i] /\ s[a + i] \notin White
    <2>1. a + i \in 1..Len(p) /\ i \in 1..Len(t)
      BY <1>11, <1>13
    <2> QED BY <1>6, <1>8, <1>10, <2>1 DEF Avoids
  <1>16. ASSUME NEW i \in 1..b PROVE s[a + n + i] \in White
    <2>1. i \in 1..Len(h)
      BY <1>12
    <2> QED BY <1>9, <1>13, <2>1 DEF IsBlank
  <1>17. PICK ink : ink = {k \in DOMAIN s : s[k] \notin White}
    OBVIOUS
  <1>18. \A k : k \in ink <=> k \in (a + 1)..(a + n)
    <2>1. DOMAIN s = 1..(a + n + b)
      BY <1>7, <1>13, LengthOfText
    <2>2. ASSUME NEW k \in 1..(a + n + b) PROVE s[k] \notin White <=> k \in (a + 1)..(a + n)
      <3>1. CASE k <= a
        <4>1. k \in 1..a /\ k \notin (a + 1)..(a + n)
          BY <1>13, <3>1
        <4> QED BY <1>14, <4>1
      <3>2. CASE k > a /\ k <= a + n
        <4>1. k - a \in 1..n /\ a + (k - a) = k /\ k \in (a + 1)..(a + n)
          BY <1>13, <3>2
        <4> QED BY <1>15, <4>1
      <3>3. CASE k > a + n
        <4>1. k - (a + n) \in 1..b /\ a + n + (k - (a + n)) = k /\ k \notin (a + 1)..(a + n)
          BY <1>13, <3>3
        <4> QED BY <1>16, <4>1
      <3> QED BY <1>13, <3>1, <3>2, <3>3
    <2>3. \A k : k \in (a + 1)..(a + n) => k \in 1..(a + n + b)
      BY <1>13
    <2> QED BY <1>17, <2>1, <2>2, <2>3
  <1>19. Smallest(ink) = a + 1
    <2>1. ink \in SUBSET Nat /\ a + 1 \in ink /\ \A j \in ink : a + 1 <= j
      BY <1>13, <1>18
    <2> QED BY <2>1, SmallestIs
  <1>20. Largest(ink) = a + n
    <2>1. ink \in SUBSET Nat /\ a + n \in ink /\ \A j \in ink : j <= a + n
      BY <1>13, <1>18
    <2> QED BY <2>1, LargestIs
  <1>21. ink # {}
    <2>1. a + 1 \in ink
      BY <1>13, <1>18
    <2> QED BY <2>1
  <1>22. Trim(s) = SubSeq(s, a + 1, a + n)
    BY <1>17, <1>19, <1>20, <1>21 DEF Trim
  <1>23. PICK q : q = SubSeq(s, a + 1, a + n)
    OBVIOUS
  <1>24. q \in Texts /\ Len(q) = n
    <2>1. a + 1 \in Nat \ {0} /\ a + n \in Nat /\ a + n <= Len(s) /\ a + 1 <= a + n
          /\ (a + n) - (a + 1) + 1 = n
      BY <1>13
    <2> QED BY <1>7, <1>23, <2>1, PartOfText
  <1>25. ASSUME NEW i \in 1..n PROVE q[i] = t[i]
    <2>1. \A j \in (a + 1)..(a + n) : s[j] \in Symbols
      <3>1. \A j \in (a + 1)..(a + n) : j \in 1..Len(s)
        BY <1>13
      <3> QED BY <1>7, <3>1, LengthOfText
    <2>2. \A j \in 1..((a + n) - (a + 1) + 1) : SubSeq(s, a + 1, a + n)[j] = s[(a + 1) + j - 1]
      <3>1. a + 1 \in Int /\ a + n \in Int
        BY <1>13
      <3> QED BY <2>1, <3>1, SubSeqProperties
    <2>3. i \in 1..((a + n) - (a + 1) + 1) /\ (a + 1) + i - 1 = a + i
      BY <1>13
    <2> QED BY <1>15, <1>23, <2>2, <2>3
  <1>26. q = t
    BY <1>11, <1>24, <1>25, EqualTexts
  <1> QED BY <1>2, <1>3, <1>22, <1>23, <1>26

LEMMA AsIntIs ==
  ASSUME NEW i \in Ints
  PROVE  AsInt(i) = i
  <1> DEFINE h == IntSpan \div 2
  <1>1. IntSpan \in Nat \ {0} /\ h \in Int /\ i \in Int /\ i + h \in 0..(IntSpan - 1)
    BY SizeAssumption DEF Ints
  <1>2. (i + h) % IntSpan = i + h
    <2> HIDE DEF h
    <2>1. PICK x \in Int : x = i + h
      BY <1>1
    <2>2. PICK m \in Nat : m = IntSpan
      BY <1>1
    <2>3. m > 0 /\ 0 <= x /\ x < m
      BY <1>1, <2>1, <2>2
    <2>4. x % m = x
      BY <2>3
    <2> QED BY <2>1, <2>2, <2>4
  <1> HIDE DEF h
  <1>3. ((i + h) % IntSpan) - h = i
    BY <1>1, <1>2
  <1> QED BY <1>3 DEF AsInt, h

LEMMA NoBlanks == IsBlank(<<>>)
  <1>1. \A k \in 1..0 : FALSE
    OBVIOUS
  <1> QED BY <1>1, NoSymbol DEF IsBlank

LEMMA AvoidsJoin ==
  ASSUME NEW S, NEW a \in Texts, NEW b \in Texts, Avoids(a, S), Avoids(b, S)
  PROVE  Avoids(a \o b, S)
  <1>1. PICK c : c = a \o b
    OBVIOUS
  <1>2. Len(a) \in Nat /\ Len(b) \in Nat /\ Len(c) = Len(a) + Len(b)
    BY <1>1, LengthOfText, JoinOfTexts
  <1>3. \A i \in 1..Len(a) : c[i] = a[i]
    BY <1>1, JoinOfTexts
  <1>4. \A i \in 1..Len(b) : c[Len(a) + i] = b[i]
    BY <1>1, JoinOfTexts
  <1>5. ASSUME NEW k \in 1..Len(c) PROVE c[k] \notin S
    <2>1. CASE k <= Len(a)
      <3>1. k \in 1..Len(a)
        BY <1>2, <2>1
      <3> QED BY <1>3, <3>1 DEF Avoids
    <2>2. CASE k > Len(a)
      <3>1. k - Len(a) \in 1..Len(b) /\ Len(a) + (k - Len(a)) = k
        BY <1>2, <2>2
      <3> QED BY <1>4, <3>1 DEF Avoids
    <2> QED BY <1>2, <2>1, <2>2
  <1> QED BY <1>1, <1>5 DEF Avoids

(* An index in brackets.                                                   *)
Brackets(gap, t) == <<"[">> \o gap \o t \o gap \o <<"]">> \o gap

LEMMA BracketsAre ==
  ASSUME NEW i \in Ints, i >= 1, NEW t \in DOMAIN Long, Long[t] = i,
         NEW gap, IsBlank(gap), NEW b \in Texts,
         NEW x, x = Brackets(gap, t)
  PROVE  /\ x \in Texts /\ Begins(x, {"["})
         /\ parse_index[x \o b] = Read(i, gap \o b)
  <1>1. gap \in Texts /\ t \in Texts /\ t # <<>>
        /\ \A k \in DOMAIN t : t[k] \notin White \cup Punctuation
    BY NumeralAssumption DEF IsBlank
  <1>2. DOMAIN t = 1..Len(t)
    BY <1>1, LengthOfText
  <1>3. "[" \in Punctuation /\ "]" \in Punctuation /\ "[" # "]" /\ "]" \notin White
    BY Zenon DEF Punctuation, White
  <1>4. "[" \in Symbols /\ "]" \in Symbols
    BY <1>3, PunctuationIs
  <1>5. Avoids(t, White) /\ Avoids(t, {"]"})
    BY <1>1, <1>2, <1>3 DEF Avoids
  <1>6. Avoids(gap, {"]"})
    BY <1>3 DEF IsBlank, Avoids
  <1>7. PICK o : o = <<"[">>
    OBVIOUS
  <1>8. o \in Texts /\ Len(o) = 1 /\ o[1] = "[" /\ o # <<>>
    BY <1>3, <1>7, PunctuationIs
  <1>9. PICK c : c = <<"]">>
    OBVIOUS
  <1>10. c \in Texts /\ Len(c) = 1
    BY <1>3, <1>9, PunctuationIs
  <1>11. PICK m : m = Three(gap, t, gap)
    OBVIOUS
  <1>12. m \in Texts
    BY <1>1, <1>11, JoinThree
  <1>13. PICK a : a = o \o m
    OBVIOUS
  <1>14. a \in Texts /\ Len(a) = 1 + Len(m) /\ Len(m) \in Nat
    <2>1. a \in Texts /\ Len(a) = Len(o) + Len(m)
      BY <1>8, <1>12, <1>13, JoinOfTexts
    <2>2. Len(m) \in Nat
      BY <1>12, LengthOfText
    <2> QED BY <1>8, <2>1, <2>2
  <1>15. Avoids(a, {"]"})
    <2>1. PICK p : p = gap \o t
      OBVIOUS
    <2>2. p \in Texts /\ Avoids(p, {"]"})
      BY <1>1, <1>5, <1>6, <2>1, AvoidsJoin, JoinOfTexts
    <2>3. m = p \o gap
      BY <1>11, <2>1 DEF Three
    <2>4. Avoids(m, {"]"})
      BY <1>1, <1>6, <2>2, <2>3, AvoidsJoin
    <2>5. Avoids(o, {"]"})
      <3>1. \A k \in 1..1 : k = 1
        OBVIOUS
      <3>2. \A k \in 1..Len(o) : k = 1
        BY <1>8, <3>1, Zenon
      <3> QED BY <1>3, <1>8, <3>2 DEF Avoids
    <2> QED BY <1>8, <1>12, <1>13, <2>4, <2>5, AvoidsJoin
  <1>16. PICK d : d = gap \o b
    OBVIOUS
  <1>17. PICK e : e = c \o d
    OBVIOUS
  <1>18. d \in Texts /\ e \in Texts /\ e # <<>> /\ Begins(e, {"]"}) /\ Rest(e, 1) = d
    <2>1. d \in Texts
      BY <1>1, <1>16, JoinOfTexts
    <2>2. e = <<"]">> \o d
      BY <1>9, <1>17
    <2>3. e \in Texts /\ e # <<>> /\ Rest(e, 1) = d
      BY <1>4, <2>1, <2>2, SymbolBefore, Zenon
    <2>4. Begins(e, {"]"})
      BY <1>4, <2>1, <2>2, SymbolBefore
    <2> QED BY <2>1, <2>3, <2>4
  <1>19. PICK s : s = a \o e
    OBVIOUS
  <1>20. s \in Texts /\ Len(s) = Len(a) + Len(e) /\ Rest(s, Len(a)) = e
    BY <1>14, <1>18, <1>19, JoinOfTexts
  <1>21. UpTo(s, {"]"}) = Len(a)
    <2>1. Stops(e, {"]"})
      BY <1>18 DEF Stops
    <2> QED BY <1>14, <1>15, <1>18, <1>19, <2>1, UpToJoin
  <1>22. SubSeq(s, 2, Len(a)) = m
    <2>1. Prefix(s, Len(a)) = a
      BY <1>14, <1>18, <1>19, PrefixOfJoin
    <2>2. Rest(a, Len(o)) = m
      BY <1>8, <1>12, <1>13, JoinOfTexts
    <2>3. PICK q : q = SubSeq(s, 2, Len(a))
      OBVIOUS
    <2>4. Len(e) \in Nat
      BY <1>18, LengthOfText
    <2>5. q \in Texts /\ Len(q) = Len(m)
      <3>1. 2 \in Nat \ {0} /\ Len(a) \in Nat /\ Len(a) <= Len(s)
            /\ Len(m) = IF 2 <= Len(a) THEN Len(a) - 2 + 1 ELSE 0
        BY <1>14, <1>20, <2>4
      <3> QED BY <1>20, <2>3, <3>1, PartOfText
    <2>6. ASSUME NEW k \in 1..Len(m) PROVE q[k] = m[k]
      <3>1. m[k] = a[1 + k]
        <4>1. \A j \in 1..Len(m) : a[Len(o) + j] = m[j]
          BY <1>8, <1>12, <1>13, JoinOfTexts
        <4> QED BY <1>8, <4>1
      <3>2. 1 + k \in 1..Len(a)
        BY <1>14
      <3>3. s[1 + k] = a[1 + k]
        BY <1>14, <1>18, <1>19, <3>2, JoinOfTexts
      <3>4. \A j \in 2..Len(a) : s[j] \in Symbols
        <4>1. \A j \in 2..Len(a) : j \in 1..Len(s)
          BY <1>14, <1>20, <2>4
        <4> QED BY <1>20, <4>1, LengthOfText
      <3>5. \A j \in 1..(Len(a) - 2 + 1) : SubSeq(s, 2, Len(a))[j] = s[2 + j - 1]
        <4>1. Len(a) \in Int
          BY <1>14
        <4> QED BY <3>4, <4>1, SubSeqProperties
      <3>6. k \in 1..(Len(a) - 2 + 1) /\ 2 + k - 1 = 1 + k
        BY <1>14
      <3> QED BY <2>3, <3>1, <3>3, <3>5, <3>6
    <2>7. q = m
      BY <1>12, <2>5, <2>6, EqualTexts
    <2> QED BY <2>3, <2>7
  <1>23. Trim(m) = t
    BY <1>1, <1>5, <1>11, TrimIs DEF Three
  <1>24. Rest(s, Len(a) + 1) = d
    <2>1. Len(a) \in Nat
      BY <1>14
    <2>2. Rest(Rest(s, Len(a)), 1) = Rest(s, Len(a) + 1)
      BY <1>20, <2>1, RestOfRest
    <2> QED BY <1>18, <1>20, <2>2
  <1>25. Begins(s, {"["}) /\ Len(a) # Len(s)
    <2>1. a # <<>> /\ a[1] = "["
      BY <1>8, <1>12, <1>13, JoinBegins
    <2>2. s # <<>> /\ s[1] = "["
      BY <1>14, <1>18, <1>19, <2>1, JoinBegins
    <2>3. Len(e) \in Nat \ {0}
      BY <1>18, LengthOfText
    <2> QED BY <1>14, <1>20, <2>2, <2>3 DEF Begins
  <1>26. parse_index[s] = Read(i, d)
    <2>1. parse_index[s] =
            CASE ~Begins(s, {"["}) -> Read(1, s)
              [] Begins(s, {"["}) /\ Len(a) = Len(s) -> Error
              [] OTHER -> IF t \notin DOMAIN Long THEN Error
                          ELSE IF AsInt(Long[t]) < 1 THEN Error
                          ELSE Read(AsInt(Long[t]), d)
      BY <1>20, <1>21, <1>22, <1>23, <1>24 DEF parse_index
    <2>2. AsInt(Long[t]) = i /\ ~(i < 1)
      BY AsIntIs DEF Ints
    <2> QED BY <1>25, <2>1, <2>2
  <1>27. x = Three(a, c, gap)
    <2>1. o \o m = ThreeAnd(o, gap, t, gap)
      <3>1. Three(o, gap, t) \o gap = ThreeAnd(o, gap, t, gap)
        BY <1>1, <1>8, JoinThree
      <3>2. PICK p : p = o \o gap
        OBVIOUS
      <3>3. p \in Texts
        BY <1>1, <1>8, <3>2, JoinOfTexts
      <3>4. (gap \o t) \o gap = gap \o (t \o gap)
        BY <1>1, JoinInTurn
      <3>5. o \o m = ThreeAnd(o, gap, t, gap)
        BY <1>11, <3>4 DEF ThreeAnd, Three
      <3> QED BY <3>5
    <2>2. Three(o, gap, t) \o gap = ThreeAnd(o, gap, t, gap)
      BY <1>1, <1>8, JoinThree
    <2>3. a = o \o gap \o t \o gap
      BY <1>13, <2>1, <2>2 DEF Three
    <2> QED BY <1>7, <1>9, <2>3 DEF Three, Brackets
  <1>28. x \in Texts /\ x \o b = s
    <2>0. a \in Texts /\ c \in Texts /\ gap \in Texts /\ b \in Texts
      BY <1>1, <1>10, <1>14
    <2>1. Three(a, c, gap) \in Texts
      BY <2>0, JoinThree
    <2>2. Three(a, c, gap) \o b = ThreeAnd(a, c, gap, b)
      BY <2>0, JoinThree
    <2>3. ThreeAnd(a, c, gap, b) = s
      BY <1>16, <1>17, <1>19 DEF ThreeAnd
    <2> QED BY <1>27, <2>1, <2>2, <2>3
  <1>29. Begins(x, {"["})
    <2>1. PICK p : p = a \o c
      OBVIOUS
    <2>2. a # <<>> /\ a[1] = "["
      BY <1>8, <1>12, <1>13, JoinBegins
    <2>3. p \in Texts /\ p # <<>> /\ p[1] = "["
      BY <1>10, <1>14, <2>1, <2>2, JoinOfTexts, JoinBegins
    <2>4. x = p \o gap
      BY <1>27, <2>1 DEF Three
    <2>5. x # <<>> /\ x[1] = "["
      BY <1>1, <2>3, <2>4, JoinBegins
    <2> QED BY <2>5 DEF Begins
  <1> QED BY <1>16, <1>26, <1>28, <1>29

LEMMA IndexIs ==
  ASSUME NEW i \in Ints, i >= 1, NEW gap, IsBlank(gap), NEW ix \in Index(i, gap),
         NEW b \in Texts, b # <<>>, b[1] \notin White \cup {"["}
  PROVE  /\ ix \in Texts /\ ix \o b \in Texts /\ ~Begins(ix \o b, White)
         /\ \E g : IsBlank(g) /\ parse_index[ix \o b] = Read(i, g \o b)
  <1>1. CASE ix = <<>> /\ i = 1
    <2>1. ix \in Texts /\ ix \o b = b /\ <<>> \o b = b
      BY <1>1, NoSymbol, JoinWithNone
    <2>2. ~Begins(b, White) /\ ~Begins(b, {"["})
      BY DEF Begins
    <2>3. parse_index[b] = Read(1, b)
      BY <2>2 DEF parse_index
    <2>4. parse_index[ix \o b] = Read(i, <<>> \o b)
      BY <1>1, <2>1, <2>3
    <2> QED BY <2>1, <2>2, <2>4, NoBlanks
  <1>2. CASE ix # <<>>
    <2>1. PICK t \in DOMAIN Long : Long[t] = i /\ ix = Brackets(gap, t)
      BY <1>2 DEF Index, Brackets
    <2>2. ix \in Texts /\ Begins(ix, {"["})
      BY <2>1, BracketsAre
    <2>3. parse_index[ix \o b] = Read(i, gap \o b)
      BY <2>1, BracketsAre
    <2>4. ix \o b \in Texts
      BY <2>2, JoinOfTexts
    <2>5. ~Begins(ix \o b, White)
      <3>1. Begins(ix \o b, {"["})
        BY <1>2, <2>2, JoinBegins
      <3>2. "[" \notin White
        BY Zenon DEF White
      <3> QED BY <3>1, <3>2 DEF Begins
    <2> QED BY <2>2, <2>3, <2>4, <2>5
  <1>3. ix # <<>> \/ (ix = <<>> /\ i = 1)
    BY DEF Index
  <1> QED BY <1>1, <1>2, <1>3

(* A blank, as what separates names, items and words, and more of them.    *)
Blank(gap) == <<" ">> \o gap

LEMMA BlankIs ==
  ASSUME NEW gap, IsBlank(gap)
  PROVE  IsBlank(Blank(gap)) /\ Blank(gap) # <<>> /\ Blank(gap)[1] = " "
  <1>1. gap \in Texts /\ " " \in Symbols /\ " " \in White
    BY SymbolAssumption DEF IsBlank, White
  <1>2. PICK q : q = Blank(gap)
    OBVIOUS
  <1>3. q = <<" ">> \o gap
    BY <1>2 DEF Blank
  <1>4. q \in Texts /\ q # <<>> /\ Len(q) = 1 + Len(gap) /\ q[1] = " "
    BY <1>1, <1>3, SymbolBefore
  <1>5. \A k \in 1..Len(gap) : q[1 + k] = gap[k]
    <2>1. PICK x \in Symbols : x = " "
      BY <1>1
    <2>2. q = <<x>> \o gap /\ gap \in Texts
      BY <1>1, <1>3, <2>1
    <2> QED BY <2>2, SymbolBefore
  <1>6. ASSUME NEW k \in 1..Len(q) PROVE q[k] \in White
    <2>1. CASE k = 1
      BY <1>1, <1>4, <2>1
    <2>2. CASE k # 1
      <3>1. k - 1 \in 1..Len(gap) /\ 1 + (k - 1) = k
        <4>1. Len(gap) \in Nat
          BY <1>1, LengthOfText
        <4>2. k \in 1..(1 + Len(gap))
          BY <1>4
        <4> QED BY <2>2, <4>1, <4>2
      <3> QED BY <1>5, <3>1 DEF IsBlank
    <2> QED BY <2>1, <2>2
  <1> QED BY <1>2, <1>4, <1>6 DEF IsBlank

(* A heading gives the name and the index, and leaves the match list.      *)
HeadingAnd(gap, pv_name, ix, b) == gap \o (pv_name \o (Blank(gap) \o (ix \o b)))

HeadingReads(spec, name, i, b) ==
  \E g : IsBlank(g) /\ Heading[spec] = Read(Entry(name, i, <<>>), g \o b)

LEMMA HeadingIs ==
  ASSUME NEW name, IsWord(name), Begins(name, Alnum \cup {"$"}),
         NEW i \in Ints, i >= 1, NEW gap, IsBlank(gap), NEW ix \in Index(i, gap),
         NEW b \in Texts, b # <<>>, b[1] \notin White \cup {"["},
         NEW spec, spec = HeadingAnd(gap, name, ix, b)
  PROVE  spec \in Texts /\ HeadingReads(spec, name, i, b)
  <1>1. gap \in Texts /\ name \in Texts /\ name # <<>>
        /\ \A k \in DOMAIN name : name[k] \notin White
    BY DEF IsBlank, IsWord
  <1>2. DOMAIN name = 1..Len(name) /\ Len(name) \in Nat \ {0}
    BY <1>1, LengthOfText
  <1>3. Avoids(name, White) /\ ~Begins(name, White)
    BY <1>1, <1>2 DEF Avoids, Begins
  <1>4. PICK x : x = ix \o b
    OBVIOUS
  <1>5. x \in Texts /\ ~Begins(x, White)
    BY <1>4, IndexIs
  <1>6. PICK g : IsBlank(g) /\ parse_index[x] = Read(i, g \o b)
    BY <1>4, IndexIs
  <1>7. PICK a : a = Blank(gap)
    OBVIOUS
  <1>8. IsBlank(a) /\ a # <<>> /\ a[1] \in White /\ a \in Texts
    <2>1. " " \in White
      BY DEF White
    <2> QED BY <1>7, <2>1, BlankIs DEF IsBlank
  <1>9. PICK y : y = a \o x
    OBVIOUS
  <1>10. y \in Texts /\ Stops(y, White) /\ SkipWhite[y] = x
    <2>1. y \in Texts
      BY <1>5, <1>8, <1>9, JoinOfTexts
    <2>2. y # <<>> /\ y[1] = a[1]
      BY <1>5, <1>8, <1>9, JoinBegins
    <2>3. SkipWhite[y] = x
      BY <1>5, <1>8, <1>9, BlanksSkipped
    <2> QED BY <1>8, <2>1, <2>2, <2>3 DEF Stops, Begins
  <1>11. PICK s : s = name \o y
    OBVIOUS
  <1>12. s \in Texts /\ ~Begins(s, White)
    BY <1>1, <1>3, <1>10, <1>11, JoinOfTexts, JoinBegins
  <1>13. spec = gap \o s
    BY <1>4, <1>7, <1>9, <1>11 DEF HeadingAnd
  <1>14. spec \in Texts /\ SkipWhite[spec] = s
    BY <1>1, <1>12, <1>13, JoinOfTexts, BlanksSkipped
  <1>15. UpTo(s, White) = Len(name)
    BY <1>1, <1>3, <1>10, <1>11, UpToJoin
  <1>16. Prefix(s, Len(name)) = name
    BY <1>1, <1>10, <1>11, PrefixOfJoin
  <1>17. Rest(s, Len(name)) = y
    BY <1>1, <1>10, <1>11, JoinOfTexts
  <1>18. Heading[spec] =
           IF Begins(name, Alnum \cup {"$"}) /\ parse_index[x].outcome = "read"
             THEN Read(Entry(name, parse_index[x].value, <<>>), parse_index[x].rest)
             ELSE Error
    BY <1>10, <1>14, <1>15, <1>16, <1>17 DEF Heading
  <1>19. parse_index[x].outcome = "read" /\ parse_index[x].value = i
         /\ parse_index[x].rest = g \o b
    BY <1>6 DEF Read
  <1> QED BY <1>3, <1>6, <1>14, <1>18, <1>19 DEF HeadingReads

-----------------------------------------------------------------------------
(* The command.                                                            *)
LEMMA SymbolSqueezed ==
  ASSUME NEW x \in Symbols, NEW b \in Texts, NEW s, s = <<x>> \o b
  PROVE  Squeezed[s] = IF x \in White /\ Stops(b, White) THEN Squeezed[b]
                       ELSE <<x>> \o Squeezed[b]
  <1>1. s \in Texts /\ s # <<>> /\ Len(s) = 1 + Len(b) /\ s[1] = x
    BY SymbolBefore
  <1>2. \A i \in 1..Len(b) : s[1 + i] = b[i]
    BY SymbolBefore
  <1>3. Len(b) \in Nat /\ (b = <<>> <=> Len(b) = 0)
    BY LengthOfText
  <1>4. PICK t : t = Tail(s)
    OBVIOUS
  <1>5. t \in Texts /\ Len(t) = Len(s) - 1
    BY <1>1, <1>4, TailOfText
  <1>6. \A i \in 1..Len(s) - 1 : t[i] = s[i + 1]
    BY <1>1, <1>4, TailOfText
  <1>7. Len(t) = Len(b)
    BY <1>1, <1>3, <1>5
  <1>8. ASSUME NEW i \in 1..Len(t) PROVE t[i] = b[i]
    <2>1. i \in 1..Len(s) - 1 /\ i \in 1..Len(b) /\ i + 1 = 1 + i
      BY <1>5, <1>7
    <2> QED BY <1>2, <1>6, <2>1
  <1>9. t = b
    BY <1>5, <1>7, <1>8, EqualTexts
  <1>10. LeftOut(s) <=> x \in White /\ Stops(b, White)
    <2>1. Len(s) = 1 <=> b = <<>>
      BY <1>1, <1>3
    <2>2. b # <<>> => s[2] = b[1]
      <3>1. ASSUME b # <<>> PROVE s[1 + 1] = b[1]
        <4>1. 1 \in 1..Len(b)
          BY <1>3, <3>1
        <4> QED BY <1>2, <4>1
      <3> QED BY <3>1
    <2> QED BY <1>1, <2>1, <2>2 DEF LeftOut, Stops, Begins
  <1> QED BY <1>1, <1>4, <1>9, <1>10, SqueezedIs

LEMMA WordSqueezed ==
  ASSUME NEW w \in Texts, Avoids(w, White), NEW v \in Texts
  PROVE  Squeezed[w \o v] = w \o Squeezed[v]
  <1> DEFINE size == [s \in Texts |-> Len(s)]
             P == {s \in Texts : Avoids(s, White) => Squeezed[s \o v] = s \o Squeezed[v]}
  <1>1. size \in [Texts -> Nat]
    BY LengthOfText
  <1>2. Squeezed[v] \in Texts
    BY SqueezedType
  <1>3. ASSUME NEW s \in Texts, \A t \in Texts : size[t] < size[s] => t \in P
        PROVE  s \in P
    <2>1. CASE s = <<>>
      BY <1>2, <2>1, JoinWithNone
    <2>2. CASE s # <<>>
      <3>1. SUFFICES ASSUME Avoids(s, White) PROVE Squeezed[s \o v] = s \o Squeezed[v]
        OBVIOUS
      <3>2. PICK x : x = s[1]
        OBVIOUS
      <3>3. PICK t : t = Tail(s)
        OBVIOUS
      <3>4. /\ x \in Symbols /\ t \in Texts /\ Len(s) \in Nat \ {0} /\ Len(t) = Len(s) - 1
            /\ Len(t) < Len(s) /\ s = <<x>> \o t
        BY <2>2, <3>2, <3>3, TailOfText, Zenon
      <3>5. \A i \in 1..Len(s) - 1 : t[i] = s[i + 1]
        BY <2>2, <3>3, TailOfText
      <3>6. Avoids(t, White)
        <4>1. ASSUME NEW i \in 1..Len(t) PROVE t[i] \notin White
          <5>1. i \in 1..Len(s) - 1 /\ i + 1 \in 1..Len(s)
            BY <3>4
          <5> QED BY <3>1, <3>5, <5>1 DEF Avoids
        <4> QED BY <4>1 DEF Avoids
      <3>7. Squeezed[t \o v] = t \o Squeezed[v]
        BY <1>3, <3>4, <3>6
      <3>8. PICK o : o = <<x>>
        OBVIOUS
      <3>9. o \in Texts
        BY <3>4, <3>8, OneSymbol
      <3>10. PICK b : b = t \o v
        OBVIOUS
      <3>11. b \in Texts
        BY <3>4, <3>10, JoinOfTexts
      <3>12. s \o v = o \o b
        BY <3>4, <3>8, <3>9, <3>10, JoinInTurn
      <3>13. x \notin White
        <4>1. 1 \in 1..Len(s)
          BY <3>4
        <4> QED BY <3>1, <3>2, <4>1 DEF Avoids
      <3>14. Squeezed[s \o v] = o \o Squeezed[b]
        <4>1. s \o v = <<x>> \o b
          BY <3>8, <3>12
        <4>2. Squeezed[s \o v] = <<x>> \o Squeezed[b]
          BY <3>4, <3>11, <3>13, <4>1, SymbolSqueezed
        <4> QED BY <3>8, <4>2
      <3>15. o \o (t \o Squeezed[v]) = (o \o t) \o Squeezed[v]
        BY <1>2, <3>4, <3>9, JoinInTurn
      <3> QED BY <3>4, <3>7, <3>8, <3>10, <3>14, <3>15
    <2> QED BY <2>1, <2>2
  <1>4. \A s \in Texts : s \in P
    <2> HIDE DEF P, size
    <2> QED BY <1>1, <1>3, SizeInduction
  <1> QED BY <1>4

LEMMA BlanksSqueezed ==
  ASSUME NEW g, IsBlank(g), NEW v \in Texts, ~Begins(v, White)
  PROVE  Squeezed[g \o v] = IF g # <<>> /\ v # <<>> THEN <<" ">> \o Squeezed[v]
                            ELSE Squeezed[v]
  <1> DEFINE size == [s \in Texts |-> Len(s)]
             once == IF v # <<>> THEN <<" ">> \o Squeezed[v] ELSE Squeezed[v]
             P == {s \in Texts : IsBlank(s) /\ s # <<>> => Squeezed[s \o v] = once}
  <1>1. size \in [Texts -> Nat]
    BY LengthOfText
  <1>2. Squeezed[v] \in Texts
    BY SqueezedType
  <1>3. ASSUME NEW s \in Texts, \A t \in Texts : size[t] < size[s] => t \in P
        PROVE  s \in P
    <2>1. SUFFICES ASSUME IsBlank(s), s # <<>> PROVE Squeezed[s \o v] = once
      OBVIOUS
    <2>2. PICK x : x = s[1]
      OBVIOUS
    <2>3. PICK t : t = Tail(s)
      OBVIOUS
    <2>4. /\ x \in Symbols /\ t \in Texts /\ Len(s) \in Nat \ {0} /\ Len(t) = Len(s) - 1
          /\ Len(t) < Len(s) /\ s = <<x>> \o t
      BY <2>1, <2>2, <2>3, TailOfText, Zenon
    <2>5. \A i \in 1..Len(s) - 1 : t[i] = s[i + 1]
      BY <2>1, <2>3, TailOfText
    <2>6. IsBlank(t)
      <3>1. ASSUME NEW i \in 1..Len(t) PROVE t[i] \in White
        <4>1. i \in 1..Len(s) - 1 /\ i + 1 \in 1..Len(s)
          BY <2>4
        <4> QED BY <2>1, <2>5, <4>1 DEF IsBlank
      <3> QED BY <2>4, <3>1 DEF IsBlank
    <2>7. x \in White
      <3>1. 1 \in 1..Len(s)
        BY <2>4
      <3> QED BY <2>1, <2>2, <3>1 DEF IsBlank
    <2>8. PICK b : b = t \o v
      OBVIOUS
    <2>9. b \in Texts
      BY <2>4, <2>8, JoinOfTexts
    <2>10. s \o v = <<x>> \o b
      <3>1. PICK o : o = <<x>>
        OBVIOUS
      <3>2. o \in Texts
        BY <2>4, <3>1, OneSymbol
      <3> QED BY <2>4, <2>8, <3>1, <3>2, JoinInTurn
    <2>11. Squeezed[s \o v] = IF Stops(b, White) THEN Squeezed[b] ELSE <<x>> \o Squeezed[b]
      BY <2>4, <2>7, <2>9, <2>10, SymbolSqueezed
    <2>12. CASE t = <<>>
      <3>1. b = v
        BY <2>8, <2>12, JoinWithNone
      <3>2. Stops(b, White) <=> v = <<>>
        BY <3>1 DEF Stops
      <3>3. x = " "
        BY <2>7 DEF White
      <3> QED BY <2>11, <3>1, <3>2, <3>3
    <2>13. CASE t # <<>>
      <3>1. Begins(t, White)
        <4>1. 1 \in 1..Len(t)
          BY <2>4, <2>13, LengthOfText
        <4> QED BY <2>6, <2>13, <4>1 DEF IsBlank, Begins
      <3>2. Begins(b, White)
        BY <2>4, <2>8, <2>13, <3>1, JoinBegins
      <3>3. Squeezed[b] = once
        BY <1>3, <2>4, <2>6, <2>8, <2>13
      <3> QED BY <2>11, <3>2, <3>3 DEF Stops
    <2> QED BY <2>12, <2>13
  <1>4. \A s \in Texts : s \in P
    <2> HIDE DEF P, size
    <2> QED BY <1>1, <1>3, SizeInduction
  <1>5. g \in Texts
    BY DEF IsBlank
  <1>6. CASE g = <<>>
    BY <1>6, JoinWithNone
  <1>7. CASE g # <<>>
    BY <1>4, <1>5, <1>7
  <1> QED BY <1>6, <1>7

AreWords(words) == /\ words \in Seq(Texts) /\ Len(words) \in Nat \ {0}
                   /\ \A k \in 1..Len(words) : IsWord(words[k])

LEMMA WordIs ==
  ASSUME NEW w, IsWord(w)
  PROVE  w \in Texts /\ w # <<>> /\ Avoids(w, White) /\ w[1] \notin White
  <1>1. w \in Texts /\ w # <<>> /\ \A k \in DOMAIN w : w[k] \notin White
    BY DEF IsWord
  <1>2. DOMAIN w = 1..Len(w) /\ Len(w) \in Nat \ {0}
    BY <1>1, LengthOfText
  <1>3. 1 \in 1..Len(w)
    BY <1>2
  <1> QED BY <1>1, <1>2, <1>3 DEF Avoids

LEMMA JoinedBegins ==
  ASSUME NEW texts \in Seq(Texts), Len(texts) \in Nat \ {0}, texts[1] # <<>>,
         NEW between \in Texts, NEW f, JoinedBy(f, texts, between)
  PROVE  \A k \in 1..Len(texts) : f[k] \in Texts /\ f[k] # <<>> /\ f[k][1] = texts[1][1]
  <1> DEFINE n == Len(texts)
             P == {k \in 1..n : f[k] # <<>> /\ f[k][1] = texts[1][1]}
  <1>1. n \in Nat \ {0} /\ \A k \in 1..n : texts[k] \in Texts
    BY ElementOfSeq
  <1>2. /\ \A k \in 1..n : f[k] \in Texts
        /\ f[1] = texts[1]
        /\ \A k \in 1..(n - 1) : f[k + 1] = f[k] \o between \o texts[k + 1]
    BY DEF JoinedBy
  <1>3. 1 \in P
    BY <1>1, <1>2
  <1>4. ASSUME NEW k \in 1..(n - 1), k \in P PROVE k + 1 \in P
    <2>1. k + 1 \in 1..n /\ k \in 1..n
      BY <1>1
    <2>2. PICK a : a = f[k] \o between
      OBVIOUS
    <2>3. PICK t : t = texts[k + 1]
      OBVIOUS
    <2>4. a \in Texts /\ a # <<>> /\ a[1] = texts[1][1] /\ t \in Texts
      BY <1>1, <1>2, <1>4, <2>1, <2>2, <2>3, JoinOfTexts, JoinBegins
    <2>5. f[k + 1] = a \o t
      BY <1>2, <2>2, <2>3
    <2>6. f[k + 1] # <<>> /\ f[k + 1][1] = texts[1][1]
      BY <2>4, <2>5, JoinBegins
    <2> QED BY <2>1, <2>6
  <1>5. \A k \in 1..n : k \in P
    <2> HIDE DEF P, n
    <2> QED BY <1>1, <1>3, <1>4, StepByStep
  <1> QED BY <1>2, <1>5

OneBlank == <<" ">>

SqueezedTo(a, b, u) == Squeezed[a \o u] = b \o Squeezed[u]

LEMMA WordsSqueezed ==
  ASSUME NEW words, AreWords(words), NEW gap, IsBlank(gap),
         NEW f, JoinedBy(f, words, Blank(gap)), NEW h, JoinedBy(h, words, OneBlank),
         NEW u \in Texts
  PROVE  SqueezedTo(f[Len(words)], h[Len(words)], u)
  <1> DEFINE n == Len(words)
             P == {k \in 1..n : \A v \in Texts : Squeezed[f[k] \o v] = h[k] \o Squeezed[v]}
  <1>0. n \in Nat \ {0}
    BY DEF AreWords
  <1>1. n \in Nat \ {0} /\ \A k \in 1..n : words[k] \in Texts /\ IsWord(words[k])
    BY ElementOfSeq DEF AreWords
  <1>2. PICK a : a = Blank(gap)
    OBVIOUS
  <1>3. IsBlank(a) /\ a # <<>> /\ a \in Texts
    BY <1>2, BlankIs DEF IsBlank
  <1>4. PICK o : o = OneBlank
    OBVIOUS
  <1>5. o \in Texts
    BY <1>4, SymbolAssumption, OneSymbol DEF OneBlank
  <1>6. /\ \A k \in 1..n : f[k] \in Texts /\ h[k] \in Texts
        /\ f[1] = words[1] /\ h[1] = words[1]
    BY DEF JoinedBy
  <1>7. \A k \in 1..(n - 1) : /\ f[k + 1] = Three(f[k], a, words[k + 1])
                              /\ h[k + 1] = Three(h[k], o, words[k + 1])
    BY <1>2, <1>4 DEF JoinedBy, Three
  <1>8. 1 \in P
    <2>0. 1 \in 1..n
      <3> HIDE DEF n, P
      <3> QED BY <1>0
    <2>1. words[1] \in Texts /\ Avoids(words[1], White) /\ 1 \in 1..n
      BY <1>1, <2>0, WordIs
    <2>2. \A v \in Texts : Squeezed[words[1] \o v] = words[1] \o Squeezed[v]
      BY <2>1, WordSqueezed
    <2> QED BY <1>6, <2>1, <2>2
  <1>9. ASSUME NEW k \in 1..(n - 1), k \in P PROVE k + 1 \in P
    <2>1. k + 1 \in 1..n /\ k \in 1..n
      <3> HIDE DEF n, P
      <3> QED BY <1>0
    <2>2. PICK w : w = words[k + 1]
      OBVIOUS
    <2>3. w \in Texts /\ w # <<>> /\ Avoids(w, White) /\ w[1] \notin White
      BY <1>1, <2>1, <2>2, WordIs
    <2>4. ASSUME NEW v \in Texts PROVE Squeezed[f[k + 1] \o v] = h[k + 1] \o Squeezed[v]
      <3>1. PICK z : z = Squeezed[v]
        OBVIOUS
      <3>2. z \in Texts
        BY <3>1, SqueezedType
      <3>3. PICK b : b = w \o v
        OBVIOUS
      <3>4. b \in Texts /\ b # <<>> /\ ~Begins(b, White)
        <4>1. b \in Texts
          BY <2>3, <3>3, JoinOfTexts
        <4>2. b # <<>> /\ b[1] = w[1]
          BY <2>3, <3>3, JoinBegins
        <4> QED BY <2>3, <4>1, <4>2 DEF Begins
      <3>5. Squeezed[b] = w \o z
        BY <2>3, <3>1, <3>3, WordSqueezed
      <3>6. PICK d : d = a \o b
        OBVIOUS
      <3>7. d \in Texts
        BY <1>3, <3>4, <3>6, JoinOfTexts
      <3>8. Squeezed[d] = o \o Squeezed[b]
        BY <1>3, <1>4, <3>4, <3>6, BlanksSqueezed DEF OneBlank
      <3>9. f[k + 1] \o v = f[k] \o d
        <4>0. PICK p : p = f[k]
          OBVIOUS
        <4>1. p \in Texts /\ a \in Texts /\ w \in Texts /\ v \in Texts
          BY <1>3, <1>6, <2>1, <2>3, <4>0
        <4>2. Three(p, a, w) \in Texts /\ Three(p, a, w) \o v = ThreeAnd(p, a, w, v)
          BY ONLY <4>1, JoinThree
        <4>3. ThreeAnd(p, a, w, v) = p \o d
          BY <3>3, <3>6 DEF ThreeAnd
        <4> QED BY <1>7, <2>2, <4>0, <4>2, <4>3
      <3>10. h[k + 1] \o z = h[k] \o (o \o (w \o z))
        <4>0. PICK p : p = h[k]
          OBVIOUS
        <4>1. p \in Texts /\ o \in Texts /\ w \in Texts /\ z \in Texts
          BY <1>5, <1>6, <2>1, <2>3, <3>2, <4>0
        <4>2. Three(p, o, w) \o z = ThreeAnd(p, o, w, z)
          BY ONLY <4>1, JoinThree
        <4>3. ThreeAnd(p, o, w, z) = p \o (o \o (w \o z))
          BY DEF ThreeAnd
        <4> QED BY <1>7, <2>2, <4>0, <4>2, <4>3
      <3>11. Squeezed[f[k] \o d] = h[k] \o Squeezed[d]
        BY <1>9, <3>7
      <3> QED BY <3>1, <3>5, <3>8, <3>9, <3>10, <3>11
    <2> QED BY <2>1, <2>4
  <1>10. \A k \in 1..n : k \in P
    <2> HIDE DEF P, n
    <2> QED BY <1>1, <1>8, <1>9, StepByStep
  <1>11. n \in 1..n
    <2> HIDE DEF P, n
    <2> QED BY <1>0
  <1>12. \A v \in Texts : Squeezed[f[n] \o v] = h[n] \o Squeezed[v]
    <2>1. n \in P
      BY <1>10, <1>11
    <2> QED BY <2>1
  <1> QED BY <1>12 DEF SqueezedTo

(* Words give a command with one blank between them, and with the default  *)
(* parameters when there is one word.                                      *)
LEMMA CommandIs ==
  ASSUME NEW words, AreWords(words), NEW gap, IsBlank(gap),
         NEW c, c = Joined(words, Blank(gap))
  PROVE  /\ c \in Texts /\ c # <<>> /\ c[1] = words[1][1]
         /\ Command[c \o gap] = Joined(words, <<" ">>) \o
                                (IF Len(words) = 1 THEN DefaultParameters ELSE <<>>)
  <1> DEFINE n == Len(words)
  <1>0. n \in Nat \ {0}
    BY DEF AreWords
  <1>1. n \in Nat \ {0} /\ words \in Seq(Texts) /\ words # <<>>
        /\ \A k \in 1..n : IsWord(words[k])
    <2>1. \A s \in Seq(Texts) : Len(s) # 0 => s # <<>>
      BY EmptySeq
    <2> QED BY <2>1 DEF AreWords
  <1>2. Blank(gap) \in Texts
    BY BlankIs DEF IsBlank
  <1>3. <<" ">> \in Texts /\ Len(<<" ">>) = 1 /\ <<" ">>[1] = " "
    BY SymbolAssumption, OneSymbol
  <1>4. PICK f : JoinedBy(f, words, Blank(gap)) /\ c = f[n]
    BY <1>1, <1>2, JoinedIs
  <1>5. PICK j : j = Joined(words, <<" ">>)
    OBVIOUS
  <1>6. PICK h : JoinedBy(h, words, <<" ">>) /\ j = h[n]
    BY <1>1, <1>3, <1>5, JoinedIs
  <1>7. 1 \in 1..n /\ n \in 1..n
    BY <1>1
  <1>8. words[1] # <<>>
    BY <1>1, <1>7, WordIs
  <1>9. c \in Texts /\ c # <<>> /\ c[1] = words[1][1]
    BY <1>1, <1>2, <1>4, <1>7, <1>8, JoinedBegins
  <1>10. j \in Texts
    BY <1>6, <1>7 DEF JoinedBy
  <1>11. gap \in Texts /\ c \o gap \in Texts
    BY <1>9, JoinOfTexts DEF IsBlank
  <1>12. Squeezed[c \o gap] = j
    <2>1. Squeezed[c \o gap] = j \o Squeezed[gap]
      <3>1. JoinedBy(f, words, Blank(gap)) /\ JoinedBy(h, words, OneBlank) /\ gap \in Texts
        BY <1>4, <1>6, <1>11 DEF OneBlank
      <3>2. SqueezedTo(f[Len(words)], h[Len(words)], gap)
        BY ONLY AreWords(words), IsBlank(gap), <3>1, WordsSqueezed
      <3> QED BY <1>4, <1>6, <3>2 DEF SqueezedTo
    <2>2. Squeezed[gap] = <<>>
      <3>1. gap \o <<>> = gap /\ <<>> \in Texts /\ ~Begins(<<>>, White)
        BY <1>11, JoinWithNone, NoSymbol DEF Begins
      <3>2. Squeezed[gap \o <<>>] = Squeezed[<<>>]
        BY <3>1, BlanksSqueezed
      <3> QED BY <3>1, <3>2, SqueezedIs
    <2> QED BY <1>10, <2>1, <2>2, JoinWithNone
  <1>13. CASE n = 1
    <2>1. j = words[1]
      BY <1>6, <1>13 DEF JoinedBy
    <2>2. DOMAIN j = 1..Len(j) /\ Avoids(j, White)
      BY <1>1, <1>7, <1>10, <2>1, LengthOfText, WordIs
    <2>3. ~ \E k \in DOMAIN j : j[k] \in White
      BY <2>2 DEF Avoids
    <2>4. Command[c \o gap] = j \o DefaultParameters
      BY <1>10, <1>11, <1>12, <2>3 DEF Command, WithDefaults
    <2> QED BY <1>5, <1>9, <1>13, <2>4
  <1>14. CASE n # 1
    <2>1. n - 1 \in 1..(n - 1) /\ n - 1 \in 1..n /\ (n - 1) + 1 = n
      BY <1>0, <1>14
    <2>2. PICK p : p = h[n - 1]
      OBVIOUS
    <2>3. p \in Texts /\ j = p \o <<" ">> \o words[n]
      BY <1>6, <2>1, <2>2 DEF JoinedBy
    <2>4. words[n] \in Texts
      BY <1>1, <1>7, WordIs
    <2>5. PICK o : o = <<" ">>
      OBVIOUS
    <2>6. o \in Texts /\ Len(o) = 1 /\ o[1] = " "
      BY <1>3, <2>5
    <2>7. PICK q : q = p \o o
      OBVIOUS
    <2>8. q \in Texts /\ Len(q) = Len(p) + Len(o)
      BY <2>3, <2>6, <2>7, JoinOfTexts
    <2>9. \A i \in 1..Len(o) : q[Len(p) + i] = o[i]
      BY <2>3, <2>6, <2>7, JoinOfTexts
    <2>10. j = q \o words[n]
      BY <2>3, <2>5, <2>7
    <2>11. \A i \in 1..Len(q) : j[i] = q[i]
      BY <2>4, <2>8, <2>10, JoinOfTexts
    <2>12. Len(j) = Len(q) + Len(words[n]) /\ Len(p) \in Nat /\ Len(words[n]) \in Nat
           /\ DOMAIN j = 1..Len(j)
      <3>1. Len(j) = Len(q) + Len(words[n])
        BY <2>4, <2>8, <2>10, JoinOfTexts
      <3>2. Len(p) \in Nat /\ Len(words[n]) \in Nat
        BY <2>3, <2>4, LengthOfText
      <3>3. DOMAIN j = 1..Len(j)
        BY <1>10, LengthOfText
      <3> QED BY <3>1, <3>2, <3>3
    <2>13. q[Len(p) + 1] = " "
      <3>0. Len(o) = 1
        BY <2>6
      <3>1. 1 \in 1..Len(o)
        BY <3>0
      <3> QED BY <2>6, <2>9, <3>1
    <2>14. Len(p) + 1 \in 1..Len(q) /\ Len(p) + 1 \in 1..Len(j)
      <3>1. Len(o) = 1 /\ Len(q) = Len(p) + Len(o)
        BY <2>6, <2>8
      <3>2. PICK a \in Nat : a = Len(p)
        BY <2>12
      <3>3. PICK b \in Nat : b = Len(words[n])
        BY <2>12
      <3>4. Len(q) = a + 1 /\ Len(j) = (a + 1) + b
        BY <2>12, <3>1, <3>2, <3>3
      <3>5. a + 1 \in 1..(a + 1) /\ a + 1 \in 1..((a + 1) + b)
        OBVIOUS
      <3> QED BY <3>2, <3>4, <3>5
    <2>15. j[Len(p) + 1] \in White
      BY <2>11, <2>13, <2>14 DEF White
    <2>16. \E k \in DOMAIN j : j[k] \in White
      BY <2>12, <2>14, <2>15
    <2>17. Command[c \o gap] = j
      BY <1>10, <1>11, <1>12, <2>16 DEF Command, WithDefaults
    <2>18. j \o <<>> = j
      BY <1>10, JoinWithNone
    <2> QED BY <1>5, <1>9, <1>14, <2>17, <2>18
  <1> QED BY <1>9, <1>13, <1>14

-----------------------------------------------------------------------------
(* A whole specification.                                                  *)
LEMMA FunctionIsSequence ==
  ASSUME NEW S, NEW n \in Nat, NEW f \in [1..n -> S]
  PROVE  f \in Seq(S) /\ Len(f) = n
  OBVIOUS

LEMMA BlanksAre ==
  ASSUME NEW gap \in Seq(White)
  PROVE  IsBlank(gap)
  <1>1. Len(gap) \in Nat /\ \A k \in 1..Len(gap) : gap[k] \in White
    BY ElementOfSeq, LenProperties
  <1>2. gap = [k \in 1..Len(gap) |-> gap[k]]
    BY LenProperties
  <1>3. gap \in Texts
    <2>1. White \subseteq Symbols
      BY PunctuationIs
    <2>2. gap \in [1..Len(gap) -> Symbols]
      BY <1>1, <1>2, <2>1
    <2>3. gap \in Seq(Symbols)
      BY <1>1, <2>2, FunctionIsSequence
    <2> QED BY <2>2, <2>3 DEF Texts
  <1> QED BY <1>1, <1>3 DEF IsBlank

LEMMA ItemsWritten ==
  ASSUME NEW match_set \in Seq(ReadRanges), Len(match_set) \in 1..NUMBER_OF_VARIENT_RANGES,
         \A j \in DOMAIN match_set : ExpressibleItem(match_set[j]),
         NEW gap, IsBlank(gap), NEW m \in Items(match_set, gap)
  PROVE  \E texts : WrittenItems(match_set, gap, texts) /\ m = Joined(texts, Bar(gap))
  <1> DEFINE n == Len(match_set)
             all == UNION {Item(match_set[j], gap) : j \in DOMAIN match_set}
  <1>1. n \in Nat \ {0} /\ DOMAIN match_set = 1..n
        /\ \A j \in 1..n : match_set[j] \in ReadRanges
    BY ElementOfSeq, LenProperties
  <1>2. PICK texts \in [DOMAIN match_set -> all] :
          /\ \A j \in DOMAIN match_set : texts[j] \in Item(match_set[j], gap)
          /\ m = Joined(texts, Bar(gap))
    BY DEF Items, Bar
  <1>3. \A j \in 1..n : texts[j] \in Item(match_set[j], gap) /\ ExpressibleItem(match_set[j])
    BY <1>1, <1>2
  <1>4. \A j \in 1..n : texts[j] \in Texts
    BY <1>1, <1>3, ItemText
  <1>5. texts \in [1..n -> Texts]
    BY <1>1, <1>2, <1>4
  <1>6. texts \in Seq(Texts) /\ Len(texts) = n
    BY <1>1, <1>5, FunctionIsSequence
  <1>7. WrittenItems(match_set, gap, texts)
    BY <1>3, <1>6 DEF WrittenItems
  <1> QED BY <1>2, <1>7

(* Blanks, a name, an index, a match list and words.                       *)
SpecText(gap, name, ix, m, c) ==
  gap \o name \o <<" ">> \o gap \o ix \o m \o <<" ">> \o gap \o c \o gap

CommandBehind(gap, c) == Blank(gap) \o (c \o gap)

LEMMA SpecIs ==
  ASSUME NEW gap, IsBlank(gap), NEW name \in Texts, NEW ix \in Texts, NEW m \in Texts,
         NEW c \in Texts, NEW t, t = SpecText(gap, name, ix, m, c)
  PROVE  t = HeadingAnd(gap, name, ix, m \o CommandBehind(gap, c))
  <1>1. gap \in Texts /\ Blank(gap) \in Texts
    BY BlankIs DEF IsBlank
  <1>2. PICK o : o = <<" ">>
    OBVIOUS
  <1>3. o \in Texts
    BY <1>2, SymbolAssumption, OneSymbol
  <1>4. PICK a : a = Blank(gap)
    OBVIOUS
  <1>5. a = o \o gap /\ a \in Texts
    BY <1>1, <1>2, <1>4 DEF Blank
  <1>6. PICK p : p = gap \o name
    OBVIOUS
  <1>7. p \in Texts
    BY <1>1, <1>6, JoinOfTexts
  <1>8. PICK r : r = p \o a
    OBVIOUS
  <1>9. ASSUME NEW s \in Texts PROVE s \o a \in Texts /\ Three(s, o, gap) = s \o a
    <2> DEFINE Join(x, y) == x \o y
    <2>1. \A x \in Texts, y \in Texts, z \in Texts :
            Join(Join(x, y), z) = Join(x, Join(y, z))
      BY JoinInTurn
    <2>2. Join(o, gap) = a
      BY <1>5
    <2>3. s \o a \in Texts
      BY <1>5, JoinOfTexts
    <2> HIDE DEF Join
    <2>4. Join(Join(s, o), gap) = Join(s, Join(o, gap))
      BY <1>1, <1>3, <2>1
    <2>5. Join(Join(s, o), gap) = Join(s, a)
      BY <2>2, <2>4
    <2> QED BY <2>3, <2>5 DEF Join, Three
  <1>10. PICK q : q = Three(r, ix, m)
    OBVIOUS
  <1>11. PICK v : v = c \o gap
    OBVIOUS
  <1>12. PICK u : u = a \o v
    OBVIOUS
  <1>13. v \in Texts /\ u \in Texts
    <2>1. v \in Texts
      BY <1>1, <1>11, JoinOfTexts
    <2> QED BY <1>5, <1>12, <2>1, JoinOfTexts
  <1>14. q \in Texts /\ q \o u = ThreeAnd(r, ix, m, u)
    <2>1. r \in Texts /\ ix \in Texts /\ m \in Texts /\ u \in Texts
      BY <1>7, <1>8, <1>9, <1>13
    <2>2. Three(r, ix, m) \in Texts /\ Three(r, ix, m) \o u = ThreeAnd(r, ix, m, u)
      BY ONLY <2>1, JoinThree
    <2> QED BY <1>10, <2>2
  <1>15. Three(p, o, gap) = r /\ Three(q, o, gap) = q \o a
    BY <1>7, <1>8, <1>9, <1>14
  <1>16. (q \o a) \o c \o gap = q \o u
    <2>1. a \in Texts /\ c \in Texts /\ q \in Texts /\ gap \in Texts
      BY <1>1, <1>5, <1>14
    <2>2. Three(q, a, c) \in Texts /\ Three(q, a, c) \o gap = ThreeAnd(q, a, c, gap)
      BY ONLY <2>1, JoinThree
    <2> QED BY <1>11, <1>12, <2>2 DEF Three, ThreeAnd
  <1>17. t = q \o u
    <2>1. t = ((((((((gap \o name) \o o) \o gap) \o ix) \o m) \o o) \o gap) \o c) \o gap
      BY <1>2 DEF SpecText
    <2>2. t = (((((((p \o o) \o gap) \o ix) \o m) \o o) \o gap) \o c) \o gap
      BY <1>6, <2>1
    <2>3. t = ((((q \o o) \o gap) \o c) \o gap)
      BY <1>10, <1>15, <2>2 DEF Three
    <2> QED BY <1>15, <1>16, <2>3 DEF Three
  <1>18. PICK b : b = m \o u
    OBVIOUS
  <1>19. PICK x : x = ix \o b
    OBVIOUS
  <1>20. b \in Texts /\ x \in Texts
    <2>1. b \in Texts
      BY <1>13, <1>18, JoinOfTexts
    <2> QED BY <1>19, <2>1, JoinOfTexts
  <1>21. t = r \o x
    BY <1>14, <1>17, <1>18, <1>19 DEF ThreeAnd
  <1>22. r \o x = gap \o (name \o (a \o x))
    <2>1. gap \in Texts /\ name \in Texts /\ a \in Texts /\ x \in Texts
      BY <1>1, <1>5, <1>20
    <2>2. Three(gap, name, a) \in Texts /\ Three(gap, name, a) \o x = ThreeAnd(gap, name, a, x)
      BY ONLY <2>1, JoinThree
    <2> QED BY <1>6, <1>8, <2>2 DEF Three, ThreeAnd
  <1>23. b = m \o CommandBehind(gap, c)
    BY <1>4, <1>11, <1>12, <1>18 DEF CommandBehind
  <1> QED BY <1>4, <1>19, <1>21, <1>22, <1>23 DEF HeadingAnd

(* What stands behind the match list begins with a blank, and the command  *)
(* behind that with its first word.                                        *)
LEMMA CommandBehindIs ==
  ASSUME NEW words, AreWords(words), ~Begins(words[1], {"~", "|"}),
         NEW gap, IsBlank(gap), NEW c, c = Joined(words, Blank(gap)),
         NEW u, u = CommandBehind(gap, c)
  PROVE  /\ c \in Texts /\ ComesNext(u) /\ ~Begins(SkipWhite[u], {"|"})
         /\ SkipWhite[u] = c \o gap
  <1>1. c \in Texts /\ c # <<>> /\ c[1] = words[1][1]
    BY CommandIs
  <1>2. words[1] # <<>> /\ words[1][1] \notin White
    <2>1. Len(words) \in Nat \ {0}
      BY DEF AreWords
    <2>2. 1 \in 1..Len(words)
      BY <2>1
    <2>3. IsWord(words[1])
      BY <2>2 DEF AreWords
    <2> QED BY <2>3, WordIs
  <1>3. words[1][1] \notin {"~", "|"}
    BY <1>2 DEF Begins
  <1>4. PICK a : a = Blank(gap)
    OBVIOUS
  <1>5. IsBlank(a) /\ a # <<>> /\ a \in Texts /\ a[1] \in White /\ gap \in Texts
    BY <1>4, BlankIs DEF IsBlank, White
  <1>6. PICK v : v = c \o gap
    OBVIOUS
  <1>7. v \in Texts
    BY <1>1, <1>5, <1>6, JoinOfTexts
  <1>8. v # <<>> /\ v[1] = words[1][1]
    BY <1>1, <1>5, <1>6, JoinBegins
  <1>9. u = a \o v
    BY <1>4, <1>6 DEF CommandBehind
  <1>10. u \in Texts
    BY <1>5, <1>7, <1>9, JoinOfTexts
  <1>11. u # <<>> /\ u[1] = a[1]
    BY <1>5, <1>7, <1>9, JoinBegins
  <1>12. SkipWhite[u] = v
    <2>1. ~Begins(v, White)
      BY <1>2, <1>8 DEF Begins
    <2> QED BY <1>5, <1>7, <1>9, <2>1, BlanksSkipped
  <1>13. Begins(u, White \cup {"|"})
    BY <1>5, <1>11 DEF Begins
  <1>14. ~Begins(v, {"~"}) /\ ~Begins(v, {"|"})
    BY <1>3, <1>8 DEF Begins
  <1> QED BY <1>1, <1>6, <1>8, <1>10, <1>12, <1>13, <1>14 DEF ComesNext

(* The reader knows the documented language: a specification that says     *)
(* something it can say, in any of the ways the language has to write it   *)
(* and with any blanks where they may be, gives the one client that is     *)
(* meant, for any alphabet, any numbers and any sizes (kryten.html:110-157 *)
(* against read_configuration.c:80-464).                                   *)
THEOREM GrammarIsRead ==
  ASSUME NEW pv_name, NEW index, NEW match_set, NEW words,
         Sayable(pv_name, index, match_set, words),
         NEW gap \in Seq(White), NEW t \in Written(pv_name, index, match_set, words, gap)
  PROVE  t \in Texts /\ ClientsOf[t] = <<Meant(pv_name, index, match_set, words)>>
  <1>1. /\ IsWord(pv_name) /\ Begins(pv_name, Alnum \cup {"$"})
        /\ index \in Ints /\ index >= 1
        /\ match_set \in Seq(ReadRanges) /\ Len(match_set) \in 1..NUMBER_OF_VARIENT_RANGES
        /\ \A j \in DOMAIN match_set : ExpressibleItem(match_set[j])
        /\ ~Begins(words[1], {"~", "|"})
        /\ Fits(Meant(pv_name, index, match_set, words))
    BY DEF Sayable
  <1>2. AreWords(words)
    <2>1. words \in Seq(Texts) /\ words # <<>> /\ \A k \in DOMAIN words : IsWord(words[k])
      BY DEF Sayable
    <2>2. Len(words) \in Nat \ {0} /\ DOMAIN words = 1..Len(words)
      BY <2>1, LenProperties, EmptySeq
    <2> QED BY <2>1, <2>2 DEF AreWords
  <1>3. IsBlank(gap) /\ gap \in Texts
    BY BlanksAre DEF IsBlank
  <1>4. PICK c : c = Joined(words, Blank(gap))
    OBVIOUS
  <1>5. PICK ix \in Index(index, gap), m \in Items(match_set, gap) :
          t = SpecText(gap, pv_name, ix, m, c)
    <2>1. PICK i \in Index(index, gap), j \in Items(match_set, gap) :
            t = Parts(pv_name, i, j, words, gap)
      BY DEF Written
    <2>2. Parts(pv_name, i, j, words, gap) = SpecText(gap, pv_name, i, j, c)
      BY <1>4 DEF Parts, SpecText, Blank
    <2> QED BY <2>1, <2>2
  <1>6. PICK u : u = CommandBehind(gap, c)
    OBVIOUS
  <1>7. c \in Texts /\ ComesNext(u) /\ ~Begins(SkipWhite[u], {"|"})
        /\ SkipWhite[u] = c \o gap
    BY <1>1, <1>2, <1>3, <1>4, <1>6, CommandBehindIs
  <1>8. PICK texts : WrittenItems(match_set, gap, texts) /\ m = Joined(texts, Bar(gap))
    BY <1>1, <1>3, <1>5, ItemsWritten
  <1>9. m \in Texts /\ m # <<>> /\ m[1] \notin White \cup {"["}
    BY <1>3, <1>7, <1>8, ListIs
  <1>10. \A g : IsBlank(g) => ListFrom(g \o (m \o u)) = Read(match_set, c \o gap)
    <2>1. ASSUME NEW g, IsBlank(g) PROVE ListFrom(g \o (m \o u)) = Read(match_set, SkipWhite[u])
      <3>1. ComesNext(u) /\ ~Begins(SkipWhite[u], {"|"})
        BY <1>7
      <3> QED BY ONLY <1>8, <2>1, <3>1, ListIs
    <2> QED BY <1>7, <2>1
  <1>11. PICK b : b = m \o u
    OBVIOUS
  <1>12. b \in Texts /\ b # <<>> /\ b[1] \notin White \cup {"["}
    <2>1. u \in Texts
      BY <1>7 DEF ComesNext
    <2>2. b \in Texts
      BY <1>9, <1>11, <2>1, JoinOfTexts
    <2>3. b # <<>> /\ b[1] = m[1]
      BY <1>9, <1>11, <2>1, JoinBegins
    <2> QED BY <1>9, <2>2, <2>3
  <1>13. t = HeadingAnd(gap, pv_name, ix, b)
    <2>1. ix \in Texts
      BY <1>1, <1>3, <1>5, <1>12, IndexIs
    <2>2. pv_name \in Texts
      BY <1>1 DEF IsWord
    <2> QED BY <1>3, <1>5, <1>6, <1>7, <1>9, <1>11, <2>1, <2>2, SpecIs
  <1>14. t \in Texts /\ HeadingReads(t, pv_name, index, b)
    <2>1. /\ IsWord(pv_name) /\ Begins(pv_name, Alnum \cup {"$"})
          /\ index \in Ints /\ index >= 1 /\ IsBlank(gap) /\ ix \in Index(index, gap)
          /\ b \in Texts /\ b # <<>> /\ b[1] \notin White \cup {"["}
      BY <1>1, <1>3, <1>12
    <2> QED BY ONLY <1>13, <2>1, HeadingIs
  <1>15. PICK g : IsBlank(g) /\ Heading[t] = Read(Entry(pv_name, index, <<>>), g \o b)
    BY <1>14 DEF HeadingReads
  <1>16. PICK e : e = Entry(pv_name, index, <<>>)
    OBVIOUS
  <1>17. PICK l : l = Read(match_set, c \o gap)
    OBVIOUS
  <1>18. ListOf(Heading[t]) = l
    <2>1. Heading[t].rest = g \o b
      BY <1>15 DEF Read
    <2> QED BY <1>10, <1>11, <1>15, <1>17, <2>1 DEF ListOf, ListFrom
  <1>19. Heading[t].outcome = "read" /\ Heading[t].value = e
    BY <1>15, <1>16 DEF Read
  <1>20. ClientsOf[t] = Completed[<<e, l>>]
    BY <1>14, <1>18, <1>19 DEF ClientsOf
  <1>21. e \in Entries
    <2>1. pv_name \in Texts /\ <<>> \in Seq(ReadRanges)
      BY <1>1, EmptySeq DEF IsWord
    <2> QED BY <1>1, <1>16, <2>1 DEF Entries, Entry
  <1>22. l \in ListOutcomes
    <2>1. c \o gap \in Texts
      BY <1>3, <1>7, JoinOfTexts
    <2> QED BY <1>1, <1>17, <2>1 DEF ListOutcomes, Outcomes, Read
  <1>23. PICK d : d = Client(Entry(e.pv_name, e.element_index, l.value), Command[l.rest])
    OBVIOUS
  <1>24. Completed[<<e, l>>] = IF l.outcome = "read" /\ Fits(d) THEN <<d>> ELSE <<>>
    BY <1>21, <1>22, <1>23, CompletedIs
  <1>25. d = Meant(pv_name, index, match_set, words)
    <2>1. e.pv_name = pv_name /\ e.element_index = index
      BY <1>16 DEF Entry
    <2>2. l.value = match_set /\ l.rest = c \o gap
      BY <1>17 DEF Read
    <2>3. d = Client(Entry(pv_name, index, match_set), Command[c \o gap])
      BY <1>23, <2>1, <2>2
    <2>4. Command[c \o gap] = Joined(words, <<" ">>) \o
                              (IF Len(words) = 1 THEN DefaultParameters ELSE <<>>)
      BY <1>2, <1>3, <1>4, CommandIs
    <2> QED BY <2>3, <2>4 DEF Client, Entry, Meant
  <1>26. l.outcome = "read" /\ Fits(d)
    BY <1>1, <1>17, <1>25 DEF Read
  <1> QED BY <1>14, <1>20, <1>24, <1>25, <1>26

-----------------------------------------------------------------------------
(* A configuration.  A specification is as the grammar has it, but for the *)
(* blanks before it, or one that gives no client; what an ordinary text    *)
(* says is what the specifications the documents divide it into say, in    *)
(* their order.                                                            *)
Says(spec, made) ==
  \/ made = <<>> /\ ClientsOf[spec] = <<>>
  \/ \E pv_name, index, match_set, words : \E gap \in Seq(White) :
       /\ Sayable(pv_name, index, match_set, words)
       /\ \E t \in Written(pv_name, index, match_set, words, gap) : SkipWhite[spec] = SkipWhite[t]
       /\ made = <<Meant(pv_name, index, match_set, words)>>

AsDocumented(i) ==
  LET specs == DocumentedText[i.text]
  IN  /\ Ordinary(i.text)
      /\ \E f : /\ f[0] = <<>> /\ f[Len(specs)] = i.written
                /\ \A k \in 1..Len(specs) :
                     \E made : Says(specs[k], made) /\ f[k] = f[k - 1] \o made

LEMMA SaidIsMade ==
  ASSUME NEW spec \in Texts, NEW made, Says(spec, made)
  PROVE  ClientsOf[spec] = made
  <1>1. CASE made = <<>> /\ ClientsOf[spec] = <<>>
    BY <1>1
  <1>2. ASSUME NEW pv_name, NEW index, NEW match_set, NEW words, NEW gap \in Seq(White),
               Sayable(pv_name, index, match_set, words),
               NEW t \in Written(pv_name, index, match_set, words, gap),
               SkipWhite[spec] = SkipWhite[t],
               made = <<Meant(pv_name, index, match_set, words)>>
        PROVE  ClientsOf[spec] = made
    <2>1. t \in Texts /\ ClientsOf[t] = made
      BY <1>2, GrammarIsRead
    <2>2. Heading[spec] = Heading[t]
      BY <1>2, <2>1 DEF Heading
    <2>3. ClientsOf[spec] = ClientsOf[t]
      BY <2>1, <2>2 DEF ClientsOf
    <2> QED BY <2>1, <2>3
  <1> QED BY <1>1, <1>2 DEF Says

Makes(f, specs, written) ==
  /\ f[0] = <<>> /\ f[Len(specs)] = written
  /\ \A k \in 1..Len(specs) : f[k] = f[k - 1] \o ClientsOf[specs[k]]

LEMMA DocumentedIsMade ==
  ASSUME NEW i, i.text \in Texts, AsDocumented(i)
  PROVE  \E f : Makes(f, InText[i.text], i.written)
  <1>1. PICK specs : specs = InText[i.text]
    OBVIOUS
  <1>2. specs \in Seq(Texts) /\ specs = DocumentedText[i.text]
    BY <1>1, InTextIs, OrdinaryTextsAreDivided DEF AsDocumented
  <1>3. PICK f : /\ f[0] = <<>> /\ f[Len(specs)] = i.written
                 /\ \A k \in 1..Len(specs) :
                      \E made : Says(specs[k], made) /\ f[k] = f[k - 1] \o made
    BY <1>2 DEF AsDocumented
  <1>4. ASSUME NEW k \in 1..Len(specs) PROVE f[k] = f[k - 1] \o ClientsOf[specs[k]]
    <2>1. PICK made : Says(specs[k], made) /\ f[k] = f[k - 1] \o made
      BY <1>3
    <2>2. specs[k] \in Texts
      BY <1>2, ElementOfSeq
    <2>3. ClientsOf[specs[k]] = made
      BY <2>1, <2>2, SaidIsMade
    <2> QED BY <2>1, <2>3
  <1> QED BY <1>1, <1>3, <1>4 DEF Makes

(* The rest of a sequence and what it begins with.                         *)
LEMMA RestOfSequence ==
  ASSUME NEW S, NEW s \in Seq(S), NEW n \in 0..Len(s)
  PROVE  /\ Rest(s, 0) = s
         /\ Rest(s, n) = <<>> => n = Len(s)
         /\ Rest(s, n) # <<>> => /\ n + 1 \in 1..Len(s)
                                 /\ Head(Rest(s, n)) = s[n + 1]
                                 /\ Tail(Rest(s, n)) = Rest(s, n + 1)
  <1>1. PICK z \in Nat : z = Len(s)
    BY LenProperties
  <1>2. \A i \in 1..z : s[i] \in S
    BY <1>1, ElementOfSeq
  <1>3. Rest(s, 0) = s
    <2>1. SubSeq(s, 0 + 1, Len(s)) = s
      BY SubSeqFull
    <2> QED BY <2>1 DEF Rest
  <1>4. ASSUME NEW k \in 0..z
        PROVE  /\ Rest(s, k) \in Seq(S) /\ Len(Rest(s, k)) = z - k
               /\ \A i \in 1..(z - k) : Rest(s, k)[i] = s[k + i]
    <2>1. \A i \in (k + 1)..z : s[i] \in S
      BY <1>2
    <2>2. PICK r : r = SubSeq(s, k + 1, z)
      OBVIOUS
    <2>3. k + 1 \in Int /\ z \in Int
      OBVIOUS
    <2>4. r \in Seq(S) /\ Len(r) = IF k + 1 <= z THEN z - (k + 1) + 1 ELSE 0
      BY <2>1, <2>2, <2>3, SubSeqProperties
    <2>5. \A i \in 1..(z - (k + 1) + 1) : r[i] = s[(k + 1) + i - 1]
      BY <2>1, <2>2, <2>3, SubSeqProperties
    <2>6. Len(r) = z - k
      BY <2>4
    <2>7. ASSUME NEW i \in 1..(z - k) PROVE r[i] = s[k + i]
      <3>1. i \in 1..(z - (k + 1) + 1) /\ (k + 1) + i - 1 = k + i
        OBVIOUS
      <3> QED BY <2>5, <3>1
    <2> QED BY <1>1, <2>2, <2>4, <2>6, <2>7 DEF Rest
  <1>5. PICK r : r = Rest(s, n)
    OBVIOUS
  <1>6. n \in 0..z /\ r \in Seq(S) /\ Len(r) = z - n /\ \A i \in 1..(z - n) : r[i] = s[n + i]
    BY <1>1, <1>4, <1>5
  <1>7. r = <<>> => n = Len(s)
    BY <1>1, <1>6
  <1>8. ASSUME r # <<>> PROVE n + 1 \in 1..z /\ Head(r) = s[n + 1] /\ Tail(r) = Rest(s, n + 1)
    <2>1. Len(r) # 0
      BY <1>6, <1>8, EmptySeq
    <2>2. n + 1 \in 1..z /\ n + 1 \in 0..z /\ 1 \in 1..(z - n)
      BY <1>6, <2>1
    <2>3. Head(r) = s[n + 1]
      <3>1. r[1] = s[n + 1]
        BY <1>6, <2>2
      <3>2. Head(r) = r[1]
        OBVIOUS
      <3> QED BY <3>1, <3>2
    <2>4. PICK t : t = Tail(r)
      OBVIOUS
    <2>5. t \in Seq(S) /\ Len(t) = Len(r) - 1
      BY <1>6, <1>8, <2>4, HeadTailProperties
    <2>6. \A i \in 1..Len(t) : t[i] = r[i + 1]
      BY <1>6, <1>8, <2>4, HeadTailProperties
    <2>7. PICK q : q = Rest(s, n + 1)
      OBVIOUS
    <2>8. q \in Seq(S) /\ Len(q) = z - (n + 1) /\ \A i \in 1..(z - (n + 1)) : q[i] = s[(n + 1) + i]
      BY <1>4, <2>2, <2>7
    <2>9. Len(t) = Len(q)
      BY <1>6, <2>5, <2>8
    <2>10. ASSUME NEW i \in 1..Len(t) PROVE t[i] = q[i]
      <3>1. i \in 1..(z - (n + 1)) /\ i + 1 \in 1..(z - n) /\ n + (i + 1) = (n + 1) + i
        BY <1>6, <2>5
      <3> QED BY <1>6, <2>6, <2>8, <3>1
    <2>11. t = q
      BY <2>5, <2>8, <2>9, <2>10, SeqEqual
    <2> QED BY <2>2, <2>3, <2>4, <2>7, <2>11
  <1> QED BY <1>1, <1>3, <1>5, <1>7, <1>8

(* So many of the specifications have been read, and what they make is     *)
(* what the configuration says of them.                                    *)
ReadSoFar(i, todo, made) ==
  \E f : \E n \in 0..Len(InText[i.text]) :
    /\ Makes(f, InText[i.text], i.written)
    /\ todo = Rest(InText[i.text], n)
    /\ made = f[n]

WrittenInv ==
  /\ input \in Inputs
  /\ FollowInv
  /\ Phase = "done" => SpecificationsAhead = <<>>
  /\ Phase # "closed" /\ string_config = "" =>
       SpecificationsAhead = <<>> /\ clients \o ClientsAhead = <<>>
  /\ Phase # "closed" /\ string_config # "" /\ input.written # Unspecified =>
       ReadSoFar(input, SpecificationsAhead, clients \o ClientsAhead)

LEMMA ReadOneMore ==
  ASSUME NEW i, i.text \in Texts, NEW todo, NEW made, todo # <<>>, ReadSoFar(i, todo, made)
  PROVE  ReadSoFar(i, Tail(todo), made \o ClientsOf[Head(todo)])
  <1>1. PICK specs : specs = InText[i.text]
    OBVIOUS
  <1>2. specs \in Seq(Texts)
    BY <1>1, InTextIs
  <1>3. PICK f : \E n \in 0..Len(specs) :
                   Makes(f, specs, i.written) /\ todo = Rest(specs, n) /\ made = f[n]
    BY <1>1 DEF ReadSoFar
  <1>4. PICK n \in 0..Len(specs) :
                   Makes(f, specs, i.written) /\ todo = Rest(specs, n) /\ made = f[n]
    BY <1>3
  <1>5. n + 1 \in 1..Len(specs) /\ Head(todo) = specs[n + 1] /\ Tail(todo) = Rest(specs, n + 1)
    BY <1>2, <1>4, RestOfSequence
  <1>6. f[n + 1] = made \o ClientsOf[Head(todo)]
    <2>1. (n + 1) - 1 = n
      BY <1>4
    <2>2. \A k \in 1..Len(specs) : f[k] = f[k - 1] \o ClientsOf[specs[k]]
      BY <1>4 DEF Makes
    <2>3. f[n + 1] = f[(n + 1) - 1] \o ClientsOf[specs[n + 1]]
      BY <1>5, <2>2
    <2> QED BY <1>4, <1>5, <2>1, <2>3
  <1>7. n + 1 \in 0..Len(specs)
    BY <1>5
  <1> QED BY <1>1, <1>4, <1>5, <1>6, <1>7 DEF ReadSoFar

LEMMA ReadFromTheStart ==
  ASSUME NEW i, i.text \in Texts, AsDocumented(i)
  PROVE  ReadSoFar(i, InText[i.text], <<>>)
  <1>1. PICK specs : specs = InText[i.text]
    OBVIOUS
  <1>2. specs \in Seq(Texts)
    BY <1>1, InTextIs
  <1>3. PICK f : Makes(f, specs, i.written)
    BY <1>1, DocumentedIsMade
  <1>4. 0 \in 0..Len(specs)
    BY <1>2, LenProperties
  <1>5. Rest(specs, 0) = specs
    BY <1>2, <1>4, RestOfSequence
  <1>6. f[0] = <<>>
    BY <1>3 DEF Makes
  <1> QED BY <1>1, <1>3, <1>4, <1>5, <1>6 DEF ReadSoFar

LEMMA ReadToTheEnd ==
  ASSUME NEW i, i.text \in Texts, NEW made, ReadSoFar(i, <<>>, made)
  PROVE  made = i.written
  <1>1. PICK specs : specs = InText[i.text]
    OBVIOUS
  <1>2. specs \in Seq(Texts)
    BY <1>1, InTextIs
  <1>3. PICK f : \E n \in 0..Len(specs) :
                   Makes(f, specs, i.written) /\ <<>> = Rest(specs, n) /\ made = f[n]
    BY <1>1 DEF ReadSoFar
  <1>4. PICK n \in 0..Len(specs) :
                   Makes(f, specs, i.written) /\ <<>> = Rest(specs, n) /\ made = f[n]
    BY <1>3
  <1>5. n = Len(specs)
    BY <1>2, <1>4, RestOfSequence
  <1> QED BY <1>4, <1>5 DEF Makes

LEMMA InitWritten == Init => WrittenInv
  <1> SUFFICES ASSUME Init PROVE WrittenInv
    OBVIOUS
  <1>1. input \in Inputs
    BY DEF Init
  <1>2. FollowInv /\ Phase = "closed"
    BY InitFollows DEF Reading!PolicyInit
  <1> QED BY <1>1, <1>2 DEF WrittenInv

(* The parameter of --monitor is what it is once the reader has begun.     *)
LEMMA ConfigStays ==
  ASSUME FollowInv, [Next]_vars, Phase # "closed"
  PROVE  UNCHANGED <<string_config, input>>
  <1>0. reader # "idle"
    BY DEF Phase
  <1>1. main \notin {"special", "options", "config"}
    BY <1>0 DEF FollowInv
  <1>2. CASE ParseOptions
    BY <1>1, <1>2 DEF ParseOptions, CommandLineStep, SpecialOption, NoSpecialOption, Flag,
       MonitorOption, UnknownOption, EndOfOptions, AtOption, MissingFile, MissingParameter, OpenFails
  <1>3. CASE CreateClientList \/ ScanConfiguration
    BY <1>3 DEF CreateClientList, Open, ScanConfiguration, callVars
  <1>4. CASE EmptyList \/ StartRun \/ JustCheck \/ ProcessClients
    BY <1>4 DEF EmptyList, StartRun, JustCheck, ProcessClients, callVars
  <1>5. CASE CallSomeCommand
    BY <1>5 DEF CallSomeCommand, call_command
  <1>6. CASE SubstituteImages \/ QuitOrRun
    BY <1>6 DEF SubstituteImages, QuitOrRun, mainVars, callVars
  <1>7. CASE UNCHANGED vars
    BY <1>7 DEF vars, mainVars, callVars
  <1> QED BY <1>2, <1>3, <1>4, <1>5, <1>6, <1>7 DEF Next

LEMMA StepWritten ==
  ASSUME \A i \in Inputs : i.written # Unspecified => AsDocumented(i),
         IInv, IInv', ControlInv, WrittenInv, [Next]_vars
  PROVE  WrittenInv'
  <1>1. FollowInv' /\ [Reading!PolicyNext]_(Reading!policyVars)
    BY StepFollows DEF WrittenInv
  <1>2. input' = input /\ input \in Inputs /\ input.text \in Texts
    <2>1. input' = input
      BY ReaderStepsAre DEF CreateClientList, callVars
    <2> QED BY <2>1 DEF WrittenInv, FollowInv, ReaderInv
  <1>3. PICK todo : todo = SpecificationsAhead
    OBVIOUS
  <1>4. PICK made : made = clients \o ClientsAhead
    OBVIOUS
  <1>5. PICK todo1 : todo1 = SpecificationsAhead'
    OBVIOUS
  <1>6. PICK made1 : made1 = clients' \o ClientsAhead'
    OBVIOUS
  <1>7. WrittenInv' <=>
          /\ input \in Inputs /\ FollowInv'
          /\ Phase' = "done" => todo1 = <<>>
          /\ Phase' # "closed" /\ string_config' = "" => todo1 = <<>> /\ made1 = <<>>
          /\ Phase' # "closed" /\ string_config' # "" /\ input.written # Unspecified =>
               ReadSoFar(input, todo1, made1)
    BY <1>2, <1>5, <1>6 DEF WrittenInv
  <1>8. /\ Phase = "done" => todo = <<>>
        /\ Phase # "closed" /\ string_config = "" => todo = <<>> /\ made = <<>>
        /\ Phase # "closed" /\ string_config # "" /\ input.written # Unspecified =>
             ReadSoFar(input, todo, made)
    BY <1>3, <1>4 DEF WrittenInv
  <1>9. CASE Phase # "closed"
    <2>1. string_config' = string_config
      BY <1>9, ConfigStays DEF WrittenInv
    <2>2. \/ Phase' = Phase /\ todo1 = todo /\ made1 = made
          \/ /\ todo # <<>> /\ todo1 = Tail(todo) /\ made1 = made \o ClientsOf[Head(todo)]
             /\ Phase' \in {"open", "stopped"}
          \/ todo = <<>> /\ todo1 = todo /\ made1 = made /\ Phase' = "done"
      BY <1>1, <1>3, <1>4, <1>5, <1>6, <1>9 DEF Reading!PolicyNext, Reading!policyVars,
         Reading!OpenConfiguration, Reading!TakeSpecification, Reading!EndOfConfiguration
    <2>3. CASE /\ todo # <<>> /\ todo1 = Tail(todo) /\ made1 = made \o ClientsOf[Head(todo)]
               /\ Phase' \in {"open", "stopped"}
      <3>1. string_config # "" /\ input.written # Unspecified => ReadSoFar(input, todo1, made1)
        BY <1>2, <1>8, <1>9, <2>3, ReadOneMore
      <3>2. string_config # ""
        BY <1>8, <1>9, <2>3
      <3> QED BY <1>1, <1>2, <1>7, <2>1, <2>3, <3>1, <3>2
    <2> QED BY <1>1, <1>2, <1>7, <1>8, <1>9, <2>1, <2>2, <2>3
  <1>10. CASE Phase = "closed"
    <2>1. reader = "idle"
      BY <1>10 DEF Phase
    <2>2. CASE UNCHANGED <<readerVars, input>>
      <3>1. Phase' = Phase
        BY <2>2, ReaderStays DEF Same
      <3> QED BY <1>1, <1>2, <1>7, <1>10, <3>1
    <2>3. CASE CreateClientList
      <3>1. /\ reader' = "line" /\ clients' = <<>> /\ string_config' = string_config
            /\ text' = IF string_config = "" THEN <<>> ELSE input.text
        BY <2>3 DEF CreateClientList, Open
      <3>2. ClientsAhead' = <<>> /\ Phase' = "open"
        BY <3>1 DEF ClientsAhead, Phase
      <3>3. made1 = <<>>
        <4>1. <<>> \in Seq(Texts)
          BY EmptySeq
        <4> QED BY <1>6, <3>1, <3>2, <4>1, ConcatEmptySeq
      <3>4. todo1 = InText[text']
        <4>1. SpecificationsAhead' = <<>> \o InText[text']
          BY <3>1 DEF SpecificationsAhead
        <4>2. text' \in Texts
          BY <1>2, <3>1, NoSymbol
        <4> QED BY <1>5, <4>1, <4>2, InTextIs, ConcatEmptySeq
      <3>5. string_config = "" => todo1 = <<>>
        BY <3>1, <3>4, InTextIs
      <3>6. string_config # "" /\ input.written # Unspecified => ReadSoFar(input, todo1, made1)
        BY <1>2, <3>1, <3>3, <3>4, ReadFromTheStart
      <3> QED BY <1>1, <1>2, <1>7, <3>1, <3>2, <3>3, <3>5, <3>6
    <2>4. CASE ReaderStep
      BY <2>1, <2>4 DEF ReaderStep, ReadLine, EndOfText, EndOfLine, BeginSpec, MatchItem, EndSpec
    <2> QED BY <2>2, <2>3, <2>4, ReaderStepsAre
  <1> QED BY <1>9, <1>10

(* The clients are those the configuration says, when its text is ordinary *)
(* and every specification of it that gives a client is written as the     *)
(* documents have it: none is lost, none comes twice, and a specification  *)
(* with an error, a comment or a blank line adds none and spoils none      *)
(* (read_configuration.c:272-577, kryten.html:105-157).                    *)
THEOREM ConfigurationIsReadAsWritten ==
  ASSUME \A i \in Inputs : i.written # Unspecified => AsDocumented(i)
  PROVE  Spec => []ReadAsWritten
  <1>1. Init => WrittenInv
    BY InitWritten
  <1>2. IInv /\ IInv' /\ ControlInv /\ WrittenInv /\ [Next]_vars => WrittenInv'
    BY StepWritten
  <1>3. WrittenInv => ReadAsWritten
    <2> SUFFICES ASSUME WrittenInv, reader = "done", input.written # Unspecified
                 PROVE  clients = IF string_config = "" THEN <<>> ELSE input.written
      BY DEF ReadAsWritten
    <2>1. Phase = "done" /\ ClientsAhead = <<>>
      BY DEF Phase, ClientsAhead
    <2>2. input.text \in Texts /\ clients \in Seq(Clients)
      BY AheadTypes DEF WrittenInv, FollowInv, ReaderInv
    <2>3. clients \o ClientsAhead = clients
      BY <2>1, <2>2, ConcatEmptySeq
    <2>4. string_config = "" => clients = <<>>
      BY <2>1, <2>3 DEF WrittenInv
    <2>5. string_config # "" => ReadSoFar(input, <<>>, clients)
      <3>1. SpecificationsAhead = <<>>
        BY <2>1 DEF WrittenInv
      <3> QED BY <2>1, <2>3, <3>1 DEF WrittenInv
    <2>6. string_config # "" => clients = input.written
      BY <2>2, <2>5, ReadToTheEnd
    <2> QED BY <2>4, <2>6
  <1>4. Spec => [](IInv /\ ControlInv)
    BY AlwaysControlInv
  <1> QED BY <1>1, <1>2, <1>3, <1>4, PTL DEF Spec
=============================================================================
