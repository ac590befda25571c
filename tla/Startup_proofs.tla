--------------------------- MODULE Startup_proofs ---------------------------
(***************************************************************************)
(* What holds of the reader and of the command buffers for any sizes, any  *)
(* symbols, any configuration and any values.                              *)
(***************************************************************************)
EXTENDS Startup, SequenceTheorems, FiniteSetTheorems, WellFoundedInduction, TLAPS

-----------------------------------------------------------------------------
(* Texts.                                                                  *)
LEMMA SmallestExists ==
  ASSUME NEW S \in SUBSET Nat, S # {}
  PROVE  Smallest(S) \in S /\ \A j \in S : Smallest(S) <= j
  <1>1. \E k \in S : \A j \in S : ~(<<j, k>> \in OpToRel(<, Nat))
    BY WFMin, NatLessThanWellFounded
  <1>2. \E k \in S : \A j \in S : ~(j < k)
    BY <1>1, Zenon DEF OpToRel
  <1>3. \E k \in S : \A j \in S : k <= j
    BY <1>2
  <1> QED BY <1>3 DEF Smallest

LEMMA PartOfText ==
  ASSUME NEW s \in Texts, NEW a \in Nat \ {0}, NEW b \in Nat, b <= Len(s)
  PROVE  /\ SubSeq(s, a, b) \in Texts
         /\ Len(SubSeq(s, a, b)) = IF a <= b THEN b - a + 1 ELSE 0
  BY SubSeqProperties, ElementOfSeq DEF Texts

LEMMA RestOfText ==
  ASSUME NEW s \in Texts, NEW k \in Nat
  PROVE  /\ Rest(s, k) \in Texts
         /\ Len(Rest(s, k)) = IF k <= Len(s) THEN Len(s) - k ELSE 0
  BY PartOfText, LenProperties DEF Rest, Texts

LEMMA PrefixOfText ==
  ASSUME NEW s \in Texts, NEW k \in 0..Len(s)
  PROVE  Prefix(s, k) \in Texts /\ Len(Prefix(s, k)) = k
  BY PartOfText, LenProperties DEF Prefix, Texts

LEMMA CutOfText ==
  ASSUME NEW s \in Texts, NEW room \in Nat
  PROVE  Cut(s, room) \in Texts /\ Len(Cut(s, room)) = Shorter(room, Len(s))
  BY PrefixOfText, LenProperties DEF Cut, Shorter, Texts

LEMMA SpanOfText ==
  ASSUME NEW s \in Texts, NEW S
  PROVE  Span(s, S) \in 0..Len(s) /\ UpTo(s, S) \in 0..Len(s)
  <1> DEFINE A == {k \in 1..Len(s) : \A i \in 1..k : s[i] \in S}
             B == {k \in 1..Len(s) : \A i \in 1..k : s[i] \notin S}
  <1>1. Len(s) \in Nat
    BY LenProperties DEF Texts
  <1>2. IsFiniteSet(1..Len(s)) /\ Cardinality(1..Len(s)) = Len(s)
    BY <1>1, FS_Interval
  <1>3. A \in SUBSET (1..Len(s)) /\ B \in SUBSET (1..Len(s))
    OBVIOUS
  <1>4. IsFiniteSet(A) /\ Cardinality(A) <= Len(s)
    BY <1>2, <1>3, FS_Subset
  <1>5. IsFiniteSet(B) /\ Cardinality(B) <= Len(s)
    BY <1>2, <1>3, FS_Subset
  <1>6. Cardinality(A) \in Nat /\ Cardinality(B) \in Nat
    BY <1>4, <1>5, FS_CardinalityType
  <1> QED BY <1>1, <1>4, <1>5, <1>6 DEF Span, UpTo

LEMMA SkipWhiteOfText ==
  ASSUME NEW s \in Texts
  PROVE  SkipWhite[s] \in Texts
  BY SpanOfText, RestOfText, LenProperties DEF SkipWhite, Texts

-----------------------------------------------------------------------------
(* Parts of texts, symbol by symbol.                                       *)
LEMMA LengthOfText ==
  ASSUME NEW s \in Texts
  PROVE  /\ Len(s) \in Nat
         /\ DOMAIN s = 1..Len(s)
         /\ \A i \in 1..Len(s) : s[i] \in Symbols
         /\ s = <<>> <=> Len(s) = 0
  BY LenProperties, ElementOfSeq, EmptySeq DEF Texts

LEMMA PartsOfText ==
  ASSUME NEW s \in Texts, NEW k \in 0..Len(s)
  PROVE  /\ \A i \in 1..k : Prefix(s, k)[i] = s[i]
         /\ \A i \in 1..(Len(s) - k) : Rest(s, k)[i] = s[k + i]
         /\ Prefix(s, k) \in Texts /\ Len(Prefix(s, k)) = k
         /\ Rest(s, k) \in Texts /\ Len(Rest(s, k)) = Len(s) - k
         /\ s = Prefix(s, k) \o Rest(s, k)
  <1>1. Len(s) \in Nat /\ k \in Nat /\ \A i \in 1..Len(s) : s[i] \in Symbols
    BY LengthOfText
  <1>2. \A i \in 1..(k - 1 + 1) : Prefix(s, k)[i] = s[1 + i - 1]
    <2>1. \A i \in 1..k : s[i] \in Symbols
      BY <1>1
    <2> QED BY <1>1, <2>1, SubSeqProperties DEF Prefix
  <1>3. \A i \in 1..(Len(s) - (k + 1) + 1) : Rest(s, k)[i] = s[(k + 1) + i - 1]
    <2>1. \A i \in (k + 1)..Len(s) : s[i] \in Symbols
      BY <1>1
    <2> QED BY <1>1, <2>1, SubSeqProperties DEF Rest
  <1>4. SubSeq(s, 1, k) \o SubSeq(s, k + 1, Len(s)) = SubSeq(s, 1, Len(s))
    <2>1. 1 \in 1..(Len(s) + 1) /\ k \in (1 - 1)..Len(s) /\ Len(s) \in k..Len(s)
      BY <1>1
    <2> QED BY <2>1, ConcatAdjacentSubSeq DEF Texts
  <1>5. SubSeq(s, 1, Len(s)) = s
    BY SubSeqFull DEF Texts
  <1>6. \A i \in 1..k : Prefix(s, k)[i] = s[i]
    <2>1. ASSUME NEW i \in 1..k PROVE Prefix(s, k)[i] = s[i]
      <3>1. i \in 1..(k - 1 + 1) /\ 1 + i - 1 = i
        BY <1>1
      <3> QED BY <1>2, <3>1
    <2> QED BY <2>1
  <1>7. \A i \in 1..(Len(s) - k) : Rest(s, k)[i] = s[k + i]
    <2>1. ASSUME NEW i \in 1..(Len(s) - k) PROVE Rest(s, k)[i] = s[k + i]
      <3>1. i \in 1..(Len(s) - (k + 1) + 1) /\ (k + 1) + i - 1 = k + i
        BY <1>1
      <3> QED BY <1>3, <3>1
    <2> QED BY <2>1
  <1>8. Rest(s, k) \in Texts /\ Len(Rest(s, k)) = Len(s) - k
    BY <1>1, RestOfText
  <1> QED BY <1>4, <1>5, <1>6, <1>7, <1>8, PrefixOfText DEF Prefix, Rest

LEMMA JoinOfTexts ==
  ASSUME NEW a \in Texts, NEW b \in Texts
  PROVE  /\ a \o b \in Texts /\ Len(a \o b) = Len(a) + Len(b)
         /\ \A i \in 1..Len(a) : (a \o b)[i] = a[i]
         /\ \A i \in 1..Len(b) : (a \o b)[Len(a) + i] = b[i]
         /\ Rest(a \o b, Len(a)) = b
  <1>1. Len(a) \in Nat /\ Len(b) \in Nat
    BY LengthOfText
  <1>2. /\ a \o b \in Texts /\ Len(a \o b) = Len(a) + Len(b)
        /\ \A i \in 1..(Len(a) + Len(b)) :
             (a \o b)[i] = IF i <= Len(a) THEN a[i] ELSE b[i - Len(a)]
    BY ConcatProperties DEF Texts
  <1>3. \A i \in 1..Len(a) : (a \o b)[i] = a[i]
    BY <1>1, <1>2
  <1>4. \A i \in 1..Len(b) : (a \o b)[Len(a) + i] = b[i]
    <2>1. ASSUME NEW i \in 1..Len(b) PROVE (a \o b)[Len(a) + i] = b[i]
      <3>1. Len(a) + i \in 1..(Len(a) + Len(b)) /\ ~(Len(a) + i <= Len(a))
            /\ (Len(a) + i) - Len(a) = i
        BY <1>1
      <3> QED BY <1>2, <3>1
    <2> QED BY <2>1
  <1>5. Rest(a \o b, Len(a)) = b
    <2>1. Len(a) \in 0..Len(a \o b)
      BY <1>1, <1>2
    <2>2. /\ Rest(a \o b, Len(a)) \in Texts
          /\ Len(Rest(a \o b, Len(a))) = Len(b)
          /\ \A i \in 1..Len(b) : Rest(a \o b, Len(a))[i] = (a \o b)[Len(a) + i]
      <3>1. PICK c : c = a \o b
        OBVIOUS
      <3>2. c \in Texts /\ Len(c) - Len(a) = Len(b) /\ Len(a) \in 0..Len(c)
        BY <1>1, <1>2, <2>1, <3>1
      <3>3. /\ Rest(c, Len(a)) \in Texts /\ Len(Rest(c, Len(a))) = Len(c) - Len(a)
            /\ \A i \in 1..(Len(c) - Len(a)) : Rest(c, Len(a))[i] = c[Len(a) + i]
        BY <3>2, PartsOfText
      <3> QED BY <3>1, <3>2, <3>3
    <2>3. \A i \in 1..Len(b) : Rest(a \o b, Len(a))[i] = b[i]
      BY <1>4, <2>2
    <2> QED BY <2>2, <2>3, SeqEqual DEF Texts
  <1> QED BY <1>2, <1>3, <1>4, <1>5

LEMMA EqualTexts ==
  ASSUME NEW a \in Texts, NEW b \in Texts,
         Len(a) = Len(b), \A i \in 1..Len(a) : a[i] = b[i]
  PROVE  a = b
  BY SeqEqual DEF Texts

LEMMA OneSymbol ==
  ASSUME NEW x \in Symbols
  PROVE  <<x>> \in Texts /\ Len(<<x>>) = 1 /\ <<x>>[1] = x
  BY DEF Texts

LEMMA NoSymbol == <<>> \in Texts /\ Len(<<>>) = 0
  BY EmptySeq DEF Texts

-----------------------------------------------------------------------------
(* A function on 0..n is defined by its first value and the step from each *)
(* value to the next.                                                      *)
BuiltBy(f, n, T, start, step) ==
  /\ f[0] = start
  /\ \A k \in 1..n : f[k - 1] \in T /\ f[k] = step[<<k, f[k - 1]>>]

LEMMA FunctionByStep ==
  ASSUME NEW n \in Nat, NEW T, NEW start \in T, NEW step \in [(1..n) \X T -> T]
  PROVE  \E f : BuiltBy(f, n, T, start, step)
  <1> DEFINE Steps(g, k) == g[0] = start /\ \A j \in 1..k : g[j] = step[<<j, g[j - 1]>>]
             fails == {k \in 0..n : ~ \E g \in [0..k -> T] : Steps(g, k)}
             k == Smallest(fails)
  <1>1. fails = {}
    <2>1. SUFFICES ASSUME fails # {} PROVE FALSE
      OBVIOUS
    <2>2. k \in fails /\ \A j \in fails : k <= j
      <3>1. fails \in SUBSET Nat
        OBVIOUS
      <3> HIDE DEF fails
      <3> QED BY <2>1, <3>1, SmallestExists
    <2>3. k \in 0..n /\ ~ \E g \in [0..k -> T] : Steps(g, k)
      BY <2>2
    <2> HIDE DEF k
    <2>4. CASE k = 0
      <3>1. [j \in 0..0 |-> start] \in [0..k -> T] /\ Steps([j \in 0..0 |-> start], k)
        BY <2>4
      <3> QED BY <2>3, <3>1
    <2>5. CASE k # 0
      <3>1. k - 1 \in 0..n /\ k \in 1..n
        BY <2>3, <2>5
      <3>2. k - 1 \notin fails
        BY <2>2, <3>1
      <3>3. PICK g \in [0..(k - 1) -> T] : Steps(g, k - 1)
        BY <3>1, <3>2
      <3> DEFINE h == [j \in 0..k |-> IF j = k THEN step[<<k, g[k - 1]>>] ELSE g[j]]
      <3>4. h \in [0..k -> T]
        BY <3>1
      <3>5. h[0] = start
        BY <3>1, <3>3
      <3>6. ASSUME NEW j \in 1..k PROVE h[j] = step[<<j, h[j - 1]>>]
        <4>1. j - 1 \in 0..(k - 1) /\ h[j - 1] = g[j - 1]
          BY <3>1
        <4>2. CASE j = k
          <5>1. h[k] = step[<<k, g[k - 1]>>]
            BY <3>1
          <5> HIDE DEF h
          <5> QED BY <4>1, <4>2, <5>1
        <4>3. CASE j # k
          <5>1. j \in 1..(k - 1) /\ h[j] = g[j]
            BY <3>1, <4>3
          <5> QED BY <3>3, <4>1, <5>1
        <4> QED BY <4>2, <4>3
      <3>7. Steps(h, k)
        BY <3>5, <3>6
      <3> QED BY <2>3, <3>4, <3>7
    <2> QED BY <2>4, <2>5
  <1>2. PICK f \in [0..n -> T] : Steps(f, n)
    <2>1. n \notin fails
      BY <1>1
    <2> QED BY <2>1
  <1>3. \A j \in 1..n : f[j - 1] \in T
    BY <1>2
  <1> QED BY <1>2, <1>3 DEF BuiltBy

-----------------------------------------------------------------------------
(* Induction and recursion on the size of something.                       *)
LEMMA SizeInduction ==
  ASSUME NEW S, NEW size \in [S -> Nat], NEW P,
         \A x \in S : (\A y \in S : size[y] < size[x] => y \in P) => x \in P
  PROVE  \A x \in S : x \in P
  <1> DEFINE out == {n \in Nat : \E x \in S : size[x] = n /\ x \notin P}
             m   == Smallest(out)
  <1>1. SUFFICES ASSUME NEW x \in S, x \notin P PROVE FALSE
    OBVIOUS
  <1>2. size[x] \in out
    BY <1>1
  <1>3. m \in out /\ \A j \in out : m <= j
    <2>1. out \in SUBSET Nat /\ out # {}
      BY <1>2
    <2> HIDE DEF out
    <2> QED BY <2>1, SmallestExists
  <1> HIDE DEF m
  <1>4. PICK y \in S : size[y] = m /\ y \notin P
    BY <1>3
  <1>5. PICK z \in S : size[z] < size[y] /\ z \notin P
    BY <1>4
  <1>6. size[z] \in out /\ size[z] \in Nat /\ m \in Nat
    BY <1>3, <1>5
  <1> HIDE DEF out
  <1> QED BY <1>3, <1>4, <1>5, <1>6

(* f is as the recursion says wherever the size is at most n.              *)
Recurs(f, S, size, n, leaves, leaf, rest, step) ==
  \A x \in S : size[x] <= n =>
    f[x] = IF x \in leaves THEN leaf[x] ELSE step[<<x, f[rest[x]]>>]

LEMMA RecursOnce ==
  ASSUME NEW S, NEW size \in [S -> Nat], NEW n \in Nat, NEW leaves, NEW leaf,
         NEW rest \in [S -> S], NEW step,
         \A x \in S : x \in leaves \/ size[rest[x]] < size[x],
         NEW f, Recurs(f, S, size, n, leaves, leaf, rest, step),
         NEW m \in Nat, m <= n,
         NEW g, Recurs(g, S, size, m, leaves, leaf, rest, step)
  PROVE  \A x \in S : size[x] <= m => f[x] = g[x]
  <1> DEFINE P == {x \in S : size[x] <= m => f[x] = g[x]}
  <1>1. ASSUME NEW x \in S, \A y \in S : size[y] < size[x] => y \in P
        PROVE  x \in P
    <2>1. SUFFICES ASSUME size[x] <= m PROVE f[x] = g[x]
      OBVIOUS
    <2>2. size[x] \in Nat /\ rest[x] \in S /\ size[rest[x]] \in Nat
      OBVIOUS
    <2>3. /\ f[x] = IF x \in leaves THEN leaf[x] ELSE step[<<x, f[rest[x]]>>]
          /\ g[x] = IF x \in leaves THEN leaf[x] ELSE step[<<x, g[rest[x]]>>]
      BY <2>1, <2>2 DEF Recurs
    <2>4. x \notin leaves => f[rest[x]] = g[rest[x]]
      BY <1>1, <2>1, <2>2
    <2> QED BY <2>3, <2>4
  <1>2. \A x \in S : x \in P
    <2> HIDE DEF P
    <2> QED BY <1>1, SizeInduction
  <1> QED BY <1>2

LEMMA RecursSo ==
  ASSUME NEW S, NEW T, NEW size \in [S -> Nat], NEW leaves, NEW leaf \in [S -> T],
         NEW rest \in [S -> S], NEW step \in [S \X T -> T],
         \A x \in S : x \in leaves \/ size[rest[x]] < size[x],
         NEW n \in Nat
  PROVE  \E f \in [S -> T] : Recurs(f, S, size, n, leaves, leaf, rest, step)
  <1> DEFINE R(f, k) == Recurs(f, S, size, k, leaves, leaf, rest, step)
             id == [k \in Nat |-> k]
             P  == {k \in Nat : \E f \in [S -> T] : R(f, k)}
  <1>1. ASSUME NEW k \in Nat, \A j \in Nat : id[j] < id[k] => j \in P
        PROVE  k \in P
    <2>1. CASE k = 0
      <3>1. R(leaf, 0)
        <4>1. ASSUME NEW x \in S, size[x] <= 0 PROVE x \in leaves
          <5>1. size[x] \in Nat /\ size[rest[x]] \in Nat
            OBVIOUS
          <5> QED BY <4>1, <5>1
        <4> QED BY <4>1 DEF Recurs
      <3> QED BY <2>1, <3>1
    <2>2. CASE k # 0
      <3>1. k - 1 \in Nat /\ k - 1 < k
        BY <2>2
      <3>2. PICK f \in [S -> T] : R(f, k - 1)
        BY <1>1, <3>1
      <3> DEFINE g == [x \in S |-> IF x \in leaves THEN leaf[x] ELSE step[<<x, f[rest[x]]>>]]
      <3>3. g \in [S -> T]
        <4>1. \A x \in S : f[rest[x]] \in T /\ leaf[x] \in T
          OBVIOUS
        <4> QED BY <4>1
      <3>4. ASSUME NEW x \in S, size[x] <= k - 1 PROVE g[x] = f[x]
        BY <3>2, <3>4 DEF Recurs
      <3>5. ASSUME NEW x \in S, size[x] <= k, x \notin leaves
            PROVE  f[rest[x]] = g[rest[x]]
        <4>1. size[x] \in Nat /\ rest[x] \in S /\ size[rest[x]] \in Nat
              /\ size[rest[x]] < size[x]
          BY <3>5
        <4>2. size[rest[x]] <= k - 1
          BY <3>1, <3>5, <4>1
        <4> HIDE DEF g
        <4> QED BY <3>4, <4>1, <4>2
      <3>6. ASSUME NEW x \in S, size[x] <= k
            PROVE  g[x] = IF x \in leaves THEN leaf[x] ELSE step[<<x, g[rest[x]]>>]
        <4>1. g[x] = IF x \in leaves THEN leaf[x] ELSE step[<<x, f[rest[x]]>>]
          OBVIOUS
        <4> HIDE DEF g
        <4> QED BY <3>5, <3>6, <4>1
      <3>7. R(g, k)
        <4> HIDE DEF g
        <4> QED BY <3>6 DEF Recurs
      <3> HIDE DEF g
      <3> QED BY <3>3, <3>7
    <2> QED BY <2>1, <2>2
  <1>2. \A k \in Nat : k \in P
    <2>1. id \in [Nat -> Nat]
      OBVIOUS
    <2> HIDE DEF id, P
    <2> QED BY <1>1, <2>1, SizeInduction
  <1> QED BY <1>2

(* Every x is a leaf or has a rest that is smaller.                        *)
Descends(S, size, leaves, rest) ==
  /\ size \in [S -> Nat] /\ rest \in [S -> S]
  /\ \A x \in S : x \in leaves \/ size[rest[x]] < size[x]

Recursive(f, S, leaves, leaf, rest, step) ==
  \A x \in S : f[x] = IF x \in leaves THEN leaf[x] ELSE step[<<x, f[rest[x]]>>]

LEMMA Recursion ==
  ASSUME NEW S, NEW T, NEW size, NEW leaves, NEW leaf \in [S -> T],
         NEW rest, NEW step \in [S \X T -> T], Descends(S, size, leaves, rest)
  PROVE  \E f \in [S -> T] : Recursive(f, S, leaves, leaf, rest, step)
  <1>0. /\ size \in [S -> Nat] /\ rest \in [S -> S]
        /\ \A x \in S : x \in leaves \/ size[rest[x]] < size[x]
    BY DEF Descends
  <1> DEFINE R(f, k) == Recurs(f, S, size, k, leaves, leaf, rest, step)
             g(k) == CHOOSE f \in [S -> T] : R(f, k)
             f == [x \in S |-> g(size[x])[x]]
  <1>1. ASSUME NEW k \in Nat PROVE g(k) \in [S -> T] /\ R(g(k), k)
    <2>1. \E h \in [S -> T] : R(h, k)
      BY <1>0, RecursSo
    <2> HIDE DEF R
    <2> QED BY <2>1
  <1> HIDE DEF g
  <1>2. f \in [S -> T]
    <2>1. ASSUME NEW x \in S PROVE g(size[x])[x] \in T
      <3>1. size[x] \in Nat
        BY <1>0
      <3>2. g(size[x]) \in [S -> T]
        BY <1>1, <3>1
      <3> QED BY <3>2
    <2> QED BY <2>1
  <1>3. ASSUME NEW x \in S
        PROVE  f[x] = IF x \in leaves THEN leaf[x] ELSE step[<<x, f[rest[x]]>>]
    <2>1. PICK k \in Nat : k = size[x]
      BY <1>0
    <2>2. PICK h : h = g(k)
      OBVIOUS
    <2>3. R(h, k) /\ f[x] = h[x]
      BY <1>1, <2>1, <2>2
    <2>4. h[x] = IF x \in leaves THEN leaf[x] ELSE step[<<x, h[rest[x]]>>]
      BY <2>1, <2>3 DEF Recurs
    <2>5. ASSUME x \notin leaves PROVE f[rest[x]] = h[rest[x]]
      <3>1. PICK m \in Nat : m = size[rest[x]] /\ rest[x] \in S
        BY <1>0
      <3>2. PICK e : e = g(m)
        OBVIOUS
      <3>3. R(e, m) /\ f[rest[x]] = e[rest[x]]
        BY <1>1, <3>1, <3>2
      <3>4. m <= k /\ m <= m
        BY <1>0, <2>1, <2>5, <3>1
      <3>5. \A y \in S : size[y] <= m => h[y] = e[y]
        <4> HIDE DEF f
        <4>1. /\ Recurs(h, S, size, k, leaves, leaf, rest, step)
              /\ Recurs(e, S, size, m, leaves, leaf, rest, step)
          BY <2>3, <3>3
        <4>2. \A y \in S : y \in leaves \/ size[rest[y]] < size[y]
          BY <1>0
        <4>3. size \in [S -> Nat] /\ rest \in [S -> S]
          BY <1>0
        <4> HIDE DEF R
        <4> QED BY <3>4, <4>1, <4>2, <4>3, RecursOnce
      <3> HIDE DEF f
      <3> QED BY <3>1, <3>3, <3>4, <3>5
    <2> HIDE DEF f
    <2> QED BY <2>3, <2>4, <2>5
  <1> HIDE DEF f
  <1> QED BY <1>2, <1>3 DEF Recursive

-----------------------------------------------------------------------------
(* The parsers: what they read is a value, or a range with its values, and *)
(* a text is left.                                                         *)
IsRead(o, S) == o.outcome = "read" => o.value \in S /\ o.rest \in Texts

Values == {v \in ReadValues : v.kind # "vkVoid"}
Ranges == {r \in ReadRanges : WellKinded(r)}

LEMMA ValuesAre ==
  /\ \A t \in Texts : String(t) \in Values
  /\ \A k \in Int : Integer(k) \in Values
  /\ \A d \in Doubles : Floating(d) \in Values
  /\ Void \in ReadValues \ Values
  BY DEF Values, ReadValues, String, Integer, Floating, Void

LEMMA QuotedRead ==
  ASSUME NEW s \in Texts, s # <<>>
  PROVE  IsRead(QuotedValue(s), Values)
  <1> DEFINE n == QuotedLength(s) - 2
  <1>1. Len(s) \in Nat \ {0}
    BY EmptySeq DEF Texts
  <1>2. Rest(s, 1) \in Texts /\ Len(Rest(s, 1)) = Len(s) - 1
    BY <1>1, RestOfText
  <1>3. QuotedLength(s) \in 1..Len(s)
    <2>1. UpTo(Rest(s, 1), Quote) \in 0..Len(Rest(s, 1))
      BY <1>2, SpanOfText
    <2> QED BY <1>1, <1>2, <2>1 DEF QuotedLength
  <1>4. n \in Int /\ n + 1 <= Len(s)
    BY <1>1, <1>3
  <1>5. Rest(s, QuotedLength(s)) \in Texts
    BY <1>3, RestOfText
  <1>6. n >= 0 => SubSeq(s, 2, n + 1) \in Texts
    BY <1>4, PartOfText
  <1>7. n >= 0 => String(SubSeq(s, 2, n + 1)) \in Values
    BY <1>6, ValuesAre
  <1>8. n < 0 \/ n > MAX_STRING_SIZE \/ n \in 0..MAX_STRING_SIZE
    BY <1>4, SizeAssumption
  <1>9. CASE n < 0
    <2>1. ~(n > MAX_STRING_SIZE) /\ n \notin 0..MAX_STRING_SIZE
      BY <1>4, <1>9, SizeAssumption
    <2>2. QuotedValue(s) = Overrun
      BY <1>9, <2>1 DEF QuotedValue
    <2> QED BY <2>2 DEF IsRead, Overrun
  <1>10. CASE n > MAX_STRING_SIZE
    <2>1. ~(n < 0) /\ n \notin 0..MAX_STRING_SIZE
      BY <1>4, <1>10, SizeAssumption
    <2>2. QuotedValue(s) = Error
      BY <1>10, <2>1 DEF QuotedValue
    <2> QED BY <2>2 DEF IsRead, Error
  <1>11. CASE n \in 0..MAX_STRING_SIZE
    <2>1. ~(n < 0) /\ ~(n > MAX_STRING_SIZE)
      BY <1>11, SizeAssumption
    <2>2. QuotedValue(s) = Read(String(SubSeq(s, 2, n + 1)), Rest(s, QuotedLength(s)))
      BY <1>11, <2>1 DEF QuotedValue
    <2> QED BY <1>5, <1>7, <1>11, <2>2 DEF IsRead, Read
  <1> QED BY <1>8, <1>9, <1>10, <1>11

LEMMA PlainRead ==
  ASSUME NEW s \in Texts
  PROVE  IsRead(PlainValue(s), Values)
  <1> DEFINE n    == UpTo(s, White \cup {"~", "|"})
             item == Prefix(s, n)
             rest == Rest(s, Len(item))
  <1>1. n \in 0..Len(s) /\ Len(s) \in Nat
    BY SpanOfText, LenProperties DEF Texts
  <1>2. item \in Texts /\ Len(item) = n
    BY <1>1, PrefixOfText
  <1>3. rest \in Texts
    BY <1>1, <1>2, RestOfText
  <1>4. CASE item \in DOMAIN Long
    <2>1. \/ PlainValue(s) = Read(Integer(Long[item]), rest)
          \/ PlainValue(s) = Read(Floating(Double[item]), rest) /\ item \in DOMAIN Double
      BY <1>4 DEF PlainValue
    <2> QED BY <1>3, <1>4, <2>1, ValuesAre, NumberAssumption DEF IsRead, Read
  <1>5. CASE item \in DOMAIN Double /\ item \notin DOMAIN Long
    <2>1. PlainValue(s) = Read(Floating(Double[item]), rest)
      BY <1>5 DEF PlainValue
    <2> QED BY <1>3, <1>5, <2>1, ValuesAre, NumberAssumption DEF IsRead, Read
  <1>6. CASE item \notin DOMAIN Double /\ item \notin DOMAIN Long
    <2>1. PlainValue(s) = Error \/ PlainValue(s) = Read(String(item), rest)
      BY <1>6 DEF PlainValue
    <2> QED BY <1>2, <1>3, <2>1, ValuesAre DEF IsRead, Read, Error
  <1> QED BY <1>4, <1>5, <1>6

LEMMA ValueRead ==
  ASSUME NEW input_ \in Texts
  PROVE  IsRead(parse_value[input_], Values)
  <1> DEFINE s == SkipWhite[input_]
  <1>1. s \in Texts
    BY SkipWhiteOfText
  <1>2. \/ parse_value[input_] = Error
        \/ s # <<>> /\ parse_value[input_] = QuotedValue(s)
        \/ parse_value[input_] = PlainValue(s)
    BY DEF parse_value
  <1> QED BY <1>1, <1>2, QuotedRead, PlainRead DEF IsRead, Error

Comparisons == {"ckNotEqual", "ckLessThanEqual", "ckGreaterThanEqual",
                "ckEqual", "ckLessThan", "ckGreaterThan"}

LEMMA RangesAre ==
  /\ \A c \in Comparisons, v \in Values : Variant_Range(c, v, Void) \in Ranges
  /\ \A v, w \in Values : Variant_Range("ckRange", v, w) \in Ranges
  <1>1. Values \subseteq ReadValues /\ Void \in ReadValues
        /\ \A v \in Values : v.kind # "vkVoid"
    BY ValuesAre DEF Values
  <1>2. ASSUME NEW c \in Comparisons, NEW v \in Values
        PROVE  Variant_Range(c, v, Void) \in Ranges
    <2>1. Variant_Range(c, v, Void) \in ReadRanges
      BY <1>1 DEF ReadRanges, Variant_Range, Comparisons
    <2>2. WellKinded(Variant_Range(c, v, Void))
      BY <1>1 DEF WellKinded, Variant_Range, Comparisons, Void
    <2> QED BY <2>1, <2>2 DEF Ranges
  <1>3. ASSUME NEW v \in Values, NEW w \in Values
        PROVE  Variant_Range("ckRange", v, w) \in Ranges
    <2>1. Variant_Range("ckRange", v, w) \in ReadRanges
      BY <1>1 DEF ReadRanges, Variant_Range
    <2>2. WellKinded(Variant_Range("ckRange", v, w))
      BY <1>1 DEF WellKinded, Variant_Range
    <2> QED BY <2>1, <2>2 DEF Ranges
  <1> QED BY <1>2, <1>3

LEMMA OperatorsAre ==
  ASSUME NEW e \in DOMAIN comparison_operators
  PROVE  /\ comparison_operators[e].comp \in Comparisons
         /\ Len(comparison_operators[e].symbols) \in Nat
         /\ e \in Nat
  BY DEF comparison_operators, Operator, Comparisons

LEMMA ComparedRead ==
  ASSUME NEW t \in Texts, NEW op, op.comp \in Comparisons
  PROVE  IsRead(ComparedItem(op, t), Ranges)
  <1>1. IsRead(parse_value[t], Values)
    BY ValueRead
  <1>2. CASE parse_value[t].outcome = "read"
    <2>1. ComparedItem(op, t) = Read(Variant_Range(op.comp, parse_value[t].value, Void),
                                     parse_value[t].rest)
      BY <1>2 DEF ComparedItem
    <2> QED BY <1>1, <1>2, <2>1, RangesAre DEF IsRead, Read
  <1>3. CASE parse_value[t].outcome # "read"
    BY <1>3 DEF ComparedItem, IsRead
  <1> QED BY <1>2, <1>3

LEMMA ValueItemRead ==
  ASSUME NEW s \in Texts
  PROVE  IsRead(ValueItem(s), Ranges)
  <1> DEFINE lower == parse_value[s]
             next  == SkipWhite[lower.rest]
             upper == parse_value[Rest(next, 1)]
  <1>1. IsRead(lower, Values)
    BY ValueRead
  <1>2. CASE lower.outcome # "read"
    <2>1. ValueItem(s) = lower
      BY <1>2 DEF ValueItem
    <2> QED BY <1>2, <2>1 DEF IsRead
  <1>3. CASE lower.outcome = "read"
    <2>1. lower.value \in Values /\ lower.rest \in Texts
      BY <1>1, <1>3 DEF IsRead
    <2>2. Rest(next, 1) \in Texts
      BY <2>1, SkipWhiteOfText, RestOfText
    <2>3. IsRead(upper, Values)
      BY <2>2, ValueRead
    <2>4. ValueItem(s) =
            IF next = <<>> THEN Error
            ELSE IF ~Begins(next, {"~"})
                   THEN Read(Variant_Range("ckEqual", lower.value, Void), lower.rest)
            ELSE IF upper.outcome # "read" THEN upper
            ELSE Read(Variant_Range("ckRange", lower.value, upper.value), upper.rest)
      BY <1>3 DEF ValueItem
    <2>5. Variant_Range("ckEqual", lower.value, Void) \in Ranges
      BY <2>1, RangesAre DEF Comparisons
    <2>6. upper.outcome = "read" =>
            /\ Variant_Range("ckRange", lower.value, upper.value) \in Ranges
            /\ upper.rest \in Texts
      BY <2>1, <2>3, RangesAre DEF IsRead
    <2> HIDE DEF lower, next, upper
    <2> QED BY <2>1, <2>4, <2>5, <2>6 DEF IsRead, Read, Error
  <1> QED BY <1>2, <1>3

LEMMA MatchRead ==
  ASSUME NEW line \in Texts
  PROVE  IsRead(parse_match[line], Ranges)
  <1> DEFINE s == SkipWhite[line]
             found == {e \in DOMAIN comparison_operators :
                         StartsWith(s, comparison_operators[e].symbols)}
             op == comparison_operators[Smallest(found)]
  <1>1. s \in Texts
    BY SkipWhiteOfText
  <1>2. CASE s = <<>>
    <2>1. parse_match[line] = Error
      BY <1>2 DEF parse_match
    <2> QED BY <2>1 DEF IsRead, Error
  <1>3. CASE s # <<>> /\ found # {}
    <2>1. found \in SUBSET Nat
      BY OperatorsAre
    <2>2. Smallest(found) \in DOMAIN comparison_operators
      BY <1>3, <2>1, SmallestExists
    <2>3. op.comp \in Comparisons /\ Len(op.symbols) \in Nat
      BY <2>2, OperatorsAre
    <2>4. Rest(s, Len(op.symbols)) \in Texts
      BY <1>1, <2>3, RestOfText
    <2>5. parse_match[line] = ComparedItem(op, Rest(s, Len(op.symbols)))
      BY <1>3 DEF parse_match
    <2> QED BY <2>3, <2>4, <2>5, ComparedRead
  <1>4. CASE s # <<>> /\ found = {}
    <2>1. parse_match[line] = ValueItem(s)
      BY <1>4 DEF parse_match
    <2> QED BY <1>1, <2>1, ValueItemRead
  <1> QED BY <1>2, <1>3, <1>4

LEMMA AsIntType ==
  ASSUME NEW k \in Int
  PROVE  AsInt(k) \in Ints
  <1> DEFINE h == IntSpan \div 2
  <1>1. IntSpan \in Nat \ {0} /\ h \in Int
    BY SizeAssumption
  <1>2. (k + h) % IntSpan \in 0..(IntSpan - 1)
    BY <1>1
  <1> QED BY <1>1, <1>2 DEF AsInt, Ints

(* An index that is read is one an array can have.                         *)
Indices == {i \in Ints : i >= 1}

LEMMA IndexRead ==
  ASSUME NEW s \in Texts, 1 \in Ints
  PROVE  /\ IsRead(parse_index[s], Indices)
         /\ parse_index[s].outcome \in {"read", "error"}
  <1> DEFINE close == UpTo(s, {"]"})
             item  == Trim(SubSeq(s, 2, close))
  <1>1. close \in 0..Len(s) /\ Len(s) \in Nat
    BY SpanOfText, LenProperties DEF Texts
  <1>2. Rest(s, close + 1) \in Texts
    BY <1>1, RestOfText
  <1>3. item \in DOMAIN Long => AsInt(Long[item]) \in Ints
    BY AsIntType, NumberAssumption
  <1>4. CASE ~Begins(s, {"["})
    <2>1. parse_index[s] = Read(1, s)
      BY <1>4 DEF parse_index
    <2> QED BY <2>1 DEF IsRead, Read, Indices
  <1>5. CASE Begins(s, {"["}) /\ close = Len(s)
    <2>1. parse_index[s] = Error
      BY <1>5 DEF parse_index
    <2> QED BY <2>1 DEF IsRead, Error
  <1>6. CASE Begins(s, {"["}) /\ close # Len(s)
    <2>1. parse_index[s] = IF item \notin DOMAIN Long THEN Error
                           ELSE IF AsInt(Long[item]) < 1 THEN Error
                           ELSE Read(AsInt(Long[item]), Rest(s, close + 1))
      BY <1>6 DEF parse_index
    <2> HIDE DEF item, close
    <2> QED BY <1>2, <1>3, <2>1 DEF IsRead, Read, Error, Indices, Ints
  <1> QED BY <1>4, <1>5, <1>6

(* A heading has a name and an index that an array can have, and no match  *)
(* items yet.                                                              *)
Headings == {e \in Entries : /\ Begins(e.pv_name, Alnum \cup {"$"})
                             /\ e.element_index >= 1
                             /\ e.match_set = <<>>}

LEMMA OneIsAnInt == 1 \in Ints
  BY SizeAssumption DEF Ints

LEMMA HeadingRead ==
  ASSUME NEW spec \in Texts
  PROVE  \/ Heading[spec] = Error
         \/ /\ Heading[spec].outcome = "read"
            /\ Heading[spec].value \in Headings
            /\ Heading[spec].rest \in Texts
            /\ Heading[spec] = Read(Heading[spec].value, Heading[spec].rest)
  <1> DEFINE s     == SkipWhite[spec]
             name  == Prefix(s, UpTo(s, White))
             index == parse_index[SkipWhite[Rest(s, Len(name))]]
             good  == Begins(name, Alnum \cup {"$"}) /\ index.outcome = "read"
  <1>1. Heading[spec] = IF good THEN Read(Entry(name, index.value, <<>>), index.rest)
                        ELSE Error
    BY DEF Heading
  <1>2. s \in Texts
    BY SkipWhiteOfText
  <1>3. name \in Texts /\ Len(name) \in Nat
    BY <1>2, SpanOfText, PrefixOfText, LenProperties DEF Texts
  <1>4. IsRead(index, Indices)
    BY <1>2, <1>3, RestOfText, SkipWhiteOfText, IndexRead, OneIsAnInt
  <1> HIDE DEF s, name, index
  <1>5. CASE good
    <2>1. index.value \in Ints /\ index.value >= 1 /\ index.rest \in Texts
      BY <1>4, <1>5 DEF IsRead, Indices
    <2>2. PICK e : e = Entry(name, index.value, <<>>)
      OBVIOUS
    <2>3. e \in Entries
      <3>1. <<>> \in Seq(ReadRanges)
        BY EmptySeq
      <3> QED BY <1>3, <2>1, <2>2, <3>1 DEF Entries, Entry
    <2>4. e \in Headings
      BY <1>5, <2>1, <2>2, <2>3 DEF Headings, Entry
    <2>5. Heading[spec] = Read(e, index.rest)
      BY <1>1, <1>5, <2>2
    <2> QED BY <2>1, <2>4, <2>5 DEF Read
  <1> QED BY <1>1, <1>5

LEMMA LineRead ==
  ASSUME NEW t \in Texts
  PROVE  LineLength(t) \in Nat \ {0} /\ Line(t) \in Texts
  <1> DEFINE k == LineLength(t)
  <1>1. Len(t) \in Nat /\ UpTo(t, {"\n"}) \in 0..Len(t)
    BY LengthOfText, SpanOfText
  <1>2. k \in Nat \ {0}
    BY <1>1, SizeAssumption DEF LineLength, Shorter
  <1> HIDE DEF k
  <1>3. Cut(t, k) \in Texts /\ Len(Cut(t, k)) \in 0..Len(t)
    BY <1>1, <1>2, CutOfText DEF Shorter
  <1>4. UpTo(Cut(t, k), {"\n"}) \in 0..Len(t)
    BY <1>1, <1>3, SpanOfText
  <1>5. SkipWhite[Prefix(t, UpTo(Cut(t, k), {"\n"}))] \in Texts
    BY <1>4, PrefixOfText, SkipWhiteOfText
  <1> QED BY <1>2, <1>5 DEF Line, k

-----------------------------------------------------------------------------
(* The command.                                                            *)
LEMMA TailOfText ==
  ASSUME NEW s \in Texts, s # <<>>
  PROVE  /\ Len(s) \in Nat \ {0} /\ s[1] \in Symbols
         /\ Tail(s) \in Texts /\ Len(Tail(s)) = Len(s) - 1
         /\ Len(Tail(s)) < Len(s)
         /\ \A i \in 1..Len(s) - 1 : Tail(s)[i] = s[i + 1]
         /\ s = <<s[1]>> \o Tail(s)
  <1>1. Len(s) \in Nat \ {0} /\ s[1] \in Symbols
    BY LengthOfText
  <1>2. Tail(s) \in Texts /\ Len(Tail(s)) = Len(s) - 1
        /\ \A i \in 1..Len(s) - 1 : Tail(s)[i] = s[i + 1]
    BY <1>1, HeadTailProperties DEF Texts
  <1>3. Len(Tail(s)) < Len(s)
    <2> HIDE DEF Texts
    <2>1. PICK n \in Nat : n = Len(s)
      BY <1>1
    <2> QED BY <1>2, <2>1
  <1>4. s = <<s[1]>> \o Tail(s)
    <2>1. <<s[1]>> \in Texts /\ Len(<<s[1]>>) = 1 /\ <<s[1]>>[1] = s[1]
      BY <1>1, OneSymbol
    <2>2. /\ <<s[1]>> \o Tail(s) \in Texts
          /\ Len(<<s[1]>> \o Tail(s)) = Len(s)
          /\ (<<s[1]>> \o Tail(s))[1] = s[1]
          /\ \A i \in 1..Len(s) - 1 : (<<s[1]>> \o Tail(s))[1 + i] = Tail(s)[i]
      <3>1. PICK a : a = <<s[1]>> /\ a \in Texts /\ Len(a) = 1 /\ a[1] = s[1]
        BY <2>1
      <3>2. PICK b : b = Tail(s) /\ b \in Texts /\ Len(b) = Len(s) - 1
        BY <1>2
      <3>3. PICK c : c = a \o b
        OBVIOUS
      <3>4. /\ c \in Texts /\ Len(c) = 1 + Len(b)
            /\ \A i \in 1..1 : c[i] = a[i]
            /\ \A i \in 1..Len(b) : c[1 + i] = b[i]
        BY <3>1, <3>2, <3>3, JoinOfTexts
      <3> QED BY <1>1, <3>1, <3>2, <3>3, <3>4
    <2>3. ASSUME NEW i \in 1..Len(s) PROVE s[i] = (<<s[1]>> \o Tail(s))[i]
      <3>1. CASE i = 1
        BY <2>2, <3>1
      <3>2. CASE i # 1
        <4>1. i - 1 \in 1..Len(s) - 1 /\ (i - 1) + 1 = i /\ 1 + (i - 1) = i
          BY <1>1, <3>2
        <4> QED BY <1>2, <2>2, <4>1
      <3> QED BY <3>1, <3>2
    <2> QED BY <2>2, <2>3, EqualTexts
  <1> QED BY <1>1, <1>2, <1>3, <1>4

(* A blank is left out before another one and at the end.                  *)
LeftOut(s) == Begins(s, White) /\ (Len(s) = 1 \/ s[2] \in White)

LEMMA SqueezedIs ==
  /\ Squeezed \in [Texts -> Texts]
  /\ \A s \in Texts :
       Squeezed[s] = IF s = <<>> THEN <<>>
                     ELSE IF LeftOut(s) THEN Squeezed[Tail(s)]
                     ELSE <<s[1]>> \o Squeezed[Tail(s)]
  <1> DEFINE size == [s \in Texts |-> Len(s)]
             leaf == [s \in Texts |-> <<>>]
             rest == [s \in Texts |-> IF s = <<>> THEN <<>> ELSE Tail(s)]
             step == [y \in Texts \X Texts |->
                        IF y[1] = <<>> \/ LeftOut(y[1]) THEN y[2] ELSE <<y[1][1]>> \o y[2]]
             Value(f, s) == IF s = <<>> THEN <<>>
                            ELSE IF LeftOut(s) THEN f[Tail(s)]
                            ELSE <<s[1]>> \o f[Tail(s)]
             leaves == {<<>>}
  <1>1. size \in [Texts -> Nat] /\ leaf \in [Texts -> Texts]
    BY LengthOfText, NoSymbol
  <1>2. rest \in [Texts -> Texts]
    BY TailOfText, NoSymbol
  <1>3. step \in [Texts \X Texts -> Texts]
    <2>1. ASSUME NEW s \in Texts, NEW t \in Texts, s # <<>> PROVE <<s[1]>> \o t \in Texts
      BY <2>1, TailOfText, OneSymbol, JoinOfTexts
    <2>2. ASSUME NEW y \in Texts \X Texts
          PROVE  (IF y[1] = <<>> \/ LeftOut(y[1]) THEN y[2] ELSE <<y[1][1]>> \o y[2]) \in Texts
      <3>1. y[1] \in Texts /\ y[2] \in Texts
        OBVIOUS
      <3> QED BY <2>1, <3>1
    <2> QED BY <2>2
  <1>4. Descends(Texts, size, leaves, rest)
    <2>1. ASSUME NEW s \in Texts, s # <<>> PROVE Len(Tail(s)) < Len(s) /\ Tail(s) \in Texts
      BY <2>1, TailOfText, Zenon
    <2>2. \A s \in Texts : s \in leaves \/ size[rest[s]] < size[s]
      BY <2>1
    <2> HIDE DEF size, rest, leaves
    <2> QED BY <1>1, <1>2, <2>2 DEF Descends
  <1>5. PICK f \in [Texts -> Texts] : Recursive(f, Texts, leaves, leaf, rest, step)
    <2> HIDE DEF size, leaf, rest, step, leaves
    <2> QED BY <1>1, <1>3, <1>4, Recursion
  <1>6. ASSUME NEW s \in Texts PROVE f[s] = Value(f, s)
    <2>1. CASE s = <<>>
      BY <1>5, <2>1 DEF Recursive
    <2>2. CASE s # <<>>
      <3>1. f[s] = step[<<s, f[Tail(s)]>>]
        <4>1. s \notin leaves /\ rest[s] = Tail(s)
          BY <2>2
        <4> HIDE DEF step, leaf, rest, leaves
        <4> QED BY <1>5, <4>1 DEF Recursive
      <3>2. Tail(s) \in Texts /\ f[Tail(s)] \in Texts
        BY <2>2, TailOfText
      <3> QED BY <2>2, <3>1, <3>2
    <2> QED BY <2>1, <2>2
  <1>7. f = [s \in Texts |-> Value(f, s)]
    <2>1. f = [s \in Texts |-> f[s]]
      OBVIOUS
    <2> HIDE DEF Value
    <2> QED BY <1>6, <2>1
  <1>8. Squeezed = CHOOSE g : g = [s \in Texts |-> Value(g, s)]
    BY DEF Squeezed, LeftOut
  <1>9. Squeezed = [s \in Texts |-> Value(Squeezed, s)]
    <2> HIDE DEF Value
    <2> QED BY <1>7, <1>8
  <1>10. ASSUME NEW s \in Texts PROVE Squeezed[s] = Value(Squeezed, s)
    <2> HIDE DEF Value
    <2> QED BY <1>9
  <1>11. \A s \in Texts : Squeezed[s] = f[s]
    <2> DEFINE P == {s \in Texts : Squeezed[s] = f[s]}
    <2>1. ASSUME NEW s \in Texts, \A t \in Texts : size[t] < size[s] => t \in P
          PROVE  s \in P
      <3>1. CASE s = <<>>
        BY <1>6, <1>10, <3>1
      <3>2. CASE s # <<>>
        <4>1. Tail(s) \in Texts /\ Len(Tail(s)) < Len(s)
          BY <3>2, TailOfText, Zenon
        <4>2. Squeezed[Tail(s)] = f[Tail(s)]
          BY <2>1, <4>1
        <4> QED BY <1>6, <1>10, <3>2, <4>2
      <3> QED BY <3>1, <3>2
    <2>2. \A s \in Texts : s \in P
      <3> HIDE DEF P, size
      <3> QED BY <1>1, <2>1, SizeInduction
    <2> QED BY <2>2
  <1>12. Squeezed = f
    <2>1. Squeezed = [s \in Texts |-> Squeezed[s]]
      <3> HIDE DEF Value
      <3> QED BY <1>9
    <2>2. f = [s \in Texts |-> f[s]]
      OBVIOUS
    <2>3. [s \in Texts |-> Squeezed[s]] = [s \in Texts |-> f[s]]
      BY <1>11
    <2> QED BY <2>1, <2>2, <2>3
  <1> QED BY <1>10, <1>12

LEMMA SqueezedType ==
  ASSUME NEW s \in Texts
  PROVE  Squeezed[s] \in Texts
  BY SqueezedIs

LEMMA CommandType ==
  ASSUME NEW s \in Texts
  PROVE  Command[s] \in Texts
  <1>1. DefaultParameters \in Texts
    <2>1. {" ", "%", "p", "e", "m", "v"} \subseteq Symbols
      BY SymbolAssumption
    <2>2. ASSUME NEW a \in Symbols, NEW b \in Symbols, NEW c \in Symbols
          PROVE  <<a, b, c>> \in Texts
      BY DEF Texts
    <2>3. /\ <<" ", "%", "p">> \in Texts /\ <<" ", "%", "m">> \in Texts
          /\ <<" ", "%", "v">> \in Texts /\ <<" ", "%", "e">> \in Texts
      BY <2>1, <2>2
    <2> QED BY <2>3, ConcatProperties DEF Texts, DefaultParameters
  <1>2. Squeezed[s] \in Texts /\ Squeezed[s] \o DefaultParameters \in Texts
    BY <1>1, SqueezedType, ConcatProperties DEF Texts
  <1> QED BY <1>2 DEF Command, WithDefaults

-----------------------------------------------------------------------------
(* What makes ClientsWellFormed inductive: what has been read of a         *)
(* specification is already as it must be in a client, with room for one   *)
(* more item while items are read.                                         *)
EntryOK ==
  /\ reader \in {"match", "command"} =>
       /\ Begins(entry.pv_name, Alnum \cup {"$"})
       /\ entry.element_index >= 1
       /\ \A j \in DOMAIN entry.match_set : WellKinded(entry.match_set[j])
  /\ reader = "match" => Len(entry.match_set) < NUMBER_OF_VARIENT_RANGES
  /\ reader = "command" => Len(entry.match_set) \in 1..NUMBER_OF_VARIENT_RANGES

ReaderInv == /\ input.text \in Texts
             /\ ReaderTypeOK
             /\ EntryOK
             /\ ClientsWellFormed

SubstituteInv == SubstituteTypeOK /\ CommandFitsBuffer

IInv == ReaderInv /\ SubstituteInv

Clients == [pv_name : Texts, element_index : Ints, match_set : Seq(ReadRanges),
            match_command : Texts]

LEMMA ReaderUnchanged ==
  ReaderInv /\ UNCHANGED <<readerVars, input>> => ReaderInv'
  BY DEF ReaderInv, readerVars, ReaderTypeOK, EntryOK, ClientsWellFormed

LEMMA SubstituteUnchanged ==
  SubstituteInv /\ UNCHANGED substituteVars => SubstituteInv'
  BY DEF SubstituteInv, substituteVars, SubstituteTypeOK, CommandFitsBuffer

LEMMA BufferHasRoom == COMMAND_BUFFER_SIZE \in Nat \ {0}
  BY SizeAssumption DEF COMMAND_BUFFER_SIZE

LEMMA InitIInv == Init => IInv
  <1> SUFFICES ASSUME Init PROVE IInv
    OBVIOUS
  <1>1. input.text \in Texts
    BY InputAssumption DEF Init
  <1>2. ReaderTypeOK /\ EntryOK /\ ClientsWellFormed
    BY OneIsAnInt DEF Init, ReaderInit, Entry, Entries, ReaderTypeOK, EntryOK,
                      ClientsWellFormed, Texts
  <1>3. SubstituteTypeOK /\ CommandFitsBuffer
    BY BufferHasRoom DEF Init, SubstituteInit, SubstituteTypeOK, CommandFitsBuffer
  <1> QED BY <1>1, <1>2, <1>3 DEF IInv, ReaderInv, SubstituteInv

-----------------------------------------------------------------------------
(* The reader.                                                             *)
LEMMA ReadLineStep ==
  ReaderInv /\ ReadLine /\ UNCHANGED input => ReaderInv'
  <1> SUFFICES ASSUME ReaderInv, ReadLine, UNCHANGED input PROVE ReaderInv'
    OBVIOUS
  <1> USE DEF ReaderInv
  <1>1. /\ text \in Texts
        /\ text' = Rest(text, LineLength(text)) /\ source' = Line(text)
        /\ reader' \in {"line", "spec"} /\ UNCHANGED <<sub_line, entry, clients>>
    BY DEF ReadLine, ReaderTypeOK
  <1>2. text' \in Texts /\ source' \in Texts
    BY <1>1, LineRead, RestOfText
  <1>3. ReaderTypeOK'
    BY <1>1, <1>2 DEF ReaderTypeOK
  <1> QED BY <1>1, <1>3 DEF EntryOK, ClientsWellFormed

LEMMA EndOfTextStep ==
  ReaderInv /\ (EndOfText \/ EndOfLine) /\ UNCHANGED input => ReaderInv'
  BY DEF ReaderInv, EndOfText, EndOfLine, ReaderTypeOK, EntryOK, ClientsWellFormed

LEMMA BeginSpecStep ==
  ReaderInv /\ BeginSpec /\ UNCHANGED input => ReaderInv'
  <1> SUFFICES ASSUME ReaderInv, BeginSpec, UNCHANGED input PROVE ReaderInv'
    OBVIOUS
  <1>0. input.text \in Texts /\ ReaderTypeOK /\ EntryOK /\ ClientsWellFormed
    BY DEF ReaderInv
  <1> DEFINE k    == UpTo(source, {";"})
             head == Heading[Prefix(source, k)]
  <1>1. /\ source' = next_source(source, k)
        /\ UNCHANGED <<text, clients>>
        /\ \/ /\ head.outcome = "read"
              /\ entry' = head.value
              /\ sub_line' = head.rest
              /\ reader' = "match"
           \/ reader' = "spec" /\ UNCHANGED <<sub_line, entry>>
    BY Zenon DEF BeginSpec, Skip
  <1>2. source \in Texts /\ k \in 0..Len(source) /\ Len(source) \in Nat
    BY <1>0, SpanOfText, LenProperties DEF ReaderTypeOK, Texts
  <1>3. Prefix(source, k) \in Texts
    BY <1>2, PrefixOfText
  <1>4. source' \in Texts
    <2>1. source' = Rest(source, k + 1)
      BY <1>1 DEF next_source
    <2> HIDE DEF k
    <2>2. k + 1 \in Nat
      BY <1>2
    <2> QED BY <1>2, <2>1, <2>2, RestOfText
  <1> HIDE DEF k
  <1>5. \/ head.outcome # "read"
        \/ head.value \in Headings /\ head.rest \in Texts
    BY <1>3, HeadingRead DEF Error
  <1> HIDE DEF head
  <1>6. CASE head.outcome = "read" /\ reader' = "match"
    <2>1. entry' \in Headings /\ sub_line' \in Texts
      BY <1>1, <1>5, <1>6
    <2>2. ReaderTypeOK'
      BY <1>0, <1>1, <1>4, <1>6, <2>1 DEF ReaderTypeOK, Headings
    <2>3. EntryOK'
      <3>1. entry'.match_set = <<>>
        BY <2>1 DEF Headings
      <3>2. entry'.match_set \in Seq(ReadRanges)
        BY <3>1, EmptySeq
      <3>3. Len(entry'.match_set) = 0 /\ DOMAIN entry'.match_set = 1..0
        BY <3>1, <3>2, EmptySeq, LenProperties
      <3>4. NUMBER_OF_VARIENT_RANGES \in Nat \ {0}
        BY SizeAssumption
      <3> QED BY <1>6, <2>1, <3>3, <3>4 DEF EntryOK, Headings, Begins
    <2> QED BY <1>0, <1>1, <2>2, <2>3 DEF ReaderInv, ClientsWellFormed
  <1>7. CASE reader' = "spec" /\ UNCHANGED <<sub_line, entry>>
    BY <1>0, <1>1, <1>4, <1>7 DEF ReaderInv, ReaderTypeOK, EntryOK, ClientsWellFormed
  <1> QED BY <1>1, <1>6, <1>7

LEMMA MatchItemStep ==
  ReaderInv /\ MatchItem /\ UNCHANGED input => ReaderInv'
  <1> SUFFICES ASSUME ReaderInv, MatchItem, UNCHANGED input PROVE ReaderInv'
    OBVIOUS
  <1>0. input.text \in Texts /\ ReaderTypeOK /\ EntryOK /\ ClientsWellFormed
    BY DEF ReaderInv
  <1> DEFINE item  == parse_match[sub_line]
             next  == SkipWhite[item.rest]
             found == Append(entry.match_set, item.value)
  <1>1. /\ reader = "match"
        /\ UNCHANGED <<text, source, clients>>
        /\ \/ /\ item.outcome = "read"
              /\ Len(found) < NUMBER_OF_VARIENT_RANGES
              /\ entry' = [entry EXCEPT !.match_set = found]
              /\ sub_line' = Rest(next, 1)
              /\ UNCHANGED reader
           \/ /\ item.outcome = "read"
              /\ entry' = [entry EXCEPT !.match_set = found]
              /\ sub_line' = next
              /\ reader' = "command"
           \/ /\ reader' \in {"spec", "crashed"}
              /\ UNCHANGED <<sub_line, entry>>
    <2>1. /\ reader = "match"
          /\ UNCHANGED <<text, source>>
      BY DEF MatchItem
    <2>2. \/ /\ item.outcome = "read"
             /\ Len(found) < NUMBER_OF_VARIENT_RANGES
             /\ entry' = [entry EXCEPT !.match_set = found]
             /\ sub_line' = Rest(next, 1)
             /\ UNCHANGED <<reader, clients>>
          \/ /\ item.outcome = "read"
             /\ entry' = [entry EXCEPT !.match_set = found]
             /\ sub_line' = next
             /\ reader' = "command"
             /\ UNCHANGED clients
          \/ /\ reader' \in {"spec", "crashed"}
             /\ UNCHANGED <<sub_line, entry, clients>>
      BY Zenon DEF MatchItem, Skip
    <2> HIDE DEF item, next, found
    <2> QED BY <2>1, <2>2
  <1>2. IsRead(item, Ranges)
    <2>1. sub_line \in Texts
      BY <1>0 DEF ReaderTypeOK
    <2> QED BY <2>1, MatchRead
  <1> HIDE DEF item
  <1>3. CASE item.outcome = "read" /\ entry' = [entry EXCEPT !.match_set = found]
    <2>1. item.value \in ReadRanges /\ WellKinded(item.value) /\ item.rest \in Texts
      BY <1>2, <1>3 DEF IsRead, Ranges
    <2>2. next \in Texts /\ Rest(next, 1) \in Texts
      BY <2>1, SkipWhiteOfText, RestOfText
    <2>3. entry \in Entries /\ entry.match_set \in Seq(ReadRanges)
      BY <1>0 DEF ReaderTypeOK, Entries
    <2>4. /\ found \in Seq(ReadRanges)
          /\ Len(found) = Len(entry.match_set) + 1
          /\ \A j \in 1..Len(entry.match_set) : found[j] = entry.match_set[j]
          /\ found[Len(entry.match_set) + 1] = item.value
      BY <2>1, <2>3, AppendProperties
    <2>5. /\ Len(entry.match_set) \in Nat
          /\ DOMAIN entry.match_set = 1..Len(entry.match_set)
          /\ DOMAIN found = 1..(Len(entry.match_set) + 1)
      BY <2>3, <2>4, LenProperties
    <2> HIDE DEF next, found
    <2>6. /\ entry' \in Entries
          /\ entry'.match_set = found
          /\ entry'.element_index = entry.element_index
          /\ entry'.pv_name = entry.pv_name
      BY <1>3, <2>3, <2>4 DEF Entries
    <2>7. sub_line' \in Texts
      BY <1>0, <1>1, <2>2 DEF ReaderTypeOK
    <2>8. \A j \in DOMAIN found : WellKinded(found[j])
      <3>1. \A j \in DOMAIN entry.match_set : WellKinded(entry.match_set[j])
        BY <1>0, <1>1 DEF EntryOK
      <3>2. ASSUME NEW j \in DOMAIN found PROVE WellKinded(found[j])
        <4>1. j \in 1..Len(entry.match_set) \/ j = Len(entry.match_set) + 1
          BY <2>5
        <4> QED BY <2>1, <2>4, <2>5, <3>1, <4>1
      <3> QED BY <3>2
    <2>9. /\ Begins(entry.pv_name, Alnum \cup {"$"})
          /\ entry.element_index >= 1
          /\ Len(entry.match_set) < NUMBER_OF_VARIENT_RANGES
          /\ NUMBER_OF_VARIENT_RANGES \in Nat
      BY <1>0, <1>1, SizeAssumption DEF EntryOK
    <2>10. reader' = "match" => Len(found) < NUMBER_OF_VARIENT_RANGES
      BY <1>1
    <2>11. EntryOK'
      BY <2>4, <2>5, <2>6, <2>8, <2>9, <2>10 DEF EntryOK, Begins
    <2>12. ReaderTypeOK'
      BY <1>0, <1>1, <2>6, <2>7 DEF ReaderTypeOK, Entries
    <2> QED BY <1>0, <1>1, <2>11, <2>12 DEF ReaderInv, ClientsWellFormed
  <1>4. CASE reader' \in {"spec", "crashed"} /\ UNCHANGED <<sub_line, entry>>
    BY <1>0, <1>1, <1>4 DEF ReaderInv, ReaderTypeOK, EntryOK, ClientsWellFormed
  <1> QED BY <1>1, <1>3, <1>4

LEMMA EndSpecStep ==
  ReaderInv /\ EndSpec /\ UNCHANGED input => ReaderInv'
  <1> SUFFICES ASSUME ReaderInv, EndSpec, UNCHANGED input PROVE ReaderInv'
    OBVIOUS
  <1>0. input.text \in Texts /\ ReaderTypeOK /\ EntryOK /\ ClientsWellFormed
    BY DEF ReaderInv
  <1> DEFINE command == Command[sub_line]
             c == Client(entry, command)
  <1>1. /\ reader = "command" /\ reader' = "spec"
        /\ UNCHANGED <<text, source, sub_line, entry>>
        /\ \/ UNCHANGED clients
           \/ Fits(c) /\ clients' = Append(clients, c)
    BY DEF EndSpec
  <1>2. /\ entry \in Entries
        /\ clients \in Seq(Clients)
        /\ command \in Texts
    <2>1. entry \in Entries /\ clients \in Seq(Clients) /\ sub_line \in Texts
      BY <1>0 DEF ReaderTypeOK, Entries, Clients
    <2> QED BY <2>1, CommandType
  <1>3. c \in Clients
    BY <1>2 DEF Client, Entries, Clients
  <1>4. Fits(c) => WellFormed(c)
    <2>1. /\ Begins(entry.pv_name, Alnum \cup {"$"})
          /\ entry.element_index >= 1
          /\ \A j \in DOMAIN entry.match_set : WellKinded(entry.match_set[j])
          /\ Len(entry.match_set) \in 1..NUMBER_OF_VARIENT_RANGES
      BY <1>0, <1>1 DEF EntryOK
    <2>2. entry.pv_name \in Texts
      BY <1>2 DEF Entries
    <2>3. Len(entry.pv_name) \in Nat /\ MAXIMUM_PVNAME_SIZE \in Nat
      BY <2>2, LenProperties, SizeAssumption DEF Texts
    <2>4. /\ c.pv_name = entry.pv_name /\ c.element_index = entry.element_index
          /\ c.match_set = entry.match_set /\ c.match_command = command
      BY DEF Client
    <2> QED BY <2>1, <2>3, <2>4 DEF Fits, WellFormed
  <1> HIDE DEF command, c
  <1>5. CASE UNCHANGED clients
    BY <1>0, <1>1, <1>5 DEF ReaderInv, ReaderTypeOK, EntryOK, ClientsWellFormed
  <1>6. CASE Fits(c) /\ clients' = Append(clients, c)
    <2>1. /\ clients' \in Seq(Clients)
          /\ Len(clients) \in Nat
          /\ DOMAIN clients = 1..Len(clients)
          /\ DOMAIN clients' = 1..(Len(clients) + 1)
          /\ \A j \in 1..Len(clients) : clients'[j] = clients[j]
          /\ clients'[Len(clients) + 1] = c
      BY <1>2, <1>3, <1>6, AppendProperties, LenProperties
    <2>2. ASSUME NEW j \in DOMAIN clients' PROVE WellFormed(clients'[j])
      <3>1. \/ j \in DOMAIN clients /\ clients'[j] = clients[j]
            \/ clients'[j] = c
        BY <2>1
      <3> QED BY <1>0, <1>4, <1>6, <3>1 DEF ClientsWellFormed
    <2>3. ClientsWellFormed'
      BY <2>2 DEF ClientsWellFormed, WellFormed
    <2>4. ReaderTypeOK'
      BY <1>0, <1>1, <2>1 DEF ReaderTypeOK, Clients
    <2> QED BY <1>0, <1>1, <2>3, <2>4 DEF ReaderInv, EntryOK
  <1> QED BY <1>1, <1>5, <1>6

LEMMA CreateClientListStep ==
  ReaderInv /\ CreateClientList => ReaderInv'
  <1> SUFFICES ASSUME ReaderInv, CreateClientList PROVE ReaderInv'
    OBVIOUS
  <1>1. /\ reader' = "line" /\ clients' = <<>>
        /\ text' = IF string_config = "" THEN <<>> ELSE input.text
        /\ UNCHANGED <<source, sub_line, entry, input>>
    BY DEF CreateClientList, callVars
  <1>2. text' \in Texts
    BY <1>1, EmptySeq DEF ReaderInv, Texts
  <1>3. ReaderTypeOK'
    BY <1>1, <1>2, EmptySeq DEF ReaderInv, ReaderTypeOK
  <1>4. DOMAIN clients' = 1..0
    <2>1. clients' \in Seq(Clients) /\ Len(clients') = 0
      BY <1>1, EmptySeq
    <2> QED BY <2>1, LenProperties
  <1>5. ClientsWellFormed'
    BY <1>4 DEF ClientsWellFormed
  <1> QED BY <1>1, <1>3, <1>5 DEF ReaderInv, EntryOK

LEMMA ReaderStepInv ==
  ReaderInv /\ ReaderStep /\ UNCHANGED input => ReaderInv'
  BY ReadLineStep, EndOfTextStep, BeginSpecStep, MatchItemStep, EndSpecStep
     DEF ReaderStep

-----------------------------------------------------------------------------
(* The command buffers.                                                    *)
LEMMA ConcatOfText ==
  ASSUME NEW a \in Texts, NEW b \in Texts
  PROVE  a \o b \in Texts /\ Len(a \o b) = Len(a) + Len(b)
  BY ConcatProperties DEF Texts

LEMMA PlacesFound ==
  ASSUME NEW s \in Texts, NEW t, Occurrences(s, t) # {}
  PROVE  Smallest(Occurrences(s, t)) \in 0..Len(s)
  <1>1. Len(s) \in Nat
    BY LenProperties DEF Texts
  <1>2. Occurrences(s, t) \in SUBSET Nat /\ Occurrences(s, t) \subseteq 0..Len(s)
    BY <1>1 DEF Occurrences
  <1> QED BY <1>2, SmallestExists

(* What is copied goes as far as there is room.                            *)
LEMMA CopyFits ==
  ASSUME NEW written \in Texts, Len(written) < COMMAND_BUFFER_SIZE, NEW s \in Texts
  PROVE  /\ Room(written) \in Nat
         /\ written \o Cut(s, Room(written)) \in Texts
         /\ Len(written \o Cut(s, Room(written))) < COMMAND_BUFFER_SIZE
  <1>1. Len(written) \in Nat /\ Len(s) \in Nat
    BY LenProperties DEF Texts
  <1>2. Room(written) \in Nat /\ Len(written) + Room(written) < COMMAND_BUFFER_SIZE
    BY <1>1, BufferHasRoom DEF Room
  <1>3. /\ Cut(s, Room(written)) \in Texts
        /\ Len(Cut(s, Room(written))) <= Room(written)
        /\ Len(Cut(s, Room(written))) \in Nat
    BY <1>1, <1>2, CutOfText DEF Shorter
  <1> QED BY <1>1, <1>2, <1>3, ConcatOfText, BufferHasRoom

LEMMA ReplaceStep ==
  SubstituteInv /\ Replace => SubstituteInv'
  <1> SUFFICES ASSUME SubstituteInv, Replace PROVE SubstituteInv'
    OBVIOUS
  <1> DEFINE at     == Smallest(Found)
             before == dest \o Cut(Prefix(from, at), Room(dest))
  <1>0. /\ pass \in 1..4 /\ images \in [1..4 -> Texts]
        /\ from \in Texts /\ dest \in Texts
        /\ Len(dest) < COMMAND_BUFFER_SIZE
        /\ pass > 1 => Len(from) < COMMAND_BUFFER_SIZE
        /\ Found # {}
    BY DEF SubstituteInv, SubstituteTypeOK, CommandFitsBuffer, Replace, Texts
  <1>1. /\ UNCHANGED <<pass, images>>
        /\ \/ dest' = before /\ UNCHANGED from
           \/ /\ dest' = before \o Cut(images[pass], Room(before))
              /\ from' = Rest(from, at + 2)
    BY DEF Replace
  <1>2. at \in 0..Len(from) /\ Len(from) \in Nat
    BY <1>0, PlacesFound, LenProperties DEF Found, Texts
  <1>3. Prefix(from, at) \in Texts
    BY <1>0, <1>2, PrefixOfText
  <1>4. before \in Texts /\ Len(before) < COMMAND_BUFFER_SIZE
    BY <1>0, <1>3, CopyFits
  <1>5. images[pass] \in Texts
    BY <1>0
  <1>6. /\ before \o Cut(images[pass], Room(before)) \in Texts
        /\ Len(before \o Cut(images[pass], Room(before))) < COMMAND_BUFFER_SIZE
    BY <1>4, <1>5, CopyFits
  <1> HIDE DEF at, before
  <1>7. Rest(from, at + 2) \in Texts /\ Len(Rest(from, at + 2)) <= Len(from)
    <2>1. at + 2 \in Nat
      BY <1>2
    <2>2. /\ Rest(from, at + 2) \in Texts
          /\ Len(Rest(from, at + 2)) = IF at + 2 <= Len(from) THEN Len(from) - (at + 2) ELSE 0
      BY <1>0, <2>1, RestOfText
    <2> QED BY <1>2, <2>2
  <1>8. dest' \in Texts /\ Len(dest') < COMMAND_BUFFER_SIZE
    BY <1>1, <1>4, <1>6
  <1>9. from' \in Texts /\ Len(from') <= Len(from) /\ Len(from') \in Nat
    BY <1>0, <1>1, <1>2, <1>7, LenProperties DEF Texts
  <1>10. CommandFitsBuffer'
    BY <1>0, <1>1, <1>2, <1>8, <1>9, BufferHasRoom DEF CommandFitsBuffer, COMMAND_BUFFER_SIZE
  <1>11. SubstituteTypeOK'
    BY <1>0, <1>1, <1>8, <1>9 DEF SubstituteTypeOK, Texts
  <1> QED BY <1>10, <1>11 DEF SubstituteInv

LEMMA EndPassStep ==
  SubstituteInv /\ EndPass => SubstituteInv'
  <1> SUFFICES ASSUME SubstituteInv, EndPass PROVE SubstituteInv'
    OBVIOUS
  <1>0. /\ pass \in 1..4 /\ images \in [1..4 -> Texts]
        /\ from \in Texts /\ dest \in Texts
        /\ Len(dest) < COMMAND_BUFFER_SIZE
    BY DEF SubstituteInv, SubstituteTypeOK, CommandFitsBuffer, EndPass, Texts
  <1>1. /\ pass' = pass + 1 /\ dest' = <<>> /\ UNCHANGED images
        /\ from' = dest \o Cut(from, Room(dest))
    BY DEF EndPass
  <1>2. from' \in Texts /\ Len(from') < COMMAND_BUFFER_SIZE
    BY <1>0, <1>1, CopyFits
  <1>3. dest' \in Texts /\ Len(dest') = 0
    BY <1>1, EmptySeq DEF Texts
  <1>4. CommandFitsBuffer'
    BY <1>2, <1>3, BufferHasRoom DEF CommandFitsBuffer, COMMAND_BUFFER_SIZE
  <1>5. SubstituteTypeOK'
    BY <1>0, <1>1, <1>2, <1>3 DEF SubstituteTypeOK, Texts
  <1> QED BY <1>4, <1>5 DEF SubstituteInv

(* A client of the reader has images: its element index is one that has a  *)
(* decimal.                                                                *)
LEMMA CallStep ==
  IInv /\ CallSomeCommand => SubstituteInv'
  <1> SUFFICES ASSUME IInv,
                      NEW c \in DOMAIN clients, NEW state \in StateImages,
                      NEW v \in ValueImages,
                      call_command(c, state, IF state = <<"disconnect">> THEN <<>> ELSE v)
               PROVE  SubstituteInv'
    BY DEF CallSomeCommand
  <1> DEFINE value == IF state = <<"disconnect">> THEN <<>> ELSE v
             i == clients[c].element_index
             number == Cut(Decimal[i], INDEX_IMAGE_SIZE - 1)
             quoted == <<"'">> \o value \o <<"'">>
             image  == Cut(quoted, VALUE_IMAGE_SIZE - 1)
  <1>1. /\ pass' = 1 /\ dest' = <<>> /\ from' = clients[c].match_command
        /\ images' = <<clients[c].pv_name, number, state, image>>
    BY DEF call_command, BeginSubstitute, Images
  <1>2. clients \in Seq(Clients) /\ WellFormed(clients[c])
    BY DEF IInv, ReaderInv, ReaderTypeOK, ClientsWellFormed, Clients
  <1>3. clients[c] \in Clients
    BY <1>2, LenProperties, ElementOfSeq
  <1>4. clients[c].pv_name \in Texts /\ clients[c].match_command \in Texts /\ i \in Ints
    BY <1>3 DEF Clients
  <1>5. number \in Texts
    <2>1. i >= 1
      BY <1>2 DEF WellFormed
    <2>2. i \in 1..(IntSpan - 1 - IntSpan \div 2)
      BY <1>4, <2>1, SizeAssumption DEF Ints
    <2>3. Decimal[i] \in Texts
      <3>1. Decimal[i] \in Seq(DOMAIN Digit) /\ DOMAIN Digit \subseteq Symbols
        BY <2>2, DecimalAssumption, DigitAssumption
      <3> HIDE DEF i
      <3> QED BY <3>1 DEF Texts
    <2>4. INDEX_IMAGE_SIZE - 1 \in Nat
      BY SizeAssumption
    <2> QED BY <2>3, <2>4, CutOfText
  <1>6. state \in Texts
    <2>1. {" ", "match", "reject", "disconnect"} \subseteq Symbols
      BY SymbolAssumption
    <2>2. \A a, b \in Symbols : <<a>> \in Texts /\ <<a, b>> \in Texts
      BY DEF Texts
    <2> QED BY <2>1, <2>2 DEF StateImages
  <1>7. image \in Texts
    <2>1. value \in Texts
      BY InputAssumption, EmptySeq DEF Texts
    <2>2. <<"'">> \in Texts
      <3>1. "'" \in Symbols
        BY SymbolAssumption
      <3> QED BY <3>1 DEF Texts
    <2>3. quoted \in Texts
      BY <2>1, <2>2, ConcatOfText
    <2>4. VALUE_IMAGE_SIZE - 1 \in Nat
      BY SizeAssumption
    <2> QED BY <2>3, <2>4, CutOfText
  <1> HIDE DEF number, image
  <1>8. images' \in [1..4 -> Texts]
    BY <1>1, <1>4, <1>5, <1>6, <1>7
  <1>9. dest' \in Texts /\ Len(dest') = 0
    BY <1>1, EmptySeq DEF Texts
  <1>10. SubstituteTypeOK'
    BY <1>1, <1>4, <1>8, <1>9 DEF SubstituteTypeOK, Texts
  <1>11. CommandFitsBuffer'
    BY <1>1, <1>9, BufferHasRoom DEF CommandFitsBuffer, COMMAND_BUFFER_SIZE
  <1> QED BY <1>10, <1>11 DEF SubstituteInv

LEMMA SubstituteStepInv ==
  SubstituteInv /\ SubstituteStep => SubstituteInv'
  BY ReplaceStep, EndPassStep DEF SubstituteStep

-----------------------------------------------------------------------------
LEMMA NextIInv == IInv /\ [Next]_vars => IInv'
  <1> SUFFICES ASSUME IInv, [Next]_vars PROVE IInv'
    OBVIOUS
  <1>0. ReaderInv /\ SubstituteInv
    BY DEF IInv
  <1>1. CASE CreateClientList
    BY <1>0, <1>1, CreateClientListStep, SubstituteUnchanged DEF CreateClientList, IInv
  <1>2. CASE ScanConfiguration
    BY <1>0, <1>2, ReaderStepInv, SubstituteUnchanged DEF ScanConfiguration, callVars, IInv
  <1>3. CASE CallSomeCommand
    BY <1>0, <1>3, CallStep, ReaderUnchanged DEF CallSomeCommand, call_command, IInv
  <1>4. CASE SubstituteImages
    BY <1>0, <1>4, SubstituteStepInv, ReaderUnchanged DEF SubstituteImages, callVars, IInv
  <1>5. CASE UNCHANGED <<readerVars, substituteVars, input>>
    BY <1>0, <1>5, ReaderUnchanged, SubstituteUnchanged DEF IInv
  <1>6. CASE ParseOptions \/ EmptyList \/ StartRun \/ JustCheck \/ ProcessClients
             \/ QuitOrRun \/ UNCHANGED vars
    BY <1>5, <1>6 DEF ParseOptions, EmptyList, StartRun, JustCheck, ProcessClients,
                      QuitOrRun, vars, callVars
  <1> QED BY <1>1, <1>2, <1>3, <1>4, <1>6 DEF Next

(* The clients the reader makes and the buffers are as they must be in     *)
(* every reachable state.                                                  *)
THEOREM AlwaysIInv == Spec => []IInv
  <1> QED BY InitIInv, NextIInv, PTL DEF Spec

(* Every client that is made of a configuration, whatever it says, fits    *)
(* the fields of CA_Client and what Get_Variant_Range and                  *)
(* Process_PV_Update make of them (read_configuration.c).                  *)
THEOREM ClientsAreWellFormed == Spec => []ClientsWellFormed
  <1>1. IInv => ClientsWellFormed
    BY DEF IInv, ReaderInv
  <1> QED BY <1>1, AlwaysIInv, PTL

(* The command buffers of filter.c are never written beyond their end,     *)
(* whatever their sizes, the command and the images.                       *)
THEOREM CommandAlwaysFits == Spec => []CommandFitsBuffer
  <1>1. IInv => CommandFitsBuffer
    BY DEF IInv, SubstituteInv
  <1> QED BY <1>1, AlwaysIInv, PTL

-----------------------------------------------------------------------------
(* The places of a command line that are reached are those before which    *)
(* only options and their parameters stand.  R is any set of places.       *)
Follows(a, R, k) == \/ k = 1
                    \/ k > 1 /\ (k - 1) \in R /\ a[k - 1] \in Dashed \ Monitor
                    \/ k > 2 /\ (k - 2) \in R /\ a[k - 2] \in Monitor

LEMMA ReachedPlaces ==
  ASSUME NEW a \in Seq(Arguments)
  PROVE  /\ Reached(a) \subseteq 1..(Len(a) + 1)
         /\ \A k \in 1..(Len(a) + 1) : k \in Reached(a) <=> Follows(a, Reached(a), k)
  <1> DEFINE D == 1..(Len(a) + 1)
             Closed(C) == \A k \in D : Follows(a, C, k) => k \in C
             R == {k \in D : \A C \in SUBSET D : Closed(C) => k \in C}
             Step(f, k) == \/ k = 1
                           \/ k > 1 /\ f[k - 1] /\ a[k - 1] \in Dashed \ Monitor
                           \/ k > 2 /\ f[k - 2] /\ a[k - 2] \in Monitor
             f == CHOOSE f : f = [k \in D |-> Step(f, k)]
  <1>1. \A S, T : \A k \in D : S \subseteq T /\ Follows(a, S, k) => Follows(a, T, k)
    BY DEF Follows
  <1>2. ASSUME NEW k \in D, Follows(a, R, k) PROVE k \in R
    <2>1. ASSUME NEW C \in SUBSET D, Closed(C) PROVE k \in C
      <3>1. R \subseteq C
        BY <2>1
      <3> QED BY <1>1, <1>2, <2>1, <3>1
    <2> QED BY <2>1
  <1>3. ASSUME NEW k \in R PROVE Follows(a, R, k)
    <2>1. SUFFICES ASSUME ~Follows(a, R, k) PROVE FALSE
      OBVIOUS
    <2>2. Closed(R \ {k})
      <3>1. ASSUME NEW j \in D, Follows(a, R \ {k}, j) PROVE j \in R \ {k}
        <4>1. Follows(a, R, j)
          BY <1>1, <3>1
        <4> QED BY <1>2, <2>1, <4>1
      <3> QED BY <3>1
    <2>3. R \ {k} \in SUBSET D
      OBVIOUS
    <2> QED BY <2>2, <2>3
  <1> HIDE DEF R
  <1>4. R \subseteq D
    BY DEF R
  <1>5. Len(a) \in Nat
    BY LenProperties
  <1>6. \E g : g = [k \in D |-> Step(g, k)]
    <2> DEFINE g == [k \in D |-> k \in R]
    <2>1. ASSUME NEW k \in D PROVE g[k] = Step(g, k)
      <3>1. \A j \in D : (g[j] <=> j \in R) /\ g[j] \in BOOLEAN
        <4>1. ASSUME NEW j \in D PROVE g[j] = (j \in R)
          BY Zenon
        <4>2. \A j \in D : (j \in R) \in BOOLEAN
          OBVIOUS
        <4> HIDE DEF g
        <4> QED BY <4>1, <4>2, Zenon
      <3> HIDE DEF g
      <3>2. (k > 1 => k - 1 \in D) /\ (k > 2 => k - 2 \in D)
        BY <1>5
      <3>3. (k > 1 => (g[k - 1] <=> k - 1 \in R)) /\ (k > 2 => (g[k - 2] <=> k - 2 \in R))
        BY <3>1, <3>2
      <3>4. Follows(a, R, k) <=> Step(g, k)
        BY <3>3, Zenon DEF Follows
      <3>5. Step(g, k) \in BOOLEAN
        OBVIOUS
      <3>6. (k \in R) <=> Follows(a, R, k)
        BY <1>2, <1>3
      <3> HIDE DEF Step
      <3> QED BY <3>1, <3>4, <3>5, <3>6, Zenon
    <2>2. g = [k \in D |-> Step(g, k)]
      BY <2>1
    <2> QED BY <2>2
  <1>7. f = [k \in D |-> Step(f, k)]
    BY <1>6
  <1>8. Reached(a) = {k \in DOMAIN f : f[k]}
    BY DEF Reached
  <1> HIDE DEF f
  <1>9. \A k \in D : f[k] = Step(f, k)
    BY <1>7
  <1>10. DOMAIN f = D
    BY <1>7
  <1>11. ASSUME NEW k \in D PROVE k \in Reached(a) <=> Follows(a, Reached(a), k)
    <2>1. \A j \in D : j \in Reached(a) <=> f[j]
      BY <1>8, <1>10
    <2>2. Step(f, k) <=> Follows(a, Reached(a), k)
      BY <1>5, <2>1 DEF Follows
    <2> HIDE DEF Step
    <2> QED BY <1>9, <2>1, <2>2
  <1> QED BY <1>8, <1>10, <1>11

LEMMA ReachedFirst ==
  ASSUME NEW a \in Seq(Arguments)
  PROVE  1 \in Reached(a)
  BY ReachedPlaces, LenProperties DEF Follows

-----------------------------------------------------------------------------
(* What the loop over the options has done when it has come to place p of  *)
(* the command line a: every place reached before p is an option whose     *)
(* parameter, if it has one, is behind it too; the rest of the line is     *)
(* left; fl and sc are what these options say.                             *)
Parameter(a, m) == IF m = Len(a) THEN NULL ELSE a[m + 1]

FlagsBefore(a, p) ==
  {f \in DOMAIN Names : \E k \in OptionsIn(a) : k < p /\ a[k] \in Names[f]}
    \cup {f \in {"monitor"} : \E k \in MonitorsIn(a) : k < p}

ReadUpTo(a, p, rest, fl, sc) ==
  /\ p \in 1..(Len(a) + 2)
  /\ p \in Reached(a) \/ p = Len(a) + 2
  /\ rest = SubSeq(a, p, Len(a))
  /\ \A k \in Reached(a) : k < p => k \in OptionsIn(a) /\ (a[k] \in Monitor => k + 2 <= p)
  /\ fl = FlagsBefore(a, p)
  /\ \/ sc = NULL /\ \A k \in MonitorsIn(a) : k >= p
     \/ \E m \in MonitorsIn(a) : /\ m < p
                                 /\ \A j \in MonitorsIn(a) : m <= j
                                 /\ sc = Parameter(a, m)

(* The next place is an option exactly when the loop goes on.              *)
LEMMA NextOption ==
  ASSUME NEW a \in Seq(Arguments), NEW p, NEW rest, NEW fl, NEW sc,
         ReadUpTo(a, p, rest, fl, sc)
  PROVE  /\ rest # <<>> <=> p <= Len(a)
         /\ rest # <<>> => rest[1] = a[p]
         /\ rest \in Seq(Arguments)
         /\ Len(rest) = IF p <= Len(a) THEN Len(a) - p + 1 ELSE 0
         /\ (rest # <<>> /\ rest[1] \in Dashed) <=> p \in OptionsIn(a)
  <1>1. Len(a) \in Nat /\ DOMAIN a = 1..Len(a) /\ p \in 1..(Len(a) + 2)
    BY LenProperties DEF ReadUpTo
  <1>2. rest = SubSeq(a, p, Len(a))
    BY DEF ReadUpTo
  <1>3. rest \in Seq(Arguments) /\ Len(rest) = IF p <= Len(a) THEN Len(a) - p + 1 ELSE 0
    BY <1>1, <1>2, SubSeqProperties, ElementOfSeq
  <1>4. p <= Len(a) => rest[1] = a[p]
    BY <1>1, <1>2, SubSeqProperties
  <1>5. rest # <<>> <=> p <= Len(a)
    BY <1>1, <1>3, EmptySeq
  <1>6. p \in OptionsIn(a) <=> p <= Len(a) /\ a[p] \in Dashed
    BY <1>1 DEF OptionsIn, ReadUpTo
  <1> QED BY <1>3, <1>4, <1>5, <1>6

LEMMA OptionPlaces ==
  ASSUME NEW a \in Seq(Arguments), NEW k \in OptionsIn(a)
  PROVE  k \in 1..Len(a) /\ k \in Reached(a) /\ a[k] \in Dashed /\ a[k] \in Arguments
  BY LenProperties, ElementOfSeq DEF OptionsIn

(* An option that is not --monitor.                                        *)
LEMMA OneFurther ==
  ASSUME NEW a \in Seq(Arguments), NEW p, NEW rest, NEW fl, NEW sc,
         ReadUpTo(a, p, rest, fl, sc),
         p \in OptionsIn(a), a[p] \notin Monitor
  PROVE  ReadUpTo(a, p + 1, Tail(rest),
                  fl \cup {f \in DOMAIN Names : a[p] \in Names[f]}, sc)
  <1>1. Len(a) \in Nat /\ p \in 1..Len(a) /\ a[p] \in Dashed \ Monitor /\ p \in Reached(a)
    BY OptionPlaces, LenProperties
  <1>2. p + 1 \in Reached(a)
    BY <1>1, ReachedPlaces DEF Follows
  <1>3. Tail(rest) = SubSeq(a, p + 1, Len(a))
    BY <1>1, HeadTailOfSubSeq DEF ReadUpTo
  <1>4. \A k \in Reached(a) : k < p + 1 => k = p \/ k < p
    BY <1>1, ReachedPlaces
  <1>5. \A k \in OptionsIn(a) : k < p + 1 <=> k = p \/ k < p
    BY <1>1, OptionPlaces
  <1>6. \A k \in MonitorsIn(a) : (k < p + 1 <=> k < p) /\ k # p /\ k \in Int
    BY <1>1, <1>5, OptionPlaces DEF MonitorsIn
  <1>7. fl \cup {f \in DOMAIN Names : a[p] \in Names[f]} = FlagsBefore(a, p + 1)
    <2>1. fl = FlagsBefore(a, p)
      BY DEF ReadUpTo
    <2> QED BY <1>5, <1>6, <2>1, Zenon DEF FlagsBefore
  <1>8. \A k \in Reached(a) :
          k < p + 1 => k \in OptionsIn(a) /\ (a[k] \in Monitor => k + 2 <= p + 1)
    BY <1>1, <1>4, ReachedPlaces DEF ReadUpTo
  <1>9. \/ sc = NULL /\ \A k \in MonitorsIn(a) : k >= p + 1
        \/ \E m \in MonitorsIn(a) : /\ m < p + 1
                                    /\ \A j \in MonitorsIn(a) : m <= j
                                    /\ sc = Parameter(a, m)
    BY <1>1, <1>6 DEF ReadUpTo
  <1> QED BY <1>1, <1>2, <1>3, <1>7, <1>8, <1>9 DEF ReadUpTo

LEMMA RestOfPart ==
  ASSUME NEW S, NEW s \in Seq(S), NEW p \in 1..Len(s), NEW k \in Nat
  PROVE  LET t == SubSeq(s, p, Len(s))
         IN  SubSeq(t, k + 1, Len(t)) = SubSeq(s, p + k, Len(s))
  <1> DEFINE t == SubSeq(s, p, Len(s))
  <1>1. Len(s) \in Nat
    BY LenProperties
  <1>2. Len(t) = Len(s) - p + 1
    BY <1>1, SubSeqProperties, ElementOfSeq
  <1>3. CASE p + k <= Len(s)
    <2>1. Len(s) \in 1..Len(s) /\ k + 1 \in 1..(Len(s) - p + 1)
          /\ Len(s) - p + 1 \in 1..(Len(s) - p + 1)
      BY <1>1, <1>3
    <2>2. SubSeq(t, k + 1, Len(s) - p + 1) = SubSeq(s, p + (k + 1) - 1, p + (Len(s) - p + 1) - 1)
      BY <2>1, SubSeqOfSubSeq
    <2>3. p + (k + 1) - 1 = p + k /\ p + (Len(s) - p + 1) - 1 = Len(s)
      BY <1>1
    <2> QED BY <1>2, <2>2, <2>3
  <1>4. CASE p + k > Len(s)
    <2>1. Len(t) < k + 1 /\ Len(t) \in Int /\ k + 1 \in Int
      BY <1>1, <1>2, <1>4
    <2>2. SubSeq(t, k + 1, Len(t)) = <<>>
      BY <2>1, SubSeqEmpty
    <2>3. SubSeq(s, p + k, Len(s)) = <<>>
      BY <1>1, <1>4, SubSeqEmpty
    <2> QED BY <2>2, <2>3
  <1> QED BY <1>1, <1>3, <1>4

(* --monitor and its parameter.                                            *)
LEMMA TwoFurther ==
  ASSUME NEW a \in Seq(Arguments), NEW p, NEW rest, NEW fl, NEW sc,
         ReadUpTo(a, p, rest, fl, sc),
         p \in OptionsIn(a), a[p] \in Monitor
  PROVE  ReadUpTo(a, p + 2, SubSeq(rest, 3, Len(rest)), fl \cup {"monitor"},
                  IF "monitor" \in fl THEN sc
                  ELSE IF Len(rest) = 1 THEN NULL ELSE rest[2])
  <1>1. Len(a) \in Nat /\ p \in 1..Len(a) /\ a[p] \in Monitor /\ p \in Reached(a)
    BY OptionPlaces, LenProperties
  <1>2. p \in MonitorsIn(a)
    BY <1>1 DEF MonitorsIn
  <1>3. p + 2 \in Reached(a) \/ p + 2 = Len(a) + 2
    BY <1>1, ReachedPlaces DEF Follows
  <1>4. rest = SubSeq(a, p, Len(a)) /\ Len(rest) = Len(a) - p + 1
    BY <1>1, NextOption DEF ReadUpTo
  <1>5. SubSeq(rest, 3, Len(rest)) = SubSeq(a, p + 2, Len(a))
    BY <1>1, <1>4, RestOfPart
  <1>6. ASSUME NEW k \in Reached(a), k < p + 2
        PROVE  k = p \/ k < p
    <2>1. k \in 1..(Len(a) + 1) /\ p + 1 # p /\ p + 1 # 1
      BY <1>1, ReachedPlaces
    <2>2. SUFFICES ASSUME k = p + 1 PROVE FALSE
      BY <1>1, <1>6, <2>1
    <2>3. Follows(a, Reached(a), p + 1)
      BY <2>1, <2>2, ReachedPlaces
    <2>4. p - 1 \in Reached(a) /\ a[p - 1] \in Monitor
      BY <1>1, <2>3 DEF Follows
    <2>5. p - 1 + 2 <= p
      BY <1>1, <2>4 DEF ReadUpTo
    <2> QED BY <1>1, <2>5
  <1>7. \A k \in Reached(a) :
          k < p + 2 => k \in OptionsIn(a) /\ (a[k] \in Monitor => k + 2 <= p + 2)
    BY <1>1, <1>6, ReachedPlaces DEF ReadUpTo
  <1>8. \A k \in OptionsIn(a) : k < p + 2 <=> k = p \/ k < p
    BY <1>1, <1>6, OptionPlaces
  <1>9. \A k \in MonitorsIn(a) : (k < p + 2 <=> k = p \/ k < p) /\ k \in Int
    BY <1>8, OptionPlaces DEF MonitorsIn
  <1>10. \A f \in DOMAIN Names : Names[f] \cap Monitor = {}
    BY DEF Names, Monitor
  <1>11. fl \cup {"monitor"} = FlagsBefore(a, p + 2)
    <2>1. fl = FlagsBefore(a, p)
      BY DEF ReadUpTo
    <2>2. \A f \in DOMAIN Names : a[p] \notin Names[f]
      BY <1>1, <1>10
    <2> QED BY <1>2, <1>8, <1>9, <2>1, <2>2, Zenon DEF FlagsBefore
  <1>12. "monitor" \in fl <=> \E k \in MonitorsIn(a) : k < p
    BY DEF ReadUpTo, FlagsBefore, Names
  <1>13. CASE "monitor" \in fl
    BY <1>1, <1>3, <1>5, <1>7, <1>9, <1>11, <1>12, <1>13 DEF ReadUpTo
  <1>14. CASE "monitor" \notin fl
    <2>1. \A j \in MonitorsIn(a) : p <= j
      BY <1>1, <1>9, <1>12, <1>14
    <2>2. (IF Len(rest) = 1 THEN NULL ELSE rest[2]) = Parameter(a, p)
      <3>1. Len(rest) = 1 <=> p = Len(a)
        BY <1>1, <1>4
      <3>2. p < Len(a) => rest[2] = a[p + 1]
        BY <1>1, <1>4, SubSeqProperties, ElementOfSeq
      <3> QED BY <1>1, <3>1, <3>2 DEF Parameter
    <2>3. p < p + 2 /\ p + 2 \in 1..(Len(a) + 2)
      BY <1>1
    <2> QED BY <1>2, <1>3, <1>5, <1>7, <1>11, <1>14, <2>1, <2>2, <2>3 DEF ReadUpTo
  <1> QED BY <1>13, <1>14

(* When the loop ends, what it has come to is the first place that is not  *)
(* an option, and there are no options behind it.                          *)
LEMMA OptionsRead ==
  ASSUME NEW a \in Seq(Arguments), NEW p, NEW rest, NEW fl, NEW sc,
         ReadUpTo(a, p, rest, fl, sc), p \notin OptionsIn(a)
  PROVE  /\ fl = FlagsIn(a)
         /\ sc = IF "monitor" \in fl THEN Parameter(a, Smallest(MonitorsIn(a))) ELSE NULL
         /\ \A k \in Reached(a) \ OptionsIn(a) : rest = SubSeq(a, k, Len(a))
  <1>1. Len(a) \in Nat /\ p \in 1..(Len(a) + 2)
    BY LenProperties DEF ReadUpTo
  <1>2. \A k \in Reached(a) : k <= p
    <2> DEFINE beyond == {k \in Reached(a) : k > p}
    <2>1. SUFFICES ASSUME beyond # {} PROVE FALSE
      BY <1>1, ReachedPlaces
    <2>2. beyond \in SUBSET Nat
      BY <1>1, ReachedPlaces
    <2> DEFINE k == Smallest(beyond)
    <2>3. k \in beyond /\ \A j \in beyond : k <= j
      BY <2>1, <2>2, SmallestExists
    <2> HIDE DEF k
    <2>4. k \in 2..(Len(a) + 1) /\ k > p /\ k \in Reached(a)
      BY <1>1, <2>3, ReachedPlaces
    <2>5. p \in Reached(a)
      BY <1>1, <2>4 DEF ReadUpTo
    <2>6. PICK q \in {k - 1, k - 2} : /\ q \in Reached(a)
                                      /\ q = k - 1 => a[q] \in Dashed \ Monitor
                                      /\ q = k - 2 => a[q] \in Monitor
      BY <2>4, ReachedPlaces DEF Follows
    <2>7. q \in 1..Len(a) /\ q < k
      BY <2>4, <2>6, ReachedPlaces
    <2>8. q <= p
      BY <1>1, <2>3, <2>6, <2>7
    <2>9. CASE q = p
      <3>1. a[q] \in Dashed
        <4>1. a[q] \in Arguments
          BY <2>7, ElementOfSeq
        <4> QED BY <2>6, <4>1, DashAssumption DEF Monitor
      <3>2. q \in OptionsIn(a)
        BY <2>6, <2>7, <3>1, LenProperties DEF OptionsIn
      <3> QED BY <2>9, <3>2
    <2>10. CASE q < p
      <3>1. a[q] \in Monitor => q + 2 <= p
        BY <2>6, <2>10 DEF ReadUpTo
      <3> QED BY <1>1, <2>4, <2>6, <2>7, <2>10, <3>1
    <2> QED BY <1>1, <2>7, <2>8, <2>9, <2>10
  <1>3. \A k \in OptionsIn(a) : k < p
    <2>1. \A k \in OptionsIn(a) : k <= p /\ k # p /\ k \in Int
      BY <1>2, OptionPlaces
    <2> QED BY <1>1, <2>1
  <1>4. \A k \in MonitorsIn(a) : k < p /\ k \in Nat
    BY <1>3, OptionPlaces DEF MonitorsIn
  <1>5. fl = FlagsIn(a)
    <2>1. fl = FlagsBefore(a, p)
      BY DEF ReadUpTo
    <2>2. (\E k \in MonitorsIn(a) : k < p) <=> MonitorsIn(a) # {}
      BY <1>4
    <2> QED BY <1>3, <2>1, <2>2, Zenon DEF FlagsBefore, FlagsIn
  <1>6. "monitor" \in fl <=> MonitorsIn(a) # {}
    BY <1>5 DEF FlagsIn, Names
  <1>7. sc = IF "monitor" \in fl THEN Parameter(a, Smallest(MonitorsIn(a))) ELSE NULL
    <2>1. CASE "monitor" \in fl
      <3>1. MonitorsIn(a) \in SUBSET Nat
        BY <1>4
      <3>2. /\ Smallest(MonitorsIn(a)) \in MonitorsIn(a)
            /\ \A j \in MonitorsIn(a) : Smallest(MonitorsIn(a)) <= j
        BY <1>6, <2>1, <3>1, SmallestExists
      <3>3. PICK m \in MonitorsIn(a) : (\A j \in MonitorsIn(a) : m <= j) /\ sc = Parameter(a, m)
        <4>1. ~ \A k \in MonitorsIn(a) : k >= p
          BY <1>1, <1>4, <3>2
        <4> QED BY <4>1 DEF ReadUpTo
      <3>4. m = Smallest(MonitorsIn(a))
        BY <1>4, <3>2, <3>3
      <3> QED BY <2>1, <3>3, <3>4
    <2>2. CASE "monitor" \notin fl
      BY <1>6, <2>2 DEF ReadUpTo
    <2> QED BY <2>1, <2>2
  <1>8. ASSUME NEW k \in Reached(a) \ OptionsIn(a) PROVE rest = SubSeq(a, k, Len(a))
    <2>1. ~(k < p)
      BY DEF ReadUpTo
    <2>2. k = p
      BY <1>1, <1>2, <2>1, ReachedPlaces
    <2> QED BY <2>2 DEF ReadUpTo
  <1> QED BY <1>5, <1>7, <1>8

-----------------------------------------------------------------------------
(* What makes the parser write with a length of -1: a quote that opens a   *)
(* value and ends the specification.                                       *)
EndsInQuote(s) == s # <<>> /\ s[Len(s)] = QuotationMark

IsRest(t, s) == \E k \in Nat : t = Rest(s, k)

LEMMA RestOfRest ==
  ASSUME NEW s \in Texts, NEW j \in Nat, NEW k \in Nat
  PROVE  Rest(Rest(s, j), k) = Rest(s, j + k)
  <1>1. Len(s) \in Nat
    BY LenProperties DEF Texts
  <1>2. CASE j < Len(s)
    <2>1. j + 1 \in 1..Len(s)
      BY <1>1, <1>2
    <2>2. SubSeq(Rest(s, j), k + 1, Len(Rest(s, j))) = SubSeq(s, (j + 1) + k, Len(s))
      BY <2>1, RestOfPart DEF Rest, Texts
    <2>3. (j + 1) + k = (j + k) + 1
      OBVIOUS
    <2> QED BY <2>2, <2>3 DEF Rest
  <1>3. CASE j >= Len(s)
    <2>1. Len(Rest(s, j)) = 0
      BY <1>1, <1>3, RestOfText
    <2>2. Rest(Rest(s, j), k) = <<>>
      BY <2>1, SubSeqEmpty DEF Rest
    <2>3. Rest(s, j + k) = <<>>
      BY <1>1, <1>3, SubSeqEmpty DEF Rest
    <2> QED BY <2>2, <2>3
  <1> QED BY <1>1, <1>2, <1>3

LEMMA EndOfRest ==
  ASSUME NEW s \in Texts, NEW t, IsRest(t, s)
  PROVE  t \in Texts /\ (EndsInQuote(t) => EndsInQuote(s))
  <1>1. PICK k \in Nat : t = Rest(s, k)
    BY DEF IsRest
  <1>2. t \in Texts /\ Len(t) = IF k <= Len(s) THEN Len(s) - k ELSE 0
    BY <1>1, RestOfText
  <1>3. Len(s) \in Nat /\ (s = <<>> => Len(s) = 0) /\ (t # <<>> => Len(t) # 0)
    BY <1>2, LenProperties, EmptySeq DEF Texts
  <1>4. CASE t # <<>>
    <2>1. k < Len(s) /\ Len(t) = Len(s) - k
      BY <1>2, <1>3, <1>4
    <2>2. t[Len(t)] = s[Len(s)]
      <3>1. \A i \in 1..(Len(s) - (k + 1) + 1) : t[i] = s[k + 1 + i - 1]
        BY <1>1, <1>3, SubSeqProperties DEF Rest
      <3>2. Len(t) \in 1..(Len(s) - (k + 1) + 1) /\ k + 1 + Len(t) - 1 = Len(s)
        BY <1>3, <2>1
      <3> QED BY <3>1, <3>2
    <2>3. s # <<>>
      BY <1>2, <1>3, <2>1
    <2> QED BY <1>2, <2>2, <2>3 DEF EndsInQuote
  <1> QED BY <1>2, <1>4 DEF EndsInQuote

LEMMA RestOfARest ==
  ASSUME NEW s \in Texts, NEW t, IsRest(t, s), NEW u, IsRest(u, t)
  PROVE  IsRest(u, s)
  <1>1. PICK j \in Nat, k \in Nat : t = Rest(s, j) /\ u = Rest(t, k)
    BY DEF IsRest
  <1>2. u = Rest(s, j + k) /\ j + k \in Nat
    BY <1>1, RestOfRest
  <1> QED BY <1>2 DEF IsRest

LEMMA SkipWhiteIsRest ==
  ASSUME NEW s \in Texts
  PROVE  IsRest(SkipWhite[s], s)
  BY SpanOfText, LenProperties DEF SkipWhite, Texts, IsRest

(* A parser reads the beginning of a text, or stops at a last quote.       *)
Reads(o, s) == /\ o.outcome = "read" => IsRest(o.rest, s)
               /\ o.outcome = "overrun" => EndsInQuote(s)

LEMMA ReadsOfRest ==
  ASSUME NEW s \in Texts, NEW t, IsRest(t, s), NEW o, Reads(o, t)
  PROVE  Reads(o, s)
  BY EndOfRest, RestOfARest DEF Reads

LEMMA QuotedReads ==
  ASSUME NEW s \in Texts, s # <<>>, Begins(s, Quote)
  PROVE  Reads(QuotedValue(s), s)
  <1> DEFINE n == QuotedLength(s) - 2
  <1>1. Len(s) \in Nat \ {0}
    BY EmptySeq DEF Texts
  <1>2. Rest(s, 1) \in Texts /\ Len(Rest(s, 1)) = Len(s) - 1
    BY <1>1, RestOfText
  <1>3. UpTo(Rest(s, 1), Quote) \in 0..(Len(s) - 1)
    BY <1>2, SpanOfText
  <1>4. QuotedLength(s) \in 1..Len(s) /\ (QuotedLength(s) = 1 => Len(s) = 1)
    <2>1. PICK body \in 0..(Len(s) - 1) : body = UpTo(Rest(s, 1), Quote)
      BY <1>3
    <2>2. QuotedLength(s) = IF body + 1 < Len(s) THEN body + 2 ELSE body + 1
      BY <2>1 DEF QuotedLength
    <2>3. CASE body + 1 < Len(s)
      <3>1. QuotedLength(s) = body + 2
        BY <2>2, <2>3
      <3>2. body + 2 \in 1..Len(s) /\ body + 2 # 1
        BY <1>1, <2>1, <2>3
      <3> QED BY <3>1, <3>2
    <2>4. CASE ~(body + 1 < Len(s))
      <3>1. QuotedLength(s) = body + 1
        BY <2>2, <2>4
      <3>2. body + 1 = Len(s)
        BY <1>1, <2>1, <2>4
      <3> QED BY <1>1, <2>1, <3>1, <3>2
    <2> QED BY <2>3, <2>4
  <1>5. CASE n < 0
    <2>1. ~(n > MAX_STRING_SIZE) /\ n \notin 0..MAX_STRING_SIZE
      BY <1>4, <1>5, SizeAssumption
    <2>2. QuotedValue(s) = Overrun
      BY <1>5, <2>1 DEF QuotedValue
    <2>3. Len(s) = 1
      <3>1. QuotedLength(s) = 1
        BY <1>1, <1>4, <1>5
      <3> QED BY <1>4, <3>1
    <2>4. s[1] = QuotationMark
      BY DEF Begins, Quote
    <2>5. EndsInQuote(s)
      BY <2>3, <2>4 DEF EndsInQuote
    <2> QED BY <2>2, <2>5 DEF Reads, Overrun
  <1>6. CASE n > MAX_STRING_SIZE
    <2>1. ~(n < 0) /\ n \notin 0..MAX_STRING_SIZE
      BY <1>4, <1>6, SizeAssumption
    <2>2. QuotedValue(s) = Error
      BY <1>6, <2>1 DEF QuotedValue
    <2> QED BY <2>2 DEF Reads, Error
  <1>7. CASE n \in 0..MAX_STRING_SIZE
    <2>1. ~(n < 0) /\ ~(n > MAX_STRING_SIZE)
      BY <1>7, SizeAssumption
    <2>2. QuotedValue(s) = Read(String(SubSeq(s, 2, n + 1)), Rest(s, QuotedLength(s)))
      BY <1>7, <2>1 DEF QuotedValue
    <2> QED BY <1>4, <2>2 DEF Reads, Read, IsRest
  <1> QED BY <1>4, <1>5, <1>6, <1>7, SizeAssumption

LEMMA PlainReads ==
  ASSUME NEW s \in Texts
  PROVE  Reads(PlainValue(s), s)
  <1> DEFINE n    == UpTo(s, White \cup {"~", "|"})
             item == Prefix(s, n)
             rest == Rest(s, Len(item))
  <1>1. n \in 0..Len(s) /\ Len(s) \in Nat
    BY SpanOfText, LenProperties DEF Texts
  <1>2. Len(item) \in Nat
    BY <1>1, PrefixOfText
  <1>3. IsRest(rest, s)
    BY <1>2 DEF IsRest
  <1>4. \/ PlainValue(s) = Error
        \/ \E v : PlainValue(s) = Read(v, rest)
    <2>1. CASE item \in DOMAIN Long
      <3>1. \/ PlainValue(s) = Read(Integer(Long[item]), rest)
            \/ PlainValue(s) = Read(Floating(Double[item]), rest)
        BY <2>1 DEF PlainValue
      <3> QED BY <3>1
    <2>2. CASE item \in DOMAIN Double /\ item \notin DOMAIN Long
      <3>1. PlainValue(s) = Read(Floating(Double[item]), rest)
        BY <2>2 DEF PlainValue
      <3> QED BY <3>1
    <2>3. CASE item \notin DOMAIN Double /\ item \notin DOMAIN Long
      <3>1. PlainValue(s) = Error \/ PlainValue(s) = Read(String(item), rest)
        BY <2>3 DEF PlainValue
      <3> QED BY <3>1
    <2> QED BY <2>1, <2>2, <2>3
  <1> HIDE DEF rest
  <1> QED BY <1>3, <1>4 DEF Reads, Read, Error

LEMMA ValueReads ==
  ASSUME NEW input_ \in Texts
  PROVE  Reads(parse_value[input_], input_)
  <1> DEFINE s == SkipWhite[input_]
  <1>1. s \in Texts /\ IsRest(s, input_)
    BY SkipWhiteOfText, SkipWhiteIsRest
  <1>2. \/ parse_value[input_] = Error
        \/ s # <<>> /\ Begins(s, Quote) /\ parse_value[input_] = QuotedValue(s)
        \/ parse_value[input_] = PlainValue(s)
    BY DEF parse_value
  <1>3. Reads(parse_value[input_], s)
    BY <1>1, <1>2, QuotedReads, PlainReads DEF Reads, Error
  <1> QED BY <1>1, <1>3, ReadsOfRest

LEMMA ComparedReads ==
  ASSUME NEW t \in Texts, NEW op
  PROVE  Reads(ComparedItem(op, t), t)
  <1>1. CASE parse_value[t].outcome = "read"
    <2>1. ComparedItem(op, t) = Read(Variant_Range(op.comp, parse_value[t].value, Void),
                                     parse_value[t].rest)
      BY <1>1 DEF ComparedItem
    <2> QED BY <1>1, <2>1, ValueReads DEF Reads, Read
  <1>2. CASE parse_value[t].outcome # "read"
    BY <1>2, ValueReads DEF ComparedItem
  <1> QED BY <1>1, <1>2

LEMMA ValueItemReads ==
  ASSUME NEW s \in Texts
  PROVE  Reads(ValueItem(s), s)
  <1> DEFINE lower == parse_value[s]
             next  == SkipWhite[lower.rest]
             upper == parse_value[Rest(next, 1)]
  <1>1. Reads(lower, s)
    BY ValueReads
  <1>2. CASE lower.outcome # "read"
    <2>1. ValueItem(s) = lower
      BY <1>2 DEF ValueItem
    <2> QED BY <1>1, <2>1
  <1>3. CASE lower.outcome = "read"
    <2>1. lower.rest \in Texts /\ IsRest(lower.rest, s)
      BY <1>1, <1>3, EndOfRest DEF Reads
    <2>2. IsRest(next, s) /\ next \in Texts
      BY <2>1, SkipWhiteIsRest, RestOfARest, EndOfRest
    <2>3. IsRest(Rest(next, 1), s) /\ Rest(next, 1) \in Texts
      <3>1. IsRest(Rest(next, 1), next)
        BY DEF IsRest
      <3> HIDE DEF next
      <3> QED BY <2>2, <3>1, RestOfARest, EndOfRest
    <2>4. Reads(upper, s)
      <3>1. Reads(upper, Rest(next, 1))
        BY <2>3, ValueReads
      <3> HIDE DEF next, upper
      <3> QED BY <2>3, <3>1, ReadsOfRest
    <2>5. ValueItem(s) =
            IF next = <<>> THEN Error
            ELSE IF ~Begins(next, {"~"})
                   THEN Read(Variant_Range("ckEqual", lower.value, Void), lower.rest)
            ELSE IF upper.outcome # "read" THEN upper
            ELSE Read(Variant_Range("ckRange", lower.value, upper.value), upper.rest)
      BY <1>3 DEF ValueItem
    <2> HIDE DEF lower, next, upper
    <2> QED BY <2>1, <2>4, <2>5 DEF Reads, Read, Error
  <1> QED BY <1>2, <1>3

LEMMA MatchReads ==
  ASSUME NEW line \in Texts
  PROVE  Reads(parse_match[line], line)
  <1> DEFINE s == SkipWhite[line]
             found == {e \in DOMAIN comparison_operators :
                         StartsWith(s, comparison_operators[e].symbols)}
             op == comparison_operators[Smallest(found)]
  <1>1. s \in Texts /\ IsRest(s, line)
    BY SkipWhiteOfText, SkipWhiteIsRest
  <1>2. CASE s = <<>>
    <2>1. parse_match[line] = Error
      BY <1>2 DEF parse_match
    <2> QED BY <2>1 DEF Reads, Error
  <1>3. CASE s # <<>> /\ found # {}
    <2> DEFINE t == Rest(s, Len(op.symbols))
    <2>1. found \in SUBSET Nat
      BY OperatorsAre
    <2>2. Smallest(found) \in DOMAIN comparison_operators
      BY <1>3, <2>1, SmallestExists
    <2>3. Len(op.symbols) \in Nat
      BY <2>2, OperatorsAre
    <2>4. IsRest(t, s) /\ t \in Texts
      BY <1>1, <2>3, RestOfText DEF IsRest
    <2>5. parse_match[line] = ComparedItem(op, t)
      BY <1>3 DEF parse_match
    <2> HIDE DEF t, op, s
    <2>6. Reads(ComparedItem(op, t), t)
      BY <2>4, ComparedReads
    <2>7. Reads(ComparedItem(op, t), s)
      BY <1>1, <2>4, <2>6, ReadsOfRest
    <2>8. Reads(ComparedItem(op, t), line)
      BY <1>1, <2>7, ReadsOfRest
    <2> QED BY <2>5, <2>8
  <1>4. CASE s # <<>> /\ found = {}
    <2>1. parse_match[line] = ValueItem(s)
      BY <1>4 DEF parse_match
    <2> QED BY <1>1, <2>1, ValueItemReads, ReadsOfRest
  <1> QED BY <1>2, <1>3, <1>4

-----------------------------------------------------------------------------
(* What makes the invariants inductive.  Whether or not the first argument *)
(* prints a text, the loop has read the line up to some place, and to its  *)
(* options' end when main is behind the loop.                              *)
OptionsInv ==
  LET a == input.arguments
  IN  /\ a \in Seq(Arguments)
      /\ main = "special" => argv = a /\ flags = {} /\ string_config = NULL
      /\ main \notin {"special", "exit"} => ~IsInformative(a)
      /\ ~IsInformative(a) =>
           \E p : /\ ReadUpTo(a, p, argv, flags, string_config)
                  /\ main \notin {"special", "options"} => p \notin OptionsIn(a)

(* Where the reader is and what has been called, by where main is.         *)
MainInv ==
  /\ main \in {"special", "options", "config"} => reader = "idle"
  /\ main = "read" => reader \notin {"idle", "crashed"}
  /\ main \in {"run", "process", "command", "done"} => reader = "done" /\ clients # <<>>
  /\ main \in {"process", "command", "done"} => "check" \notin flags
  /\ main \in {"command", "done"} => call.client \in DOMAIN clients
  /\ main \notin {"command", "done"} => call = NoCall
  /\ main # "done" => exit_code = 0
  /\ main = "exit" =>
       \/ reader = "idle" /\ IsInformative(input.arguments) /\ status = 0
       \/ reader = "idle" /\ ~IsInformative(input.arguments) /\ status = 1
       \/ /\ reader = "done" /\ ~IsInformative(input.arguments) /\ status = 0
          /\ clients = <<>> \/ "check" \in flags
  /\ main = "crashed" =>
       \/ reader = "crashed" /\ EndsInQuote(sub_line)
       \/ reader = "idle" /\ "monitor" \in flags /\ string_config = NULL

MainTypeOK == /\ CommandLineTypeOK
              /\ quit_invoked \in BOOLEAN
              /\ exit_code \in Int

ControlInv == OptionsInv /\ MainInv /\ MainTypeOK

LEMMA InitControl == Init => ControlInv
  <1> SUFFICES ASSUME Init PROVE ControlInv
    OBVIOUS
  <1>1. input \in Inputs /\ argv = input.arguments /\ main = "special" /\ flags = {}
        /\ string_config = NULL /\ status = NoStatus /\ reader = "idle"
        /\ call = NoCall /\ quit_invoked = FALSE /\ exit_code = 0
    BY DEF Init, CommandLineInit, ReaderInit
  <1> DEFINE a == input.arguments
  <1>2. a \in Seq(Arguments) /\ Len(a) \in Nat
    BY <1>1, InputAssumption, LenProperties
  <1>3. ReadUpTo(a, 1, argv, flags, string_config)
    <2>1. argv = SubSeq(a, 1, Len(a))
      BY <1>1, <1>2, SubSeqFull
    <2>2. \A k \in Reached(a) : k >= 1 /\ k \in Int
      BY <1>2, ReachedPlaces
    <2>3. \A k \in MonitorsIn(a) : k >= 1 /\ k \in Int
      BY <2>2 DEF MonitorsIn, OptionsIn
    <2>4. flags = FlagsBefore(a, 1)
      <3>1. \A k \in OptionsIn(a) : ~(k < 1)
        BY <2>2 DEF OptionsIn
      <3>2. \A k \in MonitorsIn(a) : ~(k < 1)
        BY <2>3
      <3> QED BY <1>1, <3>1, <3>2 DEF FlagsBefore
    <2>5. 1 \in Reached(a) /\ 1 \in 1..(Len(a) + 2)
      BY <1>2, ReachedFirst
    <2>6. \A k \in Reached(a) : ~(k < 1)
      BY <2>2
    <2> QED BY <1>1, <2>1, <2>3, <2>4, <2>5, <2>6, Zenon DEF ReadUpTo
  <1>4. OptionsInv
    BY <1>1, <1>2, <1>3 DEF OptionsInv
  <1>5. MainInv
    BY <1>1 DEF MainInv
  <1>6. MainTypeOK
    <2>1. argv \in Seq(Arguments) /\ exit_code \in Int
      BY <1>1, <1>2
    <2>2. quit_invoked \in BOOLEAN
      BY <1>1, Zenon
    <2>3. main \in {"special"} /\ flags \subseteq DOMAIN Names \cup {"monitor"}
          /\ string_config \in {NULL} /\ status \in {NoStatus}
      BY <1>1
    <2> QED BY <2>1, <2>2, <2>3, Zenon DEF MainTypeOK, CommandLineTypeOK
  <1> QED BY <1>4, <1>5, <1>6 DEF ControlInv

-----------------------------------------------------------------------------
(* The steps of the loop over the options.                                 *)
LEMMA SpecialStep ==
  ControlInv /\ (SpecialOption \/ NoSpecialOption)
    /\ UNCHANGED <<readerVars, callVars>> => ControlInv'
  <1> SUFFICES ASSUME ControlInv, SpecialOption \/ NoSpecialOption,
                      UNCHANGED <<readerVars, callVars>>
               PROVE  ControlInv'
    OBVIOUS
  <1>1. main = "special" /\ UNCHANGED <<argv, flags, string_config>>
        /\ \/ FirstIn(Informative) /\ main' = "exit" /\ status' = 0
           \/ ~FirstIn(Informative) /\ main' = "options" /\ UNCHANGED status
    BY DEF SpecialOption, NoSpecialOption, Return
  <1>2. argv = input.arguments
    BY <1>1 DEF ControlInv, OptionsInv
  <1>3. FirstIn(Informative) <=> IsInformative(input.arguments)
    BY <1>2 DEF FirstIn, IsInformative
  <1>4. OptionsInv'
    BY <1>1, <1>3 DEF ControlInv, OptionsInv, callVars
  <1>5. MainInv'
    BY <1>1, <1>3 DEF ControlInv, MainInv, callVars, readerVars
  <1>6. MainTypeOK'
    BY <1>1 DEF ControlInv, MainTypeOK, CommandLineTypeOK, callVars
  <1> QED BY <1>4, <1>5, <1>6 DEF ControlInv

LEMMA OptionStep ==
  ControlInv /\ ((\E f \in DOMAIN Names : Flag(f)) \/ MonitorOption \/ UnknownOption)
    /\ UNCHANGED <<readerVars, callVars>> => ControlInv'
  <1> SUFFICES ASSUME ControlInv,
                      (\E f \in DOMAIN Names : Flag(f)) \/ MonitorOption \/ UnknownOption,
                      UNCHANGED <<readerVars, callVars>>
               PROVE  ControlInv'
    OBVIOUS
  <1>1. AtOption /\ main = "options" /\ UNCHANGED <<main, status>>
        /\ argv # <<>> /\ argv[1] \in Dashed
    BY DEF Flag, MonitorOption, UnknownOption, AtOption, FirstIn
  <1> DEFINE a == input.arguments
  <1>2. a \in Seq(Arguments) /\ ~IsInformative(a) /\ argv \in Seq(Arguments)
        /\ flags \subseteq DOMAIN Names \cup {"monitor"}
        /\ string_config \in Arguments \cup {NULL}
    BY <1>1 DEF ControlInv, OptionsInv, MainTypeOK, CommandLineTypeOK
  <1>3. PICK p : ReadUpTo(a, p, argv, flags, string_config)
    BY <1>2 DEF ControlInv, OptionsInv
  <1>4. p \in OptionsIn(a) /\ argv[1] = a[p]
    BY <1>1, <1>2, <1>3, NextOption
  <1> HIDE DEF a
  <1> DEFINE Done == /\ \E q : ReadUpTo(a, q, argv', flags', string_config')
                     /\ argv' \in Seq(Arguments)
                     /\ flags' \subseteq DOMAIN Names \cup {"monitor"}
                     /\ string_config' \in Arguments \cup {NULL}
  <1>5. ASSUME (\E f \in DOMAIN Names : Flag(f)) \/ UnknownOption PROVE Done
    <2>1. argv' = Tail(argv) /\ UNCHANGED string_config
          /\ \/ \E f \in DOMAIN Names : a[p] \in Names[f] /\ flags' = flags \cup {f}
             \/ /\ \A f \in DOMAIN Names : a[p] \notin Names[f]
                /\ a[p] \notin Monitor
                /\ UNCHANGED flags
      BY <1>4, <1>5 DEF Flag, UnknownOption
    <2>2. a[p] \notin Monitor
      BY <2>1 DEF Names, Monitor
    <2>3. \A f, g \in DOMAIN Names : f # g => Names[f] \cap Names[g] = {}
      BY DEF Names
    <2>4. flags' = flags \cup {f \in DOMAIN Names : a[p] \in Names[f]}
      BY <2>1, <2>3
    <2>5. ReadUpTo(a, p + 1, argv', flags', string_config')
      BY <1>2, <1>3, <1>4, <2>1, <2>2, <2>4, OneFurther
    <2>6. argv' \in Seq(Arguments) /\ flags' \subseteq DOMAIN Names \cup {"monitor"}
      BY <1>1, <1>2, <2>1, <2>4, HeadTailProperties
    <2> QED BY <1>2, <2>1, <2>5, <2>6
  <1>6. ASSUME MonitorOption PROVE Done
    <2>1. /\ a[p] \in Monitor
          /\ argv' = SubSeq(argv, 3, Len(argv))
          /\ flags' = flags \cup {"monitor"}
          /\ string_config' = IF "monitor" \in flags THEN string_config
                              ELSE IF Len(argv) = 1 THEN NULL ELSE argv[2]
      BY <1>4, <1>6 DEF MonitorOption
    <2>2. ReadUpTo(a, p + 2, argv', flags', string_config')
      BY <1>2, <1>3, <1>4, <2>1, TwoFurther
    <2>3. argv' \in Seq(Arguments) /\ flags' \subseteq DOMAIN Names \cup {"monitor"}
      <3>1. Len(argv) \in Nat
        BY <1>2, LenProperties
      <3> QED BY <1>2, <2>1, <3>1, SubSeqProperties, ElementOfSeq
    <2>4. string_config' \in Arguments \cup {NULL}
      <3>1. Len(argv) # 1 => 2 \in 1..Len(argv)
        <4>1. PICK k \in Nat : k = Len(argv) /\ k # 0
          BY <1>1, <1>2, EmptySeq, LenProperties
        <4>2. k # 1 => 2 \in 1..k
          BY <4>1
        <4> QED BY <4>1, <4>2
      <3> QED BY <1>2, <2>1, <3>1, ElementOfSeq
    <2> QED BY <2>2, <2>3, <2>4
  <1>7. Done
    BY <1>5, <1>6
  <1>8. OptionsInv'
    BY <1>1, <1>2, <1>7 DEF OptionsInv, callVars, a
  <1>9. MainInv'
    BY <1>1 DEF ControlInv, MainInv, callVars, readerVars
  <1>10. MainTypeOK'
    BY <1>1, <1>7 DEF ControlInv, MainTypeOK, CommandLineTypeOK, callVars
  <1> QED BY <1>8, <1>9, <1>10 DEF ControlInv

-----------------------------------------------------------------------------
(* How far a text consists of symbols of S, or of others.                  *)
LEMMA InitialPart ==
  ASSUME NEW n \in Nat, NEW A \in SUBSET (1..n),
         \A k \in A : \A i \in 1..k : i \in A
  PROVE  Cardinality(A) \in 0..n /\ A = 1..Cardinality(A)
  <1> DEFINE out == {k \in 1..(n + 1) : k \notin A}
             m   == Smallest(out)
  <1>1. n + 1 \in out
    OBVIOUS
  <1>2. m \in out /\ \A j \in out : m <= j
    <2>1. out \in SUBSET Nat /\ out # {}
      BY <1>1
    <2> HIDE DEF out
    <2> QED BY <2>1, SmallestExists
  <1> HIDE DEF m
  <1>3. m \in 1..(n + 1) /\ m \notin A
    BY <1>2
  <1>4. A = 1..(m - 1)
    <2>1. ASSUME NEW k \in A PROVE k \in 1..(m - 1)
      <3>1. k \in 1..n /\ ~(m <= k)
        BY <1>3
      <3> QED BY <1>3, <3>1
    <2>2. ASSUME NEW k \in 1..(m - 1) PROVE k \in A
      <3>1. k \notin out /\ k \in 1..(n + 1)
        BY <1>2, <1>3
      <3> QED BY <3>1
    <2> QED BY <2>1, <2>2
  <1>5. m - 1 \in Int /\ Cardinality(1..(m - 1)) = m - 1
    BY <1>3, FS_Interval
  <1> QED BY <1>3, <1>4, <1>5

LEMMA SpanIs ==
  ASSUME NEW s \in Texts, NEW S
  PROVE  /\ Span(s, S) \in 0..Len(s)
         /\ \A i \in 1..Span(s, S) : s[i] \in S
         /\ Span(s, S) < Len(s) => s[Span(s, S) + 1] \notin S
  <1> DEFINE A == {k \in 1..Len(s) : \A i \in 1..k : s[i] \in S}
             c == Cardinality(A)
  <1>1. Len(s) \in Nat
    BY LenProperties DEF Texts
  <1>2. c \in 0..Len(s) /\ A = 1..c
    <2>1. A \in SUBSET (1..Len(s)) /\ \A k \in A : \A i \in 1..k : i \in A
      BY <1>1
    <2> HIDE DEF A
    <2> QED BY <1>1, <2>1, InitialPart
  <1>3. Span(s, S) = c
    BY DEF Span
  <1> HIDE DEF c
  <1>4. ASSUME NEW i \in 1..c PROVE s[i] \in S
    <2>1. i \in A
      BY <1>2
    <2> QED BY <1>1, <2>1
  <1>5. c < Len(s) => s[c + 1] \notin S
    <2>1. SUFFICES ASSUME c < Len(s), s[c + 1] \in S PROVE FALSE
      OBVIOUS
    <2>2. c + 1 \in 1..Len(s) /\ \A i \in 1..(c + 1) : i \in 1..c \/ i = c + 1
      BY <1>1, <1>2, <2>1
    <2>3. c + 1 \in A
      BY <1>4, <2>1, <2>2
    <2> QED BY <1>2, <2>3
  <1> QED BY <1>2, <1>3, <1>4, <1>5

(* atoi gives a number whatever the text is.                               *)
LEMMA AtoiUnsignedType ==
  ASSUME NEW t \in Texts
  PROVE  AtoiUnsigned(t) \in Int
  <1> DEFINE n == Span(t, DOMAIN Digit)
             digits == Prefix(t, n)
             Value(v, k) == IF k = 0 THEN 0 ELSE 10 * v[k - 1] + Digit[digits[k]]
             value == CHOOSE v : v = [k \in 0..Len(digits) |-> Value(v, k)]
  <1>2. n \in 0..Len(t) /\ Len(t) \in Nat /\ \A i \in 1..n : t[i] \in DOMAIN Digit
    BY SpanIs, LenProperties DEF Texts
  <1>3. Len(digits) = n /\ \A i \in 1..n : digits[i] = t[i]
    <2>1. n \in Nat /\ \A i \in 1..n : t[i] \in Symbols
      BY <1>2, ElementOfSeq DEF Texts
    <2>2. Len(digits) = n /\ \A i \in 1..(n - 1 + 1) : digits[i] = t[1 + i - 1]
      BY <1>2, <2>1, SubSeqProperties DEF Prefix
    <2> QED BY <2>1, <2>2
  <1>4. \A i \in 1..n : Digit[digits[i]] \in Int
    <2>1. Digit \in [DOMAIN Digit -> 0..9]
      BY DigitAssumption
    <2> HIDE DEF n, digits
    <2>2. \A i \in 1..n : digits[i] \in DOMAIN Digit
      BY <1>2, <1>3
    <2> QED BY <2>1, <2>2
  <1>5. AtoiUnsigned(t) = value[Len(digits)]
    BY DEF AtoiUnsigned
  <1> HIDE DEF n, digits
  <1> DEFINE step == [x \in (1..n) \X Int |-> 10 * x[2] + Digit[digits[x[1]]]]
  <1>6. PICK f : BuiltBy(f, n, Int, 0, step)
    <2>1. step \in [(1..n) \X Int -> Int]
      BY <1>4
    <2>2. n \in Nat /\ 0 \in Int
      BY <1>2
    <2> HIDE DEF step
    <2> QED BY <2>1, <2>2, FunctionByStep, Zenon
  <1> DEFINE g == [k \in 0..n |-> f[k]]
  <1>7. g = [k \in 0..n |-> Value(g, k)]
    <2>1. ASSUME NEW k \in 0..n PROVE g[k] = Value(g, k)
      <3>1. CASE k = 0
        BY <1>6, <3>1 DEF BuiltBy
      <3>2. CASE k # 0
        <4>1. k \in 1..n /\ k - 1 \in 0..n
          BY <1>2, <3>2
        <4>2. f[k] = step[<<k, f[k - 1]>>] /\ f[k - 1] \in Int
          BY <1>6, <4>1 DEF BuiltBy
        <4>3. <<k, f[k - 1]>> \in (1..n) \X Int
          BY <4>1, <4>2
        <4>4. f[k] = 10 * f[k - 1] + Digit[digits[k]]
          BY <4>2, <4>3
        <4>5. g[k] = f[k] /\ g[k - 1] = f[k - 1]
          BY <4>1
        <4> QED BY <3>2, <4>4, <4>5
      <3> QED BY <3>1, <3>2
    <2>2. g = [k \in 0..n |-> g[k]]
      OBVIOUS
    <2> HIDE DEF Value, g
    <2> QED BY <2>1, <2>2
  <1>8. value = [k \in 0..n |-> Value(value, k)]
    BY <1>3, <1>7
  <1> HIDE DEF value
  <1> DEFINE bad == {k \in 0..n : value[k] \notin Int}
             k == Smallest(bad)
  <1>9. bad = {}
    <2>1. SUFFICES ASSUME bad # {} PROVE FALSE
      OBVIOUS
    <2>2. k \in bad /\ \A j \in bad : k <= j
      <3>1. bad \in SUBSET Nat
        OBVIOUS
      <3> HIDE DEF bad
      <3> QED BY <2>1, <3>1, SmallestExists
    <2>3. k \in 0..n /\ value[k] \notin Int
      BY <2>2
    <2> HIDE DEF k
    <2>4. k # 0
      BY <1>8, <2>3
    <2>5. k \in 1..n /\ k - 1 \in 0..n /\ k - 1 \notin bad
      BY <1>2, <2>2, <2>3, <2>4
    <2>6. value[k - 1] \in Int
      BY <2>5
    <2> QED BY <1>4, <1>8, <2>3, <2>4, <2>5, <2>6
  <1> QED BY <1>2, <1>3, <1>5, <1>9

LEMMA AtoiType ==
  ASSUME NEW s \in Texts
  PROVE  Atoi(s) \in Int
  <1>1. SkipWhite[s] \in Texts
    BY SkipWhiteOfText
  <1>2. Unsigned(SkipWhite[s]) \in Texts
    <2>1. CASE Begins(SkipWhite[s], Signs)
      <3>1. Rest(SkipWhite[s], 1) \in Texts
        BY <1>1, RestOfText
      <3> QED BY <2>1, <3>1 DEF Unsigned
    <2>2. CASE ~Begins(SkipWhite[s], Signs)
      BY <1>1, <2>2 DEF Unsigned
    <2> QED BY <2>1, <2>2
  <1>3. PICK m \in Int : m = AtoiUnsigned(Unsigned(SkipWhite[s]))
    BY <1>2, AtoiUnsignedType
  <1>4. Atoi(s) = -m \/ Atoi(s) = m
    BY <1>3 DEF Atoi
  <1> QED BY <1>4

-----------------------------------------------------------------------------
(* The other steps of main.                                                *)
LEMMA OptionsKept ==
  ASSUME OptionsInv, UNCHANGED <<input, argv, flags, string_config>>,
         main \notin {"special", "options"}, main' \notin {"special", "options"},
         main = "exit" => main' = "exit"
  PROVE  OptionsInv'
  BY DEF OptionsInv

LEMMA EndOfOptionsStep ==
  ControlInv /\ EndOfOptions /\ UNCHANGED <<readerVars, callVars>> => ControlInv'
  <1> SUFFICES ASSUME ControlInv, EndOfOptions, UNCHANGED <<readerVars, callVars>>
               PROVE  ControlInv'
    OBVIOUS
  <1>1. main = "options" /\ main' = "config" /\ ~FirstIn(Dashed)
        /\ UNCHANGED <<argv, flags, string_config, status, input>>
    BY DEF EndOfOptions, AtOption, callVars
  <1> DEFINE a == input.arguments
  <1>2. a \in Seq(Arguments) /\ ~IsInformative(a)
    BY <1>1 DEF ControlInv, OptionsInv
  <1>3. PICK p : ReadUpTo(a, p, argv, flags, string_config)
    BY <1>2 DEF ControlInv, OptionsInv
  <1>4. p \notin OptionsIn(a)
    BY <1>1, <1>2, <1>3, NextOption DEF FirstIn
  <1>5. OptionsInv'
    BY <1>1, <1>2, <1>3, <1>4 DEF OptionsInv
  <1>6. MainInv'
    BY <1>1 DEF ControlInv, MainInv, callVars, readerVars
  <1>7. MainTypeOK'
    BY <1>1 DEF ControlInv, MainTypeOK, CommandLineTypeOK, callVars
  <1> QED BY <1>5, <1>6, <1>7 DEF ControlInv

LEMMA ConfigStep ==
  ControlInv /\ (MissingFile \/ MissingParameter \/ OpenFails)
    /\ UNCHANGED <<readerVars, callVars>> => ControlInv'
  <1> SUFFICES ASSUME ControlInv, MissingFile \/ MissingParameter \/ OpenFails,
                      UNCHANGED <<readerVars, callVars>>
               PROVE  ControlInv'
    OBVIOUS
  <1>1. main = "config" /\ UNCHANGED <<argv, flags, string_config>>
        /\ \/ main' = "exit" /\ status' = 1
           \/ /\ main' = "crashed" /\ UNCHANGED status
              /\ "monitor" \in flags /\ string_config = NULL
    BY DEF MissingFile, MissingParameter, OpenFails, Return
  <1>2. OptionsInv'
    BY <1>1, OptionsKept DEF ControlInv, callVars
  <1>3. ~IsInformative(input.arguments)
    BY <1>1 DEF ControlInv, OptionsInv
  <1>4. MainInv'
    BY <1>1, <1>3 DEF ControlInv, MainInv, callVars, readerVars
  <1>5. MainTypeOK'
    BY <1>1 DEF ControlInv, MainTypeOK, CommandLineTypeOK, callVars
  <1> QED BY <1>2, <1>4, <1>5 DEF ControlInv

LEMMA ParseOptionsStep ==
  ControlInv /\ ParseOptions => ControlInv'
  BY SpecialStep, OptionStep, EndOfOptionsStep, ConfigStep
     DEF ParseOptions, CommandLineStep

LEMMA CreateClientListControl ==
  ControlInv /\ CreateClientList => ControlInv'
  <1> SUFFICES ASSUME ControlInv, CreateClientList PROVE ControlInv'
    OBVIOUS
  <1>1. main = "config" /\ main' = "read" /\ reader' = "line"
        /\ UNCHANGED <<argv, flags, string_config, status, callVars>>
    BY DEF CreateClientList, Open
  <1>2. OptionsInv'
    BY <1>1, OptionsKept DEF ControlInv, callVars
  <1>3. MainInv'
    BY <1>1 DEF ControlInv, MainInv, callVars
  <1>4. MainTypeOK'
    BY <1>1 DEF ControlInv, MainTypeOK, CommandLineTypeOK, callVars
  <1> QED BY <1>2, <1>3, <1>4 DEF ControlInv

(* The reader comes to its end or crashes, where it must.                  *)
LEMMA ReaderGoes ==
  ASSUME ReaderInv, ReaderStep
  PROVE  /\ reader' \notin {"idle"}
         /\ reader' = "crashed" => EndsInQuote(sub_line')
  <1>1. CASE ReadLine \/ EndOfText \/ EndOfLine \/ BeginSpec \/ EndSpec
    BY <1>1 DEF ReadLine, EndOfText, EndOfLine, BeginSpec, EndSpec, Skip
  <1>2. CASE MatchItem
    <2>1. /\ reader = "match"
          /\ \/ reader' = reader \/ reader' = "command" \/ reader' = "spec"
             \/ /\ parse_match[sub_line].outcome = "overrun"
                /\ reader' = "crashed"
                /\ UNCHANGED sub_line
      BY <1>2 DEF MatchItem, Skip
    <2>2. Reads(parse_match[sub_line], sub_line)
      BY MatchReads DEF ReaderInv, ReaderTypeOK
    <2> QED BY <2>1, <2>2 DEF Reads
  <1> QED BY <1>1, <1>2 DEF ReaderStep

LEMMA ScanControl ==
  ControlInv /\ ReaderInv /\ ScanConfiguration => ControlInv'
  <1> SUFFICES ASSUME ControlInv, ReaderInv, ScanConfiguration PROVE ControlInv'
    OBVIOUS
  <1>1. main = "read" /\ main' = (IF reader' = "crashed" THEN "crashed" ELSE "read")
        /\ UNCHANGED <<argv, flags, string_config, status, callVars>>
    BY DEF ScanConfiguration
  <1>2. reader' \notin {"idle"} /\ (reader' = "crashed" => EndsInQuote(sub_line'))
    BY ReaderGoes DEF ScanConfiguration
  <1>3. OptionsInv'
    BY <1>1, OptionsKept DEF ControlInv, callVars
  <1>4. MainInv'
    BY <1>1, <1>2 DEF ControlInv, MainInv, callVars, EndsInQuote
  <1>5. MainTypeOK'
    BY <1>1 DEF ControlInv, MainTypeOK, CommandLineTypeOK, callVars
  <1> QED BY <1>3, <1>4, <1>5 DEF ControlInv

LEMMA RunControl ==
  ControlInv /\ (EmptyList \/ StartRun \/ JustCheck \/ ProcessClients) => ControlInv'
  <1> SUFFICES ASSUME ControlInv, EmptyList \/ StartRun \/ JustCheck \/ ProcessClients
               PROVE  ControlInv'
    OBVIOUS
  <1>1. UNCHANGED <<argv, flags, string_config, readerVars, callVars>>
        /\ main \in {"read", "run"} /\ main' \in {"exit", "run", "process"}
    BY DEF EmptyList, StartRun, JustCheck, ProcessClients, Return
  <1>2. OptionsInv'
    BY <1>1, OptionsKept DEF ControlInv, callVars
  <1>3. ~IsInformative(input.arguments) /\ exit_code = 0
    BY <1>1 DEF ControlInv, OptionsInv, MainInv
  <1>4. CASE EmptyList
    <2>1. MainInv'
      BY <1>1, <1>3, <1>4 DEF EmptyList, Return, ControlInv, MainInv, callVars, readerVars
    <2>2. MainTypeOK'
      BY <1>1, <1>4 DEF EmptyList, Return, ControlInv, MainTypeOK, CommandLineTypeOK, callVars
    <2> QED BY <1>2, <2>1, <2>2 DEF ControlInv
  <1>5. CASE StartRun
    <2>1. MainInv'
      BY <1>1, <1>5 DEF StartRun, ControlInv, MainInv, callVars, readerVars
    <2>2. MainTypeOK'
      BY <1>1, <1>5 DEF StartRun, ControlInv, MainTypeOK, CommandLineTypeOK, callVars
    <2> QED BY <1>2, <2>1, <2>2 DEF ControlInv
  <1>6. CASE JustCheck
    <2>1. MainInv'
      BY <1>1, <1>3, <1>6 DEF JustCheck, Return, ControlInv, MainInv, callVars, readerVars
    <2>2. MainTypeOK'
      BY <1>1, <1>3, <1>6 DEF JustCheck, Return, ControlInv, MainTypeOK, CommandLineTypeOK, callVars
    <2> QED BY <1>2, <2>1, <2>2 DEF ControlInv
  <1>7. CASE ProcessClients
    <2>1. MainInv'
      BY <1>1, <1>7 DEF ProcessClients, ControlInv, MainInv, callVars, readerVars
    <2>2. MainTypeOK'
      BY <1>1, <1>7 DEF ProcessClients, ControlInv, MainTypeOK, CommandLineTypeOK, callVars
    <2> QED BY <1>2, <2>1, <2>2 DEF ControlInv
  <1> QED BY <1>4, <1>5, <1>6, <1>7

LEMMA CallControl ==
  ControlInv /\ CallSomeCommand => ControlInv'
  <1> SUFFICES ASSUME ControlInv,
                      NEW c \in DOMAIN clients, NEW s \in StateImages, NEW v,
                      call_command(c, s, v)
               PROVE  ControlInv'
    BY DEF CallSomeCommand
  <1>1. /\ main = "process" /\ main' = "command"
        /\ call' = [client |-> c, state |-> s, value |-> v]
        /\ UNCHANGED <<argv, flags, string_config, status, readerVars, input,
                       quit_invoked, exit_code>>
    BY DEF call_command
  <1>2. OptionsInv'
    BY <1>1, OptionsKept DEF ControlInv
  <1>3. MainInv'
    BY <1>1 DEF ControlInv, MainInv, readerVars
  <1>4. MainTypeOK'
    BY <1>1 DEF ControlInv, MainTypeOK, CommandLineTypeOK
  <1> QED BY <1>2, <1>3, <1>4 DEF ControlInv

LEMMA QuitOrRunControl ==
  ControlInv /\ SubstituteInv /\ QuitOrRun => ControlInv'
  <1> SUFFICES ASSUME ControlInv, SubstituteInv, QuitOrRun PROVE ControlInv'
    OBVIOUS
  <1> DEFINE quits == IsQuit(from) /\ call.state[1] = "match"
  <1>1. /\ main = "command" /\ main' = "done"
        /\ quit_invoked' = (quit_invoked \/ quits)
        /\ exit_code' = IF quits THEN Atoi(Rest(from, 2)) ELSE exit_code
        /\ UNCHANGED <<argv, flags, string_config, status, readerVars, input, call>>
    BY DEF QuitOrRun
  <1>2. OptionsInv'
    BY <1>1, OptionsKept DEF ControlInv
  <1>3. MainInv'
    BY <1>1 DEF ControlInv, MainInv, readerVars
  <1>4. MainTypeOK'
    <2>1. from \in Texts
      BY DEF SubstituteInv, SubstituteTypeOK, Texts
    <2>2. Atoi(Rest(from, 2)) \in Int
      BY <2>1, RestOfText, AtoiType
    <2>3. exit_code' \in Int
      BY <1>1, <2>2 DEF ControlInv, MainTypeOK
    <2>4. quit_invoked' \in BOOLEAN
      BY <1>1, Zenon
    <2>5. CommandLineTypeOK'
      BY <1>1 DEF ControlInv, MainTypeOK, CommandLineTypeOK
    <2> QED BY <2>3, <2>4, <2>5 DEF MainTypeOK
  <1> QED BY <1>2, <1>3, <1>4 DEF ControlInv

LEMMA OtherControl ==
  ControlInv /\ (SubstituteImages \/ UNCHANGED vars) => ControlInv'
  BY DEF SubstituteImages, vars, mainVars, readerVars, callVars, ControlInv,
         OptionsInv, MainInv, MainTypeOK, CommandLineTypeOK

LEMMA NextControl == IInv /\ ControlInv /\ [Next]_vars => ControlInv'
  BY ParseOptionsStep, CreateClientListControl, ScanControl, RunControl,
     CallControl, QuitOrRunControl, OtherControl DEF Next, IInv

(* The inductive invariant of the whole of Startup.                        *)
THEOREM AlwaysControlInv == Spec => [](IInv /\ ControlInv)
  <1> QED BY InitIInv, NextIInv, InitControl, NextControl, PTL DEF Spec

-----------------------------------------------------------------------------
(* Every variable keeps its type, for any command line, any configuration  *)
(* and any values; the exit code is a number also when atoi is given no    *)
(* digits.                                                                 *)
THEOREM TypesAreKept == Spec => []TypeOK
  <1>1. IInv /\ ControlInv => TypeOK
    <2> SUFFICES ASSUME IInv, ControlInv PROVE TypeOK
      OBVIOUS
    <2>1. call.client \in 0..Len(clients)
      <3>1. clients \in Seq(Clients)
        BY DEF IInv, ReaderInv, ReaderTypeOK, Clients
      <3>2. Len(clients) \in Nat /\ DOMAIN clients = 1..Len(clients)
        BY <3>1, LenProperties
      <3> QED BY <3>2 DEF ControlInv, MainInv, NoCall
    <2> QED BY <2>1 DEF IInv, ReaderInv, SubstituteInv, ControlInv, MainTypeOK, TypeOK
  <1> QED BY <1>1, AlwaysControlInv, PTL

LEMMA OptionsFromInv ==
  ASSUME OptionsInv, main \notin {"special", "options"}, ~IsInformative(input.arguments)
  PROVE  LET a == input.arguments
             m == Smallest(MonitorsIn(a))
         IN  /\ flags = FlagsIn(a)
             /\ string_config = IF "monitor" \notin FlagsIn(a) \/ m = Len(a) THEN NULL
                                ELSE a[m + 1]
             /\ \A k \in Reached(a) \ OptionsIn(a) : argv = SubSeq(a, k, Len(a))
  <1> DEFINE a == input.arguments
  <1>1. a \in Seq(Arguments)
    BY DEF OptionsInv
  <1>2. PICK p : ReadUpTo(a, p, argv, flags, string_config) /\ p \notin OptionsIn(a)
    BY DEF OptionsInv
  <1> HIDE DEF a
  <1>3. /\ flags = FlagsIn(a)
        /\ string_config = IF "monitor" \in flags THEN Parameter(a, Smallest(MonitorsIn(a))) ELSE NULL
        /\ \A k \in Reached(a) \ OptionsIn(a) : argv = SubSeq(a, k, Len(a))
    BY <1>1, <1>2, OptionsRead
  <1> QED BY <1>3 DEF a, Parameter

(* The flags, the configuration's text and the arguments left over are     *)
(* those the command line says, whatever options it has in whatever order  *)
(* (kryten.c:182-201).                                                     *)
THEOREM OptionsAreAsWritten == Spec => []OptionsAsWritten
  <1>1. IInv /\ ControlInv => OptionsAsWritten
    BY OptionsFromInv DEF ControlInv, OptionsAsWritten
  <1> QED BY <1>1, AlwaysControlInv, PTL

(* main ends early, and with which status, for no other reasons than those *)
(* of ExitExplained, and crashes from two causes (kryten.c:138-270).       *)
THEOREM EndsAreExplained == Spec => []ExitExplained
  <1>1. IInv /\ ControlInv => ExitExplained
    <2> SUFFICES ASSUME IInv, ControlInv PROVE ExitExplained
      OBVIOUS
    <2> DEFINE a == input.arguments
    <2>1. MainInv /\ OptionsInv
      BY DEF ControlInv
    <2>2. main \notin {"special", "options"} /\ ~IsInformative(a) => flags = FlagsIn(a)
      BY <2>1, OptionsFromInv
    <2>3. main \in {"process", "command", "done"} =>
            ~IsInformative(a) /\ clients # <<>> /\ "check" \notin FlagsIn(a)
      BY <2>1, <2>2 DEF MainInv, OptionsInv
    <2>4. main = "exit" =>
            \/ reader = "idle" /\ IsInformative(a) /\ status = 0
            \/ reader = "idle" /\ ~IsInformative(a) /\ status = 1
            \/ /\ reader = "done" /\ ~IsInformative(a) /\ status = 0
               /\ clients = <<>> \/ "check" \in FlagsIn(a)
      BY <2>1, <2>2 DEF MainInv
    <2>5. main = "crashed" =>
            \/ reader = "crashed" /\ sub_line[Len(sub_line)] = QuotationMark
            \/ reader = "idle" /\ "monitor" \in flags /\ string_config = NULL
      BY <2>1 DEF MainInv, EndsInQuote
    <2> HIDE DEF a
    <2>6. main = "exit" =>
            CASE IsInformative(a) -> status = 0 /\ reader = "idle"
              [] ~IsInformative(a) /\ reader = "idle" -> status = 1
              [] OTHER -> status = 0 /\ reader = "done"
                          /\ (clients = <<>> \/ "check" \in FlagsIn(a))
      BY <2>4
    <2> QED BY <2>3, <2>5, <2>6, Zenon DEF ExitExplained, a
  <1> QED BY <1>1, AlwaysControlInv, PTL

-----------------------------------------------------------------------------
(* The loops end: what is left to do (Left) becomes less in every step.    *)
LEMMA LeftIs ==
  /\ Len(Left) = 9 /\ DOMAIN Left = 1..9
  /\ Left[1] = MainLeft[main] /\ Left[2] = Len(argv)
  /\ Left[3] = Len(text) /\ Left[4] = LineLeft[reader] /\ Left[5] = Len(source)
  /\ Left[6] = SpecLeft[reader] /\ Left[7] = Len(sub_line)
  /\ Left[8] = 5 - pass /\ Left[9] = Len(from) + Room(dest)
  BY DEF Left

LEMMA LeftWillBe ==
  /\ Left'[1] = MainLeft[main'] /\ Left'[2] = Len(argv')
  /\ Left'[3] = Len(text') /\ Left'[4] = LineLeft[reader'] /\ Left'[5] = Len(source')
  /\ Left'[6] = SpecLeft[reader'] /\ Left'[7] = Len(sub_line')
  /\ Left'[8] = 5 - pass' /\ Left'[9] = Len(from') + Room(dest')
  BY DEF Left, Room

LEMMA LessAt ==
  ASSUME NEW a, NEW b, DOMAIN b = 1..9, NEW k \in 1..9, a[k] < b[k],
         \A j \in 1..k - 1 : a[j] = b[j]
  PROVE  Less(a, b)
  BY DEF Less

LEMMA LeftIsNumbers ==
  ASSUME IInv, ControlInv
  PROVE  Left \in Seq(Nat)
  <1>1. /\ main \in {"special", "options", "config", "read", "run", "process",
                     "command", "done", "exit", "crashed"}
        /\ reader \in {"idle", "line", "spec", "match", "command", "done", "crashed"}
        /\ pass \in 0..5
    BY DEF IInv, ControlInv, MainTypeOK, CommandLineTypeOK, ReaderInv, ReaderTypeOK,
           SubstituteInv, SubstituteTypeOK
  <1>2. MainLeft[main] \in Nat /\ LineLeft[reader] \in Nat /\ SpecLeft[reader] \in Nat
    BY <1>1 DEF MainLeft, LineLeft, SpecLeft
  <1>3. Len(argv) \in Nat
    BY LenProperties DEF ControlInv, MainTypeOK, CommandLineTypeOK
  <1>4. text \in Texts /\ source \in Texts /\ sub_line \in Texts /\ from \in Texts /\ dest \in Texts
    BY DEF IInv, ReaderInv, ReaderTypeOK, SubstituteInv, SubstituteTypeOK, Texts
  <1>5. Len(text) \in Nat /\ Len(source) \in Nat /\ Len(sub_line) \in Nat /\ Len(from) \in Nat
    BY <1>4, LenProperties DEF Texts
  <1>6. Room(dest) \in Nat
    BY <1>4, CopyFits DEF IInv, SubstituteInv, CommandFitsBuffer
  <1>7. 5 - pass \in Nat /\ Len(from) + Room(dest) \in Nat
    BY <1>1, <1>5, <1>6
  <1> QED BY <1>2, <1>3, <1>5, <1>7 DEF Left

(* The place where it becomes less, by what a step changes.                *)
LEMMA MainLess ==
  ASSUME MainLeft[main'] < MainLeft[main]
  PROVE  Less(Left', Left)
  <1>1. Left'[1] < Left[1]
    BY LeftIs, LeftWillBe
  <1> QED BY <1>1, LeftIs, LessAt

LEMMA OptionsLess ==
  ASSUME main' = main, Len(argv') < Len(argv)
  PROVE  Less(Left', Left)
  <1>1. Left'[2] < Left[2] /\ Left'[1] = Left[1]
    BY LeftIs, LeftWillBe
  <1>2. \A j \in 1..2 - 1 : j = 1
    OBVIOUS
  <1> QED BY <1>1, <1>2, LeftIs, LessAt

LEMMA ReaderLess ==
  ASSUME main' = main, argv' = argv,
         \/ Len(text') < Len(text)
         \/ /\ text' = text
            /\ \/ LineLeft[reader'] < LineLeft[reader]
               \/ /\ LineLeft[reader'] = LineLeft[reader]
                  /\ \/ Len(source') < Len(source)
                     \/ /\ source' = source
                        /\ \/ SpecLeft[reader'] < SpecLeft[reader]
                           \/ /\ SpecLeft[reader'] = SpecLeft[reader]
                              /\ Len(sub_line') < Len(sub_line)
  PROVE  Less(Left', Left)
  <1>0. Left'[1] = Left[1] /\ Left'[2] = Left[2]
    BY LeftIs, LeftWillBe
  <1>1. ASSUME NEW k \in 1..9, Left'[k] < Left[k], \A j \in 1..k - 1 : Left'[j] = Left[j]
        PROVE  Less(Left', Left)
    BY <1>1, LeftIs, LessAt
  <1>2. /\ \A j \in 1..3 - 1 : j = 1 \/ j = 2
        /\ \A j \in 1..4 - 1 : j = 1 \/ j = 2 \/ j = 3
        /\ \A j \in 1..5 - 1 : j = 1 \/ j = 2 \/ j = 3 \/ j = 4
        /\ \A j \in 1..6 - 1 : j = 1 \/ j = 2 \/ j = 3 \/ j = 4 \/ j = 5
        /\ \A j \in 1..7 - 1 : j = 1 \/ j = 2 \/ j = 3 \/ j = 4 \/ j = 5 \/ j = 6
        /\ {3, 4, 5, 6, 7} \subseteq 1..9
    OBVIOUS
  <1>3. CASE Len(text') < Len(text)
    <2>1. Left'[3] < Left[3]
      BY <1>3, LeftIs, LeftWillBe
    <2>2. \A j \in 1..3 - 1 : Left'[j] = Left[j]
      BY <1>0, <1>2, Zenon
    <2> QED BY <1>1, <1>2, <2>1, <2>2
  <1>4. CASE text' = text /\ LineLeft[reader'] < LineLeft[reader]
    <2>1. Left'[4] < Left[4] /\ Left'[3] = Left[3]
      BY <1>4, LeftIs, LeftWillBe
    <2>2. \A j \in 1..4 - 1 : Left'[j] = Left[j]
      BY <1>0, <1>2, <2>1, Zenon
    <2> QED BY <1>1, <1>2, <2>1, <2>2
  <1>5. CASE /\ text' = text /\ LineLeft[reader'] = LineLeft[reader]
             /\ Len(source') < Len(source)
    <2>1. Left'[5] < Left[5] /\ Left'[3] = Left[3] /\ Left'[4] = Left[4]
      BY <1>5, LeftIs, LeftWillBe
    <2>2. \A j \in 1..5 - 1 : Left'[j] = Left[j]
      BY <1>0, <1>2, <2>1, Zenon
    <2> QED BY <1>1, <1>2, <2>1, <2>2
  <1>6. CASE /\ text' = text /\ LineLeft[reader'] = LineLeft[reader] /\ source' = source
             /\ SpecLeft[reader'] < SpecLeft[reader]
    <2>1. Left'[6] < Left[6] /\ Left'[3] = Left[3] /\ Left'[4] = Left[4] /\ Left'[5] = Left[5]
      BY <1>6, LeftIs, LeftWillBe
    <2>2. \A j \in 1..6 - 1 : Left'[j] = Left[j]
      BY <1>0, <1>2, <2>1, Zenon
    <2> QED BY <1>1, <1>2, <2>1, <2>2
  <1>7. CASE /\ text' = text /\ LineLeft[reader'] = LineLeft[reader] /\ source' = source
             /\ SpecLeft[reader'] = SpecLeft[reader] /\ Len(sub_line') < Len(sub_line)
    <2>1. /\ Left'[7] < Left[7] /\ Left'[3] = Left[3] /\ Left'[4] = Left[4]
          /\ Left'[5] = Left[5] /\ Left'[6] = Left[6]
      BY <1>7, LeftIs, LeftWillBe
    <2>2. \A j \in 1..7 - 1 : Left'[j] = Left[j]
      BY <1>0, <1>2, <2>1, Zenon
    <2> QED BY <1>1, <1>2, <2>1, <2>2
  <1> QED BY <1>3, <1>4, <1>5, <1>6, <1>7

LEMMA CommandLess ==
  ASSUME UNCHANGED <<mainVars, readerVars>>,
         \/ 5 - pass' < 5 - pass
         \/ pass' = pass /\ Len(from') + Room(dest') < Len(from) + Room(dest)
  PROVE  Less(Left', Left)
  <1>0. /\ Left'[1] = Left[1] /\ Left'[2] = Left[2] /\ Left'[3] = Left[3] /\ Left'[4] = Left[4]
        /\ Left'[5] = Left[5] /\ Left'[6] = Left[6] /\ Left'[7] = Left[7]
    BY LeftIs, LeftWillBe DEF mainVars, readerVars
  <1>1. ASSUME NEW k \in 1..9, Left'[k] < Left[k], \A j \in 1..k - 1 : Left'[j] = Left[j]
        PROVE  Less(Left', Left)
    BY <1>1, LeftIs, LessAt
  <1>2. /\ \A j \in 1..8 - 1 : j = 1 \/ j = 2 \/ j = 3 \/ j = 4 \/ j = 5 \/ j = 6 \/ j = 7
        /\ \A j \in 1..9 - 1 : \/ j = 1 \/ j = 2 \/ j = 3 \/ j = 4 \/ j = 5 \/ j = 6
                               \/ j = 7 \/ j = 8
        /\ {8, 9} \subseteq 1..9
    OBVIOUS
  <1>3. CASE 5 - pass' < 5 - pass
    <2>1. Left'[8] < Left[8]
      BY <1>3, LeftIs, LeftWillBe
    <2>2. \A j \in 1..8 - 1 : Left'[j] = Left[j]
      BY <1>0, <1>2, Zenon
    <2> QED BY <1>1, <1>2, <2>1, <2>2
  <1>4. CASE pass' = pass /\ Len(from') + Room(dest') < Len(from) + Room(dest)
    <2>1. Left'[9] < Left[9] /\ Left'[8] = Left[8]
      BY <1>4, LeftIs, LeftWillBe
    <2>2. \A j \in 1..9 - 1 : Left'[j] = Left[j]
      BY <1>0, <1>2, <2>1, Zenon
    <2> QED BY <1>1, <1>2, <2>1, <2>2
  <1> QED BY <1>3, <1>4

(* Every step of main but those of its loops goes on to another place.     *)
LEMMA MainGoesOn ==
  ASSUME \/ SpecialOption \/ NoSpecialOption \/ EndOfOptions
         \/ MissingFile \/ MissingParameter \/ OpenFails \/ CreateClientList
         \/ EmptyList \/ StartRun \/ JustCheck \/ ProcessClients
         \/ CallSomeCommand \/ QuitOrRun
  PROVE  Less(Left', Left)
  <1>1. \/ main = "special" /\ main' \in {"exit", "options"}
        \/ main = "options" /\ main' = "config"
        \/ main = "config" /\ main' \in {"exit", "crashed", "read"}
        \/ main = "read" /\ main' \in {"exit", "run"}
        \/ main = "run" /\ main' \in {"exit", "process"}
        \/ main = "process" /\ main' = "command"
        \/ main = "command" /\ main' = "done"
    BY DEF SpecialOption, NoSpecialOption, EndOfOptions, MissingFile, MissingParameter,
           OpenFails, CreateClientList, Open, EmptyList, StartRun, JustCheck, ProcessClients,
           CallSomeCommand, call_command, QuitOrRun, Return
  <1>2. MainLeft[main'] < MainLeft[main]
    BY <1>1 DEF MainLeft
  <1> QED BY <1>2, MainLess

LEMMA OptionGoesOn ==
  ASSUME ControlInv, (\E f \in DOMAIN Names : Flag(f)) \/ MonitorOption \/ UnknownOption
  PROVE  Less(Left', Left)
  <1>1. /\ main' = main /\ argv # <<>> /\ argv \in Seq(Arguments)
        /\ argv' = Tail(argv) \/ argv' = SubSeq(argv, 3, Len(argv))
    BY DEF Flag, MonitorOption, UnknownOption, AtOption, FirstIn, ControlInv, MainTypeOK,
           CommandLineTypeOK
  <1>2. Len(argv) \in Nat \ {0}
    BY <1>1, EmptySeq, LenProperties
  <1>3. Len(Tail(argv)) = Len(argv) - 1
    BY <1>1, HeadTailProperties
  <1>4. Len(SubSeq(argv, 3, Len(argv))) = IF 3 <= Len(argv) THEN Len(argv) - 3 + 1 ELSE 0
    BY <1>1, <1>2, SubSeqProperties, ElementOfSeq
  <1>5. Len(argv') < Len(argv)
    BY <1>1, <1>2, <1>3, <1>4
  <1> QED BY <1>1, <1>5, OptionsLess

LEMMA ReaderGoesOn ==
  ASSUME ReaderInv, ReaderStep, main' = main, argv' = argv, reader' # "crashed"
  PROVE  Less(Left', Left)
  <1>0. /\ text \in Texts /\ source \in Texts /\ sub_line \in Texts
        /\ Len(text) \in Nat /\ Len(source) \in Nat /\ Len(sub_line) \in Nat
        /\ text # <<>> => Len(text) # 0
        /\ source # <<>> => Len(source) # 0
    BY LenProperties, EmptySeq DEF ReaderInv, ReaderTypeOK, Texts
  <1>1. CASE ReadLine
    <2> DEFINE k == LineLength(text)
    <2>1. text # <<>> /\ text' = Rest(text, k)
      BY <1>1 DEF ReadLine
    <2>2. k \in Nat \ {0}
      BY <1>0, LineRead
    <2> HIDE DEF k
    <2>3. Len(Rest(text, k)) = IF k <= Len(text) THEN Len(text) - k ELSE 0
      BY <1>0, <2>2, RestOfText
    <2>4. Len(text') < Len(text)
      BY <1>0, <2>1, <2>2, <2>3
    <2> QED BY <2>4, ReaderLess
  <1>2. CASE EndOfText \/ EndOfLine
    <2>1. /\ text' = text
          /\ \/ reader = "line" /\ reader' = "done"
             \/ reader = "spec" /\ reader' = "line"
      BY <1>2 DEF EndOfText, EndOfLine
    <2>2. LineLeft[reader'] < LineLeft[reader]
      BY <2>1 DEF LineLeft
    <2> QED BY <2>1, <2>2, ReaderLess
  <1>3. CASE BeginSpec
    <2> DEFINE k == UpTo(source, {";"})
    <2>1. /\ source # <<>> /\ source' = Rest(source, k + 1) /\ text' = text
          /\ reader = "spec" /\ reader' \in {"match", "spec"}
      BY <1>3 DEF BeginSpec, Skip, next_source
    <2>2. k \in 0..Len(source)
      BY <1>0, SpanOfText
    <2> HIDE DEF k
    <2>3. k + 1 \in Nat \ {0}
      BY <1>0, <2>2
    <2>4. Len(Rest(source, k + 1)) = IF k + 1 <= Len(source) THEN Len(source) - (k + 1) ELSE 0
      BY <1>0, <2>3, RestOfText
    <2>5. Len(source') < Len(source)
      BY <1>0, <2>1, <2>3, <2>4
    <2>6. LineLeft[reader'] = LineLeft[reader]
      BY <2>1 DEF LineLeft
    <2> QED BY <2>1, <2>5, <2>6, ReaderLess
  <1>4. CASE MatchItem
    <2> DEFINE item == parse_match[sub_line]
               next == SkipWhite[item.rest]
    <2>1. /\ reader = "match" /\ text' = text /\ source' = source
          /\ \/ /\ item.outcome = "read" /\ Begins(next, {"|"})
                /\ sub_line' = Rest(next, 1) /\ reader' = reader
             \/ reader' = "command"
             \/ reader' = "spec"
      BY <1>4 DEF MatchItem, Skip
    <2>2. CASE reader' = "command" \/ reader' = "spec"
      <3>1. LineLeft[reader'] = LineLeft[reader] /\ SpecLeft[reader'] < SpecLeft[reader]
        BY <2>1, <2>2 DEF LineLeft, SpecLeft
      <3> QED BY <2>1, <3>1, ReaderLess
    <2>3. CASE /\ item.outcome = "read" /\ Begins(next, {"|"})
               /\ sub_line' = Rest(next, 1) /\ reader' = reader
      <3>1. IsRest(item.rest, sub_line)
        BY <1>0, <2>3, MatchReads DEF Reads
      <3>2. item.rest \in Texts
        BY <1>0, <3>1, EndOfRest
      <3>3. next \in Texts /\ IsRest(next, item.rest)
        BY <3>2, SkipWhiteOfText, SkipWhiteIsRest
      <3>4. IsRest(next, sub_line)
        BY <1>0, <3>1, <3>3, RestOfARest
      <3> HIDE DEF next
      <3>5. PICK j \in Nat : next = Rest(sub_line, j)
        BY <3>4 DEF IsRest
      <3>6. Len(Rest(sub_line, j)) = IF j <= Len(sub_line) THEN Len(sub_line) - j ELSE 0
        BY <1>0, <3>5, RestOfText
      <3>7. next # <<>>
        BY <2>3 DEF Begins
      <3>8. Len(next) \in Nat \ {0}
        BY <3>3, <3>7, LenProperties, EmptySeq DEF Texts
      <3>9. Len(next) <= Len(sub_line)
        BY <1>0, <3>5, <3>6
      <3>10. Len(Rest(next, 1)) = IF 1 <= Len(next) THEN Len(next) - 1 ELSE 0
        BY <3>3, RestOfText
      <3>11. Len(sub_line') < Len(sub_line)
        BY <1>0, <2>3, <3>8, <3>9, <3>10
      <3> QED BY <2>1, <2>3, <3>11, ReaderLess
    <2> QED BY <2>1, <2>2, <2>3
  <1>5. CASE EndSpec
    <2>1. text' = text /\ source' = source /\ reader = "command" /\ reader' = "spec"
      BY <1>5 DEF EndSpec
    <2>2. LineLeft[reader'] = LineLeft[reader] /\ SpecLeft[reader'] < SpecLeft[reader]
      BY <2>1 DEF LineLeft, SpecLeft
    <2> QED BY <2>1, <2>2, ReaderLess
  <1> QED BY <1>1, <1>2, <1>3, <1>4, <1>5 DEF ReaderStep

LEMMA ScanGoesOn ==
  ASSUME ReaderInv, ScanConfiguration
  PROVE  Less(Left', Left)
  <1>1. /\ main = "read" /\ ReaderStep /\ argv' = argv
        /\ main' = IF reader' = "crashed" THEN "crashed" ELSE main
    BY DEF ScanConfiguration
  <1>2. CASE reader' = "crashed"
    <2>1. MainLeft[main'] < MainLeft[main]
      BY <1>1, <1>2 DEF MainLeft
    <2> QED BY <2>1, MainLess
  <1>3. CASE reader' # "crashed"
    BY <1>1, <1>3, ReaderGoesOn
  <1> QED BY <1>2, <1>3

(* An occurrence replaced takes its two symbols from what is to be read;   *)
(* what is written takes room.                                             *)
LEMMA SubstituteGoesOn ==
  ASSUME SubstituteInv, SubstituteImages
  PROVE  Less(Left', Left)
  <1>0. /\ from \in Texts /\ dest \in Texts
        /\ Len(dest) < COMMAND_BUFFER_SIZE /\ Len(dest) \in Nat
        /\ images \in [1..4 -> Texts]
    BY LenProperties DEF SubstituteInv, SubstituteTypeOK, CommandFitsBuffer, Texts
  <1>1. UNCHANGED <<mainVars, readerVars>> /\ SubstituteStep
    BY DEF SubstituteImages
  <1>2. CASE EndPass
    <2>1. pass \in 1..4 /\ pass' = pass + 1
      BY <1>2 DEF EndPass
    <2>2. 5 - pass' < 5 - pass
      BY <2>1
    <2> QED BY <1>1, <2>2, CommandLess
  <1>3. CASE Replace
    <2> DEFINE at     == Smallest(Found)
               copied == Cut(Prefix(from, at), Room(dest))
               before == dest \o copied
    <2>1. pass \in 1..4 /\ Found # {} /\ Room(dest) > 0 /\ pass' = pass
      BY <1>3 DEF Replace
    <2>2. IF Room(before) = 0
            THEN dest' = before /\ from' = from
            ELSE /\ dest' = before \o Cut(images[pass], Room(before))
                 /\ from' = Rest(from, at + 2)
      BY <1>3 DEF Replace
    <2>3. at \in 0..Len(from) /\ Len(from) \in Nat /\ images[pass] \in Texts
      BY <1>0, <2>1, PlacesFound, LenProperties DEF Found, Texts
    <2> HIDE DEF at
    <2>4. Prefix(from, at) \in Texts
      BY <1>0, <2>3, PrefixOfText
    <2>5. Room(dest) \in Nat /\ before \in Texts /\ Len(before) < COMMAND_BUFFER_SIZE
      BY <1>0, <2>4, CopyFits
    <2>6. Room(before) \in Nat
      BY <2>5, CopyFits
    <2>7. CASE Room(before) = 0
      <3> HIDE DEF before
      <3>1. dest' = before /\ from' = from
        BY <2>2, <2>7
      <3>2. Len(from) + 0 < Len(from) + Room(dest)
        BY <2>1, <2>3, <2>5
      <3>3. Len(from') + Room(dest') < Len(from) + Room(dest)
        BY <2>7, <3>1, <3>2, Zenon
      <3> QED BY <1>1, <2>1, <3>3, CommandLess
    <2>8. CASE Room(before) # 0
      <3>1. Len(before) >= Len(dest) /\ Len(before) \in Nat
        <4>1. copied \in Texts
          BY <2>4, <2>5, CutOfText
        <4> HIDE DEF copied
        <4>2. Len(before) = Len(dest) + Len(copied) /\ Len(copied) \in Nat
          BY <1>0, <4>1, ConcatOfText, LenProperties DEF Texts
        <4> HIDE DEF before
        <4> QED BY <1>0, <4>2
      <3> HIDE DEF before
      <3> DEFINE image == Cut(images[pass], Room(before))
      <3>2. image \in Texts
        BY <2>3, <2>6, CutOfText
      <3> HIDE DEF image
      <3>3. Len(before \o image) = Len(before) + Len(image) /\ Len(image) \in Nat
        BY <2>5, <3>2, ConcatOfText, LenProperties DEF Texts
      <3>4. dest' = before \o image /\ from' = Rest(from, at + 2)
        BY <2>2, <2>8 DEF image
      <3>5. Len(dest') >= Len(dest) /\ Len(dest') \in Nat
        BY <1>0, <3>1, <3>3, <3>4
      <3>6. Room(dest') <= Room(dest) /\ Room(dest') \in Int
        BY <1>0, <3>5, BufferHasRoom DEF Room
      <3>7. Len(from') < Len(from) /\ Len(from') \in Nat
        <4>1. at + 2 \in Nat
          BY <2>3
        <4>2. Len(Rest(from, at + 2)) = IF at + 2 <= Len(from) THEN Len(from) - (at + 2) ELSE 0
          BY <1>0, <4>1, RestOfText
        <4>3. Len(from) # 0
          <5>1. PICK q \in 0..Len(from) : StartsWith(Rest(from, q), Placeholder[pass])
            BY <2>1 DEF Found, Occurrences
          <5>2. Len(Placeholder[pass]) = 2
            BY <2>1 DEF Placeholder
          <5>3. Len(Rest(from, q)) >= 2
            BY <5>1, <5>2 DEF StartsWith
          <5>4. q \in Nat /\ q <= Len(from)
            BY <2>3, <5>1
          <5>5. Len(Rest(from, q)) = Len(from) - q
            BY <1>0, <5>4, RestOfText
          <5> QED BY <2>3, <5>3, <5>4, <5>5
        <4> QED BY <2>3, <3>4, <4>2, <4>3
      <3>8. Len(from') + Room(dest') < Len(from) + Room(dest)
        BY <2>3, <2>5, <3>6, <3>7
      <3> QED BY <1>1, <2>1, <3>8, CommandLess
    <2> QED BY <2>7, <2>8
  <1> QED BY <1>1, <1>2, <1>3 DEF SubstituteStep

(* No loop over arguments, lines, specifications, match items or           *)
(* placeholders turns without an end, whatever they are and however large  *)
(* the buffers: what is left to do becomes less in every step.             *)
THEOREM LoopsEnd == Spec => StepsCountDown
  <1>1. IInv /\ ControlInv /\ [Next]_vars => [CountsDown]_vars
    <2> SUFFICES ASSUME IInv, ControlInv, Next PROVE Less(Left', Left)
      BY LeftIsNumbers DEF CountsDown
    <2>1. CASE ParseOptions
      BY <2>1, MainGoesOn, OptionGoesOn DEF ParseOptions, CommandLineStep
    <2>2. CASE ScanConfiguration
      BY <2>2, ScanGoesOn DEF IInv
    <2>3. CASE SubstituteImages
      BY <2>3, SubstituteGoesOn DEF IInv
    <2> QED BY <2>1, <2>2, <2>3, MainGoesOn DEF Next
  <1> QED BY <1>1, AlwaysControlInv, PTL DEF Spec, StepsCountDown

=============================================================================
