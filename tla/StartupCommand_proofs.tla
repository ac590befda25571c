----------------------- MODULE StartupCommand_proofs ------------------------
(***************************************************************************)
(* What becomes of a command, for any sizes and symbols, any command, name *)
(* and value: the four substitutions, made one after the other in buffers  *)
(* of limited size, give what the documents promise of all at once, and    *)
(* quit is what is written.                                                *)
(***************************************************************************)
EXTENDS Startup_proofs

-----------------------------------------------------------------------------
(* The placeholders.                                                       *)
LEMMA Letters ==
  /\ \A j \in 1..4 : /\ Placeholder[j] = <<"%", Placeholder[j][2]>>
                     /\ Placeholder[j][2] # "%"
                     /\ Placeholder[j][2] \in Symbols
                     /\ Placeholder[j] \in Texts
                     /\ Len(Placeholder[j]) = 2
  /\ \A i, j \in 1..4 : Placeholder[i][2] = Placeholder[j][2] => i = j
  <1>1. {"%", "p", "e", "m", "v"} \subseteq Symbols
    BY SymbolAssumption
  <1>2. \A x, y \in Symbols : <<x, y>> \in Texts /\ Len(<<x, y>>) = 2
    BY DEF Texts
  <1>3. /\ Placeholder[1] = <<"%", "p">> /\ Placeholder[2] = <<"%", "e">>
        /\ Placeholder[3] = <<"%", "m">> /\ Placeholder[4] = <<"%", "v">>
    BY DEF Placeholder
  <1>4. \A j \in 1..4 : j = 1 \/ j = 2 \/ j = 3 \/ j = 4
    OBVIOUS
  <1>5. ASSUME NEW j \in 1..4
        PROVE  /\ Placeholder[j] = <<"%", Placeholder[j][2]>>
               /\ Placeholder[j][2] # "%"
               /\ Placeholder[j][2] \in Symbols
    BY <1>1, <1>3, <1>4
  <1>6. ASSUME NEW j \in 1..4
        PROVE  Placeholder[j] \in Texts /\ Len(Placeholder[j]) = 2
    BY <1>1, <1>2, <1>5
  <1>7. ASSUME NEW i \in 1..4, NEW j \in 1..4, Placeholder[i][2] = Placeholder[j][2]
        PROVE  i = j
    BY <1>3, <1>4, <1>7
  <1> QED BY <1>5, <1>6, <1>7

(* Placeholder j stands at k.                                              *)
Here(s, k, j) == k < Len(s) /\ s[k] = "%" /\ s[k + 1] = Placeholder[j][2]

LEMMA HereOnce ==
  ASSUME NEW s, NEW k, NEW i \in 1..4, NEW j \in 1..4, Here(s, k, i), Here(s, k, j)
  PROVE  i = j
  BY Letters DEF Here

LEMMA HereIs ==
  ASSUME NEW s \in Texts, NEW k \in 1..Len(s) + 1, NEW j \in 1..4
  PROVE  StartsWith(Rest(s, k - 1), Placeholder[j]) <=> Here(s, k, j)
  <1> DEFINE r == Rest(s, k - 1)
             x == Placeholder[j][2]
  <1>1. Len(s) \in Nat /\ k - 1 \in 0..Len(s)
    BY LengthOfText
  <1>2. /\ r \in Texts /\ Len(r) = Len(s) - (k - 1)
        /\ \A i \in 1..(Len(s) - (k - 1)) : r[i] = s[(k - 1) + i]
    BY <1>1, PartsOfText
  <1>3. Placeholder[j] \in Texts /\ Len(Placeholder[j]) = 2 /\ Placeholder[j] = <<"%", x>>
    BY Letters
  <1>4. StartsWith(r, Placeholder[j]) <=> 2 <= Len(r) /\ Prefix(r, 2) = <<"%", x>>
    BY <1>3 DEF StartsWith
  <1> HIDE DEF r, x
  <1>5. 2 <= Len(r) => r[1] = s[k] /\ r[2] = s[k + 1]
    <2>1. SUFFICES ASSUME 2 <= Len(r) PROVE r[1] = s[k] /\ r[2] = s[k + 1]
      OBVIOUS
    <2>2. 1 \in 1..(Len(s) - (k - 1)) /\ 2 \in 1..(Len(s) - (k - 1))
          /\ (k - 1) + 1 = k /\ (k - 1) + 2 = k + 1
      BY <1>1, <1>2, <2>1
    <2> QED BY <1>2, <2>2
  <1>6. 2 <= Len(r) => (Prefix(r, 2) = <<"%", x>> <=> r[1] = "%" /\ r[2] = x)
    <2>1. SUFFICES ASSUME 2 <= Len(r)
                   PROVE  Prefix(r, 2) = <<"%", x>> <=> r[1] = "%" /\ r[2] = x
      OBVIOUS
    <2>2. 2 \in 0..Len(r)
      BY <1>1, <1>2, <2>1
    <2>3. /\ Prefix(r, 2) \in Texts /\ Len(Prefix(r, 2)) = 2
          /\ \A i \in 1..2 : Prefix(r, 2)[i] = r[i]
      BY <1>2, <2>2, PartsOfText
    <2>4. /\ <<"%", x>> \in Texts /\ Len(<<"%", x>>) = 2
          /\ <<"%", x>>[1] = "%" /\ <<"%", x>>[2] = x
      BY <1>3
    <2>5. \A i \in 1..2 : i = 1 \/ i = 2
      OBVIOUS
    <2>6. r[1] = "%" /\ r[2] = x => Prefix(r, 2) = <<"%", x>>
      BY <2>3, <2>4, <2>5, EqualTexts
    <2> QED BY <2>3, <2>4, <2>6
  <1>7. 2 <= Len(r) <=> k < Len(s)
    BY <1>1, <1>2
  <1> QED BY <1>4, <1>5, <1>6, <1>7 DEF Here, r, x

LEMMA OccurrencesAre ==
  ASSUME NEW s \in Texts, NEW j \in 1..4
  PROVE  Occurrences(s, Placeholder[j]) = {q \in 0..Len(s) : Here(s, q + 1, j)}
  <1>1. Len(s) \in Nat
    BY LengthOfText
  <1>2. ASSUME NEW q \in 0..Len(s)
        PROVE  StartsWith(Rest(s, q), Placeholder[j]) <=> Here(s, q + 1, j)
    <2>1. q + 1 \in 1..Len(s) + 1 /\ (q + 1) - 1 = q
      BY <1>1
    <2> QED BY <2>1, HereIs
  <1> QED BY <1>2 DEF Occurrences

-----------------------------------------------------------------------------
(* A text with the placeholders of J, a subset of 1..4, replaced where     *)
(* they stand: f[k] is what the part from k on becomes.                    *)
Replacements == [1..4 -> Texts]

IsTail(J, im, s, f) ==
  /\ f \in [1..Len(s) + 2 -> Texts]
  /\ \A k \in 1..Len(s) + 2 :
       /\ k > Len(s) => f[k] = <<>>
       /\ \A j \in J : Here(s, k, j) => f[k] = im[j] \o f[k + 2]
       /\ k <= Len(s) /\ (\A j \in J : ~Here(s, k, j)) => f[k] = <<s[k]>> \o f[k + 1]

Exp(J, im, s) == (CHOOSE f : IsTail(J, im, s, f))[1]

(* What holds at the end, and wherever it holds a place and two places     *)
(* further on, holds everywhere.                                           *)
LEMMA DownTo ==
  ASSUME NEW n \in Nat, NEW G, n + 1 \in G, n + 2 \in G,
         \A k \in 1..n : k + 1 \in G /\ k + 2 \in G => k \in G
  PROVE  \A k \in 1..n + 2 : k \in G
  <1> DEFINE out == {i \in 0..n + 1 : (n + 2) - i \notin G}
             m   == Smallest(out)
  <1>1. out = {}
    <2>1. SUFFICES ASSUME out # {} PROVE FALSE
      OBVIOUS
    <2>2. m \in out /\ \A i \in out : m <= i
      <3>1. out \in SUBSET Nat
        OBVIOUS
      <3> HIDE DEF out
      <3> QED BY <2>1, <3>1, SmallestExists
    <2> HIDE DEF m
    <2>3. m \in 0..n + 1 /\ (n + 2) - m \notin G
      BY <2>2
    <2>4. m # 0 /\ m # 1
      <3>1. (n + 2) - 0 = n + 2 /\ (n + 2) - 1 = n + 1
        OBVIOUS
      <3> QED BY <2>3, <3>1
    <2>5. m - 1 \notin out /\ m - 2 \notin out
      BY <2>2, <2>3, <2>4
    <2>6. /\ m - 1 \in 0..n + 1 /\ m - 2 \in 0..n + 1 /\ (n + 2) - m \in 1..n
          /\ (n + 2) - (m - 1) = ((n + 2) - m) + 1
          /\ (n + 2) - (m - 2) = ((n + 2) - m) + 2
      BY <2>3, <2>4
    <2>7. ((n + 2) - m) + 1 \in G /\ ((n + 2) - m) + 2 \in G
      <3>1. (n + 2) - (m - 1) \in G /\ (n + 2) - (m - 2) \in G
        BY <2>5, <2>6
      <3> QED BY <2>6, <3>1
    <2> QED BY <2>3, <2>6, <2>7
  <1>2. ASSUME NEW k \in 1..n + 2 PROVE k \in G
    <2>1. (n + 2) - k \in 0..n + 1 /\ (n + 2) - ((n + 2) - k) = k
      OBVIOUS
    <2>2. (n + 2) - k \notin out
      BY <1>1
    <2> HIDE DEF out
    <2>3. (n + 2) - ((n + 2) - k) \in G
      <3> USE DEF out
      <3> QED BY <2>1, <2>2
    <2> QED BY <2>1, <2>3
  <1> QED BY <1>2

LEMMA TailExists ==
  ASSUME NEW J \in SUBSET (1..4), NEW im \in Replacements, NEW s \in Texts
  PROVE  \E f : IsTail(J, im, s, f)
  <1> DEFINE n == Len(s)
             Some(k) == \E j \in J : Here(s, k, j)
             Next2(k, x) == IF Some(k) THEN im[CHOOSE j \in J : Here(s, k, j)] \o x[2]
                                       ELSE <<s[k]>> \o x[1]
             Pairs == Texts \X Texts
             start == << <<>>, <<>> >>
             step  == [y \in (1..n) \X Pairs |-> <<Next2((n + 1) - y[1], y[2]), y[2][1]>>]
  <1>1. n \in Nat /\ \A k \in 1..n : s[k] \in Symbols
    BY LengthOfText
  <1>2. ASSUME NEW k \in 1..n, NEW x \in Pairs
        PROVE  /\ Next2(k, x) \in Texts
               /\ \A j \in J : Here(s, k, j) => Next2(k, x) = im[j] \o x[2]
               /\ (\A j \in J : ~Here(s, k, j)) => Next2(k, x) = <<s[k]>> \o x[1]
    <2>1. x[1] \in Texts /\ x[2] \in Texts
      OBVIOUS
    <2>2. ASSUME NEW j \in J, Here(s, k, j)
          PROVE  Next2(k, x) = im[j] \o x[2] /\ Next2(k, x) \in Texts
      <3>1. (CHOOSE i \in J : Here(s, k, i)) = j
        BY <2>2, HereOnce
      <3>2. Next2(k, x) = im[j] \o x[2]
        BY <2>2, <3>1
      <3>3. im[j] \in Texts
        BY DEF Replacements
      <3> QED BY <2>1, <3>2, <3>3, JoinOfTexts
    <2>3. ASSUME \A j \in J : ~Here(s, k, j)
          PROVE  Next2(k, x) = <<s[k]>> \o x[1] /\ Next2(k, x) \in Texts
      <3>1. Next2(k, x) = <<s[k]>> \o x[1]
        BY <2>3
      <3>2. <<s[k]>> \in Texts
        BY <1>1, OneSymbol
      <3> QED BY <2>1, <3>1, <3>2, JoinOfTexts
    <2> HIDE DEF Next2
    <2> QED BY <2>2, <2>3
  <1>3. PICK g : BuiltBy(g, n, Pairs, start, step)
    <2>1. step \in [(1..n) \X Pairs -> Pairs]
      <3>1. ASSUME NEW y \in (1..n) \X Pairs
            PROVE  <<Next2((n + 1) - y[1], y[2]), y[2][1]>> \in Pairs
        <4>1. (n + 1) - y[1] \in 1..n /\ y[2] \in Pairs
          BY <1>1
        <4> HIDE DEF Next2
        <4> QED BY <1>2, <4>1
      <3> HIDE DEF Next2, Pairs
      <3> QED BY <3>1
    <2>2. start \in Pairs
      BY NoSymbol
    <2> HIDE DEF step, Pairs, start, n
    <2> QED BY <1>1, <2>1, <2>2, FunctionByStep, Zenon
  <1>4. g[0] = start /\ g[0] \in Pairs
    BY <1>3, NoSymbol DEF BuiltBy
  <1>5. ASSUME NEW i \in 1..n
        PROVE  /\ g[i - 1] \in Pairs /\ g[i] \in Pairs
               /\ g[i][1] = Next2((n + 1) - i, g[i - 1])
               /\ g[i][2] = g[i - 1][1]
    <2>1. g[i - 1] \in Pairs /\ g[i] = step[<<i, g[i - 1]>>]
      BY <1>3 DEF BuiltBy
    <2>2. <<i, g[i - 1]>> \in (1..n) \X Pairs
      BY <2>1
    <2> HIDE DEF Next2, Pairs
    <2>3. g[i] = <<Next2((n + 1) - i, g[i - 1]), g[i - 1][1]>>
      BY <2>1, <2>2
    <2>4. (n + 1) - i \in 1..n
      BY <1>1
    <2>5. Next2((n + 1) - i, g[i - 1]) \in Texts
      BY <1>2, <2>1, <2>4
    <2> QED BY <2>1, <2>3, <2>5 DEF Pairs
  <1> DEFINE f == [k \in 1..n + 2 |-> IF k > n THEN <<>> ELSE g[(n + 1) - k][1]]
  <1>6. f \in [1..n + 2 -> Texts]
    <2>1. ASSUME NEW k \in 1..n + 2, ~(k > n) PROVE g[(n + 1) - k][1] \in Texts
      <3>1. (n + 1) - k \in 1..n
        BY <1>1, <2>1
      <3> QED BY <1>5, <3>1
    <2> QED BY <2>1, NoSymbol
  <1>7. ASSUME NEW k \in 1..n + 2
        PROVE  /\ k > n => f[k] = <<>>
               /\ \A j \in J : Here(s, k, j) => f[k] = im[j] \o f[k + 2]
               /\ k <= n /\ (\A j \in J : ~Here(s, k, j)) => f[k] = <<s[k]>> \o f[k + 1]
    <2>1. CASE k > n
      <3>1. \A j : ~Here(s, k, j)
        BY <1>1, <2>1 DEF Here
      <3>2. f[k] = <<>> /\ ~(k <= n)
        BY <1>1, <2>1
      <3> HIDE DEF f, n
      <3> QED BY <3>1, <3>2
    <2>2. CASE k <= n
      <3> DEFINE i == (n + 1) - k
      <3>1. i \in 1..n /\ k \in 1..n /\ (n + 1) - i = k
        BY <1>1, <2>2
      <3>2. f[k] = Next2(k, g[i - 1]) /\ g[i - 1] \in Pairs
        <4> HIDE DEF Next2
        <4>1. f[k] = g[i][1]
          BY <1>1, <2>2
        <4> HIDE DEF i, f
        <4> QED BY <1>5, <3>1, <4>1
      <3>3. f[k + 1] = g[i - 1][1]
        <4>1. CASE i = 1
          BY <1>1, <1>4, <3>1, <4>1
        <4>2. CASE i # 1
          BY <1>1, <3>1, <4>2
        <4> QED BY <4>1, <4>2
      <3>4. f[k + 2] = g[i - 1][2]
        <4>1. CASE i = 1
          BY <1>1, <1>4, <3>1, <4>1
        <4>2. CASE i # 1
          <5>1. i - 1 \in 1..n /\ g[i - 1][2] = g[(i - 1) - 1][1]
            <6>1. i - 1 \in 1..n
              BY <3>1, <4>2
            <6> HIDE DEF i
            <6> QED BY <1>5, <6>1
          <5>2. CASE i = 2
            <6>1. f[k + 2] = <<>> /\ g[(i - 1) - 1] = g[0]
              BY <1>1, <3>1, <5>2
            <6> QED BY <1>4, <5>1, <6>1
          <5>3. CASE i # 2
            <6>1. k + 2 \in 1..n + 2 /\ ~(k + 2 > n) /\ (n + 1) - (k + 2) = (i - 1) - 1
              BY <1>1, <3>1, <4>2, <5>3
            <6>2. f[k + 2] = g[(n + 1) - (k + 2)][1]
              BY <6>1
            <6> QED BY <5>1, <6>1, <6>2
          <5> QED BY <5>2, <5>3
        <4> QED BY <4>1, <4>2
      <3> HIDE DEF f, i, Next2, Pairs
      <3>5. ~(k > n)
        BY <1>1, <2>2
      <3>6. /\ \A j \in J : Here(s, k, j) => f[k] = im[j] \o g[i - 1][2]
            /\ (\A j \in J : ~Here(s, k, j)) => f[k] = <<s[k]>> \o g[i - 1][1]
        <4>1. PICK x \in Pairs : x = g[i - 1]
          BY <3>2
        <4>2. /\ \A j \in J : Here(s, k, j) => Next2(k, x) = im[j] \o x[2]
              /\ (\A j \in J : ~Here(s, k, j)) => Next2(k, x) = <<s[k]>> \o x[1]
          BY <1>2, <3>1
        <4> QED BY <3>2, <4>1, <4>2
      <3> QED BY <3>3, <3>4, <3>5, <3>6
    <2>3. k > n \/ k <= n
      BY <1>1
    <2> HIDE DEF n, f
    <2> QED BY <2>1, <2>2, <2>3, Zenon
  <1> HIDE DEF f
  <1> QED BY <1>6, <1>7 DEF IsTail

LEMMA TailsEqual ==
  ASSUME NEW J \in SUBSET (1..4), NEW im \in Replacements, NEW s \in Texts,
         NEW f, IsTail(J, im, s, f), NEW h, IsTail(J, im, s, h)
  PROVE  \A k \in 1..Len(s) + 2 : f[k] = h[k]
  <1> DEFINE G == {k \in 1..Len(s) + 2 : f[k] = h[k]}
  <1>1. Len(s) \in Nat
    BY LengthOfText
  <1>2. Len(s) + 1 \in G /\ Len(s) + 2 \in G
    <2>1. \A k \in 1..Len(s) + 2 : k > Len(s) => f[k] = <<>> /\ h[k] = <<>>
      BY DEF IsTail
    <2>2. /\ Len(s) + 1 \in 1..Len(s) + 2 /\ Len(s) + 1 > Len(s)
          /\ Len(s) + 2 \in 1..Len(s) + 2 /\ Len(s) + 2 > Len(s)
      BY <1>1
    <2> QED BY <2>1, <2>2
  <1>3. ASSUME NEW k \in 1..Len(s), k + 1 \in G, k + 2 \in G
        PROVE  k \in G
    <2>1. k \in 1..Len(s) + 2 /\ k <= Len(s)
      BY <1>1
    <2>2. f[k + 1] = h[k + 1] /\ f[k + 2] = h[k + 2]
      BY <1>3
    <2>3. f[k] = h[k]
      <3>1. CASE \E j \in J : Here(s, k, j)
        BY <2>1, <2>2, <3>1 DEF IsTail
      <3>2. CASE \A j \in J : ~Here(s, k, j)
        BY <2>1, <2>2, <3>2 DEF IsTail
      <3> QED BY <3>1, <3>2
    <2> QED BY <2>1, <2>3
  <1>4. \A k \in 1..Len(s) + 2 : k \in G
    <2> HIDE DEF G
    <2> QED BY <1>1, <1>2, <1>3, DownTo
  <1> QED BY <1>4

LEMMA ExpIs ==
  ASSUME NEW J \in SUBSET (1..4), NEW im \in Replacements, NEW s \in Texts,
         NEW f, IsTail(J, im, s, f)
  PROVE  Exp(J, im, s) = f[1] /\ Exp(J, im, s) \in Texts
  <1>1. IsTail(J, im, s, CHOOSE g : IsTail(J, im, s, g))
    OBVIOUS
  <1>2. 1 \in 1..Len(s) + 2
    BY LengthOfText
  <1>3. (CHOOSE g : IsTail(J, im, s, g))[1] = f[1]
    BY <1>1, <1>2, TailsEqual
  <1>4. f[1] \in Texts
    BY <1>2 DEF IsTail
  <1> QED BY <1>3, <1>4 DEF Exp

LEMMA HereOfRest ==
  ASSUME NEW s \in Texts, NEW m \in 0..Len(s), NEW k \in 1..(Len(s) - m), NEW j
  PROVE  Here(Rest(s, m), k, j) <=> Here(s, k + m, j)
  <1>1. Len(s) \in Nat /\ Len(Rest(s, m)) = Len(s) - m
    BY LengthOfText, PartsOfText
  <1>2. Rest(s, m)[k] = s[k + m] /\ (k < Len(s) - m => Rest(s, m)[k + 1] = s[(k + m) + 1])
    <2>1. m + k = k + m /\ m + (k + 1) = (k + m) + 1
      BY <1>1
    <2>2. k < Len(s) - m => k + 1 \in 1..(Len(s) - m)
      BY <1>1
    <2>3. \A i \in 1..(Len(s) - m) : Rest(s, m)[i] = s[m + i]
      BY PartsOfText
    <2> QED BY <2>1, <2>2, <2>3
  <1>3. k < Len(s) - m <=> k + m < Len(s)
    BY <1>1
  <1> QED BY <1>1, <1>2, <1>3 DEF Here

LEMMA TailOfRest ==
  ASSUME NEW J \in SUBSET (1..4), NEW im \in Replacements, NEW s \in Texts,
         NEW f, IsTail(J, im, s, f), NEW m \in 0..Len(s)
  PROVE  Exp(J, im, Rest(s, m)) = f[m + 1]
  <1> DEFINE r == Rest(s, m)
             h == [k \in 1..(Len(s) - m) + 2 |-> f[k + m]]
  <1>1. Len(s) \in Nat /\ m \in Nat /\ r \in Texts /\ Len(r) = Len(s) - m
    BY LengthOfText, PartsOfText
  <1>2. \A k \in 1..(Len(s) - m) : r[k] = s[k + m]
    <2>1. \A k \in 1..(Len(s) - m) : r[k] = s[m + k]
      BY PartsOfText
    <2>2. \A k \in 1..(Len(s) - m) : m + k = k + m
      BY <1>1
    <2> HIDE DEF r
    <2> QED BY <2>1, <2>2
  <1>3. h \in [1..Len(r) + 2 -> Texts]
    <2>1. \A k \in 1..(Len(s) - m) + 2 : k + m \in 1..Len(s) + 2
      BY <1>1
    <2>2. f \in [1..Len(s) + 2 -> Texts]
      BY DEF IsTail
    <2> HIDE DEF r
    <2> QED BY <1>1, <2>1, <2>2
  <1>4. ASSUME NEW k \in 1..Len(r) + 2
        PROVE  /\ k > Len(r) => h[k] = <<>>
               /\ \A j \in J : Here(r, k, j) => h[k] = im[j] \o h[k + 2]
               /\ k <= Len(r) /\ (\A j \in J : ~Here(r, k, j)) => h[k] = <<r[k]>> \o h[k + 1]
    <2>1. /\ k \in 1..(Len(s) - m) + 2 /\ k + m \in 1..Len(s) + 2
          /\ k > Len(r) <=> k + m > Len(s)
          /\ k > Len(r) \/ k \in 1..(Len(s) - m)
      BY <1>1
    <2> HIDE DEF r
    <2>2. h[k] = f[k + m]
      BY <2>1
    <2>3. CASE k > Len(r)
      <3>1. h[k] = <<>>
        BY <2>1, <2>2, <2>3 DEF IsTail
      <3>2. \A j \in J : ~Here(r, k, j)
        BY <1>1, <2>3 DEF Here
      <3>3. ~(k <= Len(r))
        BY <1>1, <2>3
      <3> HIDE DEF h
      <3> QED BY <3>1, <3>2, <3>3
    <2>4. CASE k \in 1..(Len(s) - m)
      <3>1. /\ k + 1 \in 1..(Len(s) - m) + 2 /\ k + 2 \in 1..(Len(s) - m) + 2
            /\ (k + 1) + m = (k + m) + 1 /\ (k + 2) + m = (k + m) + 2
            /\ k + m <= Len(s) /\ ~(k > Len(r))
        BY <1>1, <2>4
      <3>2. h[k + 1] = f[(k + m) + 1] /\ h[k + 2] = f[(k + m) + 2]
        BY <3>1
      <3> HIDE DEF h
      <3>3. \A j \in J : Here(r, k, j) <=> Here(s, k + m, j)
        BY <2>4, HereOfRest DEF r
      <3>4. r[k] = s[k + m]
        BY <1>2, <2>4
      <3>5. /\ \A j \in J : Here(s, k + m, j) => f[k + m] = im[j] \o f[(k + m) + 2]
            /\ (\A j \in J : ~Here(s, k + m, j)) => f[k + m] = <<s[k + m]>> \o f[(k + m) + 1]
        BY <2>1, <3>1 DEF IsTail
      <3> QED BY <2>2, <3>1, <3>2, <3>3, <3>4, <3>5
    <2> HIDE DEF h
    <2> QED BY <2>1, <2>3, <2>4
  <1>5. IsTail(J, im, r, h)
    <2> HIDE DEF h, r
    <2> QED BY <1>3, <1>4 DEF IsTail
  <1>6. h[1] = f[m + 1]
    <2>1. 1 \in 1..(Len(s) - m) + 2 /\ 1 + m = m + 1
      BY <1>1
    <2> QED BY <2>1
  <1> HIDE DEF h, r
  <1>7. Exp(J, im, r) = h[1]
    BY <1>1, <1>5, ExpIs
  <1> QED BY <1>6, <1>7 DEF r

(* Expanded is the replacement of all four.                                *)
LEMMA ExpandedIs ==
  ASSUME NEW im \in Replacements, NEW s \in Texts
  PROVE  Expanded(s, im) = Exp(1..4, im, s)
  <1> DEFINE At(k) == {j \in 1..4 : StartsWith(Rest(s, k - 1), Placeholder[j])}
             After(t, k) == IF k > Len(s) THEN <<>>
                            ELSE IF At(k) = {} THEN <<s[k]>> \o t[k + 1]
                            ELSE im[CHOOSE j \in At(k) : TRUE] \o t[k + 2]
             tail == CHOOSE t : t = [k \in 1..Len(s) + 2 |-> After(t, k)]
  <1>1. Len(s) \in Nat
    BY LengthOfText
  <1>2. Expanded(s, im) = tail[1]
    BY DEF Expanded
  <1>3. ASSUME NEW k \in 1..Len(s) PROVE At(k) = {j \in 1..4 : Here(s, k, j)}
    <2>1. k \in 1..Len(s) + 1
      BY <1>1
    <2> QED BY <2>1, HereIs
  <1>4. ASSUME NEW t, NEW k \in 1..Len(s)
        PROVE  /\ \A j \in 1..4 : Here(s, k, j) => After(t, k) = im[j] \o t[k + 2]
               /\ (\A j \in 1..4 : ~Here(s, k, j)) => After(t, k) = <<s[k]>> \o t[k + 1]
    <2>1. ~(k > Len(s))
      BY <1>1
    <2>2. ASSUME NEW j \in 1..4, Here(s, k, j) PROVE After(t, k) = im[j] \o t[k + 2]
      <3>1. At(k) # {} /\ j \in At(k)
        BY <1>3, <2>2
      <3>2. (CHOOSE i \in At(k) : TRUE) = j
        <4>1. (CHOOSE i \in At(k) : TRUE) \in At(k)
          BY <3>1
        <4> HIDE DEF At
        <4>2. PICK i \in 1..4 : i = (CHOOSE h \in At(k) : TRUE) /\ Here(s, k, i)
          BY <1>3, <4>1
        <4> QED BY <2>2, <4>2, HereOnce
      <3> HIDE DEF At
      <3> QED BY <2>1, <3>1, <3>2
    <2>3. ASSUME \A j \in 1..4 : ~Here(s, k, j) PROVE After(t, k) = <<s[k]>> \o t[k + 1]
      <3>1. At(k) = {}
        BY <1>3, <2>3
      <3> HIDE DEF At
      <3> QED BY <2>1, <3>1
    <2> HIDE DEF After
    <2> QED BY <2>2, <2>3
  <1>5. PICK f : IsTail(1..4, im, s, f)
    BY TailExists
  <1>6. f = [k \in 1..Len(s) + 2 |-> After(f, k)]
    <2>1. ASSUME NEW k \in 1..Len(s) + 2 PROVE f[k] = After(f, k)
      <3>1. CASE k > Len(s)
        BY <3>1, <1>5 DEF IsTail
      <3>2. CASE k \in 1..Len(s)
        <4> HIDE DEF After
        <4>1. k <= Len(s)
          BY <1>1, <3>2
        <4>2. CASE \E j \in 1..4 : Here(s, k, j)
          <5>1. PICK j \in 1..4 : Here(s, k, j)
            BY <4>2
          <5>2. f[k] = im[j] \o f[k + 2]
            BY <1>5, <5>1 DEF IsTail
          <5> QED BY <1>4, <3>2, <5>1, <5>2
        <4>3. CASE \A j \in 1..4 : ~Here(s, k, j)
          <5>1. f[k] = <<s[k]>> \o f[k + 1]
            BY <1>5, <4>1, <4>3 DEF IsTail
          <5> QED BY <1>4, <3>2, <4>3, <5>1
        <4> QED BY <4>2, <4>3
      <3>3. k > Len(s) \/ k \in 1..Len(s)
        BY <1>1
      <3> HIDE DEF After
      <3> QED BY <3>1, <3>2, <3>3
    <2>2. f = [k \in 1..Len(s) + 2 |-> f[k]]
      BY <1>5 DEF IsTail
    <2> HIDE DEF After
    <2> QED BY <2>1, <2>2
  <1>7. tail = [k \in 1..Len(s) + 2 |-> After(tail, k)]
    <2> HIDE DEF After
    <2> QED BY <1>6
  <1> HIDE DEF tail
  <1> DEFINE G == {k \in 1..Len(s) + 2 : tail[k] = f[k]}
  <1>8. \A k \in 1..Len(s) + 2 : k \in G
    <2>1. ASSUME NEW k \in 1..Len(s) + 2, k > Len(s) PROVE tail[k] = f[k]
      <3>1. tail[k] = After(tail, k)
        <4> HIDE DEF After
        <4> QED BY <1>7
      <3>2. After(tail, k) = <<>>
        BY <2>1
      <3>3. f[k] = <<>>
        BY <1>5, <2>1 DEF IsTail
      <3> QED BY <3>1, <3>2, <3>3
    <2>2. Len(s) + 1 \in G /\ Len(s) + 2 \in G
      BY <1>1, <2>1
    <2>3. ASSUME NEW k \in 1..Len(s), k + 1 \in G, k + 2 \in G PROVE k \in G
      <3> HIDE DEF After
      <3>1. k \in 1..Len(s) + 2
        BY <1>1
      <3>2. tail[k] = After(tail, k) /\ f[k] = After(f, k)
        BY <1>6, <1>7, <3>1
      <3>3. tail[k + 1] = f[k + 1] /\ tail[k + 2] = f[k + 2]
        BY <2>3
      <3>4. CASE \E j \in 1..4 : Here(s, k, j)
        <4>1. PICK j \in 1..4 : Here(s, k, j)
          BY <3>4
        <4>2. After(tail, k) = im[j] \o tail[k + 2] /\ After(f, k) = im[j] \o f[k + 2]
          BY <1>4, <4>1
        <4> QED BY <3>1, <3>2, <3>3, <4>2
      <3>5. CASE \A j \in 1..4 : ~Here(s, k, j)
        <4>1. After(tail, k) = <<s[k]>> \o tail[k + 1] /\ After(f, k) = <<s[k]>> \o f[k + 1]
          BY <1>4, <3>5
        <4> QED BY <3>1, <3>2, <3>3, <4>1
      <3> QED BY <3>4, <3>5
    <2> HIDE DEF G
    <2> QED BY <1>1, <2>2, <2>3, DownTo
  <1>9. tail[1] = f[1]
    <2>1. 1 \in 1..Len(s) + 2
      BY <1>1
    <2> QED BY <1>8, <2>1
  <1>10. Exp(1..4, im, s) = f[1]
    BY <1>5, ExpIs
  <1> QED BY <1>2, <1>9, <1>10

LEMMA TextsJoin ==
  ASSUME NEW a \in Texts, NEW b \in Texts, NEW c \in Texts
  PROVE  (a \o b) \o c = a \o (b \o c) /\ a \o <<>> = a /\ <<>> \o a = a
  BY ConcatAssociative, ConcatEmptySeq DEF Texts

(* Replacing in two texts one after the other is replacing in their        *)
(* concatenation, unless a % ends the first.                               *)
LEMMA ExpConcat ==
  ASSUME NEW J \in SUBSET (1..4), NEW im \in Replacements,
         NEW a \in Texts, NEW b \in Texts, a = <<>> \/ a[Len(a)] # "%"
  PROVE  Exp(J, im, a \o b) = Exp(J, im, a) \o Exp(J, im, b)
  <1>1. PICK n \in Nat : n = Len(a)
    BY LengthOfText
  <1>2. PICK ab \in Texts : ab = a \o b
    BY JoinOfTexts
  <1>3. /\ Len(b) \in Nat /\ Len(ab) = n + Len(b)
        /\ \A i \in 1..n : ab[i] = a[i] /\ a[i] \in Symbols
        /\ Rest(ab, n) = b /\ n \in 0..Len(ab)
    <2>1. /\ Len(ab) = Len(a) + Len(b) /\ Rest(ab, Len(a)) = b
          /\ \A i \in 1..Len(a) : ab[i] = a[i]
      BY <1>2, JoinOfTexts
    <2>2. /\ Len(a) \in Nat /\ Len(b) \in Nat
          /\ \A i \in 1..Len(a) : a[i] \in Symbols
      BY LengthOfText
    <2> QED BY <1>1, <2>1, <2>2
  <1>4. PICK f : IsTail(J, im, a, f)
    BY TailExists
  <1>5. PICK h : IsTail(J, im, ab, h)
    BY TailExists
  <1>6. PICK e : e = h[n + 1]
    OBVIOUS
  <1>7. e = Exp(J, im, b) /\ e \in Texts
    <2>1. e = Exp(J, im, b)
      BY <1>3, <1>5, <1>6, TailOfRest
    <2>2. n + 1 \in 1..Len(ab) + 2
      BY <1>3
    <2> QED BY <1>5, <1>6, <2>1, <2>2 DEF IsTail
  <1>8. \A x, y \in Texts : (x \o y) \o e = x \o (y \o e)
    <2>1. e \in Texts
      BY <1>7
    <2> QED BY <2>1, TextsJoin
  <1>9. ASSUME NEW k \in 1..n, NEW j \in J
        PROVE  Here(ab, k, j) <=> Here(a, k, j)
    <2>1. CASE k < n
      <3>1. k + 1 \in 1..n /\ k < Len(ab)
        BY <1>3, <2>1
      <3> QED BY <1>1, <1>3, <2>1, <3>1 DEF Here
    <2>2. CASE k = n
      <3>1. a # <<>>
        BY <1>1, <2>2, LengthOfText
      <3>2. a[k] # "%"
        BY <1>1, <2>2, <3>1
      <3> QED BY <1>3, <3>2 DEF Here
    <2> QED BY <2>1, <2>2
  <1> DEFINE G == {k \in 1..n + 2 : k <= n + 1 => h[k] = f[k] \o e}
  <1>10. n + 1 \in G /\ n + 2 \in G
    <2>1. f[n + 1] = <<>>
      <3>1. n + 1 \in 1..Len(a) + 2 /\ n + 1 > Len(a)
        BY <1>1
      <3> QED BY <1>4, <3>1 DEF IsTail
    <2>2. h[n + 1] = f[n + 1] \o e
      BY <1>6, <1>7, <2>1, TextsJoin
    <2> QED BY <2>2
  <1>11. ASSUME NEW k \in 1..n, k + 1 \in G, k + 2 \in G
         PROVE  k \in G
    <2>1. /\ k \in 1..Len(a) + 2 /\ k <= Len(a)
          /\ k \in 1..Len(ab) + 2 /\ k <= Len(ab)
          /\ k + 1 \in 1..Len(a) + 2 /\ k + 2 \in 1..Len(a) + 2
      BY <1>1, <1>3
    <2>2. h[k + 1] = f[k + 1] \o e
      BY <1>11
    <2>3. f[k + 1] \in Texts /\ f[k + 2] \in Texts
      BY <1>4, <2>1 DEF IsTail
    <2>4. CASE \E j \in J : Here(a, k, j)
      <3>1. PICK j \in J : Here(a, k, j) /\ Here(ab, k, j)
        BY <1>9, <2>4
      <3>2. h[k + 2] = f[k + 2] \o e
        <4>1. k + 2 <= n + 1
          BY <1>1, <3>1 DEF Here
        <4> QED BY <1>11, <4>1
      <3>3. f[k] = im[j] \o f[k + 2] /\ h[k] = im[j] \o h[k + 2]
        BY <1>4, <1>5, <2>1, <3>1 DEF IsTail
      <3>4. im[j] \in Texts
        BY DEF Replacements
      <3>5. (im[j] \o f[k + 2]) \o e = im[j] \o (f[k + 2] \o e)
        BY <1>8, <2>3, <3>4
      <3>6. h[k] = f[k] \o e
        BY <3>2, <3>3, <3>5
      <3> QED BY <3>6
    <2>5. CASE \A j \in J : ~Here(a, k, j)
      <3>1. \A j \in J : ~Here(ab, k, j)
        BY <1>9, <2>5
      <3>2. f[k] = <<a[k]>> \o f[k + 1] /\ h[k] = <<ab[k]>> \o h[k + 1]
        BY <1>4, <1>5, <2>1, <2>5, <3>1 DEF IsTail
      <3>3. <<a[k]>> \in Texts /\ ab[k] = a[k]
        BY <1>3, OneSymbol
      <3>4. (<<a[k]>> \o f[k + 1]) \o e = <<a[k]>> \o (f[k + 1] \o e)
        BY <1>8, <2>3, <3>3
      <3>5. h[k] = f[k] \o e
        BY <2>2, <3>2, <3>3, <3>4
      <3> QED BY <3>5
    <2> QED BY <2>4, <2>5
  <1>12. \A k \in 1..n + 2 : k \in G
    <2> HIDE DEF G
    <2> QED BY <1>10, <1>11, DownTo
  <1>13. h[1] = f[1] \o e
    <2>1. 1 \in 1..n + 2 /\ 1 <= n + 1
      OBVIOUS
    <2> QED BY <1>12, <2>1
  <1>14. Exp(J, im, ab) = h[1] /\ Exp(J, im, a) = f[1]
    BY <1>4, <1>5, ExpIs
  <1> QED BY <1>2, <1>7, <1>13, <1>14

(* Placeholders that do not occur do not matter.                           *)
LEMMA ExpDrop ==
  ASSUME NEW J \in SUBSET (1..4), NEW K \in SUBSET J, NEW im \in Replacements,
         NEW s \in Texts, \A k \in 1..Len(s) : \A j \in J \ K : ~Here(s, k, j)
  PROVE  Exp(J, im, s) = Exp(K, im, s)
  <1>1. PICK f : IsTail(J, im, s, f)
    BY TailExists
  <1>2. IsTail(K, im, s, f)
    <2>1. ASSUME NEW k \in 1..Len(s) + 2, k <= Len(s), \A j \in K : ~Here(s, k, j)
          PROVE  f[k] = <<s[k]>> \o f[k + 1]
      <3>1. k \in 1..Len(s)
        BY <2>1, LengthOfText
      <3>2. \A j \in J : ~Here(s, k, j)
        BY <2>1, <3>1
      <3> QED BY <1>1, <2>1, <3>2 DEF IsTail
    <2>2. ASSUME NEW k \in 1..Len(s) + 2
          PROVE  /\ k > Len(s) => f[k] = <<>>
                 /\ \A j \in K : Here(s, k, j) => f[k] = im[j] \o f[k + 2]
      BY <1>1 DEF IsTail
    <2>3. f \in [1..Len(s) + 2 -> Texts]
      BY <1>1 DEF IsTail
    <2> QED BY <2>1, <2>2, <2>3 DEF IsTail
  <1>3. K \in SUBSET (1..4)
    OBVIOUS
  <1> QED BY <1>1, <1>2, <1>3, ExpIs

LEMMA ExpPlain ==
  ASSUME NEW J \in SUBSET (1..4), NEW im \in Replacements, NEW s \in Texts,
         \A k \in 1..Len(s) : \A j \in J : ~Here(s, k, j)
  PROVE  Exp(J, im, s) = s
  <1> DEFINE f == [k \in 1..Len(s) + 2 |-> Rest(s, k - 1)]
  <1>1. Len(s) \in Nat /\ \A k \in 1..Len(s) : s[k] \in Symbols
    BY LengthOfText
  <1>2. f \in [1..Len(s) + 2 -> Texts]
    <2>1. \A k \in 1..Len(s) + 2 : Rest(s, k - 1) \in Texts
      BY <1>1, RestOfText
    <2> QED BY <2>1
  <1>3. ASSUME NEW k \in 1..Len(s) + 2
        PROVE  /\ k > Len(s) => f[k] = <<>>
               /\ \A j \in J : ~Here(s, k, j)
               /\ k <= Len(s) => f[k] = <<s[k]>> \o f[k + 1]
    <2>1. f[k] = Rest(s, k - 1)
      OBVIOUS
    <2>2. k > Len(s) => Rest(s, k - 1) = <<>>
      BY <1>1, SubSeqEmpty DEF Rest
    <2>3. \A j \in J : ~Here(s, k, j)
      <3>1. k \in 1..Len(s) \/ ~(k < Len(s))
        BY <1>1
      <3> QED BY <3>1 DEF Here
    <2>4. k <= Len(s) => f[k] = <<s[k]>> \o f[k + 1]
      <3>1. SUFFICES ASSUME k <= Len(s) PROVE f[k] = <<s[k]>> \o f[k + 1]
        OBVIOUS
      <3>2. k + 1 \in 1..Len(s) + 2 /\ (k + 1) - 1 = k /\ (k - 1) + 1 = k
            /\ k \in 1..Len(s) /\ Len(s) \in k..Len(s)
        BY <1>1, <3>1
      <3>3. SubSeq(s, k, Len(s)) = <<s[k]>> \o SubSeq(s, k + 1, Len(s))
        BY <3>2, SubSeqRecursiveFirst DEF Texts
      <3>4. Rest(s, k - 1) = <<s[k]>> \o Rest(s, k)
        BY <3>2, <3>3 DEF Rest
      <3>5. f[k + 1] = Rest(s, k)
        BY <3>2
      <3> HIDE DEF f
      <3> QED BY <2>1, <3>4, <3>5
    <2> HIDE DEF f
    <2> QED BY <2>1, <2>2, <2>3, <2>4
  <1>4. IsTail(J, im, s, f)
    <2> HIDE DEF f
    <2> QED BY <1>2, <1>3 DEF IsTail
  <1>5. f[1] = s
    <2>1. 1 \in 1..Len(s) + 2 /\ 1 - 1 = 0 /\ 0 + 1 = 1
      BY <1>1
    <2>2. Rest(s, 0) = s
      BY <2>1, SubSeqFull DEF Rest, Texts
    <2> QED BY <2>1, <2>2
  <1> HIDE DEF f
  <1> QED BY <1>4, <1>5, ExpIs

(* Lengths, when no replacement is shorter than a placeholder.             *)
LEMMA ExpGrows ==
  ASSUME NEW J \in SUBSET (1..4), NEW im \in Replacements, NEW s \in Texts,
         \A j \in 1..4 : Len(im[j]) >= 2
  PROVE  Len(Exp(J, im, s)) >= Len(s)
  <1>1. PICK n \in Nat : n = Len(s)
    BY LengthOfText
  <1>2. PICK f : IsTail(J, im, s, f)
    BY TailExists
  <1>3. ASSUME NEW k \in 1..n + 2 PROVE f[k] \in Texts /\ Len(f[k]) \in Nat
    BY <1>1, <1>2, LengthOfText DEF IsTail
  <1> DEFINE G == {k \in 1..n + 2 : Len(f[k]) >= (n + 1) - k}
  <1>4. n + 1 \in G /\ n + 2 \in G
    <2>1. Len(f[n + 1]) \in Nat /\ Len(f[n + 2]) \in Nat
      BY <1>3
    <2> QED BY <2>1
  <1>5. ASSUME NEW k \in 1..n, k + 1 \in G, k + 2 \in G PROVE k \in G
    <2>1. /\ k \in 1..Len(s) + 2 /\ k <= Len(s) /\ k \in 1..Len(s)
          /\ k + 1 \in 1..n + 2 /\ k + 2 \in 1..n + 2
      BY <1>1
    <2>2. Len(f[k + 1]) >= (n + 1) - (k + 1) /\ Len(f[k + 2]) >= (n + 1) - (k + 2)
      BY <1>5
    <2>3. CASE \E j \in J : Here(s, k, j)
      <3>1. PICK j \in J : Here(s, k, j)
        BY <2>3
      <3>2. f[k] = im[j] \o f[k + 2] /\ im[j] \in Texts /\ Len(im[j]) >= 2
        BY <1>2, <2>1, <3>1 DEF IsTail, Replacements
      <3>3. Len(f[k]) = Len(im[j]) + Len(f[k + 2])
        BY <1>3, <2>1, <3>2, JoinOfTexts
      <3>4. Len(im[j]) \in Nat /\ Len(f[k + 2]) \in Nat
        BY <1>3, <2>1, <3>2, LengthOfText
      <3> HIDE DEF G
      <3>5. Len(im[j]) >= 2
        BY <3>2
      <3>6. Len(f[k]) >= (n + 1) - k
        <4>1. \A x, y \in Nat : x >= 2 /\ y >= (n + 1) - (k + 2) => x + y >= (n + 1) - k
          OBVIOUS
        <4> QED BY <2>2, <3>3, <3>4, <3>5, <4>1
      <3> QED BY <3>6 DEF G
    <2>4. CASE \A j \in J : ~Here(s, k, j)
      <3>1. f[k] = <<s[k]>> \o f[k + 1]
        BY <1>2, <2>1, <2>4 DEF IsTail
      <3>2. <<s[k]>> \in Texts /\ Len(<<s[k]>>) = 1
        BY <2>1, LengthOfText, OneSymbol
      <3>3. Len(f[k]) = 1 + Len(f[k + 1])
        BY <1>3, <2>1, <3>1, <3>2, JoinOfTexts
      <3>4. Len(f[k]) >= (n + 1) - k
        BY <1>3, <2>1, <2>2, <3>3
      <3> QED BY <3>4
    <2> QED BY <2>3, <2>4
  <1>6. \A k \in 1..n + 2 : k \in G
    <2> HIDE DEF G
    <2> QED BY <1>4, <1>5, DownTo
  <1>7. Len(f[1]) >= n
    <2>1. 1 \in 1..n + 2 /\ (n + 1) - 1 = n
      OBVIOUS
    <2> QED BY <1>6, <2>1
  <1> QED BY <1>1, <1>2, <1>7, ExpIs

(* When each placeholder stands at one place at most, what is added is no  *)
(* more than all the replacements.                                         *)
Added(im) == ((Len(im[1]) - 2) + (Len(im[2]) - 2)) + ((Len(im[3]) - 2) + (Len(im[4]) - 2))

LEMMA ExpBound ==
  ASSUME NEW im \in Replacements, NEW s \in Texts,
         \A j \in 1..4 : Len(im[j]) >= 2,
         \A j \in 1..4 : \A h, i \in 1..Len(s) : Here(s, h, j) /\ Here(s, i, j) => h = i
  PROVE  Len(Exp(1..4, im, s)) <= Len(s) + Added(im)
  <1>0. 1 \in 1..4 /\ 2 \in 1..4 /\ 3 \in 1..4 /\ 4 \in 1..4
    OBVIOUS
  <1>1. PICK n \in Nat : n = Len(s)
    BY LengthOfText
  <1>2. PICK f : IsTail(1..4, im, s, f)
    BY TailExists
  <1>3. ASSUME NEW k \in 1..n + 2 PROVE f[k] \in Texts /\ Len(f[k]) \in Nat
    BY <1>1, <1>2, LengthOfText DEF IsTail
  <1>4. ASSUME NEW j \in 1..4
        PROVE  im[j] \in Texts /\ Len(im[j]) \in Nat /\ Len(im[j]) - 2 \in Nat
    <2>1. im[j] \in Texts
      BY DEF Replacements
    <2> QED BY <2>1, LengthOfText
  <1> DEFINE W(j, k)  == IF \E i \in k..n : Here(s, i, j) THEN Len(im[j]) - 2 ELSE 0
             total(k) == (W(1, k) + W(2, k)) + (W(3, k) + W(4, k))
             G == {k \in 1..n + 2 : k <= n + 1 => Len(f[k]) <= ((n + 1) - k) + total(k)}
  <1>5. ASSUME NEW j \in 1..4, NEW k \in 1..n + 2
        PROVE  W(j, k) \in Nat /\ W(j, k) <= Len(im[j]) - 2
    BY <1>4
  <1>6. ASSUME NEW j \in 1..4, NEW k \in 1..n + 2, NEW m \in 1..n + 2, k <= m
        PROVE  W(j, m) <= W(j, k)
    <2>1. \A i \in m..n : i \in k..n
      BY <1>6
    <2>2. (\E i \in m..n : Here(s, i, j)) => \E i \in k..n : Here(s, i, j)
      BY <2>1
    <2> QED BY <1>4, <2>2
  <1>7. ASSUME NEW j \in 1..4, NEW k \in 1..n, Here(s, k, j)
        PROVE  W(j, k) = Len(im[j]) - 2 /\ W(j, k + 2) = 0
    <2>1. k \in k..n /\ k \in 1..Len(s)
      BY <1>1
    <2>2. \A i \in (k + 2)..n : i \in 1..Len(s) /\ i # k
      BY <1>1
    <2>3. ~ \E i \in (k + 2)..n : Here(s, i, j)
      BY <1>7, <2>1, <2>2
    <2> QED BY <1>7, <2>1, <2>3
  <1> HIDE DEF W
  <1>8. ASSUME NEW k \in 1..n + 2 PROVE total(k) \in Nat /\ total(k) <= Added(im)
    <2>1. /\ W(1, k) \in Nat /\ W(1, k) <= Len(im[1]) - 2
          /\ W(2, k) \in Nat /\ W(2, k) <= Len(im[2]) - 2
          /\ W(3, k) \in Nat /\ W(3, k) <= Len(im[3]) - 2
          /\ W(4, k) \in Nat /\ W(4, k) <= Len(im[4]) - 2
      BY <1>0, <1>5, Zenon
    <2>2. Len(im[1]) \in Nat /\ Len(im[2]) \in Nat /\ Len(im[3]) \in Nat /\ Len(im[4]) \in Nat
      BY <1>4
    <2>3. \A a, b, c, d, p, q, r, t \in Nat :
            a <= p /\ b <= q /\ c <= r /\ d <= t =>
              (a + b) + (c + d) \in Nat /\ (a + b) + (c + d) <= (p + q) + (r + t)
      OBVIOUS
    <2>4. /\ Len(im[1]) - 2 \in Nat /\ Len(im[2]) - 2 \in Nat
          /\ Len(im[3]) - 2 \in Nat /\ Len(im[4]) - 2 \in Nat
      BY <1>4
    <2> QED BY <2>1, <2>3, <2>4, Zenon DEF Added
  <1>9. ASSUME NEW k \in 1..n PROVE total(k + 1) <= total(k)
    <2>1. k \in 1..n + 2 /\ k + 1 \in 1..n + 2 /\ k <= k + 1
      OBVIOUS
    <2>2. /\ W(1, k + 1) <= W(1, k) /\ W(2, k + 1) <= W(2, k)
          /\ W(3, k + 1) <= W(3, k) /\ W(4, k + 1) <= W(4, k)
      BY <1>0, <1>6, <2>1, Zenon
    <2>3. /\ W(1, k) \in Nat /\ W(2, k) \in Nat /\ W(3, k) \in Nat /\ W(4, k) \in Nat
          /\ W(1, k + 1) \in Nat /\ W(2, k + 1) \in Nat
          /\ W(3, k + 1) \in Nat /\ W(4, k + 1) \in Nat
      BY <1>0, <1>5, <2>1, Zenon
    <2> QED BY <2>2, <2>3
  <1>10. ASSUME NEW k \in 1..n, NEW j \in 1..4, Here(s, k, j)
         PROVE  total(k + 2) + (Len(im[j]) - 2) <= total(k)
    <2>1. k \in 1..n + 2 /\ k + 2 \in 1..n + 2 /\ k <= k + 2
      OBVIOUS
    <2>2. /\ W(1, k + 2) <= W(1, k) /\ W(2, k + 2) <= W(2, k)
          /\ W(3, k + 2) <= W(3, k) /\ W(4, k + 2) <= W(4, k)
      BY <1>0, <1>6, <2>1, Zenon
    <2>3. /\ W(1, k) \in Nat /\ W(2, k) \in Nat /\ W(3, k) \in Nat /\ W(4, k) \in Nat
          /\ W(1, k + 2) \in Nat /\ W(2, k + 2) \in Nat
          /\ W(3, k + 2) \in Nat /\ W(4, k + 2) \in Nat
      BY <1>0, <1>5, <2>1, Zenon
    <2>4. W(j, k) = Len(im[j]) - 2 /\ W(j, k + 2) = 0
      BY <1>7, <1>10
    <2>0. \A a, b, c, d, p, q, r, t \in Nat :
            p <= a /\ q <= b /\ r <= c /\ t <= d =>
              /\ p = 0 => ((p + q) + (r + t)) + a <= (a + b) + (c + d)
              /\ q = 0 => ((p + q) + (r + t)) + b <= (a + b) + (c + d)
              /\ r = 0 => ((p + q) + (r + t)) + c <= (a + b) + (c + d)
              /\ t = 0 => ((p + q) + (r + t)) + d <= (a + b) + (c + d)
      OBVIOUS
    <2>5. W(1, k + 2) = 0 => total(k + 2) + W(1, k) <= total(k)
      BY <2>0, <2>2, <2>3, Zenon
    <2>6. W(2, k + 2) = 0 => total(k + 2) + W(2, k) <= total(k)
      BY <2>0, <2>2, <2>3, Zenon
    <2>7. W(3, k + 2) = 0 => total(k + 2) + W(3, k) <= total(k)
      BY <2>0, <2>2, <2>3, Zenon
    <2>8. W(4, k + 2) = 0 => total(k + 2) + W(4, k) <= total(k)
      BY <2>0, <2>2, <2>3, Zenon
    <2>9. j = 1 \/ j = 2 \/ j = 3 \/ j = 4
      OBVIOUS
    <2> HIDE DEF total
    <2>10. total(k + 2) + W(j, k) <= total(k)
      BY <2>4, <2>5, <2>6, <2>7, <2>8, <2>9
    <2> QED BY <2>4, <2>10
  <1> HIDE DEF total
  <1>11. n + 1 \in G /\ n + 2 \in G
    <2>1. f[n + 1] = <<>>
      <3>1. n + 1 \in 1..Len(s) + 2 /\ n + 1 > Len(s)
        BY <1>1
      <3> QED BY <1>2, <3>1 DEF IsTail
    <2>2. total(n + 1) \in Nat
      BY <1>8
    <2>3. Len(f[n + 1]) = 0
      BY <2>1, NoSymbol
    <2>4. Len(f[n + 1]) <= ((n + 1) - (n + 1)) + total(n + 1)
      BY <2>2, <2>3
    <2> QED BY <2>4
  <1>12. ASSUME NEW k \in 1..n, k + 1 \in G, k + 2 \in G PROVE k \in G
    <2>1. /\ k \in 1..Len(s) + 2 /\ k <= Len(s) /\ k \in 1..Len(s)
          /\ k \in 1..n + 2 /\ k + 1 \in 1..n + 2 /\ k + 2 \in 1..n + 2
      BY <1>1
    <2>2. /\ total(k) \in Nat /\ total(k + 1) \in Nat /\ total(k + 2) \in Nat
          /\ Len(f[k]) \in Nat /\ Len(f[k + 1]) \in Nat /\ Len(f[k + 2]) \in Nat
      BY <1>3, <1>8, <2>1
    <2>3. Len(f[k + 1]) <= ((n + 1) - (k + 1)) + total(k + 1)
      BY <1>12
    <2>4. CASE \E j \in 1..4 : Here(s, k, j)
      <3>1. PICK j \in 1..4 : Here(s, k, j)
        BY <2>4
      <3>2. Len(f[k + 2]) <= ((n + 1) - (k + 2)) + total(k + 2)
        <4>1. k + 2 <= n + 1
          BY <1>1, <3>1 DEF Here
        <4> QED BY <1>12, <4>1
      <3>3. f[k] = im[j] \o f[k + 2]
        BY <1>2, <2>1, <3>1 DEF IsTail
      <3>4. Len(f[k]) = Len(im[j]) + Len(f[k + 2])
        BY <1>3, <1>4, <2>1, <3>3, JoinOfTexts
      <3>5. total(k + 2) + (Len(im[j]) - 2) <= total(k) /\ Len(im[j]) \in Nat
        BY <1>4, <1>10, <3>1
      <3>6. Len(f[k]) <= ((n + 1) - k) + total(k)
        <4>1. \A x, y, t, u \in Nat :
                y <= ((n + 1) - (k + 2)) + t /\ t + (x - 2) <= u
                => x + y <= ((n + 1) - k) + u
          OBVIOUS
        <4> QED BY <2>2, <3>2, <3>4, <3>5, <4>1
      <3> QED BY <2>1, <3>6
    <2>5. CASE \A j \in 1..4 : ~Here(s, k, j)
      <3>1. f[k] = <<s[k]>> \o f[k + 1]
        BY <1>2, <2>1, <2>5 DEF IsTail
      <3>2. <<s[k]>> \in Texts /\ Len(<<s[k]>>) = 1
        BY <2>1, LengthOfText, OneSymbol
      <3>3. Len(f[k]) = 1 + Len(f[k + 1])
        BY <1>3, <2>1, <3>1, <3>2, JoinOfTexts
      <3>4. total(k + 1) <= total(k)
        BY <1>9
      <3>5. Len(f[k]) <= ((n + 1) - k) + total(k)
        BY <2>2, <2>3, <3>3, <3>4
      <3> QED BY <2>1, <3>5
    <2> QED BY <2>4, <2>5
  <1>13. \A k \in 1..n + 2 : k \in G
    <2> HIDE DEF G
    <2> QED BY <1>11, <1>12, DownTo
  <1>14. Len(f[1]) <= n + total(1)
    <2>1. 1 \in 1..n + 2 /\ 1 <= n + 1 /\ (n + 1) - 1 = n
      OBVIOUS
    <2> QED BY <1>13, <2>1
  <1>15. total(1) \in Nat /\ total(1) <= Added(im) /\ Len(f[1]) \in Nat /\ Added(im) \in Int
    <2>1. 1 \in 1..n + 2
      OBVIOUS
    <2>2. /\ Len(im[1]) \in Nat /\ Len(im[2]) \in Nat
          /\ Len(im[3]) \in Nat /\ Len(im[4]) \in Nat
      BY <1>4
    <2>3. Added(im) \in Int
      BY <2>2 DEF Added
    <2> QED BY <1>3, <1>8, <2>1, <2>3
  <1>16. Len(f[1]) <= n + Added(im)
    BY <1>14, <1>15
  <1>17. Exp(1..4, im, s) = f[1]
    BY <1>2, ExpIs
  <1> QED BY <1>1, <1>16, <1>17

-----------------------------------------------------------------------------
(* Texts in which every % begins a placeholder.                            *)
Tidy(s) == \A k \in 1..Len(s) : s[k] = "%" => \E j \in 1..4 : Here(s, k, j)

LEMMA TidyEnd ==
  ASSUME NEW s \in Texts, Tidy(s)
  PROVE  s = <<>> \/ s[Len(s)] # "%"
  <1>1. SUFFICES ASSUME s # <<>>, s[Len(s)] = "%" PROVE FALSE
    OBVIOUS
  <1>2. Len(s) \in 1..Len(s)
    BY <1>1, LengthOfText
  <1> QED BY <1>1, <1>2, LengthOfText DEF Tidy, Here

LEMMA TidyPlain ==
  ASSUME NEW s \in Texts, ~Holds(s, "%")
  PROVE  Tidy(s)
  BY LengthOfText DEF Tidy, Holds

LEMMA TidyConcat ==
  ASSUME NEW a \in Texts, NEW b \in Texts, Tidy(a), Tidy(b)
  PROVE  Tidy(a \o b)
  <1>1. Len(a) \in Nat /\ Len(b) \in Nat
    BY LengthOfText
  <1>2. PICK c : c = a \o b
    OBVIOUS
  <1>3. /\ Len(c) = Len(a) + Len(b)
        /\ \A i \in 1..Len(a) : c[i] = a[i]
        /\ \A i \in 1..Len(b) : c[Len(a) + i] = b[i]
    BY <1>2, JoinOfTexts
  <1>4. ASSUME NEW k \in 1..Len(c), c[k] = "%"
        PROVE  \E j \in 1..4 : Here(c, k, j)
    <2>1. CASE k \in 1..Len(a)
      <3>1. a[k] = "%"
        BY <1>3, <1>4, <2>1
      <3>2. PICK j \in 1..4 : Here(a, k, j)
        BY <2>1, <3>1 DEF Tidy
      <3>3. k + 1 \in 1..Len(a) /\ k < Len(c)
        BY <1>1, <1>3, <2>1, <3>2 DEF Here
      <3>4. Here(c, k, j)
        BY <1>3, <2>1, <3>2, <3>3 DEF Here
      <3> QED BY <3>4
    <2>2. CASE k \notin 1..Len(a)
      <3>1. PICK i \in 1..Len(b) : k = Len(a) + i
        <4>1. k - Len(a) \in 1..Len(b) /\ k = Len(a) + (k - Len(a))
          BY <1>1, <1>3, <2>2
        <4> QED BY <4>1
      <3>2. b[i] = "%"
        BY <1>3, <1>4, <3>1
      <3>3. PICK j \in 1..4 : Here(b, i, j)
        BY <3>2 DEF Tidy
      <3>4. i + 1 \in 1..Len(b) /\ k < Len(c) /\ k + 1 = Len(a) + (i + 1)
        BY <1>1, <1>3, <3>1, <3>3 DEF Here
      <3>5. c[k + 1] = b[i + 1]
        BY <1>3, <3>4
      <3>6. Here(c, k, j)
        BY <1>4, <3>3, <3>4, <3>5 DEF Here
      <3> QED BY <3>6
    <2> QED BY <2>1, <2>2
  <1>5. Tidy(c)
    BY <1>4 DEF Tidy
  <1> QED BY <1>2, <1>5

LEMMA TidyRest ==
  ASSUME NEW s \in Texts, Tidy(s), NEW m \in 0..Len(s)
  PROVE  Tidy(Rest(s, m))
  <1>1. Len(s) \in Nat
    BY LengthOfText
  <1>2. /\ Len(Rest(s, m)) = Len(s) - m
        /\ \A i \in 1..(Len(s) - m) : Rest(s, m)[i] = s[m + i]
    BY PartsOfText
  <1>3. ASSUME NEW k \in 1..(Len(s) - m), Rest(s, m)[k] = "%"
        PROVE  \E j \in 1..4 : Here(Rest(s, m), k, j)
    <2>1. m + k = k + m /\ k + m \in 1..Len(s)
      BY <1>1
    <2>2. s[k + m] = "%"
      BY <1>2, <1>3, <2>1
    <2>3. PICK j \in 1..4 : Here(s, k + m, j)
      BY <2>1, <2>2 DEF Tidy
    <2>4. Here(Rest(s, m), k, j)
      BY <2>3, HereOfRest
    <2> QED BY <2>4
  <1> QED BY <1>2, <1>3 DEF Tidy

LEMMA TidyPrefix ==
  ASSUME NEW s \in Texts, Tidy(s), NEW q \in 0..Len(s), q < Len(s) => s[q + 1] = "%"
  PROVE  Tidy(Prefix(s, q))
  <1>1. Len(s) \in Nat
    BY LengthOfText
  <1>2. Len(Prefix(s, q)) = q /\ \A i \in 1..q : Prefix(s, q)[i] = s[i]
    BY PartsOfText
  <1>3. ASSUME NEW k \in 1..q, Prefix(s, q)[k] = "%"
        PROVE  \E j \in 1..4 : Here(Prefix(s, q), k, j)
    <2>1. k \in 1..Len(s) /\ s[k] = "%"
      BY <1>1, <1>2, <1>3
    <2>2. PICK j \in 1..4 : Here(s, k, j)
      BY <2>1 DEF Tidy
    <2>3. s[k + 1] # "%" /\ k < Len(s)
      BY <2>2, Letters DEF Here
    <2>4. k < q
      BY <1>1, <2>3
    <2>5. Prefix(s, q)[k + 1] = s[k + 1]
      <3>1. k + 1 \in 1..q
        BY <2>4
      <3> QED BY <1>2, <3>1
    <2>6. Here(Prefix(s, q), k, j)
      BY <1>2, <1>3, <2>2, <2>4, <2>5 DEF Here
    <2> QED BY <2>6
  <1> QED BY <1>2, <1>3 DEF Tidy

-----------------------------------------------------------------------------
(* The placeholders that are left from pass p on.                          *)
Later(p) == {j \in 1..4 : j >= p}

LEMMA LaterAre ==
  /\ \A p \in 1..5 : Later(p) \in SUBSET (1..4)
  /\ \A p \in 1..4 : p \in Later(p) /\ Later(p) = Later(p + 1) \cup {p}
  /\ Later(1) = 1..4 /\ Later(5) = {}
  BY DEF Later

(* One occurrence of the placeholder of a pass: before it there is none.   *)
LEMMA FirstPlace ==
  ASSUME NEW p \in 1..4, NEW s \in Texts, Occurrences(s, Placeholder[p]) # {},
         NEW q, q = Smallest(Occurrences(s, Placeholder[p]))
  PROVE  /\ q \in 0..Len(s) /\ q + 2 \in 0..Len(s) /\ Here(s, q + 1, p)
         /\ \A k \in 1..q : ~Here(s, k, p)
  <1>1. Len(s) \in Nat
    BY LengthOfText
  <1>2. PICK S \in SUBSET Nat : S = Occurrences(s, Placeholder[p])
    BY <1>1, OccurrencesAre
  <1>3. q \in S /\ \A i \in S : q <= i
    BY <1>2, SmallestExists
  <1>4. S = {i \in 0..Len(s) : Here(s, i + 1, p)}
    BY <1>2, OccurrencesAre
  <1>5. q \in 0..Len(s) /\ Here(s, q + 1, p)
    BY <1>3, <1>4
  <1>6. q + 2 \in 0..Len(s)
    BY <1>1, <1>5 DEF Here
  <1>7. ASSUME NEW k \in 1..q, Here(s, k, p) PROVE FALSE
    <2>1. k - 1 \in 0..Len(s) /\ (k - 1) + 1 = k /\ ~(q <= k - 1)
      BY <1>1, <1>5
    <2>2. k - 1 \in S
      BY <1>4, <1>7, <2>1
    <2> QED BY <1>3, <2>1, <2>2
  <1> QED BY <1>5, <1>6, <1>7

LEMMA SplitThere ==
  ASSUME NEW p \in 1..4, NEW s \in Texts, Tidy(s),
         NEW q \in 0..Len(s), q + 2 \in 0..Len(s), Here(s, q + 1, p),
         \A k \in 1..q : ~Here(s, k, p),
         NEW im \in Replacements
  PROVE  Exp(Later(p), im, s)
           = Exp(Later(p + 1), im, Prefix(s, q)) \o (im[p] \o Exp(Later(p), im, Rest(s, q + 2)))
  <1>1. Len(s) \in Nat
    BY LengthOfText
  <1>2. p + 1 \in 1..5 /\ p \in 1..5
    OBVIOUS
  <1>3. Later(p) \in SUBSET (1..4) /\ Later(p + 1) \in SUBSET Later(p) /\ p \in Later(p)
        /\ \A j \in Later(p) \ Later(p + 1) : j = p
    BY <1>2, LaterAre
  <1>4. /\ Prefix(s, q) \in Texts /\ Rest(s, q) \in Texts /\ s = Prefix(s, q) \o Rest(s, q)
        /\ Len(Prefix(s, q)) = q /\ \A i \in 1..q : Prefix(s, q)[i] = s[i]
    BY PartsOfText
  <1>5. Tidy(Prefix(s, q))
    BY TidyPrefix DEF Here
  <1>6. Exp(Later(p), im, s) = Exp(Later(p), im, Prefix(s, q)) \o Exp(Later(p), im, Rest(s, q))
    <2>1. PICK a \in Texts, b \in Texts : a = Prefix(s, q) /\ b = Rest(s, q)
      BY <1>4
    <2>2. a = <<>> \/ a[Len(a)] # "%"
      BY <1>5, <2>1, TidyEnd
    <2>3. Exp(Later(p), im, a \o b) = Exp(Later(p), im, a) \o Exp(Later(p), im, b)
      BY <1>3, <2>2, ExpConcat
    <2> QED BY <1>4, <2>1, <2>3
  <1>7. Exp(Later(p), im, Prefix(s, q)) = Exp(Later(p + 1), im, Prefix(s, q))
    <2>1. ASSUME NEW k \in 1..q PROVE ~Here(Prefix(s, q), k, p)
      <3>1. SUFFICES ASSUME Here(Prefix(s, q), k, p) PROVE FALSE
        OBVIOUS
      <3>2. k < q /\ k + 1 \in 1..q /\ k < Len(s)
        BY <1>1, <1>4, <3>1 DEF Here
      <3>3. Here(s, k, p)
        BY <1>4, <3>1, <3>2 DEF Here
      <3> QED BY <3>3
    <2>2. \A k \in 1..Len(Prefix(s, q)) : \A j \in Later(p) \ Later(p + 1) :
            ~Here(Prefix(s, q), k, j)
      BY <1>3, <1>4, <2>1
    <2> QED BY <1>3, <1>4, <2>2, ExpDrop
  <1>8. Exp(Later(p), im, Rest(s, q)) = im[p] \o Exp(Later(p), im, Rest(s, q + 2))
    <2>1. PICK f : IsTail(Later(p), im, s, f)
      BY <1>3, TailExists
    <2>2. /\ Exp(Later(p), im, Rest(s, q)) = f[q + 1]
          /\ Exp(Later(p), im, Rest(s, q + 2)) = f[(q + 2) + 1]
      BY <1>3, <2>1, TailOfRest
    <2>3. q + 1 \in 1..Len(s) + 2 /\ (q + 2) + 1 = (q + 1) + 2
      BY <1>1
    <2>4. f[q + 1] = im[p] \o f[(q + 1) + 2]
      BY <1>3, <2>1, <2>3 DEF IsTail
    <2> QED BY <2>2, <2>3, <2>4
  <1> QED BY <1>6, <1>7, <1>8

-----------------------------------------------------------------------------
(* What the substitutions keep, in pass p, when fr is still to be read and *)
(* de is written: with all that is left to be replaced in both they are    *)
(* the command that was documented, and they are not too long.  For the    *)
(* length the replacements are taken with two blanks more, so that none is *)
(* shorter than what it replaces.                                          *)
Pad(im) == [j \in 1..4 |-> im[j] \o <<" ", " ">>]

Sum(im) == (Len(im[1]) + Len(im[2])) + (Len(im[3]) + Len(im[4]))

Expanding(command, im, p, fr, de) ==
  /\ Tidy(fr)
  /\ p < 4 => Tidy(de)
  /\ Exp(Later(p + 1), im, de) \o Exp(Later(p), im, fr) = Expanded(command, im)
  /\ Len(Exp(Later(p + 1), Pad(im), de)) + Len(Exp(Later(p), Pad(im), fr))
       <= Len(command) + Sum(im)

LEMMA PadIs ==
  ASSUME NEW im \in Replacements
  PROVE  /\ Pad(im) \in Replacements
         /\ \A j \in 1..4 : Len(Pad(im)[j]) = Len(im[j]) + 2 /\ Len(Pad(im)[j]) >= 2
         /\ Added(Pad(im)) = Sum(im)
         /\ Sum(im) \in Nat
  <1>1. <<" ", " ">> \in Texts /\ Len(<<" ", " ">>) = 2
    <2>1. \A x \in Symbols : <<x, x>> \in Texts /\ Len(<<x, x>>) = 2
      BY DEF Texts
    <2> QED BY <2>1, SymbolAssumption
  <1>2. ASSUME NEW j \in 1..4
        PROVE  /\ Pad(im)[j] \in Texts /\ Len(Pad(im)[j]) = Len(im[j]) + 2
               /\ Len(im[j]) \in Nat
    <2>1. im[j] \in Texts
      BY DEF Replacements
    <2>2. Pad(im)[j] = im[j] \o <<" ", " ">>
      BY DEF Pad
    <2>3. \A a, b \in Texts : a \o b \in Texts /\ Len(a \o b) = Len(a) + Len(b)
      BY JoinOfTexts
    <2>4. /\ im[j] \o <<" ", " ">> \in Texts
          /\ Len(im[j] \o <<" ", " ">>) = Len(im[j]) + Len(<<" ", " ">>)
      BY <1>1, <2>1, <2>3, Zenon
    <2>5. Len(im[j]) \in Nat
      BY <2>1, LengthOfText
    <2>6. Len(im[j]) + Len(<<" ", " ">>) = Len(im[j]) + 2
      BY <1>1, Zenon
    <2> QED BY <2>2, <2>4, <2>5, <2>6, Zenon
  <1>3. Pad(im) \in Replacements
    <2>1. \A j \in 1..4 : im[j] \o <<" ", " ">> \in Texts
      BY <1>2 DEF Pad
    <2> QED BY <2>1 DEF Pad, Replacements
  <1>4. 1 \in 1..4 /\ 2 \in 1..4 /\ 3 \in 1..4 /\ 4 \in 1..4
    OBVIOUS
  <1>5. /\ Len(im[1]) \in Nat /\ Len(im[2]) \in Nat
        /\ Len(im[3]) \in Nat /\ Len(im[4]) \in Nat
    BY <1>2, <1>4
  <1>6. /\ Len(Pad(im)[1]) = Len(im[1]) + 2 /\ Len(Pad(im)[2]) = Len(im[2]) + 2
        /\ Len(Pad(im)[3]) = Len(im[3]) + 2 /\ Len(Pad(im)[4]) = Len(im[4]) + 2
    BY <1>2, <1>4
  <1>7. Added(Pad(im)) = Sum(im) /\ Sum(im) \in Nat
    <2>1. /\ \A a \in Nat : (a + 2) - 2 = a
          /\ \A a, b \in Nat : a + b \in Nat
      OBVIOUS
    <2>2. /\ Added(Pad(im)) = ((Len(Pad(im)[1]) - 2) + (Len(Pad(im)[2]) - 2))
                                + ((Len(Pad(im)[3]) - 2) + (Len(Pad(im)[4]) - 2))
          /\ Sum(im) = (Len(im[1]) + Len(im[2])) + (Len(im[3]) + Len(im[4]))
      BY Zenon DEF Added, Sum
    <2>3. Added(Pad(im)) = (((Len(im[1]) + 2) - 2) + ((Len(im[2]) + 2) - 2))
                             + (((Len(im[3]) + 2) - 2) + ((Len(im[4]) + 2) - 2))
      BY <1>6, <2>2, Zenon
    <2>4. Added(Pad(im)) = Sum(im)
      BY <1>5, <2>1, <2>2, <2>3, Zenon
    <2>5. Len(im[1]) + Len(im[2]) \in Nat /\ Len(im[3]) + Len(im[4]) \in Nat
      BY <1>5, <2>1, Zenon
    <2> QED BY <2>1, <2>2, <2>4, <2>5, Zenon
  <1>8. \A j \in 1..4 : Len(Pad(im)[j]) = Len(im[j]) + 2 /\ Len(Pad(im)[j]) >= 2
    <2>1. \A n \in Nat : n + 2 >= 2
      OBVIOUS
    <2>2. ASSUME NEW j \in 1..4
          PROVE  Len(Pad(im)[j]) = Len(im[j]) + 2 /\ Len(im[j]) + 2 >= 2
      BY <1>2, <2>1, Zenon
    <2> QED BY <2>2, Zenon
  <1> QED BY <1>3, <1>7, <1>8

LEMMA ExpEmpty ==
  ASSUME NEW J \in SUBSET (1..4), NEW im \in Replacements
  PROVE  Exp(J, im, <<>>) = <<>>
  BY NoSymbol, ExpPlain

LEMMA ExpText ==
  ASSUME NEW J \in SUBSET (1..4), NEW im \in Replacements, NEW s \in Texts
  PROVE  Exp(J, im, s) \in Texts /\ Len(Exp(J, im, s)) \in Nat
  BY TailExists, ExpIs, LengthOfText

LEMMA LaterConcat ==
  ASSUME NEW p \in 1..4, NEW im \in Replacements, NEW a \in Texts, NEW b \in Texts,
         p < 4 => Tidy(a)
  PROVE  Exp(Later(p + 1), im, a \o b)
           = Exp(Later(p + 1), im, a) \o Exp(Later(p + 1), im, b)
  <1>1. p + 1 \in 1..5 /\ Later(p + 1) \in SUBSET (1..4)
    BY LaterAre
  <1>2. CASE p < 4
    BY <1>1, <1>2, TidyEnd, ExpConcat
  <1>3. CASE p = 4
    <2>1. Later(p + 1) = {}
      BY <1>3, LaterAre
    <2>2. \A s \in Texts : Exp({}, im, s) = s
      BY ExpPlain
    <2>3. a \o b \in Texts
      BY JoinOfTexts
    <2> QED BY <2>1, <2>2, <2>3
  <1> QED BY <1>2, <1>3

(* A text without a % is what it is.                                       *)
LEMMA ExpOfPlain ==
  ASSUME NEW p \in 1..4, NEW im \in Replacements, NEW s \in Texts,
         p < 4 => ~Holds(s, "%")
  PROVE  Exp(Later(p + 1), im, s) = s
  <1>1. p + 1 \in 1..5 /\ Later(p + 1) \in SUBSET (1..4)
    BY LaterAre
  <1>2. \A k \in 1..Len(s) : \A j \in Later(p + 1) : ~Here(s, k, j)
    <2>1. CASE p < 4
      BY <2>1, LengthOfText DEF Here, Holds
    <2>2. CASE p = 4
      BY <2>2, LaterAre
    <2> QED BY <2>1, <2>2
  <1> QED BY <1>1, <1>2, ExpPlain

-----------------------------------------------------------------------------
LEMMA EachOnceIs ==
  ASSUME NEW s \in Texts, EachOnce(s)
  PROVE  /\ Tidy(s)
         /\ \A j \in 1..4 : \A h, i \in 1..Len(s) : Here(s, h, j) /\ Here(s, i, j) => h = i
  <1>1. Len(s) \in Nat /\ DOMAIN s = 1..Len(s)
    BY LengthOfText
  <1>2. Tidy(s)
    <2>1. ASSUME NEW k \in 1..Len(s), s[k] = "%" PROVE \E j \in 1..4 : Here(s, k, j)
      <3>1. PICK j \in 1..4 : StartsWith(Rest(s, k - 1), Placeholder[j])
        BY <1>1, <2>1 DEF EachOnce
      <3>2. k \in 1..Len(s) + 1
        BY <1>1
      <3> QED BY <3>1, <3>2, HereIs
    <2> QED BY <2>1 DEF Tidy
  <1>3. ASSUME NEW j \in 1..4, NEW h \in 1..Len(s), NEW i \in 1..Len(s),
               Here(s, h, j), Here(s, i, j)
        PROVE  h = i
    <2> DEFINE S == Occurrences(s, Placeholder[j])
    <2>1. S = {q \in 0..Len(s) : Here(s, q + 1, j)} /\ Cardinality(S) <= 1
      BY OccurrencesAre DEF EachOnce
    <2>2. h - 1 \in 0..Len(s) /\ i - 1 \in 0..Len(s) /\ (h - 1) + 1 = h /\ (i - 1) + 1 = i
      BY <1>1
    <2>3. h - 1 \in S /\ i - 1 \in S
      BY <1>3, <2>1, <2>2
    <2>4. IsFiniteSet(S)
      <3>1. IsFiniteSet(0..Len(s)) /\ S \in SUBSET (0..Len(s))
        BY <1>1, <2>1, FS_Interval
      <3> HIDE DEF S
      <3> QED BY <3>1, FS_Subset
    <2> HIDE DEF S
    <2>5. Cardinality({h - 1, i - 1}) <= 1
      <3>1. {h - 1, i - 1} \in SUBSET S
        BY <2>3
      <3>2. /\ Cardinality({h - 1, i - 1}) <= Cardinality(S)
            /\ Cardinality({h - 1, i - 1}) \in Nat /\ Cardinality(S) \in Nat
        BY <2>4, <3>1, FS_Subset, FS_CardinalityType
      <3> QED BY <2>1, <3>2
    <2>6. SUFFICES ASSUME h # i PROVE FALSE
      OBVIOUS
    <2>7. IsFiniteSet({h - 1}) /\ Cardinality({h - 1}) = 1
      BY FS_Singleton
    <2>8. i - 1 \notin {h - 1} /\ {h - 1, i - 1} = {h - 1} \cup {i - 1}
      BY <2>6
    <2>9. Cardinality({h - 1} \cup {i - 1}) = Cardinality({h - 1}) + 1
      BY <2>7, <2>8, FS_AddElement
    <2>10. 1 + 1 <= 1
      BY <2>5, <2>7, <2>8, <2>9, Zenon
    <2> QED BY <2>10
  <1> QED BY <1>2, <1>3

LEMMA BeginExpanding ==
  ASSUME NEW command \in Texts, NEW im \in Replacements, EachOnce(command)
  PROVE  Expanding(command, im, 1, command, <<>>)
  <1>1. /\ Tidy(command)
        /\ \A j \in 1..4 : \A h, i \in 1..Len(command) :
             Here(command, h, j) /\ Here(command, i, j) => h = i
    BY EachOnceIs
  <1>2. Tidy(<<>>)
    BY NoSymbol DEF Tidy
  <1>3. Pad(im) \in Replacements /\ Added(Pad(im)) = Sum(im)
        /\ \A j \in 1..4 : Len(Pad(im)[j]) >= 2
    BY PadIs
  <1>4. Later(1) = 1..4 /\ Later(1 + 1) \in SUBSET (1..4)
    BY LaterAre
  <1>5. Exp(Later(1 + 1), im, <<>>) \o Exp(Later(1), im, command) = Expanded(command, im)
    <2>1. Exp(Later(1 + 1), im, <<>>) = <<>>
      BY <1>4, ExpEmpty
    <2>2. Exp(1..4, im, command) \in Texts
      BY ExpText
    <2>3. <<>> \o Exp(1..4, im, command) = Exp(1..4, im, command)
      BY <2>2, TextsJoin
    <2> QED BY <1>4, <2>1, <2>3, ExpandedIs
  <1>6. Len(Exp(Later(1 + 1), Pad(im), <<>>)) + Len(Exp(Later(1), Pad(im), command))
          <= Len(command) + Sum(im)
    <2>1. Len(Exp(Later(1 + 1), Pad(im), <<>>)) = 0
      BY <1>3, <1>4, ExpEmpty, NoSymbol
    <2>2. Len(Exp(1..4, Pad(im), command)) <= Len(command) + Sum(im)
      BY <1>1, <1>3, ExpBound
    <2>3. Len(Exp(1..4, Pad(im), command)) \in Nat
      BY <1>3, ExpText
    <2>4. Len(command) \in Nat /\ Sum(im) \in Nat
      BY PadIs, LengthOfText
    <2>5. \A l, m \in Nat : l <= m => 0 + l <= m
      OBVIOUS
    <2>6. Len(command) + Sum(im) \in Nat
      BY <2>4
    <2> QED BY <1>4, <2>1, <2>2, <2>3, <2>5, <2>6, Zenon
  <1> QED BY <1>1, <1>2, <1>5, <1>6 DEF Expanding

LEMMA LaterText ==
  ASSUME NEW p \in 1..4, NEW im \in Replacements, NEW s \in Texts
  PROVE  /\ Exp(Later(p), im, s) \in Texts /\ Len(Exp(Later(p), im, s)) \in Nat
         /\ Exp(Later(p + 1), im, s) \in Texts /\ Len(Exp(Later(p + 1), im, s)) \in Nat
  <1>1. p \in 1..5 /\ p + 1 \in 1..5
    OBVIOUS
  <1>2. Later(p) \in SUBSET (1..4) /\ Later(p + 1) \in SUBSET (1..4)
    BY <1>1, LaterAre
  <1> QED BY <1>2, ExpText

(* What a replacement makes of what is written and read, and of what will  *)
(* be made of them, whatever the replacements im are that still follow.    *)
LEMMA ReplacedIs ==
  ASSUME NEW p \in 1..4, NEW fr \in Texts, NEW de \in Texts, NEW t \in Texts,
         Tidy(fr), p < 4 => Tidy(de) /\ ~Holds(t, "%"),
         NEW q \in 0..Len(fr), q + 2 \in 0..Len(fr), Here(fr, q + 1, p),
         \A k \in 1..q : ~Here(fr, k, p),
         NEW im \in Replacements
  PROVE  /\ Exp(Later(p + 1), im, (de \o Prefix(fr, q)) \o t)
              = (Exp(Later(p + 1), im, de) \o Exp(Later(p + 1), im, Prefix(fr, q))) \o t
         /\ Exp(Later(p), im, fr)
              = Exp(Later(p + 1), im, Prefix(fr, q))
                  \o (im[p] \o Exp(Later(p), im, Rest(fr, q + 2)))
         /\ p < 4 => Tidy((de \o Prefix(fr, q)) \o t)
         /\ Tidy(Rest(fr, q + 2))
  <1>1. Prefix(fr, q) \in Texts
    BY PartsOfText
  <1>2. Tidy(Prefix(fr, q))
    BY TidyPrefix DEF Here
  <1>3. PICK a \in Texts : a = Prefix(fr, q)
    BY <1>1
  <1>4. Tidy(a)
    BY <1>2, <1>3
  <1>5. de \o a \in Texts /\ (p < 4 => Tidy(de \o a))
    BY <1>4, JoinOfTexts, TidyConcat
  <1>6. p < 4 => Tidy((de \o a) \o t)
    BY <1>5, TidyPlain, TidyConcat
  <1>7. Exp(Later(p + 1), im, (de \o a) \o t)
          = Exp(Later(p + 1), im, de \o a) \o Exp(Later(p + 1), im, t)
    BY <1>5, LaterConcat
  <1>8. Exp(Later(p + 1), im, de \o a)
          = Exp(Later(p + 1), im, de) \o Exp(Later(p + 1), im, a)
    BY LaterConcat
  <1>9. Exp(Later(p + 1), im, t) = t
    BY ExpOfPlain
  <1>10. Exp(Later(p), im, fr)
          = Exp(Later(p + 1), im, Prefix(fr, q))
              \o (im[p] \o Exp(Later(p), im, Rest(fr, q + 2)))
    BY SplitThere
  <1>11. Tidy(Rest(fr, q + 2))
    BY TidyRest
  <1> QED BY <1>3, <1>6, <1>7, <1>8, <1>9, <1>10, <1>11, Zenon

(* Named, so that the provers match a name and not the concatenations.     *)
Regrouped(a, b, c, d) == a \o (b \o (c \o d)) = ((a \o b) \o c) \o d

LEMMA JoinFour ==
  ASSUME NEW a \in Texts, NEW b \in Texts, NEW c \in Texts, NEW d \in Texts
  PROVE  Regrouped(a, b, c, d)
  <1>0. \A x, y, z \in Texts : (x \o y) \o z = x \o (y \o z)
    <2> SUFFICES ASSUME NEW x \in Texts, NEW y \in Texts, NEW z \in Texts
                 PROVE  (x \o y) \o z = x \o (y \o z)
      BY Zenon
    <2> QED BY ConcatAssociative DEF Texts
  <1> DEFINE e == a \o b
             f == c \o d
  <1>1. e \in Texts /\ f \in Texts
    BY JoinOfTexts
  <1> HIDE DEF e, f
  <1>2. (a \o b) \o f = a \o (b \o f)
    BY <1>0, <1>1, Zenon
  <1>3. (e \o c) \o d = e \o (c \o d)
    BY <1>0, <1>1, Zenon
  <1>4. e \o f = a \o (b \o f) /\ (e \o c) \o d = e \o f
    BY <1>2, <1>3, Zenon DEF e, f
  <1>5. a \o (b \o f) = (e \o c) \o d
    BY <1>4, Zenon
  <1> QED BY <1>5, Zenon DEF Regrouped, e, f

LEMMA ReplaceExpanding ==
  ASSUME NEW command \in Texts, NEW im \in Replacements, NEW p \in 1..4,
         NEW fr \in Texts, NEW de \in Texts, Expanding(command, im, p, fr, de),
         p < 4 => ~Holds(im[p], "%"),
         NEW q \in 0..Len(fr), q + 2 \in 0..Len(fr), Here(fr, q + 1, p),
         \A k \in 1..q : ~Here(fr, k, p)
  PROVE  /\ Expanding(command, im, p, Rest(fr, q + 2), (de \o Prefix(fr, q)) \o im[p])
         /\ (Len(de) + q) + Len(im[p]) <= Len(command) + Sum(im)
  <1> DEFINE a == Prefix(fr, q)
             b == Rest(fr, q + 2)
             t == im[p]
             new == (de \o a) \o t
             D(r) == Exp(Later(p + 1), r, de)
             A(r) == Exp(Later(p + 1), r, a)
             B(r) == Exp(Later(p), r, b)
  <1>1. a \in Texts /\ b \in Texts /\ t \in Texts /\ Len(a) = q
    BY PartsOfText DEF Replacements
  <1>2. Pad(im) \in Replacements /\ Sum(im) \in Nat
        /\ Len(Pad(im)[p]) = Len(t) + 2 /\ \A j \in 1..4 : Len(Pad(im)[j]) >= 2
    BY PadIs
  <1>3. Tidy(fr) /\ (p < 4 => Tidy(de) /\ ~Holds(t, "%"))
    BY DEF Expanding
  <1>4. ASSUME NEW r \in Replacements
        PROVE  /\ Exp(Later(p + 1), r, new) = (D(r) \o A(r)) \o t
               /\ Exp(Later(p), r, fr) = A(r) \o (r[p] \o B(r))
               /\ p < 4 => Tidy(new)
               /\ Tidy(b)
    BY <1>1, <1>3, ReplacedIs, Zenon
  <1>5. ASSUME NEW r \in Replacements
        PROVE  /\ D(r) \in Texts /\ A(r) \in Texts /\ B(r) \in Texts /\ r[p] \in Texts
               /\ Len(D(r)) \in Nat /\ Len(A(r)) \in Nat /\ Len(B(r)) \in Nat
    BY <1>1, LaterText DEF Replacements
  <1>6. D(im) \o (A(im) \o (t \o B(im))) = ((D(im) \o A(im)) \o t) \o B(im)
    <2>1. D(im) \in Texts /\ A(im) \in Texts /\ B(im) \in Texts /\ t \in Texts
      BY <1>1, <1>5
    <2> HIDE DEF D, A, B, t
    <2>2. Regrouped(D(im), A(im), t, B(im))
      BY <2>1, JoinFour
    <2> QED BY <2>2, Zenon DEF Regrouped
  <1>7. Exp(Later(p + 1), im, new) \o Exp(Later(p), im, b) = Expanded(command, im)
    <2>1. D(im) \o Exp(Later(p), im, fr) = Expanded(command, im)
      BY DEF Expanding
    <2> QED BY <1>4, <1>6, <2>1, Zenon
  <1> DEFINE P == Pad(im)
  <1>8. /\ Len((D(P) \o A(P)) \o t) = (Len(D(P)) + Len(A(P))) + Len(t)
        /\ Len(A(P) \o (P[p] \o B(P))) = Len(A(P)) + (Len(P[p]) + Len(B(P)))
    <2>1. \A w, x, y \in Texts : /\ Len((w \o x) \o y) = (Len(w) + Len(x)) + Len(y)
                                 /\ Len(w \o (x \o y)) = Len(w) + (Len(x) + Len(y))
      BY JoinOfTexts
    <2>2. D(P) \in Texts /\ A(P) \in Texts /\ B(P) \in Texts /\ P[p] \in Texts
      BY <1>2, <1>5, Zenon
    <2>3. t \in Texts
      BY <1>1
    <2>4. PICK d \in Texts, e \in Texts, y \in Texts : d = D(P) /\ e = A(P) /\ y = t
      <3> HIDE DEF D, A, P, t
      <3> QED BY <2>2, <2>3
    <2>5. Len((d \o e) \o y) = (Len(d) + Len(e)) + Len(y)
      BY <2>1
    <2>6. PICK f \in Texts, g \in Texts : f = P[p] /\ g = B(P)
      <3> HIDE DEF B, P
      <3> QED BY <2>2
    <2>7. Len(e \o (f \o g)) = Len(e) + (Len(f) + Len(g))
      BY <2>1
    <2> HIDE DEF D, A, B, P, t
    <2> QED BY <2>4, <2>5, <2>6, <2>7, Zenon
  <1>9. Len(D(P)) >= Len(de) /\ Len(A(P)) >= q
    <2>1. Later(p + 1) \in SUBSET (1..4)
      <3>1. p + 1 \in 1..5
        OBVIOUS
      <3> QED BY <3>1, LaterAre
    <2>2. Len(A(P)) >= Len(a)
      BY <1>1, <1>2, <2>1, ExpGrows
    <2>3. Len(D(P)) >= Len(de)
      BY <1>2, <2>1, ExpGrows
    <2> QED BY <1>1, <2>2, <2>3, Zenon
  <1>10. Len(D(P)) + Len(Exp(Later(p), P, fr)) <= Len(command) + Sum(im)
    BY DEF Expanding
  <1>11. Len(D(P)) + (Len(A(P)) + ((Len(t) + 2) + Len(B(P)))) <= Len(command) + Sum(im)
    <2>1. Exp(Later(p), P, fr) = A(P) \o (P[p] \o B(P))
      BY <1>2, <1>4, Zenon
    <2> QED BY <1>2, <1>8, <1>10, <2>1, Zenon
  <1>12. /\ Len(D(P)) \in Nat /\ Len(A(P)) \in Nat /\ Len(B(P)) \in Nat
         /\ Len(t) \in Nat /\ Len(de) \in Nat /\ Len(command) \in Nat
    <2>1. Len(D(P)) \in Nat /\ Len(A(P)) \in Nat /\ Len(B(P)) \in Nat
      BY <1>2, <1>5, Zenon
    <2> QED BY <1>1, <2>1, LengthOfText
  <1>13. /\ ((Len(D(P)) + Len(A(P))) + Len(t)) + Len(B(P)) <= Len(command) + Sum(im)
         /\ (Len(de) + q) + Len(t) <= Len(command) + Sum(im)
    <2>1. q \in Nat /\ Sum(im) \in Nat
      BY <1>2, LengthOfText
    <2> HIDE DEF D, A, B, P, t
    <2> QED BY <1>9, <1>11, <1>12, <2>1
  <1>14. Len(Exp(Later(p + 1), P, new)) + Len(Exp(Later(p), P, b)) <= Len(command) + Sum(im)
    <2>1. Exp(Later(p + 1), P, new) = (D(P) \o A(P)) \o t
      BY <1>2, <1>4, Zenon
    <2> QED BY <1>8, <1>13, <2>1, Zenon
  <1>15. Tidy(b) /\ (p < 4 => Tidy(new))
    BY <1>4
  <1> QED BY <1>7, <1>13, <1>14, <1>15 DEF Expanding

LEMMA EndExpanding ==
  ASSUME NEW command \in Texts, NEW im \in Replacements, NEW p \in 1..4,
         NEW fr \in Texts, NEW de \in Texts, Expanding(command, im, p, fr, de),
         Occurrences(fr, Placeholder[p]) = {}
  PROVE  /\ p < 4 => Expanding(command, im, p + 1, de \o fr, <<>>)
         /\ p = 4 => de \o fr = Expanded(command, im)
         /\ Len(de) + Len(fr) <= Len(command) + Sum(im)
  <1>1. p + 1 \in 1..5 /\ p \in 1..5
    OBVIOUS
  <1>2. Later(p) \in SUBSET (1..4) /\ Later(p + 1) \in SUBSET Later(p)
        /\ Later(p + 1) \in SUBSET (1..4) /\ \A j \in Later(p) \ Later(p + 1) : j = p
    BY <1>1, LaterAre
  <1>3. \A k \in 1..Len(fr) : ~Here(fr, k, p)
    <2>1. ASSUME NEW k \in 1..Len(fr), Here(fr, k, p) PROVE FALSE
      <3>1. k - 1 \in 0..Len(fr) /\ (k - 1) + 1 = k
        BY LengthOfText
      <3>2. Occurrences(fr, Placeholder[p]) = {q \in 0..Len(fr) : Here(fr, q + 1, p)}
        BY OccurrencesAre
      <3>3. Here(fr, (k - 1) + 1, p)
        BY <2>1, <3>1, Zenon
      <3>4. k - 1 \in Occurrences(fr, Placeholder[p])
        BY <3>1, <3>2, <3>3, Zenon
      <3> QED BY <3>4
    <2> QED BY <2>1
  <1>4. Tidy(fr) /\ (p < 4 => Tidy(de)) /\ (p < 4 => Tidy(de \o fr))
    BY TidyConcat DEF Expanding
  <1>5. de \o fr \in Texts /\ Len(de \o fr) = Len(de) + Len(fr)
    BY JoinOfTexts
  <1>6. ASSUME NEW r \in Replacements
        PROVE  Exp(Later(p + 1), r, de \o fr)
                 = Exp(Later(p + 1), r, de) \o Exp(Later(p), r, fr)
    <2>1. Exp(Later(p), r, fr) = Exp(Later(p + 1), r, fr)
      BY <1>2, <1>3, ExpDrop
    <2>2. Exp(Later(p + 1), r, de \o fr)
            = Exp(Later(p + 1), r, de) \o Exp(Later(p + 1), r, fr)
      BY <1>4, LaterConcat
    <2> QED BY <2>1, <2>2
  <1>7. Pad(im) \in Replacements /\ \A j \in 1..4 : Len(Pad(im)[j]) >= 2
    BY PadIs
  <1>8. Exp(Later(p + 1), im, de \o fr) = Expanded(command, im)
    BY <1>6 DEF Expanding
  <1>9. Len(Exp(Later(p + 1), Pad(im), de \o fr)) <= Len(command) + Sum(im)
    <2>1. Len(Exp(Later(p + 1), Pad(im), de) \o Exp(Later(p), Pad(im), fr))
            = Len(Exp(Later(p + 1), Pad(im), de)) + Len(Exp(Later(p), Pad(im), fr))
      BY <1>7, LaterText, JoinOfTexts
    <2> QED BY <1>6, <1>7, <2>1 DEF Expanding
  <1>10. Len(de) + Len(fr) <= Len(command) + Sum(im)
    <2>1. Len(Exp(Later(p + 1), Pad(im), de \o fr)) >= Len(de \o fr)
      BY <1>2, <1>5, <1>7, ExpGrows
    <2>2. /\ Len(de \o fr) \in Nat /\ Len(Exp(Later(p + 1), Pad(im), de \o fr)) \in Nat
          /\ Len(command) + Sum(im) \in Nat
      BY <1>5, <1>7, LengthOfText, LaterText, PadIs
    <2>3. Len(de \o fr) <= Len(command) + Sum(im)
      BY <1>9, <2>1, <2>2
    <2> QED BY <1>5, <2>3, Zenon
  <1>11. ASSUME p = 4 PROVE de \o fr = Expanded(command, im)
    <2>1. Later(p + 1) = {}
      BY <1>11, LaterAre
    <2>2. \A s \in Texts : Exp({}, im, s) = s
      BY ExpPlain
    <2> QED BY <1>5, <1>8, <2>1, <2>2
  <1>12. ASSUME p < 4 PROVE Expanding(command, im, p + 1, de \o fr, <<>>)
    <2>1. p + 1 \in 1..4
      BY <1>12
    <2>2. Later((p + 1) + 1) \in SUBSET (1..4)
      <3>1. (p + 1) + 1 \in 1..5
        BY <2>1
      <3> QED BY <3>1, LaterAre
    <2>3. /\ Exp(Later((p + 1) + 1), im, <<>>) = <<>>
          /\ Exp(Later((p + 1) + 1), Pad(im), <<>>) = <<>>
      BY <1>7, <2>2, ExpEmpty
    <2>4. Tidy(<<>>)
      BY NoSymbol DEF Tidy
    <2>5. <<>> \o Exp(Later(p + 1), im, de \o fr) = Exp(Later(p + 1), im, de \o fr)
      BY <1>5, LaterText, TextsJoin
    <2>6. Len(<<>>) + Len(Exp(Later(p + 1), Pad(im), de \o fr)) <= Len(command) + Sum(im)
      <3>1. Len(Exp(Later(p + 1), Pad(im), de \o fr)) \in Nat
        BY <1>5, <1>7, LaterText
      <3>2. \A l \in Nat : 0 + l = l
        OBVIOUS
      <3> QED BY <1>9, <3>1, <3>2, NoSymbol, Zenon
    <2> QED BY <1>4, <1>8, <1>12, <2>3, <2>4, <2>5, <2>6 DEF Expanding
  <1> QED BY <1>10, <1>11, <1>12

-----------------------------------------------------------------------------
(* The images of a call and the buffers they are put into.                 *)
LEMMA CutIs ==
  ASSUME NEW s \in Texts, NEW n \in Nat
  PROVE  /\ Cut(s, n) \in Texts
         /\ Len(Cut(s, n)) = Shorter(n, Len(s))
         /\ \A i \in 1..Shorter(n, Len(s)) : Cut(s, n)[i] = s[i]
         /\ n >= Len(s) => Cut(s, n) = s
  <1> DEFINE k == Shorter(n, Len(s))
  <1>1. Len(s) \in Nat
    BY LengthOfText
  <1>2. k \in 0..Len(s) /\ (n >= Len(s) => k = Len(s))
    BY <1>1 DEF Shorter
  <1>3. Cut(s, n) = Prefix(s, k)
    BY DEF Cut
  <1> HIDE DEF k
  <1>4. Prefix(s, k) \in Texts /\ Len(Prefix(s, k)) = k
        /\ \A i \in 1..k : Prefix(s, k)[i] = s[i]
    BY <1>2, PartsOfText
  <1>5. n >= Len(s) => Prefix(s, k) = s
    BY <1>2, <1>4, EqualTexts
  <1> QED BY <1>3, <1>4, <1>5 DEF k

Inked(t) == Len(t) >= 1 /\ t[1] # " "

(* What holds of the images of client c, of any state and value.           *)
ImagesOf(c, im) ==
  /\ im \in Replacements
  /\ im[1] = c.pv_name
  /\ ~Begins(im[1], Signs)
  /\ \A j \in 1..4 : Inked(im[j])
  /\ \A j \in 2..3 : ~Holds(im[j], "%")
  /\ Len(c.match_command) + Sum(im) < COMMAND_BUFFER_SIZE - 1
  /\ Len(c.match_command) + 1 <= COMMAND_BUFFER_SIZE - 1
  /\ c.match_command \in Texts

LEMMA NumberImage ==
  ASSUME NEW i \in Ints, i >= 1
  PROVE  LET number == Cut(Decimal[i], INDEX_IMAGE_SIZE - 1)
         IN  /\ number \in Texts /\ Len(number) \in 1..INDEX_IMAGE_SIZE - 1
             /\ number[1] # " " /\ ~Holds(number, "%")
  <1> DEFINE number == Cut(Decimal[i], INDEX_IMAGE_SIZE - 1)
  <1>1. i \in 1..(IntSpan - 1 - IntSpan \div 2)
    BY SizeAssumption DEF Ints
  <1>2. Decimal[i] \in Seq(DOMAIN Digit) /\ Decimal[i] # <<>>
    BY <1>1, DecimalAssumption
  <1>3. DOMAIN Digit \subseteq Symbols \ {" ", "%"}
    BY DigitAssumption
  <1>4. PICK d \in Texts : d = Decimal[i]
    <2>1. DOMAIN Digit \subseteq Symbols
      BY <1>3
    <2>2. \A t \in Seq(DOMAIN Digit) : t \in Texts
      BY <2>1 DEF Texts
    <2> QED BY <1>2, <2>2, Zenon
  <1>5. Len(d) \in Nat /\ Len(d) >= 1 /\ \A k \in 1..Len(d) : d[k] \in DOMAIN Digit
    <2>1. d \in Seq(DOMAIN Digit) /\ d # <<>>
      BY <1>2, <1>4, Zenon
    <2>2. \A k \in 1..Len(d) : d[k] \in DOMAIN Digit
      BY <2>1, ElementOfSeq
    <2>3. Len(d) \in Nat /\ (d = <<>> <=> Len(d) = 0)
      BY LengthOfText
    <2> QED BY <2>1, <2>2, <2>3
  <1>6. INDEX_IMAGE_SIZE - 1 \in Nat /\ INDEX_IMAGE_SIZE - 1 >= 1
    BY SizeAssumption
  <1>7. PICK n \in Nat : n = INDEX_IMAGE_SIZE - 1
    BY <1>6
  <1>8. n >= 1 /\ number = Cut(d, n)
    BY <1>4, <1>6, <1>7, Zenon
  <1>9. /\ Cut(d, n) \in Texts /\ Len(Cut(d, n)) = Shorter(n, Len(d))
        /\ \A k \in 1..Shorter(n, Len(d)) : Cut(d, n)[k] = d[k]
    BY CutIs
  <1>10. Shorter(n, Len(d)) \in 1..n /\ Shorter(n, Len(d)) \in 1..Len(d)
    BY <1>5, <1>8 DEF Shorter
  <1>11. \A k \in 1..Len(Cut(d, n)) : Cut(d, n)[k] \notin {" ", "%"}
    <2>1. ASSUME NEW k \in 1..Shorter(n, Len(d)) PROVE Cut(d, n)[k] \notin {" ", "%"}
      <3>1. k \in 1..Len(d)
        BY <1>5, <1>10
      <3> QED BY <1>3, <1>5, <1>9, <3>1
    <2> QED BY <1>9, <2>1
  <1>12. Cut(d, n)[1] # " " /\ ~Holds(Cut(d, n), "%")
    <2>1. DOMAIN Cut(d, n) = 1..Len(Cut(d, n))
      BY <1>9, LengthOfText
    <2>2. 1 \in 1..Len(Cut(d, n))
      BY <1>9, <1>10
    <2> QED BY <1>11, <2>1, <2>2 DEF Holds
  <1>13. Len(Cut(d, n)) \in 1..INDEX_IMAGE_SIZE - 1
    BY <1>7, <1>9, <1>10, Zenon
  <1> QED BY <1>8, <1>9, <1>12, <1>13, Zenon

LEMMA StateImage ==
  ASSUME NEW s \in StateImages
  PROVE  s \in Texts /\ Len(s) \in 1..2 /\ s[1] # " " /\ ~Holds(s, "%")
  <1>1. {" ", "match", "reject", "disconnect"} \subseteq Symbols
    BY SymbolAssumption
  <1>2. \A a, b \in Symbols : <<a>> \in Texts /\ <<a, b>> \in Texts
    BY DEF Texts
  <1>3. s \in Texts
    BY <1>1, <1>2 DEF StateImages
  <1>4. Len(s) \in 1..2 /\ s[1] # " " /\ ~Holds(s, "%")
    <2>1. ASSUME NEW a, a # " ", a # "%"
          PROVE  /\ Len(<<a>>) \in 1..2 /\ <<a>>[1] # " " /\ ~Holds(<<a>>, "%")
                 /\ Len(<<a, " ">>) \in 1..2 /\ <<a, " ">>[1] # " "
                 /\ ~Holds(<<a, " ">>, "%")
      <3>1. /\ Len(<<a>>) = 1 /\ DOMAIN <<a>> = {1} /\ <<a>>[1] = a
            /\ Len(<<a, " ">>) = 2 /\ DOMAIN <<a, " ">> = {1, 2}
            /\ <<a, " ">>[1] = a /\ <<a, " ">>[2] = " "
        OBVIOUS
      <3>2. 1 \in 1..2 /\ 2 \in 1..2 /\ " " # "%"
        OBVIOUS
      <3>3. ~Holds(<<a>>, "%")
        BY <2>1, <3>1, Zenon DEF Holds
      <3>4. ~Holds(<<a, " ">>, "%")
        BY <2>1, <3>1, <3>2, Zenon DEF Holds
      <3> QED BY <2>1, <3>1, <3>2, <3>3, <3>4, Zenon
    <2>2. \A a \in {"match", "reject", "disconnect"} : a # " " /\ a # "%"
      OBVIOUS
    <2>3. s = <<"match", " ">> \/ s = <<"reject">> \/ s = <<"disconnect">>
      BY DEF StateImages
    <2> QED BY <2>1, <2>2, <2>3, Zenon
  <1> QED BY <1>3, <1>4

LEMMA ValueImage ==
  ASSUME NEW v \in Texts
  PROVE  LET image == Cut(<<"'">> \o v \o <<"'">>, VALUE_IMAGE_SIZE - 1)
         IN  /\ image \in Texts /\ Len(image) \in 1..VALUE_IMAGE_SIZE - 1
             /\ image[1] # " "
  <1> DEFINE image == Cut(<<"'">> \o v \o <<"'">>, VALUE_IMAGE_SIZE - 1)
  <1>1. "'" \in Symbols
    BY SymbolAssumption
  <1>2. <<"'">> \in Texts /\ Len(<<"'">>) = 1 /\ <<"'">>[1] = "'"
    BY <1>1, OneSymbol
  <1>3. PICK u \in Texts : u = <<"'">>
    BY <1>2
  <1>4. PICK t \in Texts : t = u \o v /\ Len(t) = Len(u) + Len(v)
                           /\ \A i \in 1..Len(u) : t[i] = u[i]
    BY JoinOfTexts
  <1>5. PICK d \in Texts : d = t \o u /\ Len(d) = Len(t) + Len(u)
                           /\ \A i \in 1..Len(t) : d[i] = t[i]
    BY JoinOfTexts
  <1>6. Len(d) \in Nat /\ Len(d) >= 1 /\ d[1] = "'"
    <2>1. Len(u) = 1 /\ u[1] = "'" /\ Len(v) \in Nat /\ Len(t) \in Nat
      BY <1>2, <1>3, LengthOfText
    <2>2. Len(t) >= 1 /\ t[1] = "'"
      BY <1>4, <2>1
    <2> QED BY <1>5, <2>1, <2>2
  <1>7. VALUE_IMAGE_SIZE - 1 \in Nat /\ VALUE_IMAGE_SIZE - 1 >= 1
    BY SizeAssumption
  <1>8. PICK n \in Nat : n = VALUE_IMAGE_SIZE - 1
    BY <1>7
  <1>9. n >= 1 /\ image = Cut(d, n)
    BY <1>3, <1>4, <1>5, <1>7, <1>8, Zenon
  <1>10. /\ Cut(d, n) \in Texts /\ Len(Cut(d, n)) = Shorter(n, Len(d))
         /\ \A k \in 1..Shorter(n, Len(d)) : Cut(d, n)[k] = d[k]
    BY CutIs
  <1>11. Shorter(n, Len(d)) \in 1..n
    BY <1>6, <1>9 DEF Shorter
  <1>12. Cut(d, n)[1] = "'"
    BY <1>6, <1>10, <1>11
  <1>13. Len(Cut(d, n)) \in 1..VALUE_IMAGE_SIZE - 1
    BY <1>8, <1>10, <1>11, Zenon
  <1> QED BY <1>9, <1>10, <1>12, <1>13

LEMMA ImagesAre ==
  ASSUME NEW c \in Clients, WellFormed(c), NEW s \in StateImages, NEW v \in Texts
  PROVE  ImagesOf(c, Images(c.pv_name, c.element_index, s, v))
  <1> DEFINE number == Cut(Decimal[c.element_index], INDEX_IMAGE_SIZE - 1)
             image  == Cut(<<"'">> \o v \o <<"'">>, VALUE_IMAGE_SIZE - 1)
             im     == Images(c.pv_name, c.element_index, s, v)
  <1>1. im = <<c.pv_name, number, s, image>>
    BY DEF Images
  <1>2. c.pv_name \in Texts /\ c.match_command \in Texts /\ c.element_index \in Ints
    BY DEF Clients
  <1>3. /\ number \in Texts /\ Len(number) \in 1..INDEX_IMAGE_SIZE - 1
        /\ number[1] # " " /\ ~Holds(number, "%")
    BY <1>2, NumberImage DEF WellFormed
  <1>4. s \in Texts /\ Len(s) \in 1..2 /\ s[1] # " " /\ ~Holds(s, "%")
    BY StateImage
  <1>5. image \in Texts /\ Len(image) \in 1..VALUE_IMAGE_SIZE - 1 /\ image[1] # " "
    BY ValueImage
  <1>6. /\ Len(c.pv_name) \in Nat /\ Len(c.pv_name) >= 1 /\ c.pv_name[1] # " "
        /\ Len(c.pv_name) < MAXIMUM_PVNAME_SIZE /\ ~Begins(c.pv_name, Signs)
    <2>1. Begins(c.pv_name, Alnum \cup {"$"}) /\ Len(c.pv_name) < MAXIMUM_PVNAME_SIZE
      BY DEF WellFormed
    <2>2. c.pv_name[1] \in Alnum \cup {"$"} /\ c.pv_name # <<>>
      BY <2>1 DEF Begins
    <2>3. c.pv_name[1] # " " /\ c.pv_name[1] # "+" /\ c.pv_name[1] # "-"
      BY <2>2, AlnumAssumption
    <2>6. ~Begins(c.pv_name, Signs)
      BY <2>3, Zenon DEF Begins, Signs
    <2>4. Len(c.pv_name) \in Nat /\ Len(c.pv_name) # 0
      BY <1>2, <2>2, LengthOfText
    <2>5. \A n \in Nat : n # 0 => n >= 1
      OBVIOUS
    <2> QED BY <2>1, <2>3, <2>4, <2>5, <2>6, Zenon
  <1>7. Len(c.match_command) \in Nat /\ Len(c.match_command) <= MATCH_COMMAND_LENGTH
    BY <1>2, LengthOfText DEF WellFormed
  <1> HIDE DEF number, image, im
  <1>8. im \in [1..4 -> Texts]
    <2>1. c.pv_name \in Texts /\ number \in Texts /\ s \in Texts /\ image \in Texts
      BY <1>2, <1>3, <1>4, <1>5
    <2> QED BY <1>1, <2>1
  <1>9. im[1] = c.pv_name /\ im[2] = number /\ im[3] = s /\ im[4] = image
    BY <1>1
  <1>10. \A j \in 1..4 : Len(im[j]) >= 1 /\ im[j][1] # " "
    <2>1. Len(number) >= 1 /\ Len(s) >= 1 /\ Len(image) >= 1
      <3>1. \A n, k : k \in 1..n => k >= 1
        OBVIOUS
      <3> QED BY <1>3, <1>4, <1>5, <3>1, Zenon
    <2>2. \A j \in 1..4 : j = 1 \/ j = 2 \/ j = 3 \/ j = 4
      OBVIOUS
    <2>3. number[1] # " " /\ s[1] # " " /\ image[1] # " " /\ c.pv_name[1] # " "
          /\ Len(c.pv_name) >= 1
      BY <1>3, <1>4, <1>5, <1>6
    <2> QED BY <1>9, <2>1, <2>2, <2>3, Zenon
  <1>11. \A j \in 2..3 : ~Holds(im[j], "%")
    <2>1. \A j \in 2..3 : j = 2 \/ j = 3
      OBVIOUS
    <2> QED BY <1>3, <1>4, <1>9, <2>1, Zenon
  <1>12. /\ Sum(im) = (Len(c.pv_name) + Len(number)) + (Len(s) + Len(image))
         /\ COMMAND_BUFFER_SIZE = MATCH_COMMAND_LENGTH + MAXIMUM_PVNAME_SIZE + STATE_IMAGE_SIZE
                                    + VALUE_IMAGE_SIZE + INDEX_IMAGE_SIZE + 12
    BY <1>9, Zenon DEF Sum, COMMAND_BUFFER_SIZE
  <1>13. /\ MATCH_COMMAND_LENGTH \in Nat /\ MAXIMUM_PVNAME_SIZE \in Nat
         /\ STATE_IMAGE_SIZE \in Nat /\ VALUE_IMAGE_SIZE \in Nat /\ INDEX_IMAGE_SIZE \in Nat
    BY SizeAssumption
  <1>14. /\ Len(c.match_command) + Sum(im) < COMMAND_BUFFER_SIZE - 1
         /\ Len(c.match_command) + 1 <= COMMAND_BUFFER_SIZE - 1
    <2>2. Len(number) \in Nat /\ Len(s) \in Nat /\ Len(image) \in Nat
      BY <1>3, <1>4, <1>5, LengthOfText
    <2>3. Len(number) \in 1..INDEX_IMAGE_SIZE - 1 /\ Len(s) \in 1..2
          /\ Len(image) \in 1..VALUE_IMAGE_SIZE - 1
      BY <1>3, <1>4, <1>5
    <2>4. Len(c.pv_name) \in Nat /\ Len(c.pv_name) < MAXIMUM_PVNAME_SIZE
      BY <1>6
    <2>5. PICK l \in Nat, n \in Nat, k \in Nat, t \in Nat, i \in Nat :
            /\ l = Len(c.match_command) /\ n = Len(c.pv_name) /\ k = Len(number)
            /\ t = Len(s) /\ i = Len(image)
      BY <1>7, <2>2, <2>4
    <2>6. /\ l <= MATCH_COMMAND_LENGTH /\ n < MAXIMUM_PVNAME_SIZE
          /\ k \in 1..INDEX_IMAGE_SIZE - 1 /\ t \in 1..2 /\ i \in 1..VALUE_IMAGE_SIZE - 1
      BY <1>7, <2>3, <2>4, <2>5, Zenon
    <2>7. /\ l + ((n + k) + (t + i)) < COMMAND_BUFFER_SIZE - 1
          /\ l + 1 <= COMMAND_BUFFER_SIZE - 1
      BY <1>13, <2>6 DEF COMMAND_BUFFER_SIZE
    <2> QED BY <1>12, <2>5, <2>7, Zenon
  <1> QED BY <1>2, <1>6, <1>8, <1>9, <1>10, <1>11, <1>14, Zenon
          DEF ImagesOf, Inked, Replacements, im

-----------------------------------------------------------------------------
(* What quit is decided by: the command up to its first placeholder stays  *)
(* as it is, and what comes next is no blank.                              *)
Literal(command) == UpTo(command, {"%"})

Kept(command, w) ==
  /\ Len(w) >= Literal(command)
  /\ \A i \in 1..Literal(command) : w[i] = command[i]
  /\ Literal(command) = Len(command) => w = command
  /\ Literal(command) < Len(command) =>
       Len(w) > Literal(command) /\ w[Literal(command) + 1] # " "

LEMMA LiteralIs ==
  ASSUME NEW s \in Texts
  PROVE  /\ Literal(s) \in 0..Len(s) /\ Literal(s) \in Nat /\ Literal(s) <= Len(s)
         /\ \A i \in 1..Literal(s) : s[i] # "%"
         /\ Literal(s) < Len(s) => s[Literal(s) + 1] = "%"
  <1> DEFINE S == Symbols \ {"%"}
  <1>1. Len(s) \in Nat /\ \A i \in 1..Len(s) : s[i] \in Symbols
    BY LengthOfText
  <1>2. Literal(s) = Span(s, S)
    <2>1. \A k \in 1..Len(s) : \A i \in 1..k : i \in 1..Len(s)
      BY <1>1
    <2>2. \A k \in 1..Len(s) : (\A i \in 1..k : s[i] \notin {"%"}) <=> \A i \in 1..k : s[i] \in S
      BY <1>1, <2>1
    <2>3. {k \in 1..Len(s) : \A i \in 1..k : s[i] \notin {"%"}}
            = {k \in 1..Len(s) : \A i \in 1..k : s[i] \in S}
      BY <2>2
    <2> QED BY <2>3 DEF Literal, UpTo, Span
  <1>3. /\ Span(s, S) \in 0..Len(s) /\ \A i \in 1..Span(s, S) : s[i] \in S
        /\ Span(s, S) < Len(s) => s[Span(s, S) + 1] \notin S
    <2> HIDE DEF S
    <2> QED BY SpanIs
  <1>4. Literal(s) < Len(s) => Literal(s) + 1 \in 1..Len(s)
    BY <1>1, <1>2, <1>3
  <1>5. /\ Literal(s) \in 0..Len(s)
        /\ \A i \in 1..Literal(s) : s[i] # "%"
        /\ Literal(s) < Len(s) => s[Literal(s) + 1] = "%"
    BY <1>1, <1>2, <1>3, <1>4
  <1>6. \A n \in Nat : \A l \in 0..n : l \in Nat /\ l <= n
    OBVIOUS
  <1> QED BY <1>1, <1>5, <1>6, Zenon

LEMMA KeptAtFirst ==
  ASSUME NEW command \in Texts
  PROVE  Kept(command, command)
  <1>1. /\ Literal(command) \in Nat /\ Literal(command) <= Len(command)
        /\ Len(command) \in Nat
        /\ Literal(command) < Len(command) => command[Literal(command) + 1] = "%"
    BY LiteralIs, LengthOfText
  <1>2. \A l, n \in Nat : (l <= n => n >= l) /\ (l < n => n > l)
    OBVIOUS
  <1>3. " " # "%"
    OBVIOUS
  <1> QED BY <1>1, <1>2, <1>3, Zenon DEF Kept

Still(l, w, w2) ==
  /\ Len(w2) > l
  /\ \A i \in 1..l : w2[i] = w[i]
  /\ w2[l + 1] # " "

LEMMA KeptChanged ==
  ASSUME NEW command \in Texts, NEW w \in Texts, Kept(command, w), NEW w2 \in Texts,
         Literal(command) < Len(command), Still(Literal(command), w, w2)
  PROVE  Kept(command, w2)
  <1>1. Literal(command) \in Nat /\ Literal(command) # Len(command)
        /\ Len(w2) >= Literal(command)
    <2>1. Literal(command) \in Nat /\ Len(command) \in Nat
      BY LiteralIs, LengthOfText
    <2>2. Len(w2) \in Nat
      BY LengthOfText
    <2>3. Len(w2) > Literal(command)
      BY Zenon DEF Still
    <2> QED BY <2>1, <2>2, <2>3
  <1>2. \A i \in 1..Literal(command) : w2[i] = command[i]
    BY Zenon DEF Kept, Still
  <1> QED BY <1>1, <1>2, Zenon DEF Kept, Still

(* No placeholder is found in what is to stay.                             *)
LEMMA KeptBefore ==
  ASSUME NEW command \in Texts, NEW de \in Texts, NEW fr \in Texts,
         Kept(command, de \o fr), NEW p \in 1..4,
         NEW q \in 0..Len(fr), q + 2 \in 0..Len(fr), Here(fr, q + 1, p)
  PROVE  Literal(command) < Len(command) /\ Literal(command) <= Len(de) + q
  <1> DEFINE l == Literal(command)
             w == de \o fr
  <1>1. /\ l \in 0..Len(command) /\ Len(command) \in Nat
        /\ \A i \in 1..l : command[i] # "%"
    BY LiteralIs, LengthOfText
  <1>2. Len(de) \in Nat /\ Len(fr) \in Nat
    BY LengthOfText
  <1>3. /\ w \in Texts /\ Len(w) = Len(de) + Len(fr)
        /\ \A i \in 1..Len(fr) : w[Len(de) + i] = fr[i]
    BY JoinOfTexts
  <1>4. w[Len(de) + (q + 1)] = "%"
    <2>1. q + 1 \in 1..Len(fr) /\ fr[q + 1] = "%"
      BY <1>2 DEF Here
    <2> QED BY <1>3, <2>1
  <1>5. \A i \in 1..l : w[i] # "%"
    BY <1>1 DEF Kept
  <1>6. l <= Len(de) + q
    <2>1. ~(Len(de) + (q + 1) \in 1..l)
      BY <1>4, <1>5
    <2> HIDE DEF l
    <2> QED BY <1>1, <1>2, <2>1
  <1>7. l # Len(command)
    <2>1. SUFFICES ASSUME l = Len(command) PROVE FALSE
      OBVIOUS
    <2>2. w = command
      BY <2>1 DEF Kept
    <2>3. Len(de) + (q + 1) \in 1..Len(w)
      BY <1>2, <1>3
    <2> QED BY <1>4, <1>5, <2>1, <2>2, <2>3
  <1> HIDE DEF l
  <1>8. l < Len(command)
    BY <1>1, <1>7
  <1> QED BY <1>6, <1>8 DEF l

(* A replacement, cut where the buffer of n symbols ends.                  *)
LEMMA KeptReplaced ==
  ASSUME NEW command \in Texts, NEW de \in Texts, NEW fr \in Texts,
         Kept(command, de \o fr), NEW p \in 1..4,
         NEW q \in 0..Len(fr), q + 2 \in 0..Len(fr), Here(fr, q + 1, p),
         NEW t \in Texts, Inked(t), NEW r \in Texts
  PROVE  Kept(command, ((de \o Prefix(fr, q)) \o t) \o r)
  <1> DEFINE l == Literal(command)
             w == de \o fr
  <1>1. l < Len(command) /\ l <= Len(de) + q /\ l \in Nat
    <2>1. l \in Nat
      BY LiteralIs
    <2>2. l < Len(command) /\ l <= Len(de) + q
      BY KeptBefore
    <2> QED BY <2>1, <2>2
  <1>2. Len(de) \in Nat /\ Len(fr) \in Nat /\ Len(t) \in Nat /\ Len(r) \in Nat
        /\ Len(t) >= 1
    <2>1. Len(de) \in Nat /\ Len(fr) \in Nat /\ Len(t) \in Nat /\ Len(r) \in Nat
      BY LengthOfText
    <2>2. Len(t) >= 1
      BY Zenon DEF Inked
    <2> QED BY <2>1, <2>2
  <1> DEFINE a  == Prefix(fr, q)
             y  == de \o a
             x  == y \o t
             w2 == x \o r
  <1>3. a \in Texts /\ Len(a) = q /\ \A i \in 1..q : a[i] = fr[i]
    BY PartsOfText
  <1> HIDE DEF a
  <1>4. /\ y \in Texts /\ Len(y) = Len(de) + Len(a)
        /\ \A i \in 1..Len(de) : y[i] = de[i]
        /\ \A i \in 1..Len(a) : y[Len(de) + i] = a[i]
    BY <1>3, JoinOfTexts
  <1> HIDE DEF y
  <1>5. /\ x \in Texts /\ Len(x) = Len(y) + Len(t)
        /\ \A i \in 1..Len(y) : x[i] = y[i]
        /\ \A i \in 1..Len(t) : x[Len(y) + i] = t[i]
    BY <1>4, JoinOfTexts
  <1> HIDE DEF x
  <1>6. /\ w2 \in Texts /\ Len(w2) = Len(x) + Len(r)
        /\ \A i \in 1..Len(x) : w2[i] = x[i]
    BY <1>5, JoinOfTexts
  <1> HIDE DEF w2
  <1>7. /\ w \in Texts /\ Len(w) = Len(de) + Len(fr)
        /\ \A i \in 1..Len(de) : w[i] = de[i]
        /\ \A i \in 1..Len(fr) : w[Len(de) + i] = fr[i]
    BY JoinOfTexts
  <1> HIDE DEF w, l
  <1>8. Len(y) = Len(de) + q /\ Len(x) >= Len(y) + 1 /\ Len(x) \in Nat /\ Len(w2) >= Len(x)
        /\ Len(y) \in Nat /\ Len(w2) \in Nat
    <2>1. Len(y) \in Nat /\ Len(x) \in Nat /\ Len(w2) \in Nat
      BY <1>4, <1>5, <1>6, LengthOfText
    <2> QED BY <1>2, <1>3, <1>4, <1>5, <1>6, <2>1
  <1>9. \A i \in 1..Len(y) : w2[i] = w[i]
    <2>1. ASSUME NEW i \in 1..Len(y) PROVE w2[i] = w[i]
      <3>1. w2[i] = y[i]
        <4>1. i \in 1..Len(x)
          BY <1>8
        <4> QED BY <1>5, <1>6, <4>1
      <3>2. CASE i <= Len(de)
        <4>1. i \in 1..Len(de)
          BY <1>2, <1>8, <3>2
        <4> QED BY <1>4, <1>7, <3>1, <4>1
      <3>3. CASE i > Len(de)
        <4>1. i - Len(de) \in 1..q /\ Len(de) + (i - Len(de)) = i
          BY <1>2, <1>8, <3>3
        <4>2. i - Len(de) \in 1..Len(fr) /\ i - Len(de) \in 1..Len(a)
          BY <1>2, <1>3, <4>1
        <4>3. y[i] = a[i - Len(de)]
          BY <1>4, <4>1, <4>2
        <4>4. w[i] = fr[i - Len(de)]
          BY <1>7, <4>1, <4>2
        <4> QED BY <1>3, <3>1, <4>1, <4>3, <4>4
      <3> QED BY <1>2, <1>8, <3>2, <3>3
    <2> QED BY <2>1
  <1>10. w2[Len(y) + 1] = t[1]
    <2>1. 1 \in 1..Len(t) /\ Len(y) + 1 \in 1..Len(x)
      BY <1>2, <1>8
    <2> QED BY <1>5, <1>6, <2>1
  <1>11. w2[l + 1] # " "
    <2>1. CASE l < Len(y)
      <3>1. l + 1 \in 1..Len(y)
        BY <1>1, <1>8, <2>1
      <3>2. w[l + 1] # " "
        BY <1>1 DEF Kept, l, w
      <3> QED BY <1>9, <3>1, <3>2
    <2>2. CASE l = Len(y)
      BY <1>10, <2>2, Zenon DEF Inked
    <2>3. l < Len(y) \/ l = Len(y)
      BY <1>1, <1>8
    <2> QED BY <2>1, <2>2, <2>3, Zenon
  <1>12. Len(w2) > l /\ \A i \in 1..l : w2[i] = w[i]
    <2>1. Len(w2) > l /\ \A i \in 1..l : i \in 1..Len(y)
      BY <1>1, <1>8
    <2> QED BY <1>9, <2>1
  <1>13. Kept(command, w2)
    <2>1. Still(l, w, w2)
      BY <1>11, <1>12, Zenon DEF Still
    <2> QED BY <1>1, <1>6, <1>7, <2>1, KeptChanged DEF l, w
  <1> QED BY <1>13 DEF w2, x, y, a

(* What is kept when n symbols are.                                        *)
LEMMA KeptCut ==
  ASSUME NEW command \in Texts, NEW w \in Texts, Kept(command, w),
         NEW x \in Texts, NEW r \in Texts, Len(x) >= Len(command) + 1, Len(x) <= Len(w),
         \A i \in 1..Len(x) : x[i] = w[i]
  PROVE  Kept(command, x \o r)
  <1> DEFINE l == Literal(command)
  <1>1. l \in 0..Len(command) /\ Len(command) \in Nat
    BY LiteralIs, LengthOfText
  <1>2. Len(x) \in Nat /\ Len(w) \in Nat /\ Len(r) \in Nat
    BY LengthOfText
  <1>3. PICK w2 \in Texts : /\ w2 = x \o r /\ Len(w2) = Len(x) + Len(r)
                            /\ \A i \in 1..Len(x) : w2[i] = x[i]
    BY JoinOfTexts
  <1>4. l # Len(command)
    <2>1. SUFFICES ASSUME w = command PROVE FALSE
      BY DEF Kept
    <2>2. Len(command) >= Len(command) + 1
      BY <1>1, <1>2, <2>1
    <2> QED BY <1>1, <2>2
  <1> HIDE DEF l
  <1>5. l < Len(command) /\ l + 1 \in 1..Len(x) /\ \A i \in 1..l : i \in 1..Len(x)
    BY <1>1, <1>2, <1>4
  <1>6. Len(w2) > l
    BY <1>1, <1>2, <1>3, <1>5
  <1>7. w2[l + 1] = w[l + 1] /\ \A i \in 1..l : w2[i] = w[i]
    BY <1>3, <1>5
  <1>8. w[l + 1] # " "
    BY <1>5 DEF Kept, l
  <1>9. Kept(command, w2)
    <2>1. Still(l, w, w2)
      BY <1>6, <1>7, <1>8, Zenon DEF Still
    <2> QED BY <1>5, <2>1, KeptChanged DEF l
  <1> QED BY <1>3, <1>9

-----------------------------------------------------------------------------
(* The steps of substitute.                                                *)
LEMMA ReplacingIs ==
  ASSUME SubstituteInv, Replace
  PROVE  \E q \in 0..Len(from) :
           /\ q + 2 \in 0..Len(from) /\ Here(from, q + 1, pass)
           /\ \A k \in 1..q : ~Here(from, k, pass)
           /\ LET before == dest \o Cut(Prefix(from, q), Room(dest))
              IN  \/ Room(before) = 0 /\ dest' = before /\ UNCHANGED from
                  \/ /\ Room(before) # 0
                     /\ dest' = before \o Cut(images[pass], Room(before))
                     /\ from' = Rest(from, q + 2)
           /\ pass \in 1..4 /\ UNCHANGED <<pass, images>>
  <1> DEFINE q == Smallest(Found)
             before == dest \o Cut(Prefix(from, q), Room(dest))
  <1>1. pass \in 1..4 /\ Found # {} /\ UNCHANGED <<pass, images>>
    BY DEF Replace
  <1>2. from \in Texts
    BY DEF SubstituteInv, SubstituteTypeOK, Texts
  <1>3. /\ q \in 0..Len(from) /\ q + 2 \in 0..Len(from) /\ Here(from, q + 1, pass)
        /\ \A k \in 1..q : ~Here(from, k, pass)
    BY <1>1, <1>2, FirstPlace DEF Found
  <1>4. \/ Room(before) = 0 /\ dest' = before /\ UNCHANGED from
        \/ /\ Room(before) # 0
           /\ dest' = before \o Cut(images[pass], Room(before))
           /\ from' = Rest(from, q + 2)
    BY DEF Replace
  <1> HIDE DEF q
  <1> QED BY <1>1, <1>3, <1>4

LEMMA BufferFacts ==
  ASSUME SubstituteInv
  PROVE  /\ images \in Replacements /\ from \in Texts /\ dest \in Texts
         /\ COMMAND_BUFFER_SIZE - 1 \in Nat
         /\ Len(from) \in Nat /\ Len(dest) \in Nat
         /\ Room(dest) \in Nat /\ Len(dest) + Room(dest) = COMMAND_BUFFER_SIZE - 1
  <1>1. /\ images \in Replacements /\ from \in Texts /\ dest \in Texts
        /\ Len(dest) < COMMAND_BUFFER_SIZE
    BY DEF SubstituteInv, SubstituteTypeOK, CommandFitsBuffer, Texts, Replacements
  <1>2. COMMAND_BUFFER_SIZE \in Nat \ {0}
    BY BufferHasRoom
  <1>3. Len(from) \in Nat /\ Len(dest) \in Nat
    BY <1>1, LengthOfText
  <1> QED BY <1>1, <1>2, <1>3 DEF Room

LEMMA CutsAre ==
  ASSUME SubstituteInv, NEW s \in Texts
  PROVE  LET copied == dest \o Cut(s, Room(dest))
         IN  /\ copied \in Texts
             /\ Len(copied) = Shorter(Len(dest) + Len(s), COMMAND_BUFFER_SIZE - 1)
             /\ \A i \in 1..Len(copied) : copied[i] = (dest \o s)[i]
             /\ Room(copied) = 0 <=> Len(copied) = COMMAND_BUFFER_SIZE - 1
             /\ Len(dest) + Len(s) <= COMMAND_BUFFER_SIZE - 1 => copied = dest \o s
  <1> DEFINE d == Cut(s, Room(dest))
             copied == dest \o d
             w == dest \o s
  <1>1. /\ dest \in Texts /\ Len(dest) \in Nat /\ COMMAND_BUFFER_SIZE - 1 \in Nat
        /\ Room(dest) \in Nat /\ Len(dest) + Room(dest) = COMMAND_BUFFER_SIZE - 1
    BY BufferFacts
  <1>2. Len(s) \in Nat
    BY LengthOfText
  <1>3. /\ d \in Texts /\ Len(d) = Shorter(Room(dest), Len(s))
        /\ \A i \in 1..Shorter(Room(dest), Len(s)) : d[i] = s[i]
        /\ Room(dest) >= Len(s) => d = s
    BY <1>1, CutIs
  <1> HIDE DEF d
  <1>4. /\ copied \in Texts /\ Len(copied) = Len(dest) + Len(d)
        /\ \A i \in 1..Len(dest) : copied[i] = dest[i]
        /\ \A i \in 1..Len(d) : copied[Len(dest) + i] = d[i]
    BY <1>1, <1>3, JoinOfTexts
  <1>5. /\ \A i \in 1..Len(dest) : w[i] = dest[i]
        /\ \A i \in 1..Len(s) : w[Len(dest) + i] = s[i]
    BY <1>1, JoinOfTexts
  <1> HIDE DEF w, copied
  <1>6. Len(d) \in Nat /\ Len(d) <= Len(s) /\ Len(d) <= Room(dest)
        /\ (Len(d) = Len(s) \/ Len(d) = Room(dest))
    BY <1>1, <1>2, <1>3 DEF Shorter
  <1>7. Len(copied) = Shorter(Len(dest) + Len(s), COMMAND_BUFFER_SIZE - 1)
    <2>1. \A x, r, k \in Nat : x + Shorter(r, k) = Shorter(x + k, x + r)
      BY DEF Shorter
    <2>2. Len(dest) + Shorter(Room(dest), Len(s))
            = Shorter(Len(dest) + Len(s), Len(dest) + Room(dest))
      BY <1>1, <1>2, <2>1
    <2>3. Len(copied) = Len(dest) + Shorter(Room(dest), Len(s))
      BY <1>3, <1>4, Zenon
    <2>4. Len(dest) + Room(dest) = COMMAND_BUFFER_SIZE - 1
      BY <1>1
    <2> QED BY <2>2, <2>3, <2>4, Zenon
  <1>8. ASSUME NEW i \in 1..Len(copied) PROVE copied[i] = w[i]
    <2>1. CASE i <= Len(dest)
      <3>1. i \in 1..Len(dest)
        BY <1>1, <1>4, <1>6, <2>1
      <3> QED BY <1>4, <1>5, <3>1
    <2>2. CASE i > Len(dest)
      <3>1. i - Len(dest) \in 1..Len(d) /\ Len(dest) + (i - Len(dest)) = i
        BY <1>1, <1>4, <1>6, <2>2
      <3>2. i - Len(dest) \in 1..Len(s)
        BY <1>2, <1>6, <3>1
      <3>3. d[i - Len(dest)] = s[i - Len(dest)]
        BY <1>3, <3>1
      <3>4. copied[i] = d[i - Len(dest)] /\ w[i] = s[i - Len(dest)]
        BY <1>4, <1>5, <3>1, <3>2
      <3> QED BY <3>3, <3>4
    <2> QED BY <1>1, <1>4, <1>6, <2>1, <2>2
  <1>9. Room(copied) = 0 <=> Len(copied) = COMMAND_BUFFER_SIZE - 1
    BY <1>1, <1>4, <1>6 DEF Room
  <1>10. Len(dest) + Len(s) <= COMMAND_BUFFER_SIZE - 1 => copied = w
    <2>1. SUFFICES ASSUME Len(dest) + Len(s) <= COMMAND_BUFFER_SIZE - 1 PROVE copied = w
      OBVIOUS
    <2>2. Room(dest) >= Len(s)
      BY <1>1, <1>2, <2>1
    <2> QED BY <1>3, <2>2, Zenon DEF copied, w
  <1> QED BY <1>4, <1>7, <1>8, <1>9, <1>10 DEF copied, w, d

(* What quit is decided by stays.                                          *)
LEMMA ReplaceKept ==
  ASSUME SubstituteInv, Replace, NEW c, ImagesOf(c, images),
         Kept(c.match_command, dest \o from)
  PROVE  Kept(c.match_command, dest' \o from')
  <1> DEFINE command == c.match_command
             n == COMMAND_BUFFER_SIZE - 1
  <1>1. PICK q \in 0..Len(from) :
           /\ q + 2 \in 0..Len(from) /\ Here(from, q + 1, pass)
           /\ LET before == dest \o Cut(Prefix(from, q), Room(dest))
              IN  \/ Room(before) = 0 /\ dest' = before /\ UNCHANGED from
                  \/ /\ Room(before) # 0
                     /\ dest' = before \o Cut(images[pass], Room(before))
                     /\ from' = Rest(from, q + 2)
           /\ pass \in 1..4
    BY ReplacingIs
  <1> DEFINE a == Prefix(from, q)
             before == dest \o Cut(a, Room(dest))
  <1>2. /\ images \in Replacements /\ from \in Texts /\ dest \in Texts
        /\ n \in Nat /\ Len(from) \in Nat /\ Len(dest) \in Nat
    BY BufferFacts
  <1>3. command \in Texts /\ Len(command) + 1 <= n /\ Inked(images[pass])
    BY <1>1 DEF ImagesOf
  <1>4. /\ a \in Texts /\ Len(a) = q /\ \A i \in 1..q : a[i] = from[i]
        /\ Rest(from, q + 2) \in Texts
    BY <1>1, <1>2, PartsOfText
  <1>5. /\ before \in Texts
        /\ Len(before) = Shorter(Len(dest) + Len(a), n)
        /\ \A i \in 1..Len(before) : before[i] = (dest \o a)[i]
        /\ Room(before) = 0 <=> Len(before) = n
        /\ Len(dest) + Len(a) <= n => before = dest \o a
    BY <1>4, CutsAre
  <1> HIDE DEF a, before, command, n
  <1>6. CASE Room(before) = 0 /\ dest' = before /\ UNCHANGED from
    <2>1. Len(before) = n /\ n <= Len(dest) + Len(a)
      BY <1>2, <1>4, <1>5, <1>6 DEF Shorter
    <2>2. Len(before) >= Len(command) + 1
      BY <1>3, <2>1, Zenon
    <2>3. /\ dest \o from \in Texts /\ Len(dest \o from) = Len(dest) + Len(from)
          /\ \A i \in 1..Len(dest) : (dest \o from)[i] = dest[i]
          /\ \A i \in 1..Len(from) : (dest \o from)[Len(dest) + i] = from[i]
      BY <1>2, JoinOfTexts
    <2>4. /\ \A i \in 1..Len(dest) : (dest \o a)[i] = dest[i]
          /\ \A i \in 1..Len(a) : (dest \o a)[Len(dest) + i] = a[i]
      BY <1>2, <1>4, JoinOfTexts
    <2>5. Len(before) <= Len(dest \o from)
      <3>1. Len(before) <= Len(dest) + q
        BY <1>2, <1>4, <1>5 DEF Shorter
      <3> QED BY <1>2, <1>5, <2>1, <2>3, <3>1
    <2>6. \A i \in 1..Len(before) : before[i] = (dest \o from)[i]
      <3>1. ASSUME NEW i \in 1..Len(before) PROVE (dest \o a)[i] = (dest \o from)[i]
        <4>1. Len(before) <= Len(dest) + q /\ Len(before) \in Nat
          BY <1>2, <1>4, <1>5 DEF Shorter
        <4>2. CASE i <= Len(dest)
          <5>1. i \in 1..Len(dest)
            BY <1>2, <4>1, <4>2
          <5> QED BY <2>3, <2>4, <5>1
        <4>3. CASE i > Len(dest)
          <5>1. i - Len(dest) \in 1..q /\ Len(dest) + (i - Len(dest)) = i
            BY <1>2, <4>1, <4>3
          <5>2. i - Len(dest) \in 1..Len(from) /\ i - Len(dest) \in 1..Len(a)
            BY <1>2, <1>4, <5>1
          <5>3. (dest \o a)[i] = a[i - Len(dest)] /\ (dest \o from)[i] = from[i - Len(dest)]
            BY <2>3, <2>4, <5>1, <5>2
          <5> QED BY <1>4, <5>1, <5>3
        <4>4. i <= Len(dest) \/ i > Len(dest)
          BY <1>2, <4>1
        <4> QED BY <4>2, <4>3, <4>4, Zenon
      <3> QED BY <1>5, <3>1
    <2>7. Kept(command, before \o from)
      BY <1>2, <1>3, <1>5, <2>2, <2>3, <2>5, <2>6, KeptCut DEF command
    <2> QED BY <1>6, <2>7, Zenon DEF command
  <1>7. CASE /\ Room(before) # 0
             /\ dest' = before \o Cut(images[pass], Room(before))
             /\ from' = Rest(from, q + 2)
    <2>1. before = dest \o a
      BY <1>2, <1>4, <1>5, <1>7 DEF Shorter
    <2>2. Room(before) \in Nat /\ Room(before) >= 1
      <3>1. Len(before) \in Nat /\ Len(before) <= n
        BY <1>2, <1>4, <1>5 DEF Shorter
      <3> QED BY <1>2, <1>7, <3>1 DEF Room, n
    <2> DEFINE t == Cut(images[pass], Room(before))
    <2>3. images[pass] \in Texts
      BY <1>1, <1>2 DEF Replacements
    <2>4. /\ t \in Texts /\ Len(t) = Shorter(Room(before), Len(images[pass]))
          /\ \A i \in 1..Shorter(Room(before), Len(images[pass])) : t[i] = images[pass][i]
      BY <2>2, <2>3, CutIs
    <2>5. Len(images[pass]) \in Nat /\ Len(images[pass]) >= 1
      BY <1>3, <2>3, LengthOfText, Zenon DEF Inked
    <2>6. 1 \in 1..Shorter(Room(before), Len(images[pass]))
      BY <2>2, <2>5 DEF Shorter
    <2>7. Inked(t)
      <3>1. t[1] = images[pass][1]
        BY <2>4, <2>6, Zenon
      <3>2. Len(t) >= 1
        <4>1. Shorter(Room(before), Len(images[pass])) >= 1
          BY <2>2, <2>5 DEF Shorter
        <4> HIDE DEF t
        <4> QED BY <2>4, <4>1, Zenon
      <3> HIDE DEF t
      <3> QED BY <1>3, <3>1, <3>2, Zenon DEF Inked
    <2> HIDE DEF t
    <2>8. Kept(command, ((dest \o Prefix(from, q)) \o t) \o Rest(from, q + 2))
      BY <1>1, <1>2, <1>3, <1>4, <2>4, <2>7, KeptReplaced DEF command
    <2> QED BY <1>7, <2>1, <2>8, Zenon DEF t, a, command
  <1> QED BY <1>1, <1>6, <1>7 DEF before, a

LEMMA EndPassKept ==
  ASSUME SubstituteInv, EndPass, NEW c, ImagesOf(c, images),
         Kept(c.match_command, dest \o from)
  PROVE  Kept(c.match_command, dest' \o from')
  <1> DEFINE command == c.match_command
             n == COMMAND_BUFFER_SIZE - 1
             copied == dest \o Cut(from, Room(dest))
             w == dest \o from
  <1>1. dest' = <<>> /\ from' = copied
    BY DEF EndPass
  <1>2. /\ from \in Texts /\ dest \in Texts
        /\ n \in Nat /\ Len(from) \in Nat /\ Len(dest) \in Nat
    BY BufferFacts
  <1>3. command \in Texts /\ Len(command) + 1 <= n
    BY DEF ImagesOf
  <1>4. /\ copied \in Texts
        /\ Len(copied) = Shorter(Len(dest) + Len(from), n)
        /\ \A i \in 1..Len(copied) : copied[i] = w[i]
        /\ Len(dest) + Len(from) <= n => copied = w
    BY <1>2, CutsAre
  <1>5. w \in Texts /\ Len(w) = Len(dest) + Len(from)
    BY <1>2, JoinOfTexts
  <1> HIDE DEF command, n, copied, w
  <1>6. Kept(command, copied)
    <2>1. CASE Len(dest) + Len(from) <= n
      BY <1>4, <2>1, Zenon DEF w, command
    <2>2. CASE Len(dest) + Len(from) > n
      <3>1. Len(copied) = n /\ n <= Len(dest) + Len(from)
        BY <1>2, <1>4, <2>2 DEF Shorter
      <3>2. Len(copied) >= Len(command) + 1 /\ Len(copied) <= Len(w)
        <4>1. \A k, l : k <= l => l >= k
          OBVIOUS
        <4> QED BY <1>3, <1>5, <3>1, <4>1, Zenon
      <3>3. Kept(command, copied \o <<>>)
        BY <1>3, <1>4, <1>5, <3>2, NoSymbol, KeptCut DEF w, command
      <3> QED BY <1>4, <3>3, TextsJoin
    <2>3. Len(dest) + Len(from) <= n \/ Len(dest) + Len(from) > n
      BY <1>2
    <2> QED BY <2>1, <2>2, <2>3, Zenon
  <1>7. <<>> \o copied = copied
    BY <1>4, TextsJoin
  <1> QED BY <1>1, <1>6, <1>7, Zenon DEF command

(* The command is made as documented: no image is looked into, and nothing *)
(* is cut, because there is room for all of it.                            *)
Good(c) == EachOnce(c.match_command) /\ ~Holds(c.pv_name, "%")

LEMMA ImagePlain ==
  ASSUME NEW c, ImagesOf(c, images), ~Holds(c.pv_name, "%"), NEW p \in 1..4, p < 4
  PROVE  ~Holds(images[p], "%")
  <1>1. p = 1 \/ p \in 2..3
    OBVIOUS
  <1> QED BY <1>1, Zenon DEF ImagesOf

LEMMA ReplaceMade ==
  ASSUME SubstituteInv, Replace, NEW c, ImagesOf(c, images), ~Holds(c.pv_name, "%"),
         Expanding(c.match_command, images, pass, from, dest)
  PROVE  Expanding(c.match_command, images, pass, from', dest')
  <1> DEFINE command == c.match_command
             n == COMMAND_BUFFER_SIZE - 1
             t == images[pass]
  <1>1. PICK q \in 0..Len(from) :
           /\ q + 2 \in 0..Len(from) /\ Here(from, q + 1, pass)
           /\ \A k \in 1..q : ~Here(from, k, pass)
           /\ LET before == dest \o Cut(Prefix(from, q), Room(dest))
              IN  \/ Room(before) = 0 /\ dest' = before /\ UNCHANGED from
                  \/ /\ Room(before) # 0
                     /\ dest' = before \o Cut(images[pass], Room(before))
                     /\ from' = Rest(from, q + 2)
           /\ pass \in 1..4
    BY ReplacingIs
  <1> DEFINE a == Prefix(from, q)
             before == dest \o Cut(a, Room(dest))
  <1>2. /\ images \in Replacements /\ from \in Texts /\ dest \in Texts
        /\ n \in Nat /\ Len(from) \in Nat /\ Len(dest) \in Nat
    BY BufferFacts
  <1>3. command \in Texts /\ Len(command) + Sum(images) < n
    BY DEF ImagesOf
  <1>4. a \in Texts /\ Len(a) = q /\ t \in Texts
    BY <1>1, <1>2, PartsOfText DEF Replacements
  <1>5. pass < 4 => ~Holds(images[pass], "%")
    BY <1>1, ImagePlain
  <1>6. /\ Expanding(command, images, pass, Rest(from, q + 2), (dest \o a) \o t)
        /\ (Len(dest) + q) + Len(t) <= Len(command) + Sum(images)
    BY <1>1, <1>2, <1>3, <1>5, ReplaceExpanding
  <1>7. /\ Len(before) = Shorter(Len(dest) + Len(a), n)
        /\ Len(dest) + Len(a) <= n => before = dest \o a
    BY <1>4, CutsAre
  <1>8. Len(command) \in Nat /\ Sum(images) \in Nat /\ Len(t) \in Nat
    BY <1>2, <1>3, <1>4, LengthOfText, PadIs
  <1> HIDE DEF a, before, command, n, t
  <1>9. Len(dest) + Len(a) <= n /\ (Len(dest) + q) + Len(t) < n
    BY <1>2, <1>3, <1>4, <1>6, <1>8
  <1>10. before = dest \o a /\ Len(before) = Len(dest) + q
    <2>1. Len(dest \o a) = Len(dest) + Len(a)
      BY <1>2, <1>4, JoinOfTexts
    <2> QED BY <1>4, <1>7, <1>9, <2>1, Zenon
  <1>11. Room(before) \in Nat /\ Room(before) # 0 /\ Room(before) >= Len(t)
    BY <1>2, <1>8, <1>9, <1>10 DEF Room, n
  <1>12. Cut(t, Room(before)) = t
    BY <1>4, <1>11, CutIs
  <1>13. dest' = before \o t /\ from' = Rest(from, q + 2)
    BY <1>1, <1>11, <1>12, Zenon DEF before, a, t
  <1> QED BY <1>6, <1>10, <1>13, Zenon DEF command

LEMMA ExpandingFits ==
  ASSUME NEW command \in Texts, NEW im \in Replacements, NEW p \in 1..4,
         NEW fr \in Texts, NEW de \in Texts, Expanding(command, im, p, fr, de)
  PROVE  Len(de) <= Len(command) + Sum(im)
  <1> DEFINE D == Exp(Later(p + 1), Pad(im), de)
             F == Exp(Later(p), Pad(im), fr)
  <1>1. Later(p + 1) \in SUBSET (1..4)
    <2>1. p + 1 \in 1..5
      OBVIOUS
    <2> QED BY <2>1, LaterAre
  <1>2. Pad(im) \in Replacements /\ \A j \in 1..4 : Len(Pad(im)[j]) >= 2
    BY PadIs
  <1>3. Len(D) >= Len(de)
    BY <1>1, <1>2, ExpGrows
  <1>4. Len(D) \in Nat /\ Len(F) \in Nat
    BY <1>2, LaterText
  <1>5. Len(D) + Len(F) <= Len(command) + Sum(im)
    BY DEF Expanding
  <1>6. Len(de) \in Nat /\ Len(command) \in Nat /\ Sum(im) \in Nat
    BY LengthOfText, PadIs
  <1> HIDE DEF D, F
  <1> QED BY <1>3, <1>4, <1>5, <1>6

LEMMA EndPassMade ==
  ASSUME SubstituteInv, EndPass, NEW c, ImagesOf(c, images), ~Holds(c.pv_name, "%"),
         Expanding(c.match_command, images, pass, from, dest)
  PROVE  /\ pass < 4 => Expanding(c.match_command, images, pass + 1, from', dest')
         /\ pass = 4 => from' = Expanded(c.match_command, images)
  <1> DEFINE command == c.match_command
             n == COMMAND_BUFFER_SIZE - 1
             copied == dest \o Cut(from, Room(dest))
  <1>1. /\ pass \in 1..4 /\ dest' = <<>> /\ from' = copied
        /\ Found = {} \/ Room(dest) = 0
    BY DEF EndPass
  <1>2. /\ images \in Replacements /\ from \in Texts /\ dest \in Texts
        /\ n \in Nat /\ Len(from) \in Nat /\ Len(dest) \in Nat
    BY BufferFacts
  <1>3. command \in Texts /\ Len(command) + Sum(images) < n
    BY DEF ImagesOf
  <1>4. Len(command) \in Nat /\ Sum(images) \in Nat
    BY <1>2, <1>3, LengthOfText, PadIs
  <1>5. Len(dest) <= Len(command) + Sum(images)
    BY <1>1, <1>2, <1>3, ExpandingFits
  <1>6. Room(dest) # 0
    <2> HIDE DEF command
    <2> QED BY <1>2, <1>3, <1>4, <1>5 DEF Room
  <1>7. Occurrences(from, Placeholder[pass]) = {}
    BY <1>1, <1>6 DEF Found
  <1>8. /\ pass < 4 => Expanding(command, images, pass + 1, dest \o from, <<>>)
        /\ pass = 4 => dest \o from = Expanded(command, images)
        /\ Len(dest) + Len(from) <= Len(command) + Sum(images)
    BY <1>1, <1>2, <1>3, <1>7, EndExpanding
  <1>9. Len(dest) + Len(from) <= n
    <2> HIDE DEF command, n
    <2> QED BY <1>2, <1>3, <1>4, <1>8
  <1>10. copied = dest \o from
    BY <1>2, <1>9, CutsAre
  <1> QED BY <1>1, <1>8, <1>10, Zenon

-----------------------------------------------------------------------------
(* The invariant: what a call of client c has made so far, whether it can  *)
(* quit, and that nothing is substituted before there is a call.           *)
Calling == main \in {"command", "done"}

MadeInv(c) ==
  /\ ImagesOf(c, images)
  /\ Kept(c.match_command, dest \o from)
  /\ Good(c) /\ pass \in 1..4 => Expanding(c.match_command, images, pass, from, dest)
  /\ Good(c) /\ pass = 5 => from = Expanded(c.match_command, images)

QuitInv ==
  /\ main # "done" => quit_invoked = FALSE
  /\ main = "done" =>
       /\ quit_invoked <=> (IsQuit(from) /\ call.state[1] = "match")
       /\ quit_invoked => exit_code = Atoi(Rest(from, 2))

CommandInv ==
  /\ ~Calling => pass = 0
  /\ Calling => pass \in 1..5 /\ MadeInv(clients[call.client])
  /\ Calling /\ pass = 5 => dest = <<>>
  /\ main = "done" => pass = 5
  /\ QuitInv

LEMMA InitCommand == Init => CommandInv
  <1> SUFFICES ASSUME Init PROVE CommandInv
    OBVIOUS
  <1>1. main = "special" /\ pass = 0 /\ quit_invoked = FALSE
    BY DEF Init, CommandLineInit, SubstituteInit
  <1> QED BY <1>1 DEF CommandInv, QuitInv, Calling

(* Before a client is called.                                              *)
LEMMA BeforeCommand ==
  ASSUME CommandInv, main \notin {"command", "done"}, main' \notin {"command", "done"},
         UNCHANGED <<substituteVars, quit_invoked>>
  PROVE  CommandInv'
  <1>1. pass' = 0 /\ quit_invoked' = FALSE
    BY Zenon DEF CommandInv, QuitInv, Calling, substituteVars
  <1> QED BY <1>1 DEF CommandInv, QuitInv, Calling

LEMMA CallCommand ==
  IInv /\ CommandInv /\ CallSomeCommand => CommandInv'
  <1> SUFFICES ASSUME IInv, CommandInv,
                      NEW i \in DOMAIN clients, NEW state \in StateImages,
                      NEW v \in ValueImages,
                      call_command(i, state, IF state = <<"disconnect">> THEN <<>> ELSE v)
               PROVE  CommandInv'
    BY DEF CallSomeCommand
  <1> DEFINE value == IF state = <<"disconnect">> THEN <<>> ELSE v
             c == clients[i]
             im == Images(c.pv_name, c.element_index, state, value)
  <1>1. /\ main = "process" /\ main' = "command"
        /\ call' = [client |-> i, state |-> state, value |-> value]
        /\ pass' = 1 /\ dest' = <<>> /\ from' = c.match_command /\ images' = im
        /\ clients' = clients /\ quit_invoked' = quit_invoked
    BY DEF call_command, BeginSubstitute, readerVars
  <1>2. c \in Clients /\ WellFormed(c)
    <2>1. clients \in Seq(Clients) /\ WellFormed(clients[i])
      BY DEF IInv, ReaderInv, ReaderTypeOK, ClientsWellFormed, Clients
    <2> QED BY <2>1, LenProperties, ElementOfSeq
  <1>3. value \in Texts
    BY InputAssumption, NoSymbol
  <1> HIDE DEF value
  <1>4. ImagesOf(c, im)
    BY <1>2, <1>3, ImagesAre
  <1> HIDE DEF im
  <1>5. c.match_command \in Texts /\ im \in Replacements
    BY <1>4 DEF ImagesOf
  <1>6. <<>> \o c.match_command = c.match_command
    BY <1>5, TextsJoin
  <1>7. Kept(c.match_command, c.match_command)
    BY <1>5, KeptAtFirst
  <1>8. Good(c) => Expanding(c.match_command, im, 1, c.match_command, <<>>)
    BY <1>5, BeginExpanding DEF Good
  <1> HIDE DEF c
  <1>9. clients'[call'.client] = c
    BY <1>1 DEF c
  <1>10. MadeInv(c)'
    <2>1. /\ ImagesOf(c, images')
          /\ Kept(c.match_command, dest' \o from')
          /\ Good(c) => Expanding(c.match_command, images', pass', from', dest')
          /\ pass' # 5
      BY <1>1, <1>4, <1>6, <1>7, <1>8
    <2>2. c' = c
      BY <1>1 DEF c
    <2> QED BY <2>1, <2>2 DEF MadeInv
  <1>11. MadeInv(clients[call.client])'
    <2>1. c' = c
      BY <1>1 DEF c
    <2> QED BY <1>9, <1>10, <2>1
  <1>12. quit_invoked' = FALSE
    BY <1>1, Zenon DEF CommandInv, QuitInv
  <1> QED BY <1>1, <1>11, <1>12 DEF CommandInv, QuitInv, Calling

LEMMA SubstituteCommand ==
  IInv /\ CommandInv /\ SubstituteImages => CommandInv'
  <1> SUFFICES ASSUME IInv, CommandInv, SubstituteImages PROVE CommandInv'
    OBVIOUS
  <1> DEFINE c == clients[call.client]
  <1>1. /\ main = "command" /\ SubstituteStep /\ SubstituteInv
        /\ main' = main /\ clients' = clients /\ call' = call
        /\ quit_invoked' = quit_invoked
    BY DEF SubstituteImages, IInv, mainVars, readerVars, callVars
  <1>2. MadeInv(c) /\ quit_invoked = FALSE /\ pass \in 1..5
    BY <1>1, Zenon DEF CommandInv, QuitInv, Calling
  <1>3. c' = c
    BY <1>1
  <1> HIDE DEF c
  <1>4. CASE Replace
    <2>1. pass \in 1..4 /\ pass' = pass /\ images' = images
      BY <1>4 DEF Replace
    <2>2. ImagesOf(c, images) /\ Kept(c.match_command, dest' \o from')
      BY <1>1, <1>2, <1>4, ReplaceKept DEF MadeInv
    <2>3. Good(c) => Expanding(c.match_command, images, pass, from', dest')
      BY <1>1, <1>2, <1>4, <2>1, ReplaceMade DEF MadeInv, Good
    <2>4. pass # 5
      BY <2>1
    <2>5. MadeInv(c)'
      BY <1>3, <2>1, <2>2, <2>3, <2>4 DEF MadeInv
    <2> QED BY <1>1, <1>2, <2>1, <2>4, <2>5 DEF CommandInv, QuitInv, Calling, c
  <1>5. CASE EndPass
    <2>1. pass \in 1..4 /\ pass' = pass + 1 /\ images' = images /\ dest' = <<>>
      BY <1>5 DEF EndPass
    <2>2. ImagesOf(c, images) /\ Kept(c.match_command, dest' \o from')
      BY <1>1, <1>2, <1>5, EndPassKept DEF MadeInv
    <2>3. Good(c) =>
            /\ pass < 4 => Expanding(c.match_command, images, pass + 1, from', dest')
            /\ pass = 4 => from' = Expanded(c.match_command, images)
      BY <1>1, <1>2, <1>5, <2>1, EndPassMade DEF MadeInv, Good
    <2>4. /\ pass' \in 1..5 /\ (pass' \in 1..4 => pass < 4) /\ (pass' = 5 => pass = 4)
      BY <2>1
    <2>5. MadeInv(c)'
      BY <1>3, <2>1, <2>2, <2>3, <2>4, Zenon DEF MadeInv
    <2> QED BY <1>1, <1>2, <2>1, <2>4, <2>5 DEF CommandInv, QuitInv, Calling, c
  <1> QED BY <1>1, <1>4, <1>5 DEF SubstituteStep

LEMMA QuitOrRunCommand ==
  CommandInv /\ QuitOrRun => CommandInv'
  <1> SUFFICES ASSUME CommandInv, QuitOrRun PROVE CommandInv'
    OBVIOUS
  <1> DEFINE quits == IsQuit(from) /\ call.state[1] = "match"
             c == clients[call.client]
  <1>1. /\ main = "command" /\ main' = "done" /\ pass = 5
        /\ quit_invoked' = (quit_invoked \/ quits)
        /\ exit_code' = IF quits THEN Atoi(Rest(from, 2)) ELSE exit_code
        /\ clients' = clients /\ call' = call
        /\ pass' = pass /\ images' = images /\ from' = from /\ dest' = dest
    BY Zenon DEF QuitOrRun, readerVars, substituteVars
  <1>2. MadeInv(c) /\ quit_invoked = FALSE /\ pass \in 1..5 /\ dest = <<>>
    BY <1>1, Zenon DEF CommandInv, QuitInv, Calling
  <1>3. /\ quit_invoked' <=> quits
        /\ quit_invoked' => exit_code' = Atoi(Rest(from, 2))
    BY <1>1, <1>2, Zenon
  <1>4. MadeInv(c)'
    <2>1. c' = c
      BY <1>1
    <2> HIDE DEF c
    <2> QED BY <1>1, <1>2, <2>1 DEF MadeInv
  <1>5. QuitInv'
    BY <1>1, <1>3, Zenon DEF QuitInv
  <1> QED BY <1>1, <1>2, <1>4, <1>5 DEF CommandInv, Calling

LEMMA NextCommand ==
  IInv /\ CommandInv /\ [Next]_vars => CommandInv'
  <1> SUFFICES ASSUME IInv, CommandInv, [Next]_vars PROVE CommandInv'
    OBVIOUS
  <1>1. CASE ParseOptions
    <2>1. main \notin {"command", "done"} /\ main' \notin {"command", "done"}
      BY <1>1 DEF ParseOptions, CommandLineStep, SpecialOption, NoSpecialOption, Flag,
                  MonitorOption, UnknownOption, EndOfOptions, MissingFile,
                  MissingParameter, OpenFails, AtOption, Return
    <2> QED BY <1>1, <2>1, BeforeCommand DEF ParseOptions, callVars
  <1>2. CASE CreateClientList
    <2>1. main \notin {"command", "done"} /\ main' \notin {"command", "done"}
      BY <1>2 DEF CreateClientList, Open
    <2> QED BY <1>2, <2>1, BeforeCommand DEF CreateClientList, callVars
  <1>3. CASE ScanConfiguration
    <2>1. main \notin {"command", "done"} /\ main' \notin {"command", "done"}
      BY <1>3 DEF ScanConfiguration
    <2> QED BY <1>3, <2>1, BeforeCommand DEF ScanConfiguration, callVars
  <1>4. CASE EmptyList \/ StartRun \/ JustCheck \/ ProcessClients
    <2>1. main \notin {"command", "done"} /\ main' \notin {"command", "done"}
      BY <1>4 DEF EmptyList, StartRun, JustCheck, ProcessClients, Return
    <2> QED BY <1>4, <2>1, BeforeCommand
        DEF EmptyList, StartRun, JustCheck, ProcessClients, callVars
  <1>5. CASE CallSomeCommand
    BY <1>5, CallCommand
  <1>6. CASE SubstituteImages
    BY <1>6, SubstituteCommand
  <1>7. CASE QuitOrRun
    BY <1>7, QuitOrRunCommand
  <1>8. CASE UNCHANGED vars
    <2>1. /\ main' = main /\ clients' = clients /\ call' = call /\ pass' = pass
          /\ images' = images /\ from' = from /\ dest' = dest
          /\ quit_invoked' = quit_invoked /\ exit_code' = exit_code
      BY <1>8 DEF vars, mainVars, readerVars, substituteVars, callVars
    <2>2. QuitInv'
      BY <2>1, Zenon DEF CommandInv, QuitInv
    <2> QED BY <2>1, <2>2 DEF CommandInv, MadeInv, Calling
  <1> QED BY <1>1, <1>2, <1>3, <1>4, <1>5, <1>6, <1>7, <1>8 DEF Next

(* The inductive invariant of a command, from the call of a client to the  *)
(* end of the program.                                                     *)
THEOREM AlwaysCommandInv == Spec => [](IInv /\ ControlInv /\ CommandInv)
  <1>1. Init => IInv /\ ControlInv /\ CommandInv
    BY InitIInv, InitControl, InitCommand
  <1>2. IInv /\ ControlInv /\ CommandInv /\ [Next]_vars
          => (IInv /\ ControlInv /\ CommandInv)'
    BY NextIInv, NextControl, NextCommand
  <1> QED BY <1>1, <1>2, PTL DEF Spec

(* A command that has each placeholder once at most, of a PV whose name    *)
(* has no %, is run as documented: each placeholder is what it stands for, *)
(* no image is taken for a placeholder, whatever the value holds, and      *)
(* COMMAND_BUFFER_SIZE is enough, whatever the sizes are (filter.c:52-75). *)
THEOREM CommandIsExpanded == Spec => []ExpandedAsWritten
  <1>1. CommandInv => ExpandedAsWritten
    <2> SUFFICES ASSUME CommandInv, pass = 5,
                        EachOnce(clients[call.client].match_command),
                        ~Holds(clients[call.client].pv_name, "%")
                 PROVE  from = Expanded(clients[call.client].match_command, images)
      BY DEF ExpandedAsWritten
    <2>1. Calling
      BY DEF CommandInv
    <2> QED BY <2>1 DEF CommandInv, MadeInv, Good
  <1> QED BY <1>1, AlwaysCommandInv, PTL

-----------------------------------------------------------------------------
(* What atoi reads of a text does not change when something is added that  *)
(* is no digit, or after something that is none.                           *)
LEMMA SpanUnique ==
  ASSUME NEW s \in Texts, NEW S, NEW c \in 0..Len(s), \A i \in 1..c : s[i] \in S,
         c < Len(s) => s[c + 1] \notin S
  PROVE  Span(s, S) = c
  <1>1. /\ Span(s, S) \in 0..Len(s)
        /\ \A i \in 1..Span(s, S) : s[i] \in S
        /\ Span(s, S) < Len(s) => s[Span(s, S) + 1] \notin S
    BY SpanIs
  <1>2. Len(s) \in Nat
    BY LengthOfText
  <1>3. ~(Span(s, S) < c)
    <2>1. SUFFICES ASSUME Span(s, S) < c PROVE FALSE
      OBVIOUS
    <2>2. Span(s, S) + 1 \in 1..c /\ Span(s, S) < Len(s)
      BY <1>1, <1>2, <2>1
    <2> QED BY <1>1, <2>2
  <1>4. ~(c < Span(s, S))
    <2>1. SUFFICES ASSUME c < Span(s, S) PROVE FALSE
      OBVIOUS
    <2>2. c + 1 \in 1..Span(s, S) /\ c < Len(s)
      BY <1>1, <1>2, <2>1
    <2> QED BY <1>1, <2>2
  <1> QED BY <1>1, <1>2, <1>3, <1>4

LEMMA PartsOfJoin ==
  ASSUME NEW a \in Texts, NEW b \in Texts, NEW k \in 0..Len(a)
  PROVE  Prefix(a \o b, k) = Prefix(a, k) /\ Rest(a \o b, k) = Rest(a, k) \o b
  <1> DEFINE c == a \o b
  <1>1. Len(a) \in Nat /\ Len(b) \in Nat
    BY LengthOfText
  <1>2. /\ c \in Texts /\ Len(c) = Len(a) + Len(b)
        /\ \A i \in 1..Len(a) : c[i] = a[i]
        /\ \A i \in 1..Len(b) : c[Len(a) + i] = b[i]
    BY JoinOfTexts
  <1> HIDE DEF c
  <1>3. k \in 0..Len(c)
    BY <1>1, <1>2
  <1>4. /\ \A i \in 1..k : Prefix(c, k)[i] = c[i]
        /\ \A i \in 1..(Len(c) - k) : Rest(c, k)[i] = c[k + i]
        /\ Prefix(c, k) \in Texts /\ Len(Prefix(c, k)) = k
        /\ Rest(c, k) \in Texts /\ Len(Rest(c, k)) = Len(c) - k
    BY <1>2, <1>3, PartsOfText
  <1>5. /\ \A i \in 1..k : Prefix(a, k)[i] = a[i]
        /\ \A i \in 1..(Len(a) - k) : Rest(a, k)[i] = a[k + i]
        /\ Prefix(a, k) \in Texts /\ Len(Prefix(a, k)) = k
        /\ Rest(a, k) \in Texts /\ Len(Rest(a, k)) = Len(a) - k
    BY PartsOfText
  <1>6. Prefix(c, k) = Prefix(a, k)
    <2>1. \A i \in 1..k : Prefix(c, k)[i] = Prefix(a, k)[i]
      <3>1. \A i \in 1..k : i \in 1..Len(a)
        BY <1>1
      <3> QED BY <1>2, <1>4, <1>5, <3>1
    <2> QED BY <1>4, <1>5, <2>1, EqualTexts
  <1> DEFINE r == Rest(a, k)
             d == r \o b
  <1>7. /\ d \in Texts /\ Len(d) = Len(r) + Len(b)
        /\ \A i \in 1..Len(r) : d[i] = r[i]
        /\ \A i \in 1..Len(b) : d[Len(r) + i] = b[i]
    BY <1>5, JoinOfTexts
  <1> HIDE DEF r, d
  <1>8. Len(r) = Len(a) - k /\ \A i \in 1..(Len(a) - k) : r[i] = a[k + i]
    BY <1>5 DEF r
  <1>9. Len(Rest(c, k)) = Len(d)
    <2>1. \A x, y \in Nat : \A z \in 0..x : (x + y) - z = (x - z) + y
      OBVIOUS
    <2> QED BY <1>1, <1>2, <1>4, <1>7, <1>8, <2>1
  <1>10. ASSUME NEW i \in 1..Len(Rest(c, k)) PROVE Rest(c, k)[i] = d[i]
    <2>0. Len(Rest(c, k)) = (Len(a) + Len(b)) - k /\ i \in 1..(Len(c) - k)
      BY <1>2, <1>4, <1>10
    <2>1. Rest(c, k)[i] = c[k + i]
      BY <1>4, <2>0
    <2>2. CASE i <= Len(a) - k
      <3>1. i \in 1..(Len(a) - k) /\ k + i \in 1..Len(a)
        BY <1>1, <2>0, <2>2
      <3>2. i \in 1..Len(r)
        BY <1>8, <3>1
      <3> QED BY <1>2, <1>7, <1>8, <2>1, <3>1, <3>2
    <2>3. CASE i > Len(a) - k
      <3>1. PICK m \in 1..Len(b) : i = (Len(a) - k) + m
        <4>1. i - (Len(a) - k) \in 1..Len(b) /\ i = (Len(a) - k) + (i - (Len(a) - k))
          BY <1>1, <2>0, <2>3
        <4> QED BY <4>1
      <3>2. k + ((Len(a) - k) + m) = Len(a) + m
        BY <1>1
      <3>3. c[Len(a) + m] = b[m] /\ d[Len(r) + m] = b[m]
        BY <1>2, <1>7
      <3> QED BY <1>8, <2>1, <3>1, <3>2, <3>3
    <2>4. i <= Len(a) - k \/ i > Len(a) - k
      BY <1>1, <2>0
    <2> QED BY <2>2, <2>3, <2>4, Zenon
  <1>11. Rest(c, k) = d
    BY <1>4, <1>7, <1>9, <1>10, EqualTexts
  <1> QED BY <1>6, <1>11 DEF c, d, r

Number(digits) ==
  LET value[k \in 0..Len(digits)] ==
        IF k = 0 THEN 0 ELSE 10 * value[k - 1] + Digit[digits[k]]
  IN  value[Len(digits)]

LEMMA AtoiUnsignedIs ==
  ASSUME NEW s
  PROVE  AtoiUnsigned(s) = Number(Prefix(s, Span(s, DOMAIN Digit)))
  BY DEF AtoiUnsigned, Number

LEMMA SkipWhiteIs ==
  ASSUME NEW s \in Texts
  PROVE  SkipWhite[s] = Rest(s, Span(s, White)) /\ SkipWhite[s] \in Texts
  BY SkipWhiteOfText DEF SkipWhite, Texts

(* Digits are read as far as they go, and what follows them is no matter.  *)
LEMMA DigitsThen ==
  ASSUME NEW u \in Texts, NEW b \in Texts,
         \/ Span(u, DOMAIN Digit) < Len(u)
         \/ b = <<>>
         \/ ~Begins(b, DOMAIN Digit)
  PROVE  AtoiUnsigned(u \o b) = AtoiUnsigned(u)
  <1> DEFINE D == DOMAIN Digit
             m == Span(u, D)
  <1>1. Len(u) \in Nat /\ Len(b) \in Nat
    BY LengthOfText
  <1>2. /\ m \in 0..Len(u) /\ \A i \in 1..m : u[i] \in D
        /\ m < Len(u) => u[m + 1] \notin D
    BY <1>1, SpanIs
  <1>3. /\ u \o b \in Texts /\ Len(u \o b) = Len(u) + Len(b)
        /\ \A i \in 1..Len(u) : (u \o b)[i] = u[i]
        /\ \A i \in 1..Len(b) : (u \o b)[Len(u) + i] = b[i]
    BY <1>1, JoinOfTexts
  <1>4. m < Len(u) \/ b = <<>> \/ ~Begins(b, D)
    OBVIOUS
  <1> HIDE DEF m, D
  <1>5. Span(u \o b, D) = m
    <2>1. m \in 0..Len(u \o b) /\ \A i \in 1..m : i \in 1..Len(u)
      BY <1>1, <1>2, <1>3
    <2>2. \A i \in 1..m : (u \o b)[i] \in D
      BY <1>2, <1>3, <2>1
    <2>3. m < Len(u \o b) => (u \o b)[m + 1] \notin D
      <3>1. CASE m < Len(u)
        <4>1. m + 1 \in 1..Len(u)
          BY <1>1, <1>2, <3>1
        <4> QED BY <1>2, <1>3, <3>1, <4>1
      <3>2. CASE m = Len(u) /\ b = <<>>
        <4>1. Len(b) = 0
          BY <3>2, LengthOfText
        <4>2. ~(m < Len(u \o b))
          BY <1>1, <1>3, <3>2, <4>1
        <4> QED BY <4>2
      <3>3. CASE m = Len(u) /\ b # <<>> /\ ~Begins(b, D)
        <4>1. b[1] \notin D
          BY <3>3 DEF Begins
        <4>2. Len(b) # 0
          BY <3>3, LengthOfText
        <4>3. 1 \in 1..Len(b)
          BY <1>1, <4>2
        <4>4. (u \o b)[Len(u) + 1] = b[1]
          BY <1>3, <4>3
        <4> QED BY <3>3, <4>1, <4>4, Zenon
      <3>4. m < Len(u) \/ m = Len(u)
        BY <1>1, <1>2
      <3> QED BY <1>4, <3>1, <3>2, <3>3, <3>4, Zenon
    <2> QED BY <1>3, <2>1, <2>2, <2>3, SpanUnique
  <1>6. Prefix(u \o b, m) = Prefix(u, m)
    BY <1>1, <1>2, PartsOfJoin
  <1>7. AtoiUnsigned(u \o b) = Number(Prefix(u \o b, m))
    BY <1>5, AtoiUnsignedIs DEF D
  <1>8. AtoiUnsigned(u) = Number(Prefix(u, m))
    BY AtoiUnsignedIs DEF m, D
  <1> QED BY <1>6, <1>7, <1>8, Zenon

(* A sign is read first, and is not taken for one of what follows.         *)
LEMMA BeginsThen ==
  ASSUME NEW u \in Texts, NEW b \in Texts, NEW S, u # <<>>
  PROVE  Begins(u \o b, S) <=> Begins(u, S)
  <1>1. Len(u) \in Nat /\ Len(u) # 0 /\ Len(b) \in Nat
    BY LengthOfText
  <1>2. Len(u \o b) = Len(u) + Len(b) /\ u \o b \in Texts
        /\ \A i \in 1..Len(u) : (u \o b)[i] = u[i]
    BY JoinOfTexts
  <1>3. 1 \in 1..Len(u) /\ Len(u \o b) # 0
    BY <1>1, <1>2
  <1>4. u \o b # <<>>
    BY <1>3, NoSymbol, Zenon
  <1>5. (u \o b)[1] = u[1]
    BY <1>2, <1>3, Zenon
  <1> QED BY <1>4, <1>5, Zenon DEF Begins

LEMMA UnsignedThen ==
  ASSUME NEW u \in Texts, NEW b \in Texts, u # <<>>
  PROVE  /\ Unsigned(u \o b) = Unsigned(u) \o b
         /\ Unsigned(u) \in Texts
  <1>1. Begins(u \o b, Signs) <=> Begins(u, Signs)
    BY BeginsThen
  <1>2. CASE Begins(u, Signs)
    <2>1. 1 \in 0..Len(u)
      BY LengthOfText
    <2>2. Rest(u \o b, 1) = Rest(u, 1) \o b
      BY <2>1, PartsOfJoin
    <2>3. Rest(u, 1) \in Texts
      BY RestOfText
    <2>4. Unsigned(u \o b) = Rest(u \o b, 1) /\ Unsigned(u) = Rest(u, 1)
      BY <1>1, <1>2, Zenon DEF Unsigned
    <2> QED BY <2>2, <2>3, <2>4, Zenon
  <1>3. CASE ~Begins(u, Signs)
    <2>1. Unsigned(u \o b) = u \o b /\ Unsigned(u) = u
      BY <1>1, <1>3, Zenon DEF Unsigned
    <2> QED BY <2>1, Zenon
  <1> QED BY <1>2, <1>3, Zenon

LEMMA AtoiThen ==
  ASSUME NEW a \in Texts, NEW b \in Texts, SkipWhite[a] # <<>>,
         \/ Span(Unsigned(SkipWhite[a]), DOMAIN Digit) < Len(Unsigned(SkipWhite[a]))
         \/ b = <<>>
         \/ ~Begins(b, DOMAIN Digit)
  PROVE  Atoi(a \o b) = Atoi(a)
  <1> DEFINE n == Span(a, White)
             u == SkipWhite[a]
             x == Unsigned(u)
  <1>1. u = Rest(a, n) /\ u \in Texts /\ Len(a) \in Nat /\ Len(b) \in Nat
        /\ Len(u) \in Nat /\ Len(u) # 0
    BY SkipWhiteIs, LengthOfText
  <1>2. /\ n \in 0..Len(a) /\ \A i \in 1..n : a[i] \in White
        /\ n < Len(a) => a[n + 1] \notin White
    BY SpanIs
  <1>3. Len(u) = Len(a) - n
    <2>1. Len(Rest(a, n)) = Len(a) - n
      BY <1>2, PartsOfText
    <2> HIDE DEF u, n
    <2> QED BY <1>1, <2>1, Zenon
  <1>4. /\ a \o b \in Texts /\ Len(a \o b) = Len(a) + Len(b)
        /\ \A i \in 1..Len(a) : (a \o b)[i] = a[i]
    BY JoinOfTexts
  <1>5. Span(a \o b, White) = n
    <2> HIDE DEF n, u
    <2>1. n < Len(a) /\ n \in 0..Len(a \o b) /\ n + 1 \in 1..Len(a)
          /\ \A i \in 1..n : i \in 1..Len(a)
      BY <1>1, <1>2, <1>3, <1>4
    <2>2. (a \o b)[n + 1] \notin White /\ \A i \in 1..n : (a \o b)[i] \in White
      BY <1>2, <1>4, <2>1
    <2> QED BY <1>4, <2>1, <2>2, SpanUnique
  <1>6. SkipWhite[a \o b] = u \o b
    <2>1. SkipWhite[a \o b] = Rest(a \o b, n)
      BY <1>4, <1>5, SkipWhiteIs
    <2>2. Rest(a \o b, n) = Rest(a, n) \o b
      BY <1>2, PartsOfJoin
    <2> QED BY <1>1, <2>1, <2>2, Zenon
  <1>7. u \in Texts /\ u # <<>>
    BY <1>1
  <1>8. \/ Span(x, DOMAIN Digit) < Len(x)
        \/ b = <<>>
        \/ ~Begins(b, DOMAIN Digit)
    OBVIOUS
  <1> HIDE DEF u
  <1>9. Unsigned(u \o b) = x \o b /\ x \in Texts
    BY <1>7, UnsignedThen
  <1>10. Begins(u \o b, {"-"}) <=> Begins(u, {"-"})
    BY <1>7, BeginsThen
  <1> HIDE DEF x
  <1>11. AtoiUnsigned(x \o b) = AtoiUnsigned(x)
    BY <1>8, <1>9, DigitsThen
  <1>12. Atoi(a \o b) = IF Begins(u \o b, {"-"}) THEN -AtoiUnsigned(x \o b)
                        ELSE AtoiUnsigned(x \o b)
    BY <1>6, <1>9, Zenon DEF Atoi
  <1>13. Atoi(a) = IF Begins(u, {"-"}) THEN -AtoiUnsigned(x) ELSE AtoiUnsigned(x)
    BY Zenon DEF Atoi, u, x
  <1>14. CASE Begins(u, {"-"})
    <2>1. Atoi(a \o b) = -AtoiUnsigned(x \o b)
      BY <1>10, <1>12, <1>14, Zenon
    <2>2. Atoi(a) = -AtoiUnsigned(x)
      BY <1>13, <1>14, Zenon
    <2> QED BY <1>11, <2>1, <2>2, Zenon
  <1>15. CASE ~Begins(u, {"-"})
    <2>1. Atoi(a \o b) = AtoiUnsigned(x \o b)
      BY <1>10, <1>12, <1>15, Zenon
    <2>2. Atoi(a) = AtoiUnsigned(x)
      BY <1>13, <1>15, Zenon
    <2> QED BY <1>11, <2>1, <2>2, Zenon
  <1> QED BY <1>14, <1>15, Zenon

-----------------------------------------------------------------------------
(* A command is quit when it begins with that and a blank, and what the    *)
(* substitutions keep of it decides that, unless it begins with one.       *)
LEMMA IsQuitIs ==
  ASSUME NEW s \in Texts
  PROVE  IsQuit(s) <=> Len(s) >= 2 /\ s[1] = "quit" /\ s[2] = " "
  <1> DEFINE q == <<"quit", " ">>
  <1>1. Len(q) = 2 /\ q[1] = "quit" /\ q[2] = " "
    OBVIOUS
  <1>2. Len(s) \in Nat
    BY LengthOfText
  <1>3. IsQuit(s) <=> Len(s) >= 2 /\ Prefix(s, 2) = q
    BY <1>1, <1>2 DEF IsQuit, StartsWith
  <1>4. ASSUME Len(s) >= 2
        PROVE  Prefix(s, 2) = q <=> s[1] = "quit" /\ s[2] = " "
    <2>1. 2 \in 0..Len(s)
      BY <1>2, <1>4
    <2>2. /\ Prefix(s, 2) \in Texts /\ Len(Prefix(s, 2)) = 2
          /\ \A i \in 1..2 : Prefix(s, 2)[i] = s[i]
      BY <2>1, PartsOfText
    <2>3. 1 \in 1..2 /\ 2 \in 1..2
      OBVIOUS
    <2>4. Prefix(s, 2)[1] = s[1] /\ Prefix(s, 2)[2] = s[2]
      BY <2>2, <2>3, Zenon
    <2>5. ASSUME s[1] = "quit", s[2] = " " PROVE Prefix(s, 2) = q
      <3>1. "quit" \in Symbols /\ " " \in Symbols
        <4>1. 1 \in 1..Len(s) /\ 2 \in 1..Len(s)
          BY <1>2, <1>4
        <4>2. s[1] \in Symbols /\ s[2] \in Symbols
          BY <4>1, LengthOfText
        <4> QED BY <2>5, <4>2, Zenon
      <3>2. q \in Texts
        <4>1. \A x, y \in Symbols : <<x, y>> \in Texts
          BY DEF Texts
        <4> QED BY <3>1, <4>1, Zenon
      <3>3. \A i \in 1..2 : i = 1 \/ i = 2
        OBVIOUS
      <3>4. \A i \in 1..2 : Prefix(s, 2)[i] = q[i]
        <4> HIDE DEF q
        <4> QED BY <1>1, <2>4, <2>5, <3>3, Zenon
      <3> HIDE DEF q
      <3> QED BY <1>1, <2>2, <3>2, <3>4, EqualTexts
    <2> HIDE DEF q
    <2> QED BY <1>1, <2>4, <2>5, Zenon
  <1> HIDE DEF q
  <1> QED BY <1>3, <1>4, Zenon

LEMMA QuitKept ==
  ASSUME NEW command \in Texts, NEW w \in Texts, Kept(command, w),
         ~Begins(command, {"%"})
  PROVE  /\ IsQuit(w) <=> IsQuit(command)
         /\ IsQuit(command) => Literal(command) >= 2
  <1> DEFINE l == Literal(command)
  <1>1. l \in Nat /\ l <= Len(command) /\ Len(command) \in Nat /\ Len(w) \in Nat
    BY LiteralIs, LengthOfText
  <1>0. l < Len(command) => command[l + 1] = "%"
    BY LiteralIs
  <1>2. Len(w) >= l /\ \A i \in 1..l : w[i] = command[i]
    BY Zenon DEF Kept
  <1>3. l = Len(command) => w = command
    BY Zenon DEF Kept
  <1>4. l < Len(command) => Len(w) > l /\ w[l + 1] # " "
    BY Zenon DEF Kept
  <1>5. /\ IsQuit(w) <=> Len(w) >= 2 /\ w[1] = "quit" /\ w[2] = " "
        /\ IsQuit(command) <=> Len(command) >= 2 /\ command[1] = "quit" /\ command[2] = " "
    BY IsQuitIs
  <1> HIDE DEF l
  <1>6. CASE l = Len(command)
    <2>1. IsQuit(command) => l >= 2
      BY <1>5, <1>6
    <2> QED BY <1>3, <1>6, <2>1, Zenon DEF l
  <1>7. CASE l < Len(command) /\ l >= 2
    <2>1. 1 \in 1..l /\ 2 \in 1..l
      BY <1>1, <1>7
    <2>0. Len(w) >= l
      BY <1>2
    <2>2. Len(w) >= 2 /\ Len(command) >= 2
      BY <1>1, <1>7, <2>0
    <2>3. w[1] = command[1] /\ w[2] = command[2]
      BY <1>2, <2>1, Zenon
    <2> QED BY <1>5, <1>7, <2>2, <2>3, Zenon DEF l
  <1>8. CASE l = 1 /\ l < Len(command)
    <2>2. l + 1 = 2
      BY <1>8
    <2>1. command[2] = "%"
      BY <1>0, <1>8, <2>2, Zenon
    <2>3. w[2] # " "
      BY <1>4, <1>8, <2>2, Zenon
    <2>4. "%" # " "
      OBVIOUS
    <2> QED BY <1>5, <2>1, <2>3, <2>4, Zenon
  <1>9. CASE l = 0 /\ l < Len(command)
    <2>1. command # <<>> /\ command[1] = "%"
      <3>1. Len(command) # 0
        BY <1>1, <1>9
      <3>2. l + 1 = 1
        BY <1>9
      <3>3. command[1] = "%"
        BY <1>0, <1>9, <3>2, Zenon
      <3> QED BY <3>1, <3>3, LengthOfText
    <2> QED BY <2>1 DEF Begins
  <1>10. l = Len(command) \/ (l < Len(command) /\ l >= 2)
         \/ (l = 1 /\ l < Len(command)) \/ (l = 0 /\ l < Len(command))
    BY <1>1
  <1> QED BY <1>6, <1>7, <1>8, <1>9, <1>10, Zenon

(* The number behind quit is read in what is kept.                         *)
LEMMA NumberKept ==
  ASSUME NEW command \in Texts, NEW w \in Texts, Kept(command, w),
         Literal(command) >= 2, NumberWritten(command)
  PROVE  Atoi(Rest(w, 2)) = Atoi(Rest(command, 2))
  <1> DEFINE l == Literal(command)
             a == Prefix(command, l)
             r == Rest(a, 2)
             ink == SkipWhite[r]
             number == Unsigned(ink)
  <1>1. l \in 0..Len(command) /\ l \in Nat /\ Len(command) \in Nat /\ Len(w) \in Nat
    BY LiteralIs, LengthOfText
  <1>2. Len(w) >= l /\ (\A i \in 1..l : w[i] = command[i])
        /\ (l = Len(command) => w = command)
    BY Zenon DEF Kept
  <1>3. a = command \/ Span(number, DOMAIN Digit) < Len(number)
    BY Zenon DEF NumberWritten, Literal
  <1>4. a \in Texts /\ Len(a) = l /\ (\A i \in 1..l : a[i] = command[i])
        /\ Rest(command, l) \in Texts /\ command = a \o Rest(command, l)
    BY <1>1, PartsOfText
  <1>5. l \in 0..Len(w)
    BY <1>1, <1>2
  <1>6. /\ Prefix(w, l) \in Texts /\ Len(Prefix(w, l)) = l
        /\ \A i \in 1..l : Prefix(w, l)[i] = w[i]
        /\ Rest(w, l) \in Texts /\ w = Prefix(w, l) \o Rest(w, l)
    BY <1>5, PartsOfText
  <1>7. Prefix(w, l) = a
    <2>1. \A i \in 1..l : Prefix(w, l)[i] = a[i]
      BY <1>2, <1>4, <1>6
    <2> HIDE DEF l, a
    <2> QED BY <1>4, <1>6, <2>1, EqualTexts
  <1>8. CASE a = command
    <2>1. l = Len(command)
      BY <1>4, <1>8
    <2> QED BY <1>2, <2>1, Zenon
  <1>9. CASE Span(number, DOMAIN Digit) < Len(number)
    <2>1. 2 \in 0..Len(a)
      <3> HIDE DEF a
      <3> QED BY <1>1, <1>4
    <2>2. r \in Texts
      BY <1>4, <2>1, PartsOfText
    <2>3. ink \in Texts
      BY <2>2, SkipWhiteIs
    <2>4. ink # <<>>
      <3> HIDE DEF ink
      <3>1. SUFFICES ASSUME ink = <<>> PROVE FALSE
        OBVIOUS
      <3>2. number = <<>>
        BY <3>1, Zenon DEF Unsigned, Begins
      <3>3. number \in Texts /\ Len(number) = 0
        BY <2>3, <3>1, <3>2, LengthOfText
      <3> HIDE DEF number
      <3>4. Span(number, DOMAIN Digit) \in 0..Len(number)
        BY <3>3, SpanIs
      <3> QED BY <1>9, <3>3, <3>4
    <2>5. ASSUME NEW b \in Texts
          PROVE  Atoi(Rest(a \o b, 2)) = Atoi(r)
      <3>1. Rest(a \o b, 2) = r \o b
        BY <1>4, <2>1, PartsOfJoin
      <3>2. Atoi(r \o b) = Atoi(r)
        <4> HIDE DEF r
        <4> QED BY <1>9, <2>2, <2>4, AtoiThen
      <3> QED BY <3>1, <3>2, Zenon
    <2>6. w = a \o Rest(w, l)
      BY <1>6, <1>7, Zenon
    <2> QED BY <1>4, <1>6, <2>5, <2>6, Zenon
  <1> QED BY <1>3, <1>8, <1>9, Zenon

-----------------------------------------------------------------------------
(* quit without parameters: the reader adds the default ones.              *)
DefaultQuit == <<"quit">> \o DefaultParameters

(* Where placeholder j stands in it.                                       *)
DefaultPlace == <<3, 12, 6, 9>>

LEMMA DefaultQuitIs ==
  ASSUME "quit" \in Symbols
  PROVE  /\ DefaultQuit \in Texts /\ Len(DefaultQuit) = 13
         /\ DefaultQuit[1] = "quit" /\ DefaultQuit[2] = " " /\ DefaultQuit[5] = " "
         /\ \A k \in 1..13 : \A j \in 1..4 :
              Here(DefaultQuit, k, j) <=> k = DefaultPlace[j]
         /\ \A k \in 1..13 : DefaultQuit[k] = "%" => \E j \in 1..4 : k = DefaultPlace[j]
  <1> DEFINE p == <<" ", "%", "p">>
             m == <<" ", "%", "m">>
             v == <<" ", "%", "v">>
             e == <<" ", "%", "e">>
             q == <<"quit">>
             pm == p \o m
             pmv == pm \o v
             pmve == pmv \o e
             d == q \o pmve
  <1>1. \A x, y, z \in Symbols : <<x, y, z>> \in Texts /\ Len(<<x, y, z>>) = 3
    BY DEF Texts
  <1>2. {" ", "%", "p", "e", "m", "v"} \subseteq Symbols
    BY SymbolAssumption
  <1>3. /\ p \in Texts /\ Len(p) = 3 /\ m \in Texts /\ Len(m) = 3
        /\ v \in Texts /\ Len(v) = 3 /\ e \in Texts /\ Len(e) = 3
    BY <1>1, <1>2
  <1>4. /\ p[1] = " " /\ p[2] = "%" /\ p[3] = "p"
        /\ m[1] = " " /\ m[2] = "%" /\ m[3] = "m"
        /\ v[1] = " " /\ v[2] = "%" /\ v[3] = "v"
        /\ e[1] = " " /\ e[2] = "%" /\ e[3] = "e"
        /\ q[1] = "quit" /\ Len(q) = 1
    OBVIOUS
  <1>5. DefaultQuit = d
    BY Zenon DEF DefaultQuit, DefaultParameters
  <1> HIDE DEF p, m, v, e
  <1>6. /\ pm \in Texts /\ Len(pm) = 6
        /\ pm[1] = p[1] /\ pm[2] = p[2] /\ pm[3] = p[3]
        /\ pm[4] = m[1] /\ pm[5] = m[2] /\ pm[6] = m[3]
    <2>1. /\ pm \in Texts /\ Len(pm) = Len(p) + Len(m)
          /\ \A i \in 1..Len(p) : pm[i] = p[i]
          /\ \A i \in 1..Len(m) : pm[Len(p) + i] = m[i]
      BY <1>3, JoinOfTexts
    <2> HIDE DEF pm
    <2> QED BY <1>3, <2>1
  <1> HIDE DEF pm
  <1>7. /\ pmv \in Texts /\ Len(pmv) = 9
        /\ pmv[1] = p[1] /\ pmv[2] = p[2] /\ pmv[3] = p[3]
        /\ pmv[4] = m[1] /\ pmv[5] = m[2] /\ pmv[6] = m[3]
        /\ pmv[7] = v[1] /\ pmv[8] = v[2] /\ pmv[9] = v[3]
    <2>1. /\ pmv \in Texts /\ Len(pmv) = Len(pm) + Len(v)
          /\ \A i \in 1..Len(pm) : pmv[i] = pm[i]
          /\ \A i \in 1..Len(v) : pmv[Len(pm) + i] = v[i]
      BY <1>3, <1>6, JoinOfTexts
    <2> HIDE DEF pmv
    <2> QED BY <1>3, <1>6, <2>1
  <1> HIDE DEF pmv
  <1>8. /\ pmve \in Texts /\ Len(pmve) = 12
        /\ pmve[1] = p[1] /\ pmve[2] = p[2] /\ pmve[3] = p[3]
        /\ pmve[4] = m[1] /\ pmve[5] = m[2] /\ pmve[6] = m[3]
        /\ pmve[7] = v[1] /\ pmve[8] = v[2] /\ pmve[9] = v[3]
        /\ pmve[10] = e[1] /\ pmve[11] = e[2] /\ pmve[12] = e[3]
    <2>1. /\ pmve \in Texts /\ Len(pmve) = Len(pmv) + Len(e)
          /\ \A i \in 1..Len(pmv) : pmve[i] = pmv[i]
          /\ \A i \in 1..Len(e) : pmve[Len(pmv) + i] = e[i]
      BY <1>3, <1>7, JoinOfTexts
    <2> HIDE DEF pmve
    <2> QED BY <1>3, <1>7, <2>1
  <1> HIDE DEF pmve
  <1>9. q \in Texts
    BY OneSymbol
  <1>10. /\ d \in Texts /\ Len(d) = 13
         /\ d[1] = "quit"
         /\ d[2] = p[1] /\ d[3] = p[2] /\ d[4] = p[3]
         /\ d[5] = m[1] /\ d[6] = m[2] /\ d[7] = m[3]
         /\ d[8] = v[1] /\ d[9] = v[2] /\ d[10] = v[3]
         /\ d[11] = e[1] /\ d[12] = e[2] /\ d[13] = e[3]
    <2>1. /\ d \in Texts /\ Len(d) = Len(q) + Len(pmve)
          /\ \A i \in 1..Len(q) : d[i] = q[i]
          /\ \A i \in 1..Len(pmve) : d[Len(q) + i] = pmve[i]
      BY <1>8, <1>9, JoinOfTexts
    <2> HIDE DEF d, q
    <2>2. Len(q) = 1 /\ q[1] = "quit" /\ Len(pmve) = 12
      BY <1>4, <1>8
    <2>3. Len(d) = 13 /\ d[1] = q[1] /\ \A i \in 1..12 : d[1 + i] = pmve[i]
      BY <2>1, <2>2
    <2>4. /\ d[2] = pmve[1] /\ d[3] = pmve[2] /\ d[4] = pmve[3]
          /\ d[5] = pmve[4] /\ d[6] = pmve[5] /\ d[7] = pmve[6]
          /\ d[8] = pmve[7] /\ d[9] = pmve[8] /\ d[10] = pmve[9]
          /\ d[11] = pmve[10] /\ d[12] = pmve[11] /\ d[13] = pmve[12]
      BY <2>3
    <2> QED BY <1>8, <2>1, <2>2, <2>3, <2>4, Zenon
  <1> HIDE DEF d
  <1>11. /\ d[1] = "quit" /\ d[2] = " " /\ d[3] = "%" /\ d[4] = "p"
         /\ d[5] = " " /\ d[6] = "%" /\ d[7] = "m"
         /\ d[8] = " " /\ d[9] = "%" /\ d[10] = "v"
         /\ d[11] = " " /\ d[12] = "%" /\ d[13] = "e"
    BY <1>4, <1>10, Zenon
  <1>12. /\ Placeholder[1][2] = "p" /\ Placeholder[2][2] = "e"
         /\ Placeholder[3][2] = "m" /\ Placeholder[4][2] = "v"
    BY DEF Placeholder
  <1>13. /\ DefaultPlace[1] = 3 /\ DefaultPlace[2] = 12
         /\ DefaultPlace[3] = 6 /\ DefaultPlace[4] = 9
    BY DEF DefaultPlace
  <1>14. ASSUME NEW k \in 1..13, d[k] = "%"
         PROVE  k \in {3, 6, 9, 12}
    <2>1. \/ k \in {3, 6, 9, 12}
          \/ k = 1 \/ k = 2 \/ k = 4 \/ k = 5 \/ k = 7 \/ k = 8 \/ k = 10 \/ k = 11 \/ k = 13
      OBVIOUS
    <2>2. /\ "quit" # "%" /\ " " # "%" /\ "p" # "%" /\ "m" # "%" /\ "v" # "%" /\ "e" # "%"
      OBVIOUS
    <2> QED BY <1>11, <1>14, <2>1, <2>2, Zenon
  <1>15. ASSUME NEW k \in 1..13, NEW j \in 1..4
         PROVE  Here(d, k, j) <=> k = DefaultPlace[j]
    <2>1. ASSUME k = DefaultPlace[j] PROVE Here(d, k, j)
      <3>1. j = 1 \/ j = 2 \/ j = 3 \/ j = 4
        OBVIOUS
      <3>2. k < 13
        BY <1>13, <2>1, <3>1
      <3>3. 3 + 1 = 4 /\ 6 + 1 = 7 /\ 9 + 1 = 10 /\ 12 + 1 = 13
        OBVIOUS
      <3>4. d[k] = "%" /\ d[k + 1] = Placeholder[j][2]
        BY <1>11, <1>12, <1>13, <2>1, <3>1, <3>3, Zenon
      <3> QED BY <1>10, <3>2, <3>4, Zenon DEF Here
    <2>2. ASSUME Here(d, k, j) PROVE k = DefaultPlace[j]
      <3>1. d[k] = "%" /\ d[k + 1] = Placeholder[j][2]
        BY <2>2 DEF Here
      <3>2. k \in {3, 6, 9, 12}
        BY <1>14, <3>1
      <3>3. /\ 1 \in 1..4 /\ 2 \in 1..4 /\ 3 \in 1..4 /\ 4 \in 1..4
            /\ 3 + 1 = 4 /\ 6 + 1 = 7 /\ 9 + 1 = 10 /\ 12 + 1 = 13
            /\ k = 3 \/ k = 6 \/ k = 9 \/ k = 12
        BY <3>2
      <3>4. \E i \in 1..4 : k = DefaultPlace[i] /\ d[k + 1] = Placeholder[i][2]
        BY <1>11, <1>12, <1>13, <3>3, Zenon
      <3> QED BY <3>1, <3>4, Letters, Zenon
    <2> QED BY <2>1, <2>2
  <1>16. \A k \in 1..13 : d[k] = "%" => \E j \in 1..4 : k = DefaultPlace[j]
    BY <1>13, <1>14
  <1> QED BY <1>5, <1>10, <1>11, <1>15, <1>16, Zenon

LEMMA DefaultQuitEachOnce ==
  ASSUME "quit" \in Symbols
  PROVE  EachOnce(DefaultQuit)
  <1> DEFINE d == DefaultQuit
  <1>1. /\ d \in Texts /\ Len(d) = 13 /\ DOMAIN d = 1..13
        /\ \A k \in 1..13 : \A j \in 1..4 : Here(d, k, j) <=> k = DefaultPlace[j]
        /\ \A k \in 1..13 : d[k] = "%" => \E j \in 1..4 : k = DefaultPlace[j]
    BY DefaultQuitIs, LengthOfText
  <1> HIDE DEF d
  <1>2. ASSUME NEW j \in 1..4
        PROVE  Cardinality(Occurrences(d, Placeholder[j])) <= 1
    <2>1. DefaultPlace[j] \in 1..12
      <3>1. j = 1 \/ j = 2 \/ j = 3 \/ j = 4
        OBVIOUS
      <3> QED BY <3>1 DEF DefaultPlace
    <2>2. ASSUME NEW q \in 0..13, Here(d, q + 1, j)
          PROVE  q = DefaultPlace[j] - 1
      <3>1. q + 1 < 13
        BY <1>1, <2>2 DEF Here
      <3>2. q + 1 \in 1..13
        BY <3>1
      <3>3. q + 1 = DefaultPlace[j]
        BY <1>1, <2>2, <3>2
      <3> QED BY <2>1, <3>3
    <2>3. Occurrences(d, Placeholder[j]) = {q \in 0..13 : Here(d, q + 1, j)}
      <3>1. d \in Texts
        BY <1>1
      <3>2. Occurrences(d, Placeholder[j]) = {q \in 0..Len(d) : Here(d, q + 1, j)}
        BY <3>1, OccurrencesAre
      <3> QED BY <1>1, <3>2, Zenon
    <2>4. Occurrences(d, Placeholder[j]) \subseteq {DefaultPlace[j] - 1}
      BY <2>2, <2>3
    <2>5. IsFiniteSet({DefaultPlace[j] - 1}) /\ Cardinality({DefaultPlace[j] - 1}) = 1
      BY FS_Singleton
    <2> QED BY <2>4, <2>5, FS_Subset
  <1>3. ASSUME NEW k \in 1..13, d[k] = "%"
        PROVE  \E j \in 1..4 : StartsWith(Rest(d, k - 1), Placeholder[j])
    <2>1. PICK j \in 1..4 : k = DefaultPlace[j]
      BY <1>1, <1>3
    <2>2. Here(d, k, j)
      BY <1>1, <2>1
    <2>3. k \in 1..Len(d) + 1
      BY <1>1
    <2> QED BY <1>1, <2>2, <2>3, HereIs
  <1> QED BY <1>1, <1>2, <1>3 DEF EachOnce, d

LEMMA DefaultQuitExpanded ==
  ASSUME "quit" \in Symbols, NEW im \in Replacements
  PROVE  \E more \in Texts : Rest(Expanded(DefaultQuit, im), 2) = im[1] \o (<<" ">> \o more)
  <1> DEFINE d == DefaultQuit
             J == 1..4
  <1>0. J \in SUBSET (1..4)
    OBVIOUS
  <1>1. d \in Texts /\ Len(d) = 13
    BY DefaultQuitIs, Zenon
  <1>18. d[1] = "quit" /\ d[2] = " " /\ d[5] = " "
    BY DefaultQuitIs, Zenon
  <1>19. \A k \in 1..13 : \A j \in J : Here(d, k, j) <=> k = DefaultPlace[j]
    BY DefaultQuitIs, Zenon
  <1> HIDE DEF d
  <1>2. PICK f : IsTail(J, im, d, f)
    BY <1>0, <1>1, TailExists
  <1>3. Expanded(d, im) = f[1]
    <2>1. Expanded(d, im) = Exp(J, im, d)
      BY <1>1, ExpandedIs
    <2>2. Exp(J, im, d) = f[1]
      BY <1>0, <1>1, <1>2, ExpIs
    <2> QED BY <2>1, <2>2, Zenon
  <1> HIDE DEF J
  <1>4. \A k \in 1..15 : f[k] \in Texts
    <2>1. \A k \in 1..15 : k \in 1..Len(d) + 2
      BY <1>1
    <2>2. f \in [1..Len(d) + 2 -> Texts]
      BY <1>2, Zenon DEF IsTail
    <2> QED BY <2>1, <2>2
  <1>5. \A j \in J : DefaultPlace[j] # 1 /\ DefaultPlace[j] # 2 /\ DefaultPlace[j] # 5
    <2>1. \A j \in J : j = 1 \/ j = 2 \/ j = 3 \/ j = 4
      BY DEF J
    <2> QED BY <2>1 DEF DefaultPlace
  <1>6. \A j \in J : ~Here(d, 1, j) /\ ~Here(d, 2, j) /\ ~Here(d, 5, j)
    <2>1. 1 \in 1..13 /\ 2 \in 1..13 /\ 5 \in 1..13
      OBVIOUS
    <2> QED BY <1>5, <1>19, <2>1, Zenon
  <1>7. ASSUME NEW k \in 1..13, \A j \in J : ~Here(d, k, j)
        PROVE  f[k] = <<d[k]>> \o f[k + 1]
    <2>1. k \in 1..Len(d) + 2 /\ k <= Len(d)
      BY <1>1
    <2> QED BY <1>2, <1>7, <2>1, Zenon DEF IsTail
  <1>8. f[1] = <<"quit">> \o f[2] /\ f[2] = <<" ">> \o f[3] /\ f[5] = <<" ">> \o f[6]
    <2>1. 1 \in 1..13 /\ 2 \in 1..13 /\ 5 \in 1..13 /\ 1 + 1 = 2 /\ 2 + 1 = 3 /\ 5 + 1 = 6
      OBVIOUS
    <2>2. f[1] = <<d[1]>> \o f[1 + 1] /\ f[2] = <<d[2]>> \o f[2 + 1] /\ f[5] = <<d[5]>> \o f[5 + 1]
      BY <1>6, <1>7, <2>1, Zenon
    <2> QED BY <1>18, <2>1, <2>2, Zenon
  <1>9. f[3] = im[1] \o f[5]
    <2>1. 3 \in 1..13 /\ 1 \in J /\ DefaultPlace[1] = 3 /\ 3 + 2 = 5
      BY DEF DefaultPlace, J
    <2>2. Here(d, 3, 1)
      BY <1>19, <2>1, Zenon
    <2>3. 3 \in 1..Len(d) + 2
      BY <1>1
    <2>4. f[3] = im[1] \o f[3 + 2]
      BY <1>2, <2>1, <2>2, <2>3, Zenon DEF IsTail
    <2> QED BY <2>1, <2>4, Zenon
  <1> DEFINE q == <<"quit">>
             b == <<" ">>
             a == q \o b
  <1>10. q \in Texts /\ Len(q) = 1 /\ b \in Texts /\ Len(b) = 1 /\ f[3] \in Texts /\ f[6] \in Texts
    <2>1. " " \in Symbols
      BY SymbolAssumption
    <2>2. q \in Texts /\ Len(q) = 1 /\ b \in Texts /\ Len(b) = 1
      BY <2>1, OneSymbol
    <2>3. f[3] \in Texts /\ f[6] \in Texts
      BY <1>4
    <2> QED BY <2>2, <2>3, Zenon
  <1>20. f[1] = q \o f[2] /\ f[2] = b \o f[3] /\ f[5] = b \o f[6]
    BY <1>8, Zenon
  <1> HIDE DEF q, b
  <1>11. a \in Texts /\ Len(a) = 2
    <2>1. a \in Texts /\ Len(a) = Len(q) + Len(b)
      BY <1>10, JoinOfTexts
    <2> HIDE DEF a
    <2> QED BY <1>10, <2>1
  <1>12. f[1] = a \o f[3]
    <2>1. (q \o b) \o f[3] = q \o (b \o f[3])
      BY <1>10, TextsJoin
    <2> QED BY <1>20, <2>1, Zenon
  <1> HIDE DEF a
  <1>13. 2 \in 0..Len(a)
    BY <1>11
  <1>14. Rest(a \o f[3], 2) = Rest(a, 2) \o f[3]
    BY <1>10, <1>11, <1>13, PartsOfJoin
  <1>15. Rest(a, 2) = <<>>
    <2>1. Rest(a, 2) \in Texts /\ Len(Rest(a, 2)) = Len(a) - 2
      BY <1>11, <1>13, PartsOfText
    <2>2. Len(Rest(a, 2)) = 0
      BY <1>11, <2>1
    <2> QED BY <2>1, <2>2, LengthOfText
  <1>16. <<>> \o f[3] = f[3]
    BY <1>10, TextsJoin
  <1>17. Rest(f[1], 2) = im[1] \o (b \o f[6])
    BY <1>9, <1>12, <1>14, <1>15, <1>16, <1>20, Zenon
  <1> QED BY <1>3, <1>10, <1>17, Zenon DEF d, b

(* No number is read where a text begins with neither a digit nor a sign.  *)
LEMMA NoNumber ==
  ASSUME NEW a \in Texts, Inked(a),
         ~Begins(a, Signs), ~Begins(a, DOMAIN Digit)
  PROVE  SkipWhite[a] = a /\ Atoi(a) = 0
  <1>1. Len(a) \in Nat /\ Len(a) >= 1 /\ Len(a) # 0
    <2>1. Len(a) >= 1
      BY Zenon DEF Inked
    <2>2. Len(a) \in Nat
      BY ONLY a \in Texts, LengthOfText
    <2> QED BY ONLY <2>1, <2>2
  <1>2. a # <<>>
    BY <1>1, NoSymbol, Zenon
  <1>3. a[1] \notin White /\ a[1] \notin DOMAIN Digit
    BY <1>2, Zenon DEF Begins, White, Inked
  <1>4. ASSUME NEW S, a[1] \notin S PROVE Span(a, S) = 0
    <2>1. Span(a, S) \in 0..Len(a) /\ \A i \in 1..Span(a, S) : a[i] \in S
      BY SpanIs
    <2>2. ~(Span(a, S) >= 1)
      <3>1. SUFFICES ASSUME Span(a, S) >= 1 PROVE FALSE
        OBVIOUS
      <3>2. 1 \in 1..Span(a, S)
        BY <2>1, <3>1
      <3> QED BY <1>4, <2>1, <3>2, Zenon
    <2> QED BY <1>1, <2>1, <2>2
  <1>5. 0 \in 0..Len(a)
    BY <1>1
  <1>6. Rest(a, 0) = a
    <2>1. Rest(a, 0) \in Texts /\ Len(Rest(a, 0)) = Len(a) - 0
          /\ \A i \in 1..(Len(a) - 0) : Rest(a, 0)[i] = a[0 + i]
      BY <1>5, PartsOfText
    <2>2. Len(Rest(a, 0)) = Len(a) /\ \A i \in 1..Len(a) : Rest(a, 0)[i] = a[i]
      BY <1>1, <2>1
    <2> QED BY <2>1, <2>2, EqualTexts
  <1>7. SkipWhite[a] = a
    BY <1>3, <1>4, <1>6, SkipWhiteIs
  <1>8. Unsigned(a) = a
    BY Zenon DEF Unsigned
  <1>9. Prefix(a, 0) = <<>>
    <2>1. Prefix(a, 0) \in Texts /\ Len(Prefix(a, 0)) = 0
      BY <1>5, PartsOfText
    <2> QED BY <2>1, LengthOfText
  <1>10. Number(<<>>) = 0
    <2> DEFINE value == CHOOSE v : v = [k \in 0..Len(<<>>) |->
                          IF k = 0 THEN 0 ELSE 10 * v[k - 1] + Digit[<<>>[k]]]
               one == [k \in 0..Len(<<>>) |-> 0]
    <2>1. 0..Len(<<>>) = {0}
      OBVIOUS
    <2>2. one = [k \in 0..Len(<<>>) |->
                   IF k = 0 THEN 0 ELSE 10 * one[k - 1] + Digit[<<>>[k]]]
      BY <2>1
    <2>3. value = [k \in 0..Len(<<>>) |->
                     IF k = 0 THEN 0 ELSE 10 * value[k - 1] + Digit[<<>>[k]]]
      <3> HIDE DEF one
      <3> QED BY <2>2
    <2>4. Number(<<>>) = value[0]
      BY DEF Number
    <2> HIDE DEF value
    <2> QED BY <2>1, <2>3, <2>4
  <1>11. AtoiUnsigned(a) = 0
    BY <1>3, <1>4, <1>9, <1>10, AtoiUnsignedIs
  <1>12. ~Begins(a, {"-"})
    BY <1>2, Zenon DEF Begins, Signs
  <1> QED BY <1>7, <1>8, <1>11, <1>12, Zenon DEF Atoi

(* The code of a default quit is what is read where the name is put.       *)
LEMMA DefaultQuitCode ==
  ASSUME "quit" \in Symbols, NEW im \in Replacements, Inked(im[1]),
         ~Begins(im[1], Signs), ~Begins(im[1], DOMAIN Digit)
  PROVE  Atoi(Rest(Expanded(DefaultQuit, im), 2)) = 0
  <1> DEFINE a == im[1]
  <1>1. a \in Texts
    BY DEF Replacements
  <1>2. PICK more \in Texts : Rest(Expanded(DefaultQuit, im), 2) = a \o (<<" ">> \o more)
    BY DefaultQuitExpanded
  <1> HIDE DEF a
  <1> DEFINE b == <<" ">> \o more
  <1>3. b \in Texts /\ b[1] = " " /\ b # <<>>
    <2> DEFINE blank == <<" ">>
    <2>0. " " \in Symbols
      BY SymbolAssumption
    <2>1. blank \in Texts /\ Len(blank) = 1
      BY <2>0, OneSymbol
    <2>6. blank[1] = " "
      OBVIOUS
    <2> HIDE DEF blank
    <2>2. /\ blank \o more \in Texts /\ Len(blank \o more) = Len(blank) + Len(more)
          /\ \A i \in 1..Len(blank) : (blank \o more)[i] = blank[i]
      BY <2>1, JoinOfTexts
    <2>7. b = blank \o more
      BY DEF blank
    <2> HIDE DEF b
    <2>3. 1 \in 1..Len(blank)
      BY <2>1
    <2>8. b \in Texts /\ Len(b) = Len(blank) + Len(more) /\ b[1] = blank[1]
      BY <2>2, <2>3, <2>7, Zenon
    <2>4. b[1] = " "
      BY <2>6, <2>8, Zenon
    <2>9. Len(more) \in Nat
      BY LengthOfText
    <2>5. Len(b) # 0
      BY <2>1, <2>8, <2>9
    <2>10. b # <<>>
      BY <2>5, NoSymbol, Zenon
    <2> QED BY <2>4, <2>8, <2>10, Zenon
  <1> HIDE DEF b
  <1>4. ~Begins(b, DOMAIN Digit)
    <2>1. " " \notin DOMAIN Digit
      BY DigitAssumption
    <2> QED BY <1>3, <2>1, Zenon DEF Begins
  <1>5. SkipWhite[a] # <<>> /\ Atoi(a) = 0
    <2>1. SkipWhite[a] = a /\ Atoi(a) = 0
      BY <1>1, NoNumber DEF a
    <2>2. Len(a) \in Nat /\ Len(a) >= 1
      BY <1>1, LengthOfText DEF Inked, a
    <2>3. a # <<>>
      BY <2>2, NoSymbol
    <2> QED BY <2>1, <2>3, Zenon
  <1>6. Atoi(a \o b) = Atoi(a)
    BY <1>1, <1>3, <1>4, <1>5, AtoiThen
  <1> QED BY <1>2, <1>5, <1>6, Zenon DEF a, b

(* When the program is done, what was run is what is kept of the client's  *)
(* command.                                                                *)
LEMMA AtTheEnd ==
  ASSUME IInv, CommandInv, main = "done"
  PROVE  LET c == clients[call.client]
         IN  /\ ImagesOf(c, images) /\ Kept(c.match_command, from)
             /\ Good(c) => from = Expanded(c.match_command, images)
             /\ quit_invoked <=> IsQuit(from) /\ call.state[1] = "match"
             /\ quit_invoked => exit_code = Atoi(Rest(from, 2))
             /\ from \in Texts
  <1> DEFINE c == clients[call.client]
  <1>1. Calling /\ pass = 5
    BY Zenon DEF CommandInv, Calling
  <1>2. MadeInv(c) /\ dest = <<>>
    BY <1>1, Zenon DEF CommandInv
  <1>3. /\ quit_invoked <=> IsQuit(from) /\ call.state[1] = "match"
        /\ quit_invoked => exit_code = Atoi(Rest(from, 2))
    BY Zenon DEF CommandInv, QuitInv
  <1>4. from \in Texts
    BY DEF IInv, SubstituteInv, SubstituteTypeOK, Texts
  <1>5. dest \o from = from
    BY <1>2, <1>4, NoSymbol, TextsJoin
  <1> HIDE DEF c
  <1>6. /\ ImagesOf(c, images) /\ Kept(c.match_command, from)
        /\ Good(c) => from = Expanded(c.match_command, images)
    BY <1>1, <1>2, <1>5, Zenon DEF MadeInv
  <1> QED BY <1>3, <1>4, <1>6, Zenon DEF c

(* A command that does not begin with a placeholder is quit as it is       *)
(* written, and takes effect when the PV begins to match.  Its code is the *)
(* number written, sign included, when that ends before a placeholder; a   *)
(* quit without parameters has the code 0 when the name of the PV neither  *)
(* begins with a digit nor holds a % (filter.c:64-82,                      *)
(* read_configuration.c:457-461).                                          *)
THEOREM QuitIsAsWritten == Spec => []QuitAsWritten
  <1>1. IInv /\ CommandInv => QuitAsWritten
    <2> DEFINE c == clients[call.client]
               command == c.match_command
    <2> SUFFICES ASSUME IInv, CommandInv, main = "done", ~Begins(command, {"%"})
                 PROVE  /\ quit_invoked <=> IsQuit(command) /\ call.state[1] = "match"
                        /\ quit_invoked /\ NumberWritten(command) =>
                             exit_code = Atoi(Rest(command, 2))
                        /\ /\ quit_invoked
                           /\ command = <<"quit">> \o DefaultParameters
                           /\ ~Holds(c.pv_name, "%")
                           /\ ~Begins(c.pv_name, DOMAIN Digit)
                           => exit_code = 0
      BY Zenon DEF QuitAsWritten
    <2>1. /\ ImagesOf(c, images) /\ Kept(command, from)
          /\ Good(c) => from = Expanded(command, images)
          /\ quit_invoked <=> IsQuit(from) /\ call.state[1] = "match"
          /\ quit_invoked => exit_code = Atoi(Rest(from, 2))
          /\ from \in Texts
      BY AtTheEnd, Zenon
    <2>2. /\ command \in Texts /\ images \in Replacements
          /\ images[1] = c.pv_name /\ Inked(images[1]) /\ ~Begins(images[1], Signs)
      <3>1. 1 \in 1..4
        OBVIOUS
      <3> QED BY <2>1, <3>1, Zenon DEF ImagesOf
    <2>3. /\ IsQuit(from) <=> IsQuit(command)
          /\ IsQuit(command) => Literal(command) >= 2
      <3> HIDE DEF command
      <3> QED BY <2>1, <2>2, QuitKept
    <2>4. ASSUME quit_invoked, NumberWritten(command)
          PROVE  exit_code = Atoi(Rest(command, 2))
      <3>1. Literal(command) >= 2
        BY <2>1, <2>3, <2>4, Zenon
      <3>2. Atoi(Rest(from, 2)) = Atoi(Rest(command, 2))
        <4> HIDE DEF command
        <4> QED BY <2>1, <2>2, <2>4, <3>1, NumberKept
      <3> QED BY <2>1, <2>4, <3>2, Zenon
    <2>5. ASSUME quit_invoked, command = DefaultQuit, ~Holds(c.pv_name, "%"),
                 ~Begins(c.pv_name, DOMAIN Digit)
          PROVE  exit_code = 0
      <3>1. "quit" \in Symbols
        <4> HIDE DEF command
        <4>1. IsQuit(command)
          BY <2>1, <2>3, <2>5, Zenon
        <4>2. Len(command) >= 2 /\ command[1] = "quit"
          BY <2>2, <4>1, IsQuitIs
        <4>3. Len(command) \in Nat /\ \A i \in 1..Len(command) : command[i] \in Symbols
          BY <2>2, LengthOfText
        <4>4. Len(command) >= 2
          BY <4>2
        <4>5. 1 \in 1..Len(command)
          BY <4>3, <4>4
        <4> QED BY <4>2, <4>3, <4>5, Zenon
      <3>2. EachOnce(command)
        BY <2>5, <3>1, DefaultQuitEachOnce, Zenon
      <3>3. from = Expanded(DefaultQuit, images)
        BY <2>1, <2>5, <3>2, Zenon DEF Good
      <3>4. Atoi(Rest(Expanded(DefaultQuit, images), 2)) = 0
        <4>1. ~Begins(images[1], DOMAIN Digit)
          BY <2>2, <2>5, Zenon
        <4> QED BY <2>2, <3>1, <4>1, DefaultQuitCode
      <3> QED BY <2>1, <2>2, <2>5, <3>3, <3>4, Zenon
    <2> HIDE DEF command
    <2> QED BY <2>1, <2>3, <2>4, <2>5, Zenon DEF DefaultQuit
  <1> QED BY <1>1, AlwaysCommandInv, PTL

=============================================================================
