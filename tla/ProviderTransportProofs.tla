----------------------- MODULE ProviderTransportProofs -----------------------
(***************************************************************************)
(* Proofs about ProviderTransport, for every number of callers, limit and  *)
(* window: the types, what the rate limiter keeps of its contract, and how *)
(* old the data that a call gets may be.                                   *)
(*                                                                         *)
(* The limiter keeps a list that it filters with a loop (Since), so the    *)
(* facts about it are by induction.  The induction theorems of the library *)
(* have an operator as a parameter, which the provers cannot instantiate;  *)
(* the two below have a set, and follow from the well-foundedness of <.    *)
(***************************************************************************)
EXTENDS ProviderTransport, WellFoundedInduction, SequenceTheorems, FiniteSetTheorems, TLAPS

-----------------------------------------------------------------------------
(* Induction *)

\* Induction over the natural numbers, with the property as a set of numbers.
LEMMA NumbersFrom0 ==
    ASSUME NEW Fine \in SUBSET Nat, 0 \in Fine, \A n \in Fine : n + 1 \in Fine
    PROVE  Fine = Nat
<1> DEFINE R == OpToRel(<, Nat)
           Bad == Nat \ Fine
<1>1. IsWellFoundedOn(R, Nat)
  BY NatLessThanWellFounded
<1>2. Bad \subseteq Nat
  OBVIOUS
<1>3. SUFFICES ASSUME Bad # {} PROVE FALSE
  OBVIOUS
<1>4. \A x, y \in Nat : x < y => <<x, y>> \in R
  BY DEF OpToRel
<1> HIDE DEF R, Bad
<1>5. PICK n \in Bad : \A m \in Bad : ~ (<<m, n>> \in R)
  BY <1>1, <1>2, <1>3, WFMin, Zenon
<1>6. n # 0 /\ n - 1 \in Nat /\ n - 1 < n /\ n \in Nat /\ (n - 1) + 1 = n
  BY DEF Bad
<1>7. n - 1 \in Fine
  BY <1>4, <1>5, <1>6, <1>2 DEF Bad
<1> QED
  BY <1>5, <1>6, <1>7 DEF Bad

\* Induction over sequences, which grow at their end.
LEMMA SequencesFromEmpty ==
    ASSUME NEW S, NEW Fine \in SUBSET Seq(S), <<>> \in Fine,
           \A s \in Fine : \A x \in S : Append(s, x) \in Fine
    PROVE  Fine = Seq(S)
<1> DEFINE Short == {n \in Nat : \A s \in Seq(S) : Len(s) = n => s \in Fine}
<1>1. 0 \in Short
  BY EmptySeq
<1>2. ASSUME NEW n \in Short PROVE n + 1 \in Short
  <2>1. SUFFICES ASSUME NEW s \in Seq(S), Len(s) = n + 1 PROVE s \in Fine
    OBVIOUS
  <2>2. s # <<>>
    BY <2>1, EmptySeq
  <2>3. PICK front \in Seq(S), x \in S : s = Append(front, x)
    BY <2>2, SequenceEmptyOrAppend
  <2>4. Len(s) = Len(front) + 1 /\ Len(front) \in Nat
    BY <2>3, AppendProperties
  <2>5. front \in Fine
    BY <2>1, <2>4, <1>2
  <2> QED
    BY <2>3, <2>5
<1>3. Short = Nat
  <2> HIDE DEF Short
  <2>1. Short \in SUBSET Nat
    BY DEF Short
  <2> QED
    BY <1>1, <1>2, <2>1, NumbersFrom0
<1> QED
  BY <1>3, LenProperties

-----------------------------------------------------------------------------
(* Since *)

Times == Seq(Nat)

\* The recursion of Since, as a property of a function.
IsKept(f, s, t) ==
    f = [i \in 0 .. Len(s) |->
            IF i = 0 THEN <<>>
            ELSE IF t < s[i] + Window THEN Append(f[i - 1], s[i])
            ELSE f[i - 1]]

\* It has a solution.
LEMMA KeptExists ==
    ASSUME NEW t \in Nat
    PROVE  \A s \in Times : \E f : IsKept(f, s, t)
<1> DEFINE Fine == {s \in Times : \E f : IsKept(f, s, t)}
<1>1. <<>> \in Fine
  <2> DEFINE g == [i \in 0 .. 0 |-> <<>>]
  <2>1. IsKept(g, <<>>, t)
    BY EmptySeq DEF IsKept
  <2> QED
    BY <2>1, EmptySeq DEF Times
<1>2. ASSUME NEW s \in Fine, NEW x \in Nat PROVE Append(s, x) \in Fine
  <2> DEFINE r == Append(s, x)
             n == Len(s)
  <2>1. s \in Seq(Nat) /\ r \in Seq(Nat) /\ n \in Nat /\ Len(r) = n + 1 /\ r[n + 1] = x
        /\ \A i \in 1 .. n : r[i] = s[i]
    BY AppendProperties, LenProperties DEF Times
  <2>2. PICK f : IsKept(f, s, t)
    OBVIOUS
  <2> DEFINE g == [i \in 0 .. n + 1 |->
                     IF i = n + 1 THEN IF t < x + Window THEN Append(f[n], x) ELSE f[n]
                     ELSE f[i]]
  <2> HIDE DEF r, n
  <2>3. \A i \in 0 .. n : g[i] = f[i]
    BY <2>1
  <2>4. ASSUME NEW i \in 0 .. n + 1
        PROVE  g[i] = IF i = 0 THEN <<>>
                      ELSE IF t < r[i] + Window THEN Append(g[i - 1], r[i])
                      ELSE g[i - 1]
    <3>1. CASE i = n + 1
      BY <3>1, <2>1, <2>3
    <3>2. CASE i = 0
      BY <3>2, <2>1, <2>2, <2>3 DEF IsKept, n
    <3>3. CASE i \in 1 .. n
      <4>1. f[i] = IF t < s[i] + Window THEN Append(f[i - 1], s[i]) ELSE f[i - 1]
        <5>1. i \in 0 .. Len(s) /\ i # 0
          BY <3>3, <2>1 DEF n
        <5> QED
          BY <5>1, <2>2 DEF IsKept
      <4> QED
        BY <4>1, <3>3, <2>1, <2>3
    <3> QED
      BY <3>1, <3>2, <3>3, <2>1
  <2>5. IsKept(g, r, t)
    <3> HIDE DEF g
    <3>1. g = [i \in 0 .. n + 1 |-> g[i]]
      BY DEF g
    <3> QED
      BY <3>1, <2>1, <2>4 DEF IsKept
  <2> QED
    BY <2>1, <2>5 DEF r, Times
<1>3. Fine = Times
  <2> HIDE DEF Fine
  <2>1. Fine \in SUBSET Seq(Nat)
    BY DEF Fine, Times
  <2> QED
    BY <1>1, <1>2, <2>1, SequencesFromEmpty DEF Times
<1> QED
  BY <1>3

\* Since is the last value of a solution, and two solutions agree as far as the sequences do.
LEMMA SinceIsKept ==
    ASSUME NEW t \in Nat, NEW s \in Times
    PROVE  \E f : IsKept(f, s, t) /\ Since(s, t) = f[Len(s)]
<1> DEFINE f == CHOOSE f : IsKept(f, s, t)
<1>1. IsKept(f, s, t)
  BY KeptExists
<1>2. Since(s, t) = f[Len(s)]
  BY DEF Since, IsKept
<1> QED
  BY <1>1, <1>2

LEMMA KeptAgree ==
    ASSUME NEW t \in Nat, NEW s \in Times, NEW x \in Nat,
           NEW f, NEW g, IsKept(f, s, t), IsKept(g, Append(s, x), t)
    PROVE  \A i \in 0 .. Len(s) : f[i] = g[i]
<1> DEFINE r == Append(s, x)
           n == Len(s)
           Fine == {i \in Nat : i <= n => f[i] = g[i]}
<1>1. s \in Seq(Nat) /\ r \in Seq(Nat) /\ n \in Nat /\ Len(r) = n + 1
      /\ \A i \in 1 .. n : r[i] = s[i]
  BY AppendProperties, LenProperties DEF Times
<1>2. f[0] = <<>> /\ g[0] = <<>>
  BY <1>1 DEF IsKept
<1>3. ASSUME NEW i \in 1 .. n
      PROVE  /\ f[i] = IF t < s[i] + Window THEN Append(f[i - 1], s[i]) ELSE f[i - 1]
             /\ g[i] = IF t < r[i] + Window THEN Append(g[i - 1], r[i]) ELSE g[i - 1]
  <2>1. i \in 0 .. Len(s) /\ i \in 0 .. Len(r) /\ i # 0
    BY <1>1, <1>3
  <2> HIDE DEF r, n
  <2> QED
    BY <2>1 DEF IsKept, r
<1> HIDE DEF r, n
<1>4. 0 \in Fine
  BY <1>2
<1>5. ASSUME NEW i \in Fine PROVE i + 1 \in Fine
  <2>1. SUFFICES ASSUME i + 1 <= n PROVE f[i + 1] = g[i + 1]
    OBVIOUS
  <2>2. i + 1 \in 1 .. n /\ f[i] = g[i] /\ (i + 1) - 1 = i
    BY <2>1, <1>1, <1>5
  <2> QED
    BY <2>2, <1>1, <1>3
<1>6. Fine = Nat
  <2> HIDE DEF Fine
  <2>1. Fine \in SUBSET Nat
    BY DEF Fine
  <2> QED
    BY <1>4, <1>5, <2>1, NumbersFrom0
<1> QED
  BY <1>1, <1>6 DEF n

\* Since, as a recursion on the sequence.
LEMMA SinceEmpty ==
    ASSUME NEW t \in Nat
    PROVE  Since(<<>>, t) = <<>>
<1>1. <<>> \in Times /\ Len(<<>>) = 0
  BY EmptySeq DEF Times
<1>2. PICK f : IsKept(f, <<>>, t) /\ Since(<<>>, t) = f[Len(<<>>)]
  BY <1>1, SinceIsKept
<1> QED
  BY <1>1, <1>2 DEF IsKept

LEMMA SinceAppend ==
    ASSUME NEW t \in Nat, NEW s \in Times, NEW x \in Nat
    PROVE  Since(Append(s, x), t) =
             IF t < x + Window THEN Append(Since(s, t), x) ELSE Since(s, t)
<1> DEFINE r == Append(s, x)
           n == Len(s)
<1>1. r \in Times /\ n \in Nat /\ Len(r) = n + 1 /\ r[n + 1] = x
  BY AppendProperties, LenProperties DEF Times
<1>2. PICK f : IsKept(f, s, t) /\ Since(s, t) = f[n]
  BY SinceIsKept
<1>3. PICK g : IsKept(g, r, t) /\ Since(r, t) = g[n + 1]
  BY <1>1, SinceIsKept
<1>4. f[n] = g[n]
  BY <1>1, <1>2, <1>3, KeptAgree
<1> HIDE DEF n, r
<1>5. n + 1 \in 0 .. n + 1 /\ n + 1 # 0 /\ (n + 1) - 1 = n
  BY <1>1
<1>6. g[n + 1] = IF t < x + Window THEN Append(g[n], x) ELSE g[n]
  BY <1>1, <1>3, <1>5 DEF IsKept
<1> QED
  BY <1>2, <1>3, <1>4, <1>6 DEF r

\* What is kept is a sequence of stamps, not longer than the one it comes from.
LEMMA SinceType ==
    ASSUME NEW t \in Nat, NEW s \in Times
    PROVE  Since(s, t) \in Times /\ Len(Since(s, t)) \in Nat /\ Len(Since(s, t)) <= Len(s)
<1> DEFINE Fine == {q \in Times : Since(q, t) \in Times /\ Len(Since(q, t)) <= Len(q)}
<1>1. <<>> \in Fine
  <2>1. Since(<<>>, t) = <<>>
    BY SinceEmpty
  <2>2. <<>> \in Times /\ Len(<<>>) <= Len(<<>>)
    BY EmptySeq DEF Times
  <2> QED
    BY <2>1, <2>2
<1>2. ASSUME NEW q \in Fine, NEW x \in Nat PROVE Append(q, x) \in Fine
  <2> DEFINE k == Since(q, t)
  <2>1. Since(Append(q, x), t) = Append(k, x) \/ Since(Append(q, x), t) = k
    BY SinceAppend
  <2>2. q \in Times /\ k \in Times /\ Len(k) <= Len(q)
    OBVIOUS
  <2> HIDE DEF k
  <2>3. /\ Append(q, x) \in Times /\ Len(Append(q, x)) = Len(q) + 1
        /\ Append(k, x) \in Times /\ Len(Append(k, x)) = Len(k) + 1
        /\ Len(q) \in Nat /\ Len(k) \in Nat
    BY <2>2, AppendProperties, LenProperties DEF Times
  <2>4. /\ Since(Append(q, x), t) \in Times
        /\ Len(Since(Append(q, x), t)) <= Len(Append(q, x))
    <3>1. CASE Since(Append(q, x), t) = k
      BY <3>1, <2>2, <2>3
    <3>2. CASE Since(Append(q, x), t) = Append(k, x)
      BY <3>2, <2>2, <2>3
    <3> QED
      BY <2>1, <3>1, <3>2
  <2> QED
    BY <2>3, <2>4
<1>3. Fine = Times
  <2> HIDE DEF Fine
  <2>1. Fine \in SUBSET Seq(Nat)
    BY DEF Fine, Times
  <2> QED
    BY <1>1, <1>2, <2>1, SequencesFromEmpty DEF Times
<1>4. Since(s, t) \in Times /\ Len(Since(s, t)) <= Len(s)
  BY <1>3
<1> QED
  BY <1>4, LenProperties DEF Times

\* To filter again later is to filter later.
LEMMA SinceSince ==
    ASSUME NEW t \in Nat, NEW u \in Nat, u <= t, NEW s \in Times
    PROVE  Since(Since(s, u), t) = Since(s, t)
<1> DEFINE Fine == {q \in Times : Since(Since(q, u), t) = Since(q, t)}
<1>1. <<>> \in Fine
  <2>1. Since(<<>>, u) = <<>> /\ Since(<<>>, t) = <<>>
    BY SinceEmpty
  <2>2. Since(Since(<<>>, u), t) = Since(<<>>, t)
    BY <2>1
  <2>3. <<>> \in Times
    BY EmptySeq DEF Times
  <2> QED
    BY <2>2, <2>3
<1>2. ASSUME NEW q \in Fine, NEW x \in Nat PROVE Append(q, x) \in Fine
  <2> DEFINE k == Since(q, u)
  <2>1. q \in Times /\ k \in Times /\ Since(k, t) = Since(q, t)
    <3>1. q \in Times /\ Since(k, t) = Since(q, t)
      OBVIOUS
    <3> QED
      BY <3>1, SinceType, Zenon
  <2>2. Append(q, x) \in Times
    BY <2>1, AppendProperties DEF Times
  <2>3. Since(Append(q, x), t) = IF t < x + Window THEN Append(Since(q, t), x) ELSE Since(q, t)
    BY <2>1, SinceAppend
  <2>4. Since(Append(k, x), t) = IF t < x + Window THEN Append(Since(k, t), x) ELSE Since(k, t)
    BY <2>1, SinceAppend, Zenon
  <2>5. Since(Append(q, x), u) = IF u < x + Window THEN Append(k, x) ELSE k
    BY <2>1, SinceAppend
  <2>6. t < x + Window => u < x + Window
    BY LimitAssumption
  <2> HIDE DEF k
  <2> QED
    BY <2>1, <2>2, <2>3, <2>4, <2>5, <2>6
<1>3. Fine = Times
  <2> HIDE DEF Fine
  <2>1. Fine \in SUBSET Seq(Nat)
    BY DEF Fine, Times
  <2> QED
    BY <1>1, <1>2, <2>1, SequencesFromEmpty DEF Times
<1> QED
  BY <1>3

\* As many items are kept as there are positions with a recent stamp.
Positions(s, t) == {i \in DOMAIN s : t < s[i] + Window}

LEMMA SinceCounts ==
    ASSUME NEW t \in Nat, NEW s \in Times
    PROVE  Cardinality(Positions(s, t)) = Len(Since(s, t))
<1> DEFINE Fine == {q \in Times : /\ IsFiniteSet(Positions(q, t))
                                  /\ Cardinality(Positions(q, t)) = Len(Since(q, t))}
<1>1. <<>> \in Fine
  <2>1. Positions(<<>>, t) = {}
    BY DEF Positions
  <2> QED
    BY <2>1, SinceEmpty, EmptySeq, FS_EmptySet DEF Times
<1>2. ASSUME NEW q \in Fine, NEW x \in Nat PROVE Append(q, x) \in Fine
  <2> DEFINE k == Since(q, t)
             r == Append(q, x)
             n == Len(q)
             Old == Positions(q, t)
  <2>1. q \in Seq(Nat) /\ k \in Seq(Nat) /\ n \in Nat /\ Len(k) \in Nat
        /\ DOMAIN q = 1 .. n
    BY SinceType, LenProperties DEF Times
  <2>2. /\ r \in Seq(Nat) /\ Len(r) = n + 1 /\ Len(Append(k, x)) = Len(k) + 1
        /\ r[n + 1] = x /\ \A i \in 1 .. n : r[i] = q[i]
    BY <2>1, AppendProperties
  <2>3. DOMAIN r = 1 .. n + 1
    BY <2>2, LenProperties
  <2>4. Since(r, t) = IF t < x + Window THEN Append(k, x) ELSE k
    BY SinceAppend DEF Times
  <2>5. IsFiniteSet(Old) /\ Cardinality(Old) = Len(k)
    OBVIOUS
  <2> HIDE DEF k, r, n
  <2>6. Positions(r, t) = IF t < x + Window THEN Old \union {n + 1} ELSE Old
    BY <2>1, <2>2, <2>3 DEF Positions
  <2>7. n + 1 \notin Old
    BY <2>1 DEF Positions
  <2> HIDE DEF Old
  <2>8. /\ IsFiniteSet(Old \union {n + 1})
        /\ Cardinality(Old \union {n + 1}) = Len(k) + 1
    BY <2>5, <2>7, FS_AddElement
  <2>9. IsFiniteSet(Positions(r, t)) /\ Cardinality(Positions(r, t)) = Len(Since(r, t))
    BY <2>2, <2>4, <2>5, <2>6, <2>8
  <2> QED
    BY <2>2, <2>9 DEF Times, r
<1>3. Fine = Times
  <2> HIDE DEF Fine
  <2>1. Fine \in SUBSET Seq(Nat)
    BY DEF Fine, Times
  <2> QED
    BY <1>1, <1>2, <2>1, SequencesFromEmpty DEF Times
<1> QED
  BY <1>3

\* So nothing is kept of a sequence that has left the window, ...
Below(s, m) == \A i \in DOMAIN s : s[i] <= m

LEMMA SinceNothing ==
    ASSUME NEW t \in Nat, NEW m \in Nat, t >= m + Window, NEW s \in Times, Below(s, m)
    PROVE  Len(Since(s, t)) = 0
<1>1. \A i \in DOMAIN s : s[i] \in Nat
  BY LenProperties DEF Times
<1>2. Positions(s, t) = {}
  BY <1>1, LimitAssumption DEF Positions, Below
<1> QED
  BY <1>2, SinceCounts, FS_EmptySet

\* ... and one item less when the first, still in it, is left out.
LEMMA SinceTail ==
    ASSUME NEW t \in Nat, NEW s \in Times, s # <<>>
    PROVE  Len(Since(s, t)) = Len(Since(Tail(s), t)) + (IF t < Head(s) + Window THEN 1 ELSE 0)
<1> DEFINE Fine == {q \in Times : q # <<>> =>
                      Len(Since(q, t)) = Len(Since(Tail(q), t))
                                         + (IF t < Head(q) + Window THEN 1 ELSE 0)}
<1>1. <<>> \in Fine
  BY EmptySeq DEF Times
<1>2. ASSUME NEW q \in Fine, NEW x \in Nat PROVE Append(q, x) \in Fine
  <2> DEFINE r == Append(q, x)
  <2>1. q \in Seq(Nat) /\ r \in Seq(Nat) /\ r # <<>>
    BY AppendProperties DEF Times
  <2>2. CASE q = <<>>
    <3>1. Head(r) = x /\ Tail(r) = <<>>
      BY <2>1, <2>2, HeadTailAppend
    <3>2. Since(<<>>, t) = <<>>
      BY SinceEmpty
    <3>3. Since(r, t) = IF t < x + Window THEN Append(<<>>, x) ELSE <<>>
      BY <2>1, <2>2, <3>2, SinceAppend DEF Times
    <3>4. Len(<<>>) = 0 /\ Len(Append(<<>>, x)) = 1
      BY EmptySeq, AppendProperties
    <3> HIDE DEF r
    <3>5. Len(Since(Tail(r), t)) = 0
      BY <3>1, <3>2, <3>4
    <3>6. Len(Since(r, t)) = IF t < Head(r) + Window THEN 1 ELSE 0
      <4>1. CASE t < x + Window
        BY <4>1, <3>1, <3>3, <3>4
      <4>2. CASE ~ (t < x + Window)
        BY <4>2, <3>1, <3>3, <3>4
      <4> QED
        BY <4>1, <4>2
    <3>7. Len(Since(r, t)) = Len(Since(Tail(r), t)) + (IF t < Head(r) + Window THEN 1 ELSE 0)
      BY <3>5, <3>6
    <3> QED
      BY <2>1, <3>7 DEF Times, r
  <2>3. CASE q # <<>>
    <3> DEFINE u == Tail(q)
               k == Since(q, t)
               l == Since(u, t)
    <3>1. Head(r) = Head(q) /\ Tail(r) = Append(u, x) /\ Head(q) \in Nat /\ u \in Seq(Nat)
      BY <2>1, <2>3, HeadTailAppend, HeadTailProperties
    <3>2. /\ Since(r, t) = IF t < x + Window THEN Append(k, x) ELSE k
          /\ Since(Tail(r), t) = IF t < x + Window THEN Append(l, x) ELSE l
      BY <2>1, <3>1, SinceAppend DEF Times
    <3>3. k \in Seq(Nat) /\ l \in Seq(Nat)
      BY <2>1, <3>1, SinceType DEF Times
    <3>4. Len(k) = Len(l) + (IF t < Head(q) + Window THEN 1 ELSE 0)
      BY <2>3
    <3> HIDE DEF r, k, l, u
    <3>5. /\ Len(Append(k, x)) = Len(k) + 1 /\ Len(Append(l, x)) = Len(l) + 1
          /\ Len(k) \in Nat /\ Len(l) \in Nat
      BY <3>3, AppendProperties, LenProperties
    <3>6. Len(Since(r, t)) = Len(Since(Tail(r), t)) + (IF t < Head(r) + Window THEN 1 ELSE 0)
      BY <3>1, <3>2, <3>4, <3>5
    <3> QED
      BY <2>1, <3>6 DEF Times, r
  <2> QED
    BY <2>2, <2>3
<1>3. Fine = Times
  <2> HIDE DEF Fine
  <2>1. Fine \in SUBSET Seq(Nat)
    BY DEF Fine, Times
  <2> QED
    BY <1>1, <1>2, <2>1, SequencesFromEmpty DEF Times
<1> QED
  BY <1>3

\* Bounds on the items of what is appended to, of a tail, and of what is kept.
LEMMA AppendBelow ==
    ASSUME NEW m \in Nat, NEW s \in Times, NEW x \in Nat, Below(s, m), x <= m
    PROVE  Below(Append(s, x), m)
<1>1. /\ Len(Append(s, x)) = Len(s) + 1 /\ Append(s, x)[Len(s) + 1] = x
      /\ \A i \in 1 .. Len(s) : Append(s, x)[i] = s[i]
      /\ DOMAIN s = 1 .. Len(s) /\ DOMAIN Append(s, x) = 1 .. Len(Append(s, x))
      /\ Len(s) \in Nat
  BY AppendProperties, LenProperties DEF Times
<1> QED
  BY <1>1 DEF Below

LEMMA TailBelow ==
    ASSUME NEW m \in Nat, NEW s \in Times, s # <<>>, Below(s, m)
    PROVE  Below(Tail(s), m)
<1>1. /\ Tail(s) \in Seq(Nat) /\ Len(Tail(s)) = Len(s) - 1 /\ Len(s) \in Nat
      /\ \A i \in 1 .. Len(Tail(s)) : Tail(s)[i] = s[i + 1]
      /\ DOMAIN s = 1 .. Len(s)
  BY HeadTailProperties, LenProperties DEF Times
<1>2. DOMAIN Tail(s) = 1 .. Len(Tail(s))
  BY <1>1, LenProperties
<1> QED
  BY <1>1, <1>2 DEF Below

LEMMA SinceBelow ==
    ASSUME NEW t \in Nat, NEW m \in Nat, NEW s \in Times, Below(s, m)
    PROVE  Below(Since(s, t), m)
<1> DEFINE Fine == {q \in Times : Below(q, m) => Below(Since(q, t), m)}
<1>1. <<>> \in Fine
  BY EmptySeq, SinceEmpty DEF Times, Below
<1>2. ASSUME NEW q \in Fine, NEW x \in Nat PROVE Append(q, x) \in Fine
  <2>1. q \in Times /\ Append(q, x) \in Times
    BY AppendProperties DEF Times
  <2>2. SUFFICES ASSUME Below(Append(q, x), m) PROVE Below(Since(Append(q, x), t), m)
    BY <2>1
  <2>3. Below(q, m) /\ x <= m
    <3>1. /\ Len(Append(q, x)) = Len(q) + 1 /\ Append(q, x)[Len(q) + 1] = x
          /\ \A i \in 1 .. Len(q) : Append(q, x)[i] = q[i]
          /\ DOMAIN q = 1 .. Len(q) /\ DOMAIN Append(q, x) = 1 .. Len(Append(q, x))
          /\ Len(q) \in Nat
      BY <2>1, AppendProperties, LenProperties DEF Times
    <3> QED
      BY <2>2, <3>1 DEF Below
  <2>4. Since(q, t) \in Times /\ Below(Since(q, t), m)
    BY <2>1, <2>3, SinceType
  <2>5. Below(Append(Since(q, t), x), m)
    BY <2>3, <2>4, AppendBelow
  <2>6. Since(Append(q, x), t) = IF t < x + Window THEN Append(Since(q, t), x) ELSE Since(q, t)
    BY <2>1, SinceAppend
  <2> QED
    BY <2>4, <2>5, <2>6
<1>3. Fine = Times
  <2> HIDE DEF Fine
  <2>1. Fine \in SUBSET Seq(Nat)
    BY DEF Fine, Times
  <2> QED
    BY <1>1, <1>2, <2>1, SequencesFromEmpty DEF Times
<1> QED
  BY <1>3

-----------------------------------------------------------------------------
(* Types *)

Places == Awaits \union AtWork
          \union {"resets", "asks", "joins", "takes", "releases", "failing", "refusing"}
CallState == [at : Places, start : Nat, stale : Nat \union {None}, tries : 0 .. Attempts - 1,
              time : Nat, kept : Seq(Nat), slept : BOOLEAN, count : Nat]
Answer == [loaded : Nat, start : Nat]
LockState == [locked : BOOLEAN, waiters : Seq(Callers),
              loop : Threads \union {None, "server", "closed"}]
BreakerState == [failures : Nat, opened : Nat \union {None}]

USE DEF Times

\* The type invariant, conjunct by conjunct.
Typed ==
    /\ now \in Nat
    /\ entry \in Entry \union {None}
    /\ breaker \in BreakerState
    /\ stamps \in Times /\ sent \in Times /\ early \in Times
    /\ overlap \in Nat \union {None}
    /\ lock \in LockState
    /\ call \in [Callers -> CallState]
    /\ served \in Answer \union {None}
    /\ calls \in 0 .. MaxCalls

LEMMA TypesAre == TransportTypeOK <=> Typed
  BY Zenon DEF TransportTypeOK, Typed, Places, CallState, Answer, LockState, BreakerState

LEMMA IdleTyped == Idle \in CallState
  BY AttemptsAssumption, EmptySeq DEF Idle, CallState, Places, Awaits

\* A caller that only goes elsewhere.
LEMMA GoesTyped ==
    ASSUME call \in [Callers -> CallState], NEW c \in Callers, NEW a \in Places, Goes(c, a)
    PROVE  call' \in [Callers -> CallState]
  BY DEF Goes, CallState

\* A call that fails.
LEMMA FailsTyped ==
    ASSUME Typed, NEW c \in Callers, Fails(c)
    PROVE  call' \in [Callers -> CallState] /\ served' \in Answer \union {None}
<1>1. call' \in [Callers -> CallState]
  BY IdleTyped DEF Fails, Typed
<1>2. call[c].start \in Nat /\ (call[c].stale # None => call[c].stale \in Nat)
  BY DEF Typed, CallState
<1>3. served' \in Answer \union {None}
  BY <1>2 DEF Fails, Served, Answer
<1> QED
  BY <1>1, <1>3

LEMMA InitTyped == Init => Typed
<1> SUFFICES ASSUME Init PROVE Typed
  OBVIOUS
<1>1. Closed \in BreakerState /\ Unlocked \in LockState
  BY EmptySeq DEF Closed, BreakerState, Unlocked, LockState
<1>2. call \in [Callers -> CallState]
  BY IdleTyped DEF Init
<1>3. stamps \in Times /\ sent \in Times /\ early \in Times
  BY EmptySeq DEF Init
<1> QED
  BY <1>1, <1>2, <1>3, BoundAssumption DEF Init, Typed

LEMMA MarksTyped == Typed /\ Marks /\ now' \in Nat => overlap' \in Nat \union {None}
  BY DEF Typed, Marks

\* What a caller does leaves every variable in its type, but for the history of overlaps.
LEMMA SerialTyped ==
    ASSUME Typed, NEW c \in Callers, Serve(c)
    PROVE  /\ now' = now /\ entry' \in Entry \union {None} /\ breaker' \in BreakerState
           /\ stamps' \in Times /\ sent' \in Times /\ early' \in Times
           /\ lock' \in LockState /\ call' \in [Callers -> CallState]
           /\ served' \in Answer \union {None} /\ calls' \in 0 .. MaxCalls
<1> DEFINE Goal ==
      /\ now' = now /\ entry' \in Entry \union {None} /\ breaker' \in BreakerState
      /\ stamps' \in Times /\ sent' \in Times /\ early' \in Times
      /\ lock' \in LockState /\ call' \in [Callers -> CallState]
      /\ served' \in Answer \union {None} /\ calls' \in 0 .. MaxCalls
<1>T. /\ now \in Nat /\ entry \in Entry \union {None} /\ breaker \in BreakerState
      /\ stamps \in Times /\ sent \in Times /\ early \in Times
      /\ lock \in LockState /\ call \in [Callers -> CallState]
      /\ served \in Answer \union {None} /\ calls \in 0 .. MaxCalls
  BY DEF Typed
<1>N. call[c] \in CallState /\ call[c].start \in Nat
  BY <1>T DEF CallState
<1>B. Closed \in BreakerState
  BY DEF Closed, BreakerState
<1>V. Negative(c) \in Entry
  BY <1>N, CacheAssumption DEF Negative, Entry
<1>1. ASSUME Begin(c) PROVE Goal
  <2>1. entry # None => entry \in Entry
    BY <1>T
  <2>2. calls' \in 0 .. MaxCalls
    BY <1>1, <1>T, BoundAssumption DEF Begin
  <2>3. call' \in [Callers -> CallState]
    <3> DEFINE S == IF Usable(entry) THEN entry.loaded ELSE None
               Asked == [Idle EXCEPT !.at = "check", !.start = now, !.stale = S]
    <3>1. S \in Nat \union {None}
      BY <2>1 DEF Usable, Entry
    <3> HIDE DEF S
    <3>2. Asked \in CallState
      BY <3>1, <1>T, IdleTyped DEF CallState, Places, Awaits, Idle
    <3>3. call' = call \/ call' = [call EXCEPT ![c] = Asked]
      BY <1>1 DEF Begin, S
    <3> HIDE DEF Asked
    <3> QED
      BY <3>2, <3>3, <1>T
  <2>4. served' \in Answer \union {None}
    BY <1>1, <1>T, <2>1 DEF Begin, Answer, Served, Fresh, Entry
  <2> QED
    BY <1>1, <1>T, <2>2, <2>3, <2>4 DEF Begin
<1>2. ASSUME Check(c) PROVE Goal
  <2>1. CASE Fails(c)
    BY <1>2, <2>1, <1>T, FailsTyped DEF Check
  <2>2. CASE (Goes(c, "asks") \/ Goes(c, "resets")) /\ served' = None
    <3>1. "asks" \in Places /\ "resets" \in Places
      BY DEF Places
    <3>2. call' \in [Callers -> CallState]
      BY <2>2, <3>1, <1>T, GoesTyped
    <3> QED
      BY <1>2, <2>2, <3>2, <1>T DEF Check
  <2> QED
    BY <1>2, <2>1, <2>2 DEF Check
<1>3. ASSUME Resets(c) PROVE Goal
  <2>1. CASE Fails(c) /\ UNCHANGED breaker
    BY <1>3, <2>1, <1>T, FailsTyped DEF Resets
  <2>2. CASE Goes(c, "asks") /\ breaker' = Closed /\ served' = None
    <3>1. "asks" \in Places
      BY DEF Places
    <3>2. call' \in [Callers -> CallState]
      BY <2>2, <3>1, <1>T, GoesTyped
    <3> QED
      BY <1>3, <2>2, <3>2, <1>T, <1>B DEF Resets
  <2> QED
    BY <1>3, <2>1, <2>2 DEF Resets
<1>4. ASSUME Asks(c) PROVE Goal
  <2>1. "joins" \in Places /\ "takes" \in Places
    BY DEF Places
  <2>2. Goes(c, "joins") \/ Goes(c, "takes")
    BY <1>4 DEF Asks
  <2>3. call' \in [Callers -> CallState]
    BY <2>1, <2>2, <1>T, GoesTyped
  <2> QED
    BY <1>4, <2>3, <1>T DEF Asks
<1>5. ASSUME Joins(c) PROVE Goal
  <2>1. CASE Fails(c) /\ UNCHANGED lock
    BY <1>5, <2>1, <1>T, FailsTyped DEF Joins
  <2>2. CASE /\ lock' = [lock EXCEPT !.waiters = Append(@, c), !.loop = Loop(c)]
             /\ Goes(c, "queued") /\ served' = None
    <3>1. Append(lock.waiters, c) \in Seq(Callers)
      BY <1>T, AppendProperties DEF LockState
    <3>2. Loop(c) \in Threads \union {"server"}
      BY DEF Loop, Callers
    <3>3. lock' \in LockState
      BY <2>2, <3>1, <3>2, <1>T DEF LockState
    <3>4. "queued" \in Places
      BY DEF Places, Awaits
    <3>5. call' \in [Callers -> CallState]
      BY <2>2, <3>4, <1>T, GoesTyped
    <3> QED
      BY <1>5, <2>2, <3>3, <3>5, <1>T DEF Joins
  <2> QED
    BY <1>5, <2>1, <2>2 DEF Joins
<1>6. ASSUME Resume(c) PROVE Goal
  <2>1. Tail(lock.waiters) \in Seq(Callers)
    BY <1>6, <1>T, HeadTailProperties DEF Resume, LockState
  <2>2. lock' \in LockState
    BY <1>6, <2>1, <1>T DEF Resume, LockState
  <2>3. "takes" \in Places
    BY DEF Places
  <2>4. call' \in [Callers -> CallState]
    BY <1>6, <2>3, <1>T, GoesTyped DEF Resume
  <2> QED
    BY <1>6, <2>2, <2>4, <1>T DEF Resume
<1>7. ASSUME Takes(c) PROVE Goal
  <2>1. "reads" \in Places
    BY DEF Places, AtWork
  <2>2. call' \in [Callers -> CallState]
    BY <1>7, <2>1, <1>T, GoesTyped DEF Takes
  <2>3. lock' \in LockState
    BY <1>7, <1>T DEF Takes, LockState
  <2> QED
    BY <1>7, <2>2, <2>3, <1>T DEF Takes
<1>8. ASSUME Releases(c) PROVE Goal
  <2>1. CASE Fails(c) /\ UNCHANGED lock
    BY <1>8, <2>1, <1>T, FailsTyped DEF Releases
  <2>2. CASE lock.locked /\ lock' = [lock EXCEPT !.locked = FALSE] /\ served' = None
    <3>1. \A d \in Callers, a \in Places : [call[d] EXCEPT !.at = a] \in CallState
      BY <1>T DEF CallState
    <3>2. "sent" \in Places /\ "woken" \in Places
      BY DEF Places, Awaits
    <3>3. call' = [d \in Callers |->
                 IF d = c THEN [call[d] EXCEPT !.at = "sent"]
                 ELSE IF lock.waiters # <<>> /\ d = Head(lock.waiters)
                 THEN [call[d] EXCEPT !.at = "woken"]
                 ELSE call[d]]
      BY <1>8, <2>2 DEF Releases
    <3>4. call' \in [Callers -> CallState]
      BY <3>1, <3>2, <3>3, <1>T
    <3>5. lock' \in LockState
      BY <2>2, <1>T DEF LockState
    <3> QED
      BY <1>8, <2>2, <3>4, <3>5, <1>T DEF Releases
  <2> QED
    BY <1>8, <2>1, <2>2 DEF Releases
<1>9. ASSUME Reads(c) PROVE Goal
  <2>1. Recent(stamps) \in Times
    BY <1>T, SinceType DEF Recent
  <2>2. "stores" \in Places
    BY DEF Places, AtWork
  <2> DEFINE r == [call[c] EXCEPT !.at = "stores", !.time = now, !.kept = Recent(stamps)]
  <2>3. call' = [call EXCEPT ![c] = r]
    BY <1>9 DEF Reads
  <2>4. r \in CallState
    BY <2>1, <2>2, <1>T DEF CallState
  <2> HIDE DEF r
  <2>5. call' \in [Callers -> CallState]
    BY <2>3, <2>4, <1>T
  <2> QED
    BY <1>9, <2>5, <1>T DEF Reads
<1>10. ASSUME Stores(c) PROVE Goal
  <2>1. call[c].kept \in Times /\ <<>> \in Times /\ "decides" \in Places
    BY <1>N, EmptySeq DEF CallState, Places, AtWork
  <2>2. call' \in [Callers -> CallState]
    BY <1>10, <2>1, <1>T DEF Stores, CallState
  <2> QED
    BY <1>10, <2>1, <2>2, <1>T DEF Stores
<1>11. ASSUME Decides(c) PROVE Goal
  <2>0. "adds" \in Places /\ "sleeping" \in Places
    BY DEF Places, AtWork
  <2>1. CASE Goes(c, "adds") /\ UNCHANGED <<stamps, early>>
    <3>1. call' \in [Callers -> CallState]
      BY <2>1, <2>0, <1>T, GoesTyped
    <3> QED
      BY <1>11, <2>1, <3>1, <1>T DEF Decides
  <2>2. CASE /\ call' = [call EXCEPT ![c].at = "sleeping", ![c].slept = TRUE]
             /\ UNCHANGED <<stamps, early>>
    <3>1. call' \in [Callers -> CallState]
      BY <2>2, <2>0, <1>T DEF CallState
    <3> QED
      BY <1>11, <2>2, <3>1, <1>T DEF Decides
  <2>3. CASE /\ Len(stamps) >= Limit
             /\ stamps' = Tail(stamps)
             /\ early' = Append(Since(early, now), call[c].time)
             /\ Goes(c, "adds")
    <3>1. stamps # <<>>
      BY <2>3, LimitAssumption, EmptySeq
    <3>2. Tail(stamps) \in Times
      BY <3>1, <1>T, HeadTailProperties
    <3>3. Since(early, now) \in Times /\ call[c].time \in Nat
      BY <1>T, <1>N, SinceType DEF CallState
    <3>4. early' \in Times
      BY <2>3, <3>3, AppendProperties
    <3>5. call' \in [Callers -> CallState]
      BY <2>3, <2>0, <1>T, GoesTyped
    <3> QED
      BY <1>11, <2>3, <3>2, <3>4, <3>5, <1>T DEF Decides
  <2> QED
    BY <1>11, <2>1, <2>2, <2>3 DEF Decides
<1>12. ASSUME Wakes(c) PROVE Goal
  <2>1. "reads" \in Places
    BY DEF Places, AtWork
  <2>2. call' \in [Callers -> CallState]
    BY <1>12, <2>1, <1>T, GoesTyped DEF Wakes
  <2> QED
    BY <1>12, <2>2, <1>T DEF Wakes
<1>13. ASSUME Adds(c) PROVE Goal
  <2>1. Since(sent, now) \in Times /\ call[c].time \in Nat
    BY <1>T, <1>N, SinceType DEF CallState
  <2>2. stamps' \in Times /\ sent' \in Times
    BY <1>13, <1>T, <2>1, AppendProperties DEF Adds
  <2>3. "releases" \in Places
    BY DEF Places
  <2>4. call' \in [Callers -> CallState]
    <3> DEFINE m == [call[c] EXCEPT !.at = "releases", !.time = 0, !.slept = FALSE]
    <3>1. m \in CallState
      BY <1>N, <2>3 DEF CallState
    <3>2. call' = [call EXCEPT ![c] = m]
      BY <1>13, <1>T DEF Adds, CallState
    <3> HIDE DEF m
    <3> QED
      BY <3>1, <3>2, <1>T
  <2> QED
    BY <1>13, <2>2, <2>4, <1>T DEF Adds
<1>14. ASSUME Succeeds(c) PROVE Goal
  <2>0. UNCHANGED <<now, stamps, lock, sent, early, calls>> /\ breaker' = Closed
    BY <1>14 DEF Succeeds
  <2>1. CASE entry' \in {Negative(c), entry} /\ Fails(c)
    BY <2>0, <2>1, <1>T, <1>B, <1>V, FailsTyped
  <2>2. CASE /\ entry' \in {Good(c), [Negative(c) EXCEPT !.stale = @ + Grace]}
             /\ served' \in {None, Served(now, call[c].start)}
             /\ call' = [call EXCEPT ![c] = Idle]
    <3>1. call[c].start + TTL \in Nat /\ call[c].start + TTL + Grace \in Nat
          /\ call[c].start + NegativeTTL \in Nat /\ call[c].start + NegativeTTL + Grace \in Nat
      BY <1>N, CacheAssumption
    <3>2. Good(c) \in Entry
      BY <1>T, <3>1 DEF Good, Entry
    <3>3. [Negative(c) EXCEPT !.stale = @ + Grace] \in Entry
      BY <3>1 DEF Negative, Entry
    <3>4. Served(now, call[c].start) \in Answer
      BY <1>T, <1>N DEF Served, Answer
    <3>5. call' \in [Callers -> CallState]
      BY <2>2, <1>T, IdleTyped
    <3> QED
      BY <2>0, <2>2, <3>2, <3>3, <3>4, <3>5, <1>T, <1>B
  <2> QED
    BY <1>14, <2>1, <2>2 DEF Succeeds
<1>15. ASSUME RetryLater(c) PROVE Goal
  <2>1. call[c].tries + 1 \in 0 .. Attempts - 1
    BY <1>15, <1>N, AttemptsAssumption DEF RetryLater, CallState
  <2>2. call' = [call EXCEPT ![c].at = "check", ![c].tries = call[c].tries + 1]
    BY <1>15 DEF RetryLater
  <2>3. "check" \in Places
    BY DEF Places, Awaits
  <2>4. call' \in [Callers -> CallState]
    BY <1>T, <2>1, <2>2, <2>3 DEF CallState
  <2>5. calls' \in 0 .. MaxCalls
    BY <1>15, <1>T, BoundAssumption DEF RetryLater
  <2> QED
    BY <1>15, <1>T, <2>4, <2>5 DEF RetryLater
<1>16. ASSUME NEW a \in {"failing", "refusing"}, Counts(c, a) PROVE Goal
  <2>1. breaker.failures + 1 \in Nat /\ a \in Places
    BY <1>T DEF BreakerState, Places
  <2>2. call' \in [Callers -> CallState]
    BY <1>16, <2>1, <1>T DEF Counts, CallState
  <2> QED
    BY <1>16, <2>2, <1>T DEF Counts
<1>17. ASSUME Escapes(c) PROVE Goal
  BY <1>17, <1>T, FailsTyped DEF Escapes
<1>18. ASSUME Failed(c) PROVE Goal
  <2>1. Counted(c) \in BreakerState
    BY <1>N, <1>T DEF Counted, BreakerState, CallState
  <2> QED
    BY <1>18, <2>1, <1>T, <1>V, FailsTyped DEF Failed
<1> HIDE DEF Goal
<1> QED
  BY <1>1, <1>2, <1>3, <1>4, <1>5, <1>6, <1>7, <1>8, <1>9, <1>10, <1>11, <1>12, <1>13, <1>14,
     <1>15, <1>16, <1>17, <1>18
     DEF Serve, Starts, Woken, Continues, GivesUp, Refused, Goal

LEMMA StepTyped == Typed /\ [Next]_vars => Typed'
<1> SUFFICES ASSUME Typed, [Next]_vars PROVE Typed'
  OBVIOUS
<1>1. ASSUME NEW c \in Callers, Serve(c) PROVE Typed'
  <2>1. Marks
    BY <1>1 DEF Serve, Starts, Woken, Continues
  <2>2. overlap' \in Nat \union {None}
    BY <1>1, <2>1, SerialTyped, MarksTyped DEF Typed
  <2> QED
    BY <1>1, <2>2, SerialTyped DEF Typed
<1>2. ASSUME Tick, Marks PROVE Typed'
  <2>1. overlap' \in Nat \union {None}
    BY <1>2, MarksTyped DEF Tick, Typed
  <2> QED
    BY <1>2, <2>1 DEF Tick, Typed
<1>3. ASSUME NEW t \in Threads, LoopCloses(t), Marks PROVE Typed'
  <2>1. lock' \in LockState
    BY <1>3 DEF LoopCloses, Typed, LockState
  <2>2. overlap' \in Nat \union {None}
    BY <1>3, MarksTyped DEF LoopCloses, Typed
  <2> QED
    BY <1>3, <2>1, <2>2 DEF LoopCloses, Typed
<1>4. ASSUME UNCHANGED vars PROVE Typed'
  BY <1>4 DEF vars, Typed
<1> QED
  BY <1>1, <1>2, <1>3, <1>4 DEF Next

\* Every reachable state has its type.
THEOREM TransportTypeCorrect == Spec => []TransportTypeOK
<1>1. Init => Typed
  BY InitTyped
<1>2. Typed /\ [Next]_vars => Typed'
  BY StepTyped
<1>3. Typed => TransportTypeOK
  BY TypesAre
<1> QED
  BY <1>1, <1>2, <1>3, PTL DEF Spec

-----------------------------------------------------------------------------
(* The rate limiter *)

\* What is known of the past: no stamp lies in the future, and two callers who are at work
\* on the list are so now.
Past ==
    /\ overlap # None => overlap <= now
    /\ Together => overlap = now
    /\ Below(stamps, now) /\ Below(sent, now) /\ Below(early, now)
    /\ \A c \in Callers :
         /\ call[c].time <= now
         /\ call[c].at = "stores" => Below(call[c].kept, call[c].time)

\* How many of s are in the window at t.
N(s, t) == Len(Since(s, t))

\* Times from which a window does not reach back to an overlap.
Clear(t) == t >= now /\ (overlap # None => t >= overlap + Window)

\* At these times the list and the requests let through early account for those sent.
Books(t) ==
    /\ N(sent, t) <= N(stamps, t) + N(early, t)
    /\ N(sent, t) <= Limit + N(early, t)

\* A caller between its look at the list and its stamp: what it kept is what there is; the
\* list holds nothing that outlives its own stamp; and there is room for that.
Working(c, t) ==
    /\ call[c].at = "stores" => N(call[c].kept, t) = N(stamps, t)
    /\ call[c].at = "decides" =>
         \A i \in DOMAIN stamps : t < stamps[i] + Window => t < call[c].time + Window
    /\ call[c].at = "adds" =>
         (t < call[c].time + Window => N(sent, t) + 1 <= Limit + N(early, t))

Accounts == \A t \in Nat : Clear(t) => Books(t) /\ \A c \in Callers : Working(c, t)

LimiterInv == Past /\ Accounts

LEMMA Number ==
    ASSUME NEW s \in Times, NEW t \in Nat
    PROVE  N(s, t) \in Nat /\ N(s, t) <= Len(s) /\ Len(s) \in Nat
  BY SinceType, LenProperties DEF N

LEMMA NumberAppend ==
    ASSUME NEW s \in Times, NEW t \in Nat, NEW x \in Nat
    PROVE  N(Append(s, x), t) = N(s, t) + (IF t < x + Window THEN 1 ELSE 0)
<1>1. Since(s, t) \in Seq(Nat)
  BY SinceType
<1>2. Len(Append(Since(s, t), x)) = Len(Since(s, t)) + 1 /\ Len(Since(s, t)) \in Nat
  BY <1>1, AppendProperties, LenProperties
<1>3. Since(Append(s, x), t) = IF t < x + Window THEN Append(Since(s, t), x) ELSE Since(s, t)
  BY SinceAppend
<1> QED
  BY <1>2, <1>3 DEF N

LEMMA NumberLater ==
    ASSUME NEW s \in Times, NEW t \in Nat, NEW u \in Nat, u <= t
    PROVE  N(Since(s, u), t) = N(s, t) /\ Since(s, u) \in Times
  BY SinceSince, SinceType DEF N

LEMMA BelowLater ==
    ASSUME NEW s \in Times, NEW m \in Nat, NEW n \in Nat, m <= n, Below(s, m)
    PROVE  Below(s, n)
<1>1. \A i \in DOMAIN s : s[i] \in Nat
  BY LenProperties
<1> QED
  BY <1>1 DEF Below

\* Steps

LEMMA Later ==
    ASSUME NEW n \in Nat, NEW m \in Nat, NEW t \in Nat, m <= n, t >= n + Window
    PROVE  t >= m + Window /\ ~ (t < m + Window)
  BY LimitAssumption

LEMMA ClearBefore ==
    ASSUME Typed, Typed', Past, Marks, now' >= now, NEW t \in Nat, Clear(t)'
    PROVE  Clear(t)
<1>1. now \in Nat /\ now' \in Nat /\ overlap \in Nat \union {None} /\ Window \in Nat
  BY LimitAssumption DEF Typed
<1>2. overlap # None => overlap <= now
  BY DEF Past
<1>3. t >= now' /\ (overlap' # None => t >= overlap' + Window)
  BY DEF Clear
<1>4. CASE overlap' = now'
  <2>1. t >= now' + Window
    BY <1>1, <1>3, <1>4, NoneAssumption
  <2>2. CASE overlap = None
    BY <1>1, <1>3, <2>2 DEF Clear
  <2>3. CASE overlap \in Nat /\ overlap # None
    <3>1. overlap <= now
      BY <1>2, <2>3
    <3>2. overlap <= now' /\ t >= now
      BY <1>1, <1>3, <2>3, <3>1
    <3>3. t >= overlap + Window
      BY <1>1, <2>1, <2>3, <3>2, Later
    <3> QED
      BY <3>2, <3>3 DEF Clear
  <2> QED
    BY <1>1, <2>2, <2>3
<1>5. CASE overlap' = None /\ (overlap = None \/ now' >= overlap + Window)
  BY <1>1, <1>3, <1>5 DEF Clear
<1>6. CASE overlap' = overlap
  BY <1>1, <1>3, <1>6 DEF Clear
<1> QED
  BY <1>4, <1>5, <1>6 DEF Marks

\* The windows that reach back to no overlap are empty while there is one.
LEMMA Quiet ==
    ASSUME Typed', Past', overlap' = now'
    PROVE  Accounts'
<1> SUFFICES ASSUME NEW t \in Nat, Clear(t)'
             PROVE  Books(t)' /\ \A c \in Callers : Working(c, t)'
  BY DEF Accounts
<1>1. /\ now' \in Nat /\ stamps' \in Times /\ sent' \in Times /\ early' \in Times
      /\ call' \in [Callers -> CallState] /\ Limit \in Nat /\ Window \in Nat \ {0}
  BY LimitAssumption DEF Typed
<1>2. t >= now' + Window
  BY <1>1, NoneAssumption DEF Clear
<1>3. Below(stamps', now') /\ Below(sent', now') /\ Below(early', now')
  BY DEF Past, Below
<1>4. N(stamps', t) = 0 /\ N(sent', t) = 0 /\ N(early', t) = 0
  BY <1>1, <1>2, <1>3, SinceNothing DEF N
<1>5. Books(t)'
  BY <1>1, <1>4 DEF Books, N
<1>6. ASSUME NEW c \in Callers PROVE Working(c, t)'
  <2>1. /\ call'[c].kept \in Times /\ call'[c].time \in Nat
        /\ call'[c].time <= now'
        /\ call'[c].at = "stores" => Below(call'[c].kept, call'[c].time)
    BY <1>1 DEF CallState, Past, Below
  <2>2. call'[c].at = "stores" => N(call'[c].kept, t) = 0
    <3>1. t >= call'[c].time + Window
      BY <1>1, <1>2, <2>1, Later
    <3> QED
      BY <2>1, <3>1, SinceNothing DEF N
  <2>3. ~ (t < call'[c].time + Window)
    BY <1>1, <1>2, <2>1, Later
  <2>4. \A i \in DOMAIN stamps' : ~ (t < stamps'[i] + Window)
    <3>1. \A i \in DOMAIN stamps' : stamps'[i] \in Nat /\ stamps'[i] <= now'
      BY <1>1, <1>3, LenProperties DEF Below
    <3> QED
      BY <1>1, <1>2, <3>1, Later
  <2> QED
    BY <1>4, <2>2, <2>3, <2>4 DEF Working, N
<1> QED
  BY <1>5, <1>6

Writes == {"stores", "decides", "adds"}

\* What leaves the list and the histories alone, and brings nobody to a place where the
\* list is about to be written.
LEMMA Aside ==
    ASSUME Typed, Typed', LimiterInv, Marks, now' >= now, UNCHANGED <<stamps, sent, early>>,
           \A d \in Callers :
             \/ call'[d].time = call[d].time /\ call'[d].kept = call[d].kept
                /\ (call'[d].at \in Writes => call'[d].at = call[d].at)
             \/ call'[d].time = 0 /\ call'[d].at \notin Writes
    PROVE  LimiterInv'
<1>1. /\ now \in Nat /\ now' \in Nat /\ overlap \in Nat \union {None}
      /\ stamps \in Times /\ sent \in Times /\ early \in Times
      /\ call \in [Callers -> CallState] /\ call' \in [Callers -> CallState]
      /\ Window \in Nat \ {0}
  BY LimitAssumption DEF Typed
<1>2. Past'
  <2>1. Below(stamps, now') /\ Below(sent, now') /\ Below(early, now')
    BY <1>1, BelowLater DEF LimiterInv, Past
  <2>2. ASSUME NEW d \in Callers
        PROVE  /\ call'[d].time <= now'
               /\ call'[d].at = "stores" => Below(call'[d].kept, call'[d].time)
    <3>1. /\ call[d].time <= now /\ call[d].time \in Nat
          /\ call[d].at = "stores" => Below(call[d].kept, call[d].time)
      BY <1>1 DEF LimiterInv, Past, CallState
    <3>3. CASE /\ call'[d].time = call[d].time /\ call'[d].kept = call[d].kept
               /\ call'[d].at \in Writes => call'[d].at = call[d].at
      <4>1. call[d].time <= now'
        BY <1>1, <3>1
      <4> QED
        BY <3>1, <3>3, <4>1 DEF Writes
    <3>4. CASE call'[d].time = 0 /\ call'[d].at \notin Writes
      BY <1>1, <3>4 DEF Writes
    <3> QED
      BY <3>3, <3>4
  <2>3. overlap' # None => overlap' <= now'
    BY <1>1, NoneAssumption DEF LimiterInv, Past, Marks
  <2>4. Together' => overlap' = now'
    BY DEF Marks
  <2> QED
    BY <2>1, <2>2, <2>3, <2>4 DEF Past, Below
<1>3. ASSUME NEW t \in Nat, Clear(t)' PROVE Books(t)' /\ \A d \in Callers : Working(d, t)'
  <2>1. Clear(t)
    BY <1>3, ClearBefore DEF LimiterInv
  <2>2. Books(t) /\ \A d \in Callers : Working(d, t)
    BY <2>1 DEF LimiterInv, Accounts
  <2>3. Books(t)'
    BY <2>2 DEF Books, N
  <2>4. ASSUME NEW d \in Callers PROVE Working(d, t)'
    BY <2>2 DEF Working, Writes, N
  <2> QED
    BY <2>3, <2>4
<1> QED
  BY <1>2, <1>3 DEF LimiterInv, Accounts

\* A step at work on the list, by one caller: nobody else has anything pending there, or
\* there is an overlap now.
LEMMA ByOne ==
    ASSUME Typed, Typed', LimiterInv, Marks, now' = now,
           NEW c \in Callers, call[c].at \in AtWork,
           \A d \in Callers \ {c} : call'[d] = call[d],
           Below(stamps', now), Below(sent', now), Below(early', now),
           call'[c].time <= now,
           call'[c].at = "stores" => Below(call'[c].kept, call'[c].time),
           \A t \in Nat : Clear(t) /\ Books(t) /\ Working(c, t) => Books(t)' /\ Working(c, t)'
    PROVE  LimiterInv'
<1>1. /\ now \in Nat /\ now' \in Nat /\ overlap \in Nat \union {None}
      /\ call \in [Callers -> CallState] /\ call' \in [Callers -> CallState]
      /\ Window \in Nat \ {0}
  BY LimitAssumption DEF Typed
<1>2. Past'
  <2>1. overlap' # None => overlap' <= now'
    BY <1>1, NoneAssumption DEF LimiterInv, Past, Marks
  <2>2. Together' => overlap' = now'
    BY DEF Marks
  <2>3. \A d \in Callers :
          /\ call'[d].time <= now'
          /\ call'[d].at = "stores" => Below(call'[d].kept, call'[d].time)
    BY DEF LimiterInv, Past
  <2> QED
    BY <2>1, <2>2, <2>3 DEF Past, Below
<1>3. CASE overlap' = now'
  BY <1>2, <1>3, Quiet DEF LimiterInv
<1>4. CASE overlap' # now'
  <2>1. ~ Together
    <3>1. Together => overlap = now
      BY DEF LimiterInv, Past
    <3> QED
      BY <1>1, <1>4, <3>1 DEF Marks
  <2>2. \A d \in Callers \ {c} : call'[d].at \notin Writes
    BY <2>1 DEF Together, AtWork, Writes
  <2>3. ASSUME NEW t \in Nat, Clear(t)' PROVE Books(t)' /\ \A d \in Callers : Working(d, t)'
    <3>1. Clear(t)
      BY <1>1, <2>3, ClearBefore DEF LimiterInv
    <3>2. Books(t) /\ Working(c, t)
      BY <3>1 DEF LimiterInv, Accounts
    <3>3. Books(t)' /\ Working(c, t)'
      BY <3>1, <3>2
    <3>4. ASSUME NEW d \in Callers \ {c} PROVE Working(d, t)'
      BY <2>2 DEF Working, Writes
    <3> QED
      BY <3>3, <3>4
  <2> QED
    BY <1>2, <2>3 DEF LimiterInv, Accounts
<1> QED
  BY <1>3, <1>4

LEMMA InitLimits == Init => LimiterInv
<1> SUFFICES ASSUME Init PROVE LimiterInv
  OBVIOUS
<1>0. <<>> \in Times /\ Below(<<>>, 0)
  BY EmptySeq DEF Below
<1>1. Past
  <2>1. \A c \in Callers : call[c].time = 0 /\ call[c].at = "idle"
    BY DEF Init, Idle
  <2>2. ~ Together
    BY <2>1 DEF Together, AtWork
  <2> QED
    BY <1>0, <2>1, <2>2 DEF Init, Past
<1>2. ASSUME NEW t \in Nat PROVE Books(t) /\ \A c \in Callers : Working(c, t)
  <2>1. N(<<>>, t) = 0
    BY SinceEmpty, EmptySeq DEF N
  <2>2. Books(t)
    BY <2>1, LimitAssumption DEF Init, Books
  <2>3. \A c \in Callers : Working(c, t)
    BY DEF Init, Idle, Working
  <2> QED
    BY <2>2, <2>3
<1> QED
  BY <1>1, <1>2 DEF LimiterInv, Accounts

LEMMA ReadsLimits ==
    ASSUME Typed, Typed', LimiterInv, Marks, NEW c \in Callers, Reads(c)
    PROVE  LimiterInv'
<1>1. /\ now \in Nat /\ stamps \in Times /\ sent \in Times /\ early \in Times
      /\ call \in [Callers -> CallState]
  BY DEF Typed
<1>2. Below(stamps, now) /\ Below(sent, now) /\ Below(early, now)
  BY DEF LimiterInv, Past
<1>3. /\ now' = now /\ UNCHANGED <<stamps, sent, early>> /\ call[c].at \in AtWork
      /\ call'[c].at = "stores" /\ call'[c].time = now /\ call'[c].kept = Since(stamps, now)
      /\ \A d \in Callers \ {c} : call'[d] = call[d]
  BY <1>1 DEF Reads, Recent, AtWork, CallState
<1>4. /\ call'[c].time <= now /\ Below(call'[c].kept, call'[c].time)
      /\ Below(stamps', now) /\ Below(sent', now) /\ Below(early', now)
  <2>1. Below(Since(stamps, now), now)
    BY <1>1, <1>2, SinceBelow
  <2>2. now <= now
    BY <1>1
  <2> QED
    BY <1>2, <1>3, <2>1, <2>2, Zenon
<1>5. ASSUME NEW t \in Nat, Clear(t), Books(t) PROVE Books(t)' /\ Working(c, t)'
  <2>1. Books(t)'
    BY <1>3, <1>5 DEF Books, N
  <2>2. N(Since(stamps, now), t) = N(stamps, t)
    BY <1>1, <1>5, NumberLater DEF Clear
  <2>3. Working(c, t)'
    BY <1>3, <2>2 DEF Working, N
  <2> QED
    BY <2>1, <2>3
<1> QED
  BY <1>3, <1>4, <1>5, ByOne

LEMMA StoresLimits ==
    ASSUME Typed, Typed', LimiterInv, Marks, NEW c \in Callers, Stores(c)
    PROVE  LimiterInv'
<1>1. /\ now \in Nat /\ stamps \in Times /\ sent \in Times /\ early \in Times
      /\ call \in [Callers -> CallState] /\ Window \in Nat
      /\ call[c].kept \in Times /\ call[c].time \in Nat
  BY LimitAssumption DEF Typed, CallState
<1>2. /\ Below(sent, now) /\ Below(early, now)
      /\ call[c].time <= now /\ Below(call[c].kept, call[c].time)
  BY DEF LimiterInv, Past, Stores
<1>3. /\ now' = now /\ UNCHANGED <<sent, early>> /\ stamps' = call[c].kept
      /\ call[c].at = "stores" /\ call[c].at \in AtWork
      /\ call'[c].at = "decides" /\ call'[c].time = call[c].time
      /\ \A d \in Callers \ {c} : call'[d] = call[d]
  BY <1>1 DEF Stores, AtWork, CallState
<1>4. Below(stamps', now)
  BY <1>1, <1>2, <1>3, BelowLater
<1>5. ASSUME NEW t \in Nat, Books(t), Working(c, t) PROVE Books(t)' /\ Working(c, t)'
  <2>1. N(call[c].kept, t) = N(stamps, t)
    BY <1>3, <1>5 DEF Working
  <2>2. Books(t)'
    BY <1>3, <1>5, <2>1 DEF Books, N
  <2>3. \A i \in DOMAIN call[c].kept : t < call[c].kept[i] + Window => t < call[c].time + Window
    <3>1. \A i \in DOMAIN call[c].kept :
            call[c].kept[i] \in Nat /\ call[c].kept[i] <= call[c].time
      BY <1>1, <1>2, LenProperties DEF Below
    <3>2. ASSUME NEW x \in Nat, x <= call[c].time, t < x + Window
          PROVE  t < call[c].time + Window
      BY <1>1, <3>2
    <3> QED
      BY <3>1, <3>2
  <2>4. Working(c, t)'
    BY <1>3, <2>3 DEF Working
  <2> QED
    BY <2>2, <2>4
<1> QED
  BY <1>2, <1>3, <1>4, <1>5, ByOne

LEMMA AddsLimits ==
    ASSUME Typed, Typed', LimiterInv, Marks, NEW c \in Callers, Adds(c)
    PROVE  LimiterInv'
<1> DEFINE x == call[c].time
<1>1. /\ now \in Nat /\ stamps \in Times /\ sent \in Times /\ early \in Times
      /\ call \in [Callers -> CallState] /\ x \in Nat /\ Limit \in Nat
  BY LimitAssumption DEF Typed, CallState
<1>2. /\ Below(stamps, now) /\ Below(sent, now) /\ Below(early, now)
      /\ x <= now
  BY DEF LimiterInv, Past
<1>3. /\ now' = now /\ UNCHANGED early
      /\ stamps' = Append(stamps, x) /\ sent' = Append(Since(sent, now), x)
      /\ call[c].at = "adds" /\ call[c].at \in AtWork
      /\ call'[c].at = "releases" /\ call'[c].time = 0
      /\ \A d \in Callers \ {c} : call'[d] = call[d]
  BY <1>1 DEF Adds, AtWork, CallState
<1>4. Below(stamps', now) /\ Below(sent', now)
  <2>1. Since(sent, now) \in Times /\ Below(Since(sent, now), now)
    BY <1>1, <1>2, SinceType, SinceBelow
  <2> QED
    BY <1>1, <1>2, <1>3, <2>1, AppendBelow
<1> HIDE DEF x
<1>5. ASSUME NEW t \in Nat, Clear(t), Books(t), Working(c, t) PROVE Books(t)' /\ Working(c, t)'
  <2>1. N(Since(sent, now), t) = N(sent, t) /\ Since(sent, now) \in Times
    BY <1>1, <1>5, NumberLater DEF Clear
  <2>2. /\ N(sent', t) = N(sent, t) + (IF t < x + Window THEN 1 ELSE 0)
        /\ N(stamps', t) = N(stamps, t) + (IF t < x + Window THEN 1 ELSE 0)
    BY <1>1, <1>3, <2>1, NumberAppend
  <2>3. t < x + Window => N(sent, t) + 1 <= Limit + N(early, t)
    BY <1>3, <1>5 DEF Working, x
  <2>4. N(sent, t) \in Nat /\ N(stamps, t) \in Nat /\ N(early, t) \in Nat
    BY <1>1, Number
  <2>5. /\ N(sent, t) <= N(stamps, t) + N(early, t)
        /\ N(sent, t) <= Limit + N(early, t)
    BY <1>5 DEF Books
  <2>6. /\ N(sent', t) <= N(stamps', t) + N(early, t)
        /\ N(sent', t) <= Limit + N(early, t)
    BY <1>1, <2>2, <2>3, <2>4, <2>5
  <2>7. Books(t)'
    BY <1>3, <2>6 DEF Books, N
  <2>8. Working(c, t)'
    BY <1>3 DEF Working
  <2> QED
    BY <2>7, <2>8
<1>6. call'[c].at # "stores" /\ call'[c].time <= now
  BY <1>1, <1>3
<1> QED
  BY <1>2, <1>3, <1>4, <1>5, <1>6, ByOne

LEMMA Traded ==
    ASSUME NEW a \in Nat, NEW b \in Nat, NEW e \in Nat, NEW n \in Nat,
           NEW p \in {0, 1}, NEW q \in {0, 1}, p <= q, a <= b + p + e, a <= n + e
    PROVE  a <= b + (e + q) /\ a <= n + (e + q) /\ (q = 1 => a + 1 <= n + (e + q))
  OBVIOUS

LEMMA DecidesLimits ==
    ASSUME Typed, Typed', LimiterInv, Marks, NEW c \in Callers, Decides(c)
    PROVE  LimiterInv'
<1> DEFINE x == call[c].time
<1>1. /\ now \in Nat /\ stamps \in Times /\ sent \in Times /\ early \in Times
      /\ call \in [Callers -> CallState] /\ x \in Nat /\ Limit \in Nat \ {0} /\ Window \in Nat
  BY LimitAssumption DEF Typed, CallState
<1>2. /\ Below(stamps, now) /\ Below(sent, now) /\ Below(early, now)
      /\ x <= now
  BY DEF LimiterInv, Past
<1>3. now' = now /\ UNCHANGED sent /\ call[c].at = "decides" /\ call[c].at \in AtWork
  BY DEF Decides, AtWork
<1> HIDE DEF x
<1>4. CASE Len(stamps) < Limit /\ Goes(c, "adds") /\ UNCHANGED <<stamps, early>>
  <2>1. /\ call'[c].at = "adds" /\ call'[c].time = x
        /\ \A d \in Callers \ {c} : call'[d] = call[d]
    BY <1>1, <1>4 DEF Goes, CallState, x
  <2>2. ASSUME NEW t \in Nat, Books(t) PROVE Books(t)' /\ Working(c, t)'
    <3>1. N(sent, t) <= N(stamps, t) + N(early, t)
      BY <2>2 DEF Books
    <3>2. /\ N(stamps, t) <= Len(stamps) /\ Len(stamps) \in Nat
          /\ N(sent, t) \in Nat /\ N(stamps, t) \in Nat /\ N(early, t) \in Nat
      BY <1>1, Number
    <3>3. N(sent, t) + 1 <= Limit + N(early, t)
      BY <1>1, <1>4, <3>1, <3>2
    <3>4. Books(t)'
      BY <1>3, <1>4, <2>2 DEF Books, N
    <3>5. Working(c, t)'
      BY <1>3, <1>4, <2>1, <3>3 DEF Working, N
    <3> QED
      BY <3>4, <3>5
  <2>3. Below(stamps', now) /\ Below(sent', now) /\ Below(early', now)
    BY <1>2, <1>3, <1>4
  <2> QED
    BY <1>2, <1>3, <2>1, <2>2, <2>3, ByOne
<1>5. CASE /\ call' = [call EXCEPT ![c].at = "sleeping", ![c].slept = TRUE]
           /\ UNCHANGED <<stamps, early>>
  <2>1. \A d \in Callers : /\ call'[d].time = call[d].time /\ call'[d].kept = call[d].kept
                           /\ call'[d].at \in Writes => call'[d].at = call[d].at
    BY <1>1, <1>5 DEF CallState, Writes
  <2> QED
    BY <1>1, <1>3, <1>5, <2>1, Aside
<1>6. CASE /\ Len(stamps) >= Limit
           /\ stamps' = Tail(stamps)
           /\ early' = Append(Since(early, now), x)
           /\ Goes(c, "adds")
  <2>1. /\ call'[c].at = "adds" /\ call'[c].time = x
        /\ \A d \in Callers \ {c} : call'[d] = call[d]
    BY <1>1, <1>6 DEF Goes, CallState, x
  <2>2. stamps # <<>>
    BY <1>1, <1>6, EmptySeq
  <2>3. Tail(stamps) \in Times /\ Head(stamps) \in Nat /\ 1 \in DOMAIN stamps
        /\ Head(stamps) = stamps[1]
    BY <1>1, <2>2, HeadTailProperties, LenProperties, EmptySeq
  <2>4. Below(stamps', now) /\ Below(sent', now) /\ Below(early', now)
    <3>1. Since(early, now) \in Times /\ Below(Since(early, now), now)
      BY <1>1, <1>2, SinceType, SinceBelow
    <3> QED
      BY <1>1, <1>2, <1>3, <1>6, <2>2, <3>1, AppendBelow, TailBelow
  <2>5. ASSUME NEW t \in Nat, Clear(t), Books(t), Working(c, t)
        PROVE  Books(t)' /\ Working(c, t)'
    <3>1. N(Since(early, now), t) = N(early, t) /\ Since(early, now) \in Times
      BY <1>1, <2>5, NumberLater DEF Clear
    <3>2. N(early', t) = N(early, t) + (IF t < x + Window THEN 1 ELSE 0)
      BY <1>1, <1>6, <3>1, NumberAppend
    <3>3. N(stamps, t) = N(stamps', t) + (IF t < Head(stamps) + Window THEN 1 ELSE 0)
      BY <1>1, <1>6, <2>2, SinceTail DEF N
    <3>4. t < Head(stamps) + Window => t < x + Window
      BY <1>3, <2>3, <2>5 DEF Working, x
    <3>5. /\ N(sent, t) \in Nat /\ N(early, t) \in Nat /\ N(stamps', t) \in Nat
      BY <1>1, <1>6, <2>3, Number
    <3>6. N(sent, t) <= N(stamps, t) + N(early, t) /\ N(sent, t) <= Limit + N(early, t)
      BY <2>5 DEF Books
    <3>7. /\ N(sent, t) <= N(stamps', t) + N(early', t)
          /\ N(sent, t) <= Limit + N(early', t)
          /\ t < x + Window => N(sent, t) + 1 <= Limit + N(early', t)
      <4> DEFINE p == IF t < Head(stamps) + Window THEN 1 ELSE 0
      <4> DEFINE q == IF t < x + Window THEN 1 ELSE 0
      <4>1. p \in {0, 1} /\ q \in {0, 1} /\ p <= q /\ (t < x + Window => q = 1)
        BY <3>4
      <4>2. N(early', t) = N(early, t) + q /\ N(stamps, t) = N(stamps', t) + p
        BY <3>2, <3>3
      <4> HIDE DEF p, q
      <4> QED
        BY <1>1, <4>1, <4>2, <3>5, <3>6, Traded
    <3>8. Books(t)'
      BY <1>3, <3>7 DEF Books, N
    <3>9. Working(c, t)'
      BY <1>3, <2>1, <3>7 DEF Working, N
    <3> QED
      BY <3>8, <3>9
  <2> QED
    BY <1>2, <1>3, <2>1, <2>4, <2>5, ByOne
<1> QED
  BY <1>4, <1>5, <1>6 DEF Decides, x

\* What a caller does elsewhere does not concern the list.
LEMMA ElsewhereLimits ==
    ASSUME Typed, Typed', LimiterInv, Marks, now' = now, UNCHANGED <<stamps, sent, early>>,
           NEW c \in Callers,
           \/ call' = call
           \/ call' = [call EXCEPT ![c] = Idle]
           \/ \E a \in Places \ Writes : Goes(c, a)
           \/ Begin(c) \/ Releases(c) \/ RetryLater(c)
           \/ Counts(c, "failing") \/ Counts(c, "refusing")
    PROVE  LimiterInv'
<1> DEFINE Calm == \A d \in Callers :
             \/ call'[d].time = call[d].time /\ call'[d].kept = call[d].kept
                /\ (call'[d].at \in Writes => call'[d].at = call[d].at)
             \/ call'[d].time = 0 /\ call'[d].at \notin Writes
<1>1. call \in [Callers -> CallState] /\ now \in Nat
  BY DEF Typed
<1>2. Idle.time = 0 /\ Idle.at \notin Writes
  BY DEF Idle, Writes
<1>3. CASE call' = call
  BY <1>1, <1>3, Aside
<1>4. CASE call' = [call EXCEPT ![c] = Idle]
  <2>1. Calm
    BY <1>1, <1>2, <1>4
  <2> QED
    BY <1>1, <2>1, Aside
<1>5. ASSUME NEW a \in Places \ Writes, Goes(c, a) PROVE LimiterInv'
  <2>1. Calm
    BY <1>1, <1>5 DEF Goes, CallState
  <2> QED
    BY <1>1, <2>1, Aside
<1>6. CASE Begin(c)
  <2>1. Calm
    <3>1. CASE call' = [call EXCEPT ![c] =
                 [Idle EXCEPT !.at = "check", !.start = now,
                              !.stale = IF Usable(entry) THEN entry.loaded ELSE None]]
      <4>1. call'[c].time = 0 /\ call'[c].at = "check" /\ "check" \notin Writes
        BY <3>1, <1>1 DEF Idle, Writes
      <4>2. \A d \in Callers \ {c} : call'[d] = call[d]
        BY <3>1, <1>1
      <4> QED
        BY <4>1, <4>2
    <3> QED
      BY <1>6, <3>1 DEF Begin
  <2> QED
    BY <1>1, <2>1, Aside
<1>7. CASE Releases(c)
  <2>1. CASE call' = [call EXCEPT ![c] = Idle]
    BY <1>4, <2>1
  <2>2. CASE call' = [d \in Callers |->
                 IF d = c THEN [call[d] EXCEPT !.at = "sent"]
                 ELSE IF lock.waiters # <<>> /\ d = Head(lock.waiters)
                 THEN [call[d] EXCEPT !.at = "woken"]
                 ELSE call[d]]
    <3>1. ASSUME NEW d \in Callers
          PROVE  /\ call'[d].time = call[d].time /\ call'[d].kept = call[d].kept
                 /\ call'[d].at \in Writes => call'[d].at = call[d].at
      <4>1. call[d] \in CallState
        BY <1>1
      <4>2. \/ call'[d] = [call[d] EXCEPT !.at = "sent"]
            \/ call'[d] = [call[d] EXCEPT !.at = "woken"]
            \/ call'[d] = call[d]
        BY <2>2
      <4> QED
        BY <4>1, <4>2 DEF CallState, Writes
    <3>2. Calm
      BY <3>1
    <3> QED
      BY <1>1, <3>2, Aside
  <2> QED
    BY <1>7, <2>1, <2>2 DEF Releases, Fails
<1>8. CASE RetryLater(c)
  <2>1. Calm
    BY <1>1, <1>8 DEF RetryLater, Writes, CallState
  <2> QED
    BY <1>1, <2>1, Aside
<1>9. CASE Counts(c, "failing") \/ Counts(c, "refusing")
  <2>1. ASSUME NEW a \in {"failing", "refusing"}, Counts(c, a) PROVE LimiterInv'
    <3>1. call' = [call EXCEPT ![c].at = a, ![c].count = breaker.failures + 1]
      BY <2>1 DEF Counts
    <3>2. ASSUME NEW d \in Callers
          PROVE  /\ call'[d].time = call[d].time /\ call'[d].kept = call[d].kept
                 /\ call'[d].at \in Writes => call'[d].at = call[d].at
      <4>1. call[d] \in CallState
        BY <1>1
      <4> QED
        BY <1>1, <3>1, <4>1 DEF CallState, Writes
    <3>3. Calm
      BY <3>2
    <3> QED
      BY <1>1, <3>3, Aside
  <2> QED
    BY <1>9, <2>1
<1> QED
  BY <1>3, <1>4, <1>5, <1>6, <1>7, <1>8, <1>9

LEMMA StepLimits == Typed /\ LimiterInv /\ [Next]_vars => LimiterInv'
<1> SUFFICES ASSUME Typed, LimiterInv, [Next]_vars PROVE LimiterInv'
  OBVIOUS
<1>T. Typed' /\ now \in Nat
  BY StepTyped DEF Typed
<1>1. ASSUME NEW c \in Callers, Serve(c) PROVE LimiterInv'
  <2>M. Marks
    BY <1>1 DEF Serve, Starts, Woken, Continues
  <2>1. CASE Reads(c)
    BY <2>1, <2>M, <1>T, ReadsLimits
  <2>2. CASE Stores(c)
    BY <2>2, <2>M, <1>T, StoresLimits
  <2>3. CASE Decides(c)
    BY <2>3, <2>M, <1>T, DecidesLimits
  <2>4. CASE Adds(c)
    BY <2>4, <2>M, <1>T, AddsLimits
  <2>P. /\ {"asks", "resets", "joins", "queued", "takes"} \subseteq Places \ Writes
        /\ "reads" \in Places \ Writes
    BY DEF Places, Awaits, AtWork, Writes
  <2>5. CASE Check(c) \/ Resets(c) \/ Asks(c) \/ Joins(c)
    <3>1. now' = now /\ UNCHANGED <<stamps, sent, early>>
      BY <2>5 DEF Check, Resets, Asks, Joins
    <3>2. \/ call' = [call EXCEPT ![c] = Idle]
          \/ \E a \in Places \ Writes : Goes(c, a)
      BY <2>5, <2>P DEF Check, Resets, Asks, Joins, Fails
    <3> QED
      BY <3>1, <3>2, <2>M, <1>T, ElsewhereLimits
  <2>6. CASE Resume(c) \/ Takes(c) \/ Wakes(c)
    <3>1. now' = now /\ UNCHANGED <<stamps, sent, early>>
      BY <2>6 DEF Resume, Takes, Wakes
    <3>2. \E a \in Places \ Writes : Goes(c, a)
      BY <2>6, <2>P DEF Resume, Takes, Wakes
    <3> QED
      BY <3>1, <3>2, <2>M, <1>T, ElsewhereLimits
  <2>7. CASE Succeeds(c) \/ Escapes(c) \/ Failed(c)
    <3>1. now' = now /\ UNCHANGED <<stamps, sent, early>> /\ call' = [call EXCEPT ![c] = Idle]
      BY <2>7 DEF Succeeds, Escapes, Failed, Fails
    <3> QED
      BY <3>1, <2>M, <1>T, ElsewhereLimits
  <2>8. CASE Begin(c) \/ Releases(c) \/ RetryLater(c) \/ Counts(c, "failing") \/ Counts(c, "refusing")
    <3>1. now' = now /\ UNCHANGED <<stamps, sent, early>>
      BY <2>8 DEF Begin, Releases, RetryLater, Counts
    <3> QED
      BY <3>1, <2>8, <2>M, <1>T, ElsewhereLimits
  <2> QED
    BY <1>1, <2>1, <2>2, <2>3, <2>4, <2>5, <2>6, <2>7, <2>8
       DEF Serve, Starts, Woken, Continues, GivesUp, Refused
<1>2. ASSUME Tick, Marks PROVE LimiterInv'
  BY <1>2, <1>T, Aside DEF Tick
<1>3. ASSUME NEW t \in Threads, LoopCloses(t), Marks PROVE LimiterInv'
  BY <1>3, <1>T, Aside DEF LoopCloses
<1>4. ASSUME UNCHANGED vars PROVE LimiterInv'
  <2>1. UNCHANGED <<now, stamps, sent, early, overlap, call>>
    BY <1>4 DEF vars
  <2>2. Past'
    BY <2>1 DEF LimiterInv, Past, Below, Together
  <2>3. Accounts'
    BY <2>1 DEF LimiterInv, Accounts, Clear, Books, Working, N
  <2> QED
    BY <2>2, <2>3 DEF LimiterInv
<1> QED
  BY <1>1, <1>2, <1>3, <1>4 DEF Next

LEMMA LimitsHold == Typed /\ LimiterInv => RateHolds
<1> SUFFICES ASSUME Typed, LimiterInv, overlap = None
             PROVE  InWindow(sent) <= Limit + InWindow(early)
  BY DEF RateHolds
<1>1. now \in Nat /\ sent \in Times /\ early \in Times
  BY DEF Typed
<1>2. Cardinality(Positions(sent, now)) = N(sent, now)
      /\ Cardinality(Positions(early, now)) = N(early, now)
  BY <1>1, SinceCounts DEF N
<1>3. Clear(now)
  BY <1>1 DEF Clear
<1>4. N(sent, now) <= Limit + N(early, now)
  BY <1>1, <1>3 DEF LimiterInv, Accounts, Books
<1> QED
  BY <1>2, <1>4 DEF InWindow, Positions

\* Unless two callers were at work on the list within the last window, no window sees more
\* requests than the limit and those whose sleep ended early: with any number of callers,
\* retries and threads, stamps lost in earlier overlaps, and whoever holds the lock.
THEOREM RateHoldsThm == Spec => []RateHolds
<1>1. Init => Typed /\ LimiterInv
  BY InitTyped, InitLimits
<1>2. Typed /\ LimiterInv /\ [Next]_vars => Typed' /\ LimiterInv'
  BY StepTyped, StepLimits
<1>3. Typed /\ LimiterInv => RateHolds
  BY LimitsHold
<1> QED
  BY <1>1, <1>2, <1>3, PTL DEF Spec

-----------------------------------------------------------------------------
(* The lock, in one loop *)

\* Asked for, free, and to be taken before anybody else of the loop runs.
Owns == AtWork \union {"releases"}

\* Between two awaits there is one who runs; the lock is locked while somebody is at work,
\* alone; who is woken is the first in the queue, which keeps the others from the free lock.
Exclusive ==
    /\ \A c, d \in Callers : c # d => call[c].at \in Awaits \/ call[d].at \in Awaits
    /\ \A c \in Callers : call[c].at \in Owns =>
         /\ lock.locked
         /\ \A d \in Callers \ {c} : call[d].at \notin Owns \union {"takes", "woken"}
    /\ \A c \in Callers : call[c].at = "takes" =>
         /\ ~ lock.locked
         /\ \A d \in Callers \ {c} : call[d].at \notin Owns \union {"takes", "woken"}
    /\ \A c \in Callers : call[c].at = "woken" =>
         ~ lock.locked /\ lock.waiters # <<>> /\ c = Head(lock.waiters)

OneLoopInv == Exclusive /\ overlap = None

\* Nobody else moves, the lock stays, and the caller goes to where it has no part in it, or
\* stays in its part.
LEMMA Apart ==
    ASSUME Exclusive, NEW c \in Callers, \A d \in Callers \ {c} : call'[d] = call[d],
           \A d \in Callers \ {c} : call[d].at \in Awaits,
           UNCHANGED lock,
           \/ call'[c].at \notin Owns \union {"takes", "woken"}
           \/ call'[c].at \in Owns /\ call[c].at \in Owns
    PROVE  Exclusive'
  BY DEF Exclusive, Owns, AtWork, Awaits

LEMMA StepExclusive ==
    ASSUME Threads = {}, Typed, Exclusive, [Next]_vars
    PROVE  Exclusive'
<1>T. /\ call \in [Callers -> CallState] /\ lock \in LockState /\ lock.waiters \in Seq(Callers)
      /\ Callers = Coroutines
  BY DEF Typed, LockState, Callers
<1>1. ASSUME NEW c \in Callers, Serve(c) PROVE Exclusive'
  <2>W. \A d \in Callers \ {c} : call[d].at \in Awaits
    BY <1>1, <1>T DEF Serve, Starts, Woken, Continues, Turn
  <2>F. ASSUME Fails(c), UNCHANGED lock PROVE Exclusive'
    BY <2>F, <2>W, <1>T, Apart DEF Fails, Idle, Owns, AtWork
  <2>G. ASSUME NEW a \in {"asks", "resets", "joins", "adds"}, Goes(c, a), UNCHANGED lock,
               a = "adds" => call[c].at \in Owns
        PROVE  Exclusive'
    <3>1. call'[c].at = a /\ \A d \in Callers \ {c} : call'[d] = call[d]
      BY <2>G, <1>T DEF Goes, CallState
    <3> QED
      BY <2>G, <2>W, <3>1, Apart DEF Owns, AtWork
  <2>1. CASE Begin(c)
    <3>1. UNCHANGED lock /\ call[c].at = "idle"
      BY <2>1 DEF Begin
    <3>2. call' = call \/ call' = [call EXCEPT ![c] =
                 [Idle EXCEPT !.at = "check", !.start = now,
                              !.stale = IF Usable(entry) THEN entry.loaded ELSE None]]
      BY <2>1 DEF Begin
    <3>3. call'[c].at \in {"idle", "check"} /\ \A d \in Callers \ {c} : call'[d] = call[d]
      BY <3>1, <3>2, <1>T DEF Idle
    <3> QED
      BY <3>1, <3>3, <2>W, Apart DEF Owns, AtWork
  <2>2. CASE Check(c) \/ Resets(c)
    BY <2>2, <2>F, <2>G DEF Check, Resets
  <2>3. CASE Asks(c) /\ Busy
    BY <2>3, <2>G DEF Asks
  <2>4. CASE Asks(c) /\ ~ Busy
    <3>1. UNCHANGED lock /\ ~ lock.locked /\ lock.waiters = <<>>
      BY <2>4 DEF Asks, Busy
    <3>2. call'[c].at = "takes" /\ \A d \in Callers \ {c} : call'[d] = call[d]
      BY <2>4, <1>T DEF Asks, Goes, CallState
    <3>3. \A d \in Callers \ {c} : call[d].at \notin Owns \union {"takes", "woken"}
      BY <2>W, <3>1 DEF Exclusive, Awaits
    <3> QED
      BY <2>W, <3>1, <3>2, <3>3 DEF Exclusive, Owns, AtWork
  <2>5. CASE Joins(c)
    <3>1. CASE Fails(c) /\ UNCHANGED lock
      BY <3>1, <2>F
    <3>2. CASE /\ lock' = [lock EXCEPT !.waiters = Append(@, c), !.loop = Loop(c)]
               /\ Goes(c, "queued")
      <4>1. lock'.locked = lock.locked /\ lock'.waiters = Append(lock.waiters, c)
        BY <3>2, <1>T DEF LockState
      <4>2. lock.waiters # <<>> =>
              lock'.waiters # <<>> /\ Head(lock'.waiters) = Head(lock.waiters)
        BY <4>1, <1>T, AppendProperties, HeadTailProperties, EmptySeq
      <4>3. call'[c].at = "queued" /\ \A d \in Callers \ {c} : call'[d] = call[d]
        BY <3>2, <1>T DEF Goes, CallState
      <4> QED
        BY <2>W, <4>1, <4>2, <4>3 DEF Exclusive, Owns, AtWork, Awaits
    <3> QED
      BY <2>5, <3>1, <3>2 DEF Joins
  <2>6. CASE Resume(c)
    <3>1. call[c].at = "woken" /\ lock'.locked = lock.locked
      BY <2>6, <1>T DEF Resume, LockState
    <3>2. ~ lock.locked /\ c = Head(lock.waiters)
      BY <3>1 DEF Exclusive
    <3>3. call'[c].at = "takes" /\ \A d \in Callers \ {c} : call'[d] = call[d]
      BY <2>6, <1>T DEF Resume, Goes, CallState
    <3>4. \A d \in Callers \ {c} : call[d].at \notin Owns \union {"takes", "woken"}
      BY <2>W, <3>2 DEF Exclusive, Awaits
    <3> QED
      BY <2>W, <3>1, <3>2, <3>3, <3>4 DEF Exclusive, Owns, AtWork, Awaits
  <2>7. CASE Takes(c)
    <3>1. call[c].at = "takes" /\ lock'.locked
      BY <2>7, <1>T DEF Takes, LockState
    <3>2. call'[c].at = "reads" /\ \A d \in Callers \ {c} : call'[d] = call[d]
      BY <2>7, <1>T DEF Takes, Goes, CallState
    <3>3. \A d \in Callers \ {c} : call[d].at \notin Owns \union {"takes", "woken"}
      BY <3>1 DEF Exclusive
    <3> QED
      BY <2>W, <3>1, <3>2, <3>3 DEF Exclusive, Owns, AtWork, Awaits
  <2>8. CASE Reads(c) \/ Stores(c) \/ Decides(c) \/ Wakes(c) \/ Adds(c)
    <3>1. UNCHANGED lock /\ call[c].at \in Owns
      BY <2>8 DEF Reads, Stores, Decides, Wakes, Adds, Owns, AtWork
    <3>2. call'[c].at \in Owns /\ \A d \in Callers \ {c} : call'[d] = call[d]
      <4>1. CASE Reads(c)
        BY <4>1, <1>T DEF Reads, CallState, Owns, AtWork
      <4>2. CASE Stores(c)
        BY <4>2, <1>T DEF Stores, CallState, Owns, AtWork
      <4>3. CASE Decides(c)
        <5>1. \/ call' = [call EXCEPT ![c].at = "adds"]
              \/ call' = [call EXCEPT ![c].at = "sleeping", ![c].slept = TRUE]
          BY <4>3 DEF Decides, Goes
        <5> QED
          BY <5>1, <1>T DEF CallState, Owns, AtWork
      <4>4. CASE Wakes(c)
        BY <4>4, <1>T DEF Wakes, Goes, CallState, Owns, AtWork
      <4>5. CASE Adds(c)
        BY <4>5, <1>T DEF Adds, CallState, Owns, AtWork
      <4> QED
        BY <2>8, <4>1, <4>2, <4>3, <4>4, <4>5
    <3> QED
      BY <2>W, <3>1, <3>2, Apart
  <2>9. CASE Releases(c)
    <3>1. call[c].at = "releases" /\ lock.locked
      BY <2>9 DEF Releases, Exclusive, Owns
    <3>2. /\ lock' = [lock EXCEPT !.locked = FALSE]
          /\ call' = [d \in Callers |->
               IF d = c THEN [call[d] EXCEPT !.at = "sent"]
               ELSE IF lock.waiters # <<>> /\ d = Head(lock.waiters)
               THEN [call[d] EXCEPT !.at = "woken"]
               ELSE call[d]]
      BY <2>9, <3>1 DEF Releases
    <3>3. ~ lock'.locked /\ lock'.waiters = lock.waiters
      BY <3>2, <1>T DEF LockState
    <3>4. \A d \in Callers \ {c} : call[d].at \notin Owns \union {"takes", "woken"}
      BY <3>1 DEF Exclusive, Owns
    <3>5. call'[c].at = "sent"
      BY <3>2, <1>T DEF CallState
    <3>6. ASSUME NEW d \in Callers \ {c}
          PROVE  \/ call'[d].at = call[d].at
                 \/ call'[d].at = "woken" /\ lock.waiters # <<>> /\ d = Head(lock.waiters)
      BY <3>2, <1>T DEF CallState
    <3> QED
      BY <2>W, <3>3, <3>4, <3>5, <3>6 DEF Exclusive, Owns, AtWork, Awaits
  <2>10. CASE Succeeds(c) \/ RetryLater(c) \/ GivesUp(c) \/ Refused(c) \/ Escapes(c) \/ Failed(c)
    <3>1. UNCHANGED lock
      BY <2>10 DEF Succeeds, RetryLater, GivesUp, Refused, Counts, Escapes, Failed
    <3>2. /\ call'[c].at \in {"idle", "check", "failing", "refusing"}
          /\ \A d \in Callers \ {c} : call'[d] = call[d]
      <4>1. CASE Succeeds(c) \/ Escapes(c) \/ Failed(c)
        BY <4>1, <1>T DEF Succeeds, Escapes, Failed, Fails, Idle
      <4>2. CASE RetryLater(c)
        BY <4>2, <1>T DEF RetryLater, CallState
      <4>3. ASSUME NEW a \in {"failing", "refusing"}, Counts(c, a)
            PROVE  call'[c].at = a /\ \A d \in Callers \ {c} : call'[d] = call[d]
        BY <4>3, <1>T DEF Counts, CallState
      <4> QED
        BY <2>10, <4>1, <4>2, <4>3 DEF GivesUp, Refused
    <3> QED
      BY <2>W, <3>1, <3>2, Apart DEF Owns, AtWork
  <2> QED
    BY <1>1, <2>1, <2>2, <2>3, <2>4, <2>5, <2>6, <2>7, <2>8, <2>9, <2>10
       DEF Serve, Starts, Woken, Continues
<1>2. CASE UNCHANGED <<call, lock>>
  BY <1>2 DEF Exclusive
<1> QED
  BY <1>1, <1>2 DEF Next, Tick, vars

\* The server's loop alone: two callers are never at work on the list, so that no window
\* sees more requests than the limit and those whose sleep ended early.
THEOREM OneLoopKeepsTheLimit ==
    ASSUME Threads = {}
    PROVE  Spec => [](InWindow(sent) <= Limit + InWindow(early))
<1>1. Init => Typed /\ LimiterInv /\ OneLoopInv
  <2>1. Init => Exclusive /\ overlap = None
    BY DEF Init, Exclusive, Idle, Awaits, Owns, AtWork
  <2> QED
    BY <2>1, InitTyped, InitLimits DEF OneLoopInv
<1>2. Typed /\ LimiterInv /\ OneLoopInv /\ [Next]_vars => Typed' /\ LimiterInv' /\ OneLoopInv'
  <2> SUFFICES ASSUME Typed, OneLoopInv, [Next]_vars PROVE OneLoopInv'
    BY StepTyped, StepLimits
  <2>1. Exclusive'
    BY StepExclusive DEF OneLoopInv
  <2>2. ~ Together'
    BY <2>1 DEF Exclusive, Together, Owns
  <2>3. overlap' = None
    <3>1. CASE UNCHANGED vars
      BY <3>1 DEF vars, OneLoopInv
    <3>2. CASE Marks
      BY <2>2, <3>2 DEF Marks, OneLoopInv
    <3> QED
      BY <3>1, <3>2 DEF Next, Serve, Starts, Woken, Continues
  <2> QED
    BY <2>1, <2>3 DEF OneLoopInv
<1>3. Typed /\ LimiterInv /\ OneLoopInv => InWindow(sent) <= Limit + InWindow(early)
  BY LimitsHold DEF RateHolds, OneLoopInv
<1> QED
  BY <1>1, <1>2, <1>3, PTL DEF Spec

-----------------------------------------------------------------------------
(* The age of what is served *)

\* A good entry was loaded after the moment from which its validity counts; a call has
\* begun in the past, and took an entry to fall back on only within its grace.
AgesOK ==
    /\ entry # None /\ entry.good =>
         entry.valid <= entry.loaded + TTL /\ entry.stale <= entry.loaded + TTL + Grace
    /\ \A c \in Callers :
         /\ call[c].start <= now
         /\ call[c].stale # None => call[c].start < call[c].stale + TTL + Grace

AgeInv == AgesOK /\ ServedIsRecent

LEMMA InitAges == Init => AgeInv
  BY DEF Init, AgeInv, AgesOK, ServedIsRecent, Idle

\* A call that fails answers with what it took at its begin, or not at all.
LEMMA FailsAges ==
    ASSUME Typed, AgeInv, NEW c \in Callers, Fails(c), now' = now
    PROVE  /\ ServedIsRecent'
           /\ \A d \in Callers :
                /\ call'[d].start <= now
                /\ call'[d].stale # None => call'[d].start < call'[d].stale + TTL + Grace
<1>1. now \in Nat /\ call \in [Callers -> CallState]
  BY DEF Typed
<1>2. ASSUME NEW d \in Callers
      PROVE  /\ call'[d].start <= now
             /\ call'[d].stale # None => call'[d].start < call'[d].stale + TTL + Grace
  BY <1>1 DEF Fails, AgeInv, AgesOK, Idle
<1>3. ServedIsRecent'
  BY <1>1 DEF Fails, AgeInv, AgesOK, ServedIsRecent, Served
<1> QED
  BY <1>2, <1>3

LEMMA StepAges == Typed /\ AgeInv /\ [Next]_vars => AgeInv'
<1> SUFFICES ASSUME Typed, AgeInv, [Next]_vars PROVE AgeInv'
  OBVIOUS
<1> DEFINE EntryAge(e) ==
             e # None /\ e.good => e.valid <= e.loaded + TTL /\ e.stale <= e.loaded + TTL + Grace
           CallAge(q, t) ==
             /\ q.start <= t
             /\ q.stale # None => q.start < q.stale + TTL + Grace
           AnswerAge(a) == a # None => a.start < a.loaded + TTL + Grace
           Goal == AgeInv'
<1>T. /\ now \in Nat /\ entry \in Entry \union {None}
      /\ call \in [Callers -> CallState]
      /\ \A c \in Callers : call[c].start \in Nat
      /\ TTL \in Nat /\ Grace \in Nat \ {0} /\ NegativeTTL \in Nat
  BY CacheAssumption DEF Typed, CallState
<1>A. /\ EntryAge(entry)
      /\ \A d \in Callers : CallAge(call[d], now)
  BY DEF AgeInv, AgesOK
<1>G. ASSUME EntryAge(entry'), AnswerAge(served'), \A d \in Callers : CallAge(call'[d], now')
      PROVE  Goal
  BY <1>G DEF AgeInv, AgesOK, ServedIsRecent
<1>I. ASSUME NEW t \in Nat PROVE CallAge(Idle, t)
  BY <1>I DEF Idle
<1>F. ASSUME NEW c \in Callers, Fails(c), now' = now
      PROVE  AnswerAge(served') /\ \A d \in Callers : CallAge(call'[d], now)
  BY <1>F, FailsAges DEF ServedIsRecent
\* Another place for a call, with the same begin.
<1>M. ASSUME UNCHANGED <<now, entry>>, served' = None,
             \A d \in Callers : call'[d].start = call[d].start /\ call'[d].stale = call[d].stale
      PROVE  Goal
  BY <1>M, <1>A, <1>G
<1>P. ASSUME NEW c \in Callers, NEW a, Goes(c, a), UNCHANGED <<now, entry>>, served' = None
      PROVE  Goal
  <2>1. \A d \in Callers : call'[d].start = call[d].start /\ call'[d].stale = call[d].stale
    BY <1>P, <1>T DEF Goes, CallState
  <2> QED
    BY <2>1, <1>P, <1>M
<1> HIDE DEF Goal
<1>1. ASSUME NEW c \in Callers, Begin(c) PROVE Goal
  <2>0. entry # None => entry \in Entry
    BY <1>T
  <2>1. UNCHANGED <<now, entry>>
    BY <1>1 DEF Begin
  <2>2. ASSUME NEW d \in Callers PROVE CallAge(call'[d], now)
    <3>2. CASE call' = call
      BY <3>2, <1>A
    <3>3. CASE call' = [call EXCEPT ![c] =
                 [Idle EXCEPT !.at = "check", !.start = now,
                              !.stale = IF Usable(entry) THEN entry.loaded ELSE None]]
      <4>1. Usable(entry) => now < entry.loaded + TTL + Grace
        BY <2>0, <1>A, <1>T DEF Usable, Entry
      <4>2. d # c => call'[d] = call[d]
        BY <3>3, <1>T
      <4>3. d = c => /\ call'[d].start = now
                     /\ call'[d].stale = IF Usable(entry) THEN entry.loaded ELSE None
        BY <3>3, <1>T DEF Idle
      <4>4. CASE d # c
        BY <4>2, <4>4, <1>A
      <4>5. CASE d = c
        BY <4>1, <4>3, <4>5, <1>T
      <4> QED
        BY <4>4, <4>5
    <3> QED
      BY <1>1, <3>2, <3>3 DEF Begin
  <2>3. AnswerAge(served')
    <3>1. Fresh(entry) /\ entry.good => now < entry.loaded + TTL + Grace
      BY <2>0, <1>A, <1>T DEF Fresh, Entry
    <3>2. \/ served' = None
          \/ Fresh(entry) /\ entry.good /\ served' = Served(entry.loaded, now)
      BY <1>1 DEF Begin
    <3> QED
      BY <3>1, <3>2 DEF Served
  <2> QED
    BY <2>1, <2>2, <2>3, <1>A, <1>G
\* A step that fails, or goes on, and leaves the entry alone.
<1>2. ASSUME NEW c \in Callers, Check(c) \/ Resets(c) \/ Joins(c) \/ Escapes(c) PROVE Goal
  <2>1. UNCHANGED <<now, entry>>
    BY <1>2 DEF Check, Resets, Joins, Escapes
  <2>2. CASE Fails(c)
    BY <2>1, <2>2, <1>A, <1>F, <1>G
  <2>3. CASE served' = None /\ \E a \in {"asks", "resets", "queued"} : Goes(c, a)
    BY <2>1, <2>3, <1>P
  <2> QED
    BY <1>2, <2>2, <2>3 DEF Check, Resets, Joins, Escapes
<1>3. ASSUME NEW c \in Callers, Asks(c) \/ Resume(c) \/ Takes(c) \/ Wakes(c) PROVE Goal
  BY <1>3, <1>P DEF Asks, Resume, Takes, Wakes
<1>4. ASSUME NEW c \in Callers, Releases(c) PROVE Goal
  <2>1. UNCHANGED <<now, entry>>
    BY <1>4 DEF Releases
  <2>2. CASE Fails(c)
    BY <2>1, <2>2, <1>A, <1>F, <1>G
  <2>3. CASE /\ served' = None
             /\ call' = [d \in Callers |->
                  IF d = c THEN [call[d] EXCEPT !.at = "sent"]
                  ELSE IF lock.waiters # <<>> /\ d = Head(lock.waiters)
                  THEN [call[d] EXCEPT !.at = "woken"]
                  ELSE call[d]]
    <3>1. ASSUME NEW d \in Callers
          PROVE  call'[d].start = call[d].start /\ call'[d].stale = call[d].stale
      <4>1. \/ call'[d] = [call[d] EXCEPT !.at = "sent"]
            \/ call'[d] = [call[d] EXCEPT !.at = "woken"]
            \/ call'[d] = call[d]
        BY <2>3
      <4> QED
        BY <4>1, <1>T DEF CallState
    <3> QED
      BY <2>1, <2>3, <3>1, <1>M
  <2> QED
    BY <1>4, <2>2, <2>3 DEF Releases
<1>5. ASSUME NEW c \in Callers, Reads(c) \/ Stores(c) \/ Decides(c) \/ Adds(c) PROVE Goal
  <2>1. UNCHANGED <<now, entry>> /\ served' = None
    BY <1>5 DEF Reads, Stores, Decides, Adds
  <2>2. ASSUME NEW d \in Callers
        PROVE  call'[d].start = call[d].start /\ call'[d].stale = call[d].stale
    <3>1. CASE Reads(c)
      BY <3>1, <1>T DEF Reads, CallState
    <3>2. CASE Stores(c)
      BY <3>2, <1>T DEF Stores, CallState
    <3>3. CASE Decides(c)
      <4>1. \/ call' = [call EXCEPT ![c].at = "adds"]
            \/ call' = [call EXCEPT ![c].at = "sleeping", ![c].slept = TRUE]
        BY <3>3 DEF Decides, Goes
      <4>2. ASSUME NEW m, m.start = call[c].start, m.stale = call[c].stale,
                   call' = [call EXCEPT ![c] = m]
            PROVE  call'[d].start = call[d].start /\ call'[d].stale = call[d].stale
        BY <4>2, <1>T
      <4>3. CASE call' = [call EXCEPT ![c].at = "adds"]
        BY <4>3, <1>T DEF CallState
      <4>4. CASE call' = [call EXCEPT ![c].at = "sleeping", ![c].slept = TRUE]
        <5> DEFINE m == [call[c] EXCEPT !.at = "sleeping", !.slept = TRUE]
        <5>1. call' = [call EXCEPT ![c] = m]
          BY <4>4, <1>T DEF CallState
        <5>2. m.start = call[c].start /\ m.stale = call[c].stale
          BY <1>T DEF CallState
        <5> HIDE DEF m
        <5> QED
          BY <4>2, <5>1, <5>2
      <4> QED
        BY <4>1, <4>3, <4>4
    <3>4. CASE Adds(c)
      <4> DEFINE m == [call[c] EXCEPT !.at = "releases", !.time = 0, !.slept = FALSE]
      <4>1. call' = [call EXCEPT ![c] = m]
        BY <3>4, <1>T DEF Adds, CallState
      <4>2. m.start = call[c].start /\ m.stale = call[c].stale
        BY <1>T DEF CallState
      <4> HIDE DEF m
      <4> QED
        BY <4>1, <4>2, <1>T
    <3> QED
      BY <1>5, <3>1, <3>2, <3>3, <3>4
  <2> QED
    BY <2>1, <2>2, <1>M
<1>6. ASSUME NEW c \in Callers, RetryLater(c) PROVE Goal
  <2>1. \A d \in Callers : call'[d].start = call[d].start /\ call'[d].stale = call[d].stale
    BY <1>6, <1>T DEF RetryLater, CallState
  <2> QED
    BY <2>1, <1>6, <1>M DEF RetryLater
<1>7. ASSUME NEW c \in Callers, NEW a, Counts(c, a) PROVE Goal
  <2>1. \A d \in Callers : call'[d].start = call[d].start /\ call'[d].stale = call[d].stale
    BY <1>7, <1>T DEF Counts, CallState
  <2> QED
    BY <2>1, <1>7, <1>M DEF Counts
<1>8. ASSUME NEW c \in Callers, Succeeds(c) PROVE Goal
  <2>0. now' = now
    BY <1>8 DEF Succeeds
  <2>1. call[c].start \in Nat /\ call[c].start <= now
    BY <1>T, <1>A
  <2>2. EntryAge(Good(c))
    BY <2>1, <1>T DEF Good
  <2>3. EntryAge([Negative(c) EXCEPT !.stale = @ + Grace]) /\ EntryAge(Negative(c))
    BY DEF Negative
  <2>4. CASE entry' \in {Negative(c), entry} /\ Fails(c)
    BY <2>0, <2>3, <2>4, <1>A, <1>F, <1>G
  <2>5. CASE /\ entry' \in {Good(c), [Negative(c) EXCEPT !.stale = @ + Grace]}
             /\ served' \in {None, Served(now, call[c].start)}
             /\ call' = [call EXCEPT ![c] = Idle]
    <3>1. EntryAge(entry')
      <4> HIDE DEF EntryAge
      <4> QED
        BY <2>2, <2>3, <2>5
    <3>2. \A d \in Callers : CallAge(call'[d], now)
      BY <2>5, <1>T, <1>A, <1>I
    <3>3. AnswerAge(served')
      BY <2>1, <2>5, <1>T DEF Served
    <3> QED
      BY <2>0, <3>1, <3>2, <3>3, <1>G
  <2> QED
    BY <1>8, <2>4, <2>5 DEF Succeeds
<1>9. ASSUME NEW c \in Callers, Failed(c) PROVE Goal
  <2>1. EntryAge(Negative(c))
    BY DEF Negative
  <2>2. EntryAge(entry')
    <3> HIDE DEF EntryAge
    <3> QED
      BY <1>9, <2>1, <1>A DEF Failed
  <2> QED
    BY <2>2, <1>9, <1>F, <1>G DEF Failed
<1>10. ASSUME NEW t \in Threads, LoopCloses(t) PROVE Goal
  BY <1>10, <1>A, <1>G DEF LoopCloses
<1>11. ASSUME Tick PROVE Goal
  <2>1. \A d \in Callers : CallAge(call[d], now + 1)
    BY <1>T, <1>A
  <2> QED
    BY <2>1, <1>11, <1>A, <1>G DEF Tick
<1>12. ASSUME UNCHANGED vars PROVE Goal
  <2>1. AnswerAge(served)
    BY DEF AgeInv, ServedIsRecent
  <2> QED
    BY <2>1, <1>12, <1>A, <1>G DEF vars
<1> QED
  BY <1>1, <1>2, <1>3, <1>4, <1>5, <1>6, <1>7, <1>8, <1>9, <1>10, <1>11, <1>12
     DEF Next, Serve, Starts, Woken, Continues, GivesUp, Refused, Goal

\* What a call gets was loaded less than the time to live and the grace before it asked,
\* although validity counts from the begin of the call that loaded it, and slow calls may
\* overwrite what quick ones have stored.
THEOREM ServedIsRecentThm == Spec => []ServedIsRecent
<1>1. Init => Typed /\ AgeInv
  BY InitTyped, InitAges
<1>2. Typed /\ AgeInv /\ [Next]_vars => Typed' /\ AgeInv'
  BY StepTyped, StepAges
<1>3. AgeInv => ServedIsRecent
  BY DEF AgeInv
<1> QED
  BY <1>1, <1>2, <1>3, PTL DEF Spec
=============================================================================
