------------------------------ MODULE FlatMaps ------------------------------
(***************************************************************************)
(* Facts about FlattenSeq, the recursive function that the translations of *)
(* a conversation are built from.                                          *)
(*                                                                         *)
(* The induction principles are stated over sets instead of predicates, so *)
(* that they can be cited by name.                                         *)
(***************************************************************************)
EXTENDS SequencesExt, SequenceTheorems, WellFoundedInduction, TLAPS

-----------------------------------------------------------------------------
(* Induction                                                               *)

\* A set of numbers that has 0 and is closed under successor has them all.
LEMMA SetOfNaturals ==
    ASSUME NEW S, 0 \in S, \A n \in Nat : n \in S => n + 1 \in S
    PROVE  Nat \subseteq S
<1> SUFFICES ASSUME Nat \ S # {} PROVE FALSE
  OBVIOUS
<1>1. PICK m \in Nat \ S : \A n \in Nat \ S : <<n, m>> \notin OpToRel(<, Nat)
  BY NatLessThanWellFounded, WFMin
<1>2. m # 0 /\ m - 1 \in Nat
  OBVIOUS
<1>3. <<m - 1, m>> \in OpToRel(<, Nat)
  BY <1>2 DEF OpToRel
<1>4. m - 1 \in S
  BY <1>1, <1>2, <1>3
<1>5. (m - 1) + 1 = m
  OBVIOUS
<1> QED
  BY <1>2, <1>4, <1>5

\* A set that has the empty sequence and is closed under Append has every sequence.
LEMMA SetOfSequences ==
    ASSUME NEW A, NEW S, <<>> \in S,
           \A s \in Seq(A), a \in A : s \in S => Append(s, a) \in S
    PROVE  Seq(A) \subseteq S
<1> DEFINE Lengths == {n \in Nat : \A s \in Seq(A) : Len(s) = n => s \in S}
<1>1. 0 \in Lengths
  BY EmptySeq
<1>2. ASSUME NEW n \in Nat, n \in Lengths
      PROVE  n + 1 \in Lengths
  <2> SUFFICES ASSUME NEW s \in Seq(A), Len(s) = n + 1 PROVE s \in S
    OBVIOUS
  <2>1. PICK front \in Seq(A), last \in A : s = Append(front, last)
    <3>1. s # <<>>
      OBVIOUS
    <3> QED
      BY <3>1, SequenceEmptyOrAppend
  <2>2. Len(front) = n
    BY <2>1, AppendProperties
  <2> QED
    BY <1>2, <2>1, <2>2
<1>3. Nat \subseteq Lengths
  <2> HIDE DEF Lengths
  <2> QED
    BY <1>1, <1>2, SetOfNaturals
<1> QED
  BY <1>3, LenProperties

-----------------------------------------------------------------------------
(* FlattenSeq                                                              *)

\* f[i] is the concatenation of the first i sequences of ss, for i up to n.
Concatenates(f, ss, n) ==
    /\ n >= 1 => f[1] = ss[1]
    /\ \A i \in 2 .. n : f[i] = f[i - 1] \o ss[i]

LEMMA PartialFlattening ==
    ASSUME NEW A, NEW ss \in Seq(Seq(A))
    PROVE  \E f \in [1 .. Len(ss) -> Seq(A)] : Concatenates(f, ss, Len(ss))
<1> DEFINE Upto(n) == \E f \in [1 .. n -> Seq(A)] : Concatenates(f, ss, n)
           S == {n \in Nat : n <= Len(ss) => Upto(n)}
<1>0. Len(ss) \in Nat /\ \A i \in 1 .. Len(ss) : ss[i] \in Seq(A)
  OBVIOUS
<1>1. 0 \in S
  <2> DEFINE f == [i \in 1 .. 0 |-> <<>>]
  <2>1. f \in [1 .. 0 -> Seq(A)]
    OBVIOUS
  <2> HIDE DEF f
  <2>2. ~(0 >= 1) /\ 2 .. 0 = {}
    OBVIOUS
  <2>3. Concatenates(f, ss, 0)
    BY <2>2, Zenon DEF Concatenates
  <2> QED
    BY <2>1, <2>3
<1>2. ASSUME NEW n \in Nat, n \in S
      PROVE  n + 1 \in S
  <2> SUFFICES ASSUME n + 1 <= Len(ss) PROVE Upto(n + 1)
    OBVIOUS
  <2>1. PICK f \in [1 .. n -> Seq(A)] : Concatenates(f, ss, n)
    BY <1>0, <1>2
  <2> DEFINE last == IF n = 0 THEN ss[1] ELSE f[n] \o ss[n + 1]
             g == [i \in 1 .. n + 1 |-> IF i = n + 1 THEN last ELSE f[i]]
  <2>2. last \in Seq(A)
    <3>1. CASE n = 0
      BY <1>0, <3>1
    <3>2. CASE n # 0
      <4>1. f[n] \in Seq(A) /\ ss[n + 1] \in Seq(A)
        BY <1>0, <3>2
      <4> QED
        BY <3>2, <4>1, ConcatProperties
    <3> QED
      BY <3>1, <3>2
  <2>3. g \in [1 .. n + 1 -> Seq(A)]
    BY <2>2
  <2>4. \A i \in 1 .. n + 1 : g[i] = IF i = n + 1 THEN last ELSE f[i]
    OBVIOUS
  <2> HIDE DEF g
  <2>5. g[1] = ss[1]
    BY <2>1, <2>4 DEF Concatenates
  <2>6. ASSUME NEW i \in 2 .. n + 1
        PROVE  g[i] = g[i - 1] \o ss[i]
    <3>1. i - 1 \in 1 .. n /\ g[i - 1] = f[i - 1]
      BY <2>4
    <3>2. CASE i = n + 1
      <4>1. n # 0 /\ i \in 1 .. n + 1 /\ n = i - 1
        BY <3>2
      <4>2. g[i] = last
        BY <2>4, <3>2, <4>1, Zenon
      <4> QED
        BY <3>1, <3>2, <4>1, <4>2, Zenon
    <3>3. CASE i # n + 1
      <4>1. i \in 2 .. n /\ i \in 1 .. n + 1
        BY <3>3
      <4>2. g[i] = f[i]
        BY <2>4, <3>3, <4>1, Zenon
      <4> QED
        BY <2>1, <3>1, <4>1, <4>2, Zenon DEF Concatenates
    <3> QED
      BY <3>2, <3>3
  <2>7. Concatenates(g, ss, n + 1)
    BY <2>5, <2>6 DEF Concatenates
  <2> QED
    BY <2>3, <2>7
<1>3. Len(ss) \in S
  <2> HIDE DEF S
  <2> QED
    BY <1>0, <1>1, <1>2, SetOfNaturals
<1> QED
  BY <1>0, <1>3

\* There is only one.
LEMMA FlatteningUnique ==
    ASSUME NEW n \in Nat, n # 0, NEW ss, NEW f, NEW g,
           Concatenates(f, ss, n), Concatenates(g, ss, n)
    PROVE  f[n] = g[n]
<1> DEFINE S == {i \in Nat : i \in 1 .. n => f[i] = g[i]}
<1>1. 0 \in S
  OBVIOUS
<1>2. ASSUME NEW i \in Nat, i \in S
      PROVE  i + 1 \in S
  <2> SUFFICES ASSUME i + 1 \in 1 .. n PROVE f[i + 1] = g[i + 1]
    OBVIOUS
  <2>1. CASE i = 0
    BY <2>1 DEF Concatenates
  <2>2. CASE i # 0
    <3>1. i + 1 \in 2 .. n /\ (i + 1) - 1 = i
      BY <2>2
    <3>2. f[i] = g[i]
      BY <1>2, <2>2
    <3>3. /\ f[i + 1] = f[(i + 1) - 1] \o ss[i + 1]
          /\ g[i + 1] = g[(i + 1) - 1] \o ss[i + 1]
      BY <3>1, Zenon DEF Concatenates
    <3> QED
      BY <3>1, <3>2, <3>3, Zenon
  <2> QED
    BY <2>1, <2>2
<1>3. Nat \subseteq S
  <2> HIDE DEF S
  <2> QED
    BY <1>1, <1>2, SetOfNaturals
<1> QED
  BY <1>3

\* FlattenSeq is the last of the partial concatenations.
LEMMA FlattenIsLast ==
    ASSUME NEW A, NEW ss \in Seq(Seq(A)), ss # <<>>
    PROVE  \E f \in [1 .. Len(ss) -> Seq(A)] :
              Concatenates(f, ss, Len(ss)) /\ FlattenSeq(ss) = f[Len(ss)]
<1> DEFINE Body(f) == [i \in 1 .. Len(ss) |-> IF i = 1 THEN ss[i] ELSE f[i - 1] \o ss[i]]
           flatten == CHOOSE f : f = Body(f)
<1>1. PICK f \in [1 .. Len(ss) -> Seq(A)] : Concatenates(f, ss, Len(ss))
  BY PartialFlattening
<1>2. f = Body(f)
  <2>1. ASSUME NEW i \in 1 .. Len(ss)
        PROVE  f[i] = IF i = 1 THEN ss[i] ELSE f[i - 1] \o ss[i]
    <3>1. CASE i = 1
      BY <1>1, <3>1 DEF Concatenates
    <3>2. CASE i # 1
      <4>1. i \in 2 .. Len(ss)
        BY <3>2
      <4> QED
        BY <1>1, <3>2, <4>1, Zenon DEF Concatenates
    <3> QED
      BY <3>1, <3>2
  <2> QED
    BY <1>1, <2>1
<1>3. flatten = Body(flatten)
  BY <1>2
<1>4. Len(ss) \in Nat /\ Len(ss) # 0
  OBVIOUS
<1>5. FlattenSeq(ss) = flatten[Len(ss)]
  BY <1>4 DEF FlattenSeq
<1> HIDE DEF flatten
<1>6. Concatenates(flatten, ss, Len(ss))
  <2>1. \A i \in 1 .. Len(ss) :
           flatten[i] = IF i = 1 THEN ss[i] ELSE flatten[i - 1] \o ss[i]
    BY <1>3
  <2>2. /\ 1 \in 1 .. Len(ss)
        /\ \A i \in 2 .. Len(ss) : i \in 1 .. Len(ss) /\ i # 1
    BY <1>4
  <2> QED
    BY <2>1, <2>2, Zenon DEF Concatenates
<1>7. flatten[Len(ss)] = f[Len(ss)]
  BY <1>1, <1>4, <1>6, FlatteningUnique
<1> QED
  BY <1>1, <1>4, <1>5, <1>7

\* What FlattenSeq computes, one sequence at a time.
LEMMA FlattenEmpty == FlattenSeq(<<>>) = <<>>
BY DEF FlattenSeq

LEMMA FlattenAppend ==
    ASSUME NEW A, NEW ss \in Seq(Seq(A)), NEW s \in Seq(A)
    PROVE  FlattenSeq(Append(ss, s)) = FlattenSeq(ss) \o s
<1> DEFINE tt == Append(ss, s)
           n == Len(ss)
<1>1. /\ n \in Nat /\ tt \in Seq(Seq(A)) /\ tt # <<>> /\ Len(tt) = n + 1
      /\ tt[n + 1] = s /\ \A i \in 1 .. n : tt[i] = ss[i]
  BY AppendProperties
<1> HIDE DEF tt
<1>2. PICK g \in [1 .. n + 1 -> Seq(A)] :
         Concatenates(g, tt, n + 1) /\ FlattenSeq(tt) = g[n + 1]
  BY <1>1, FlattenIsLast
<1>3. CASE ss = <<>>
  <2>1. n = 0
    BY <1>3
  <2>2. FlattenSeq(tt) = s
    BY <1>1, <1>2, <2>1 DEF Concatenates
  <2>3. <<>> \o s = s
    BY ConcatEmptySeq
  <2> QED
    BY <1>3, <2>2, <2>3, FlattenEmpty, Zenon DEF tt
<1>4. CASE ss # <<>>
  <2>1. PICK f \in [1 .. n -> Seq(A)] :
           Concatenates(f, ss, n) /\ FlattenSeq(ss) = f[n]
    BY <1>4, FlattenIsLast
  <2>2. n \in 1 .. n /\ n + 1 \in 2 .. n + 1 /\ (n + 1) - 1 = n
    BY <1>1, <1>4
  <2>3. Concatenates(g, ss, n)
    <3>1. /\ (n >= 1 => n + 1 >= 1) /\ \A i \in 2 .. n : i \in 2 .. n + 1
          /\ (n >= 1 => tt[1] = ss[1]) /\ \A i \in 2 .. n : tt[i] = ss[i]
      BY <1>1
    <3> QED
      BY <1>2, <3>1, Zenon DEF Concatenates
  <2>4. g[n] = f[n]
    <3>1. n \in Nat /\ n # 0
      BY <1>1, <1>4
    <3> QED
      BY <2>1, <2>3, <3>1, FlatteningUnique
  <2>5. g[n + 1] = g[n] \o s
    BY <1>1, <1>2, <2>2, Zenon DEF Concatenates
  <2> QED
    BY <1>2, <2>1, <2>4, <2>5, Zenon DEF tt
<1> QED
  BY <1>3, <1>4

LEMMA FlattenType ==
    ASSUME NEW A, NEW ss \in Seq(Seq(A))
    PROVE  FlattenSeq(ss) \in Seq(A)
<1>1. CASE ss = <<>>
  BY <1>1, FlattenEmpty, EmptySeq, Zenon
<1>2. CASE ss # <<>>
  <2>1. PICK f \in [1 .. Len(ss) -> Seq(A)] : FlattenSeq(ss) = f[Len(ss)]
    BY <1>2, FlattenIsLast
  <2>2. Len(ss) \in 1 .. Len(ss)
    BY <1>2
  <2> QED
    BY <2>1, <2>2
<1> QED
  BY <1>1, <1>2

-----------------------------------------------------------------------------
(* Flat maps                                                               *)

\* g of each element of s, and, when those are sequences, one after the other.
MapSeq(g, s) == [i \in DOMAIN s |-> g[s[i]]]
FlatMap(g, s) == FlattenSeq(MapSeq(g, s))

\* What may be flat-mapped over the sequences of A, for sequences of B.
Mappers(A, B) == [A -> Seq(B)]

LEMMA MapType ==
    ASSUME NEW A, NEW C, NEW g \in [A -> C], NEW s \in Seq(A)
    PROVE  MapSeq(g, s) \in Seq(C)
<1>1. DOMAIN s = 1 .. Len(s) /\ \A i \in 1 .. Len(s) : s[i] \in A
  OBVIOUS
<1>2. MapSeq(g, s) \in [1 .. Len(s) -> C]
  BY <1>1 DEF MapSeq
<1> QED
  BY <1>2

LEMMA MapElements ==
    ASSUME NEW A, NEW g, NEW s \in Seq(A)
    PROVE  /\ Len(MapSeq(g, s)) = Len(s)
           /\ \A i \in 1 .. Len(s) : MapSeq(g, s)[i] = g[s[i]]
<1>1. DOMAIN s = 1 .. Len(s) /\ Len(s) \in Nat
  OBVIOUS
<1> QED
  BY <1>1 DEF MapSeq

LEMMA MapAppend ==
    ASSUME NEW A, NEW C, NEW g \in [A -> C], NEW s \in Seq(A), NEW a \in A
    PROVE  MapSeq(g, Append(s, a)) = Append(MapSeq(g, s), g[a])
<1> DEFINE u == Append(s, a)
           m == MapSeq(g, s)
           v == Append(m, g[a])
<1>1. /\ u \in Seq(A) /\ Len(u) = Len(s) + 1 /\ u[Len(s) + 1] = a
      /\ \A i \in 1 .. Len(s) : u[i] = s[i]
  BY AppendProperties
<1>2. m \in Seq(C) /\ g[a] \in C
  BY MapType
<1>3. Len(m) = Len(s) /\ \A i \in 1 .. Len(s) : m[i] = g[s[i]]
  BY MapElements
<1> HIDE DEF m
<1>4. /\ v \in Seq(C) /\ Len(v) = Len(s) + 1 /\ v[Len(s) + 1] = g[a]
      /\ \A i \in 1 .. Len(s) : v[i] = m[i]
  BY <1>2, <1>3, AppendProperties
<1> HIDE DEF u, v
<1>5. MapSeq(g, u) \in Seq(C)
  BY <1>1, MapType
<1>6. Len(MapSeq(g, u)) = Len(u) /\ \A i \in 1 .. Len(u) : MapSeq(g, u)[i] = g[u[i]]
  BY <1>1, MapElements
<1>7. MapSeq(g, u) = v
  <2>1. Len(s) \in Nat
    OBVIOUS
  <2>2. \A i \in 1 .. Len(u) : MapSeq(g, u)[i] = v[i]
    BY <1>1, <1>3, <1>4, <1>6, <2>1
  <2>3. Len(MapSeq(g, u)) = Len(v)
    BY <1>1, <1>4, <1>6
  <2> QED
    BY <1>4, <1>5, <1>6, <2>2, <2>3, SeqEqual
<1> QED
  BY <1>7 DEF u, v, m

LEMMA FlatMapType ==
    ASSUME NEW A, NEW B, NEW g \in Mappers(A, B), NEW s \in Seq(A)
    PROVE  FlatMap(g, s) \in Seq(B)
<1>1. MapSeq(g, s) \in Seq(Seq(B))
  BY MapType DEF Mappers
<1> QED
  BY <1>1, FlattenType DEF FlatMap

LEMMA FlatMapEmpty == ASSUME NEW g PROVE FlatMap(g, <<>>) = <<>>
<1>1. MapSeq(g, <<>>) = <<>>
  BY DEF MapSeq
<1> QED
  BY <1>1, FlattenEmpty DEF FlatMap

LEMMA FlatMapAppend ==
    ASSUME NEW A, NEW B, NEW g \in Mappers(A, B), NEW s \in Seq(A), NEW a \in A
    PROVE  FlatMap(g, Append(s, a)) = FlatMap(g, s) \o g[a]
<1>1. MapSeq(g, s) \in Seq(Seq(B)) /\ g[a] \in Seq(B)
  BY MapType DEF Mappers
<1>2. MapSeq(g, Append(s, a)) = Append(MapSeq(g, s), g[a])
  BY MapAppend DEF Mappers
<1>3. FlattenSeq(Append(MapSeq(g, s), g[a])) = FlattenSeq(MapSeq(g, s)) \o g[a]
  BY <1>1, FlattenAppend
<1> QED
  BY <1>2, <1>3, Zenon DEF FlatMap

LEMMA FlatMapConcat ==
    ASSUME NEW A, NEW B, NEW g \in Mappers(A, B), NEW s \in Seq(A), NEW t \in Seq(A)
    PROVE  FlatMap(g, s \o t) = FlatMap(g, s) \o FlatMap(g, t)
<1> DEFINE S == {u \in Seq(A) : FlatMap(g, s \o u) = FlatMap(g, s) \o FlatMap(g, u)}
<1>1. <<>> \in S
  <2>1. s \o <<>> = s /\ FlatMap(g, s) \o <<>> = FlatMap(g, s)
    BY FlatMapType, ConcatEmptySeq
  <2> QED
    BY <2>1, FlatMapEmpty, EmptySeq, Zenon
<1>2. ASSUME NEW u \in Seq(A), NEW a \in A, u \in S
      PROVE  Append(u, a) \in S
  <2>1. /\ s \o u \in Seq(A) /\ Append(u, a) \in Seq(A) /\ <<a>> \in Seq(A)
        /\ FlatMap(g, s) \in Seq(B) /\ FlatMap(g, u) \in Seq(B) /\ g[a] \in Seq(B)
    <3>1. s \o u \in Seq(A) /\ Append(u, a) \in Seq(A) /\ <<a>> \in Seq(A)
      BY ConcatProperties
    <3>2. FlatMap(g, s) \in Seq(B) /\ FlatMap(g, u) \in Seq(B)
      BY FlatMapType
    <3> QED
      BY <3>1, <3>2 DEF Mappers
  <2>2. s \o Append(u, a) = Append(s \o u, a)
    <3>1. Append(u, a) = u \o <<a>> /\ Append(s \o u, a) = (s \o u) \o <<a>>
      BY <2>1, AppendIsConcat
    <3> QED
      BY <2>1, <3>1, ConcatAssociative
  <2>3. FlatMap(g, Append(s \o u, a)) = FlatMap(g, s \o u) \o g[a]
    BY <2>1, FlatMapAppend
  <2>4. FlatMap(g, Append(u, a)) = FlatMap(g, u) \o g[a]
    BY FlatMapAppend
  <2>5. (FlatMap(g, s) \o FlatMap(g, u)) \o g[a] = FlatMap(g, s) \o (FlatMap(g, u) \o g[a])
    <3>1. \A x, y, z \in Seq(B) : (x \o y) \o z = x \o (y \o z)
      BY ConcatAssociative
    <3> QED
      BY <2>1, <3>1, Zenon
  <2> QED
    BY <1>2, <2>1, <2>2, <2>3, <2>4, <2>5, Zenon
<1>3. Seq(A) \subseteq S
  <2> HIDE DEF S
  <2> QED
    BY <1>1, <1>2, SetOfSequences
<1> QED
  BY <1>3

LEMMA FlatMapSingle ==
    ASSUME NEW A, NEW B, NEW g \in Mappers(A, B), NEW a \in A
    PROVE  FlatMap(g, <<a>>) = g[a]
<1>1. <<>> \in Seq(A) /\ g[a] \in Seq(B) /\ Append(<<>>, a) = <<a>>
  BY DEF Mappers
<1>2. FlatMap(g, Append(<<>>, a)) = FlatMap(g, <<>>) \o g[a]
  BY <1>1, FlatMapAppend
<1>3. <<>> \o g[a] = g[a]
  BY <1>1, ConcatEmptySeq
<1> QED
  BY <1>1, <1>2, <1>3, FlatMapEmpty, Zenon

\* Only what g and h make of the elements of s matters.
LEMMA FlatMapAgree ==
    ASSUME NEW A, NEW g, NEW h, NEW s \in Seq(A), \A i \in DOMAIN s : g[s[i]] = h[s[i]]
    PROVE  FlatMap(g, s) = FlatMap(h, s)
<1>1. MapSeq(g, s) = MapSeq(h, s)
  BY DEF MapSeq
<1> QED
  BY <1>1 DEF FlatMap

\* Two flat maps, one after the other, are one.
LEMMA FlatMapTwice ==
    ASSUME NEW A, NEW B, NEW C, NEW f \in Mappers(A, B), NEW g \in Mappers(B, C),
           NEW h \in Mappers(A, C), \A a \in A : FlatMap(g, f[a]) = h[a],
           NEW s \in Seq(A)
    PROVE  FlatMap(g, FlatMap(f, s)) = FlatMap(h, s)
<1> DEFINE S == {u \in Seq(A) : FlatMap(g, FlatMap(f, u)) = FlatMap(h, u)}
<1>1. <<>> \in S
  BY FlatMapEmpty, EmptySeq, Zenon
<1>2. ASSUME NEW u \in Seq(A), NEW a \in A, u \in S
      PROVE  Append(u, a) \in S
  <2>1. Append(u, a) \in Seq(A) /\ f[a] \in Seq(B)
    BY DEF Mappers
  <2>2. FlatMap(f, u) \in Seq(B)
    BY FlatMapType
  <2>3. FlatMap(f, Append(u, a)) = FlatMap(f, u) \o f[a]
    BY FlatMapAppend
  <2>4. FlatMap(h, Append(u, a)) = FlatMap(h, u) \o h[a]
    BY FlatMapAppend
  <2>5. FlatMap(g, FlatMap(f, u) \o f[a]) = FlatMap(g, FlatMap(f, u)) \o FlatMap(g, f[a])
    <3>1. \A x, y \in Seq(B) : FlatMap(g, x \o y) = FlatMap(g, x) \o FlatMap(g, y)
      BY FlatMapConcat
    <3> QED
      BY <2>1, <2>2, <3>1, Zenon
  <2> QED
    BY <1>2, <2>1, <2>3, <2>4, <2>5, Zenon
<1>3. Seq(A) \subseteq S
  <2> HIDE DEF S
  <2> QED
    BY <1>1, <1>2, SetOfSequences
<1> QED
  BY <1>3

\* A map is a flat map.
LEMMA MapIsFlat ==
    ASSUME NEW A, NEW C, NEW g \in [A -> C], NEW h \in Mappers(A, C),
           \A a \in A : h[a] = <<g[a]>>, NEW s \in Seq(A)
    PROVE  MapSeq(g, s) = FlatMap(h, s)
<1> DEFINE S == {u \in Seq(A) : MapSeq(g, u) = FlatMap(h, u)}
<1>1. <<>> \in S
  <2>1. MapSeq(g, <<>>) = <<>>
    BY DEF MapSeq
  <2> QED
    BY <2>1, FlatMapEmpty, EmptySeq, Zenon
<1>2. ASSUME NEW u \in Seq(A), NEW a \in A, u \in S
      PROVE  Append(u, a) \in S
  <2>1. Append(u, a) \in Seq(A) /\ g[a] \in C
    OBVIOUS
  <2>2. MapSeq(g, Append(u, a)) = Append(MapSeq(g, u), g[a])
    BY MapAppend
  <2>3. FlatMap(h, Append(u, a)) = FlatMap(h, u) \o <<g[a]>>
    BY FlatMapAppend
  <2>4. MapSeq(g, u) \in Seq(C)
    BY MapType
  <2>5. Append(MapSeq(g, u), g[a]) = MapSeq(g, u) \o <<g[a]>>
    BY <2>1, <2>4, AppendIsConcat
  <2> QED
    BY <1>2, <2>1, <2>2, <2>3, <2>5, Zenon
<1>3. Seq(A) \subseteq S
  <2> HIDE DEF S
  <2> QED
    BY <1>1, <1>2, SetOfSequences
<1> QED
  BY <1>3

\* A flat map of nothing but empty sequences is empty.
LEMMA FlatMapNothing ==
    ASSUME NEW A, NEW B, NEW g \in Mappers(A, B), NEW s \in Seq(A),
           \A a \in A : g[a] = <<>>
    PROVE  FlatMap(g, s) = <<>>
<1> DEFINE S == {u \in Seq(A) : FlatMap(g, u) = <<>>}
<1>1. <<>> \in S
  BY FlatMapEmpty, EmptySeq, Zenon
<1>2. ASSUME NEW u \in Seq(A), NEW a \in A, u \in S
      PROVE  Append(u, a) \in S
  <2>1. Append(u, a) \in Seq(A)
    OBVIOUS
  <2>2. FlatMap(g, Append(u, a)) = FlatMap(g, u) \o g[a]
    BY FlatMapAppend
  <2>3. <<>> \o <<>> = <<>>
    BY EmptySeq, ConcatEmptySeq
  <2> QED
    BY <1>2, <2>1, <2>2, <2>3, Zenon
<1>3. Seq(A) \subseteq S
  <2> HIDE DEF S
  <2> QED
    BY <1>1, <1>2, SetOfSequences
<1> QED
  BY <1>3

\* One that makes each element of s into itself leaves s as it is.
LEMMA FlatMapSame ==
    ASSUME NEW A, NEW g \in Mappers(A, A), NEW s \in Seq(A), \A a \in A : g[a] = <<a>>
    PROVE  FlatMap(g, s) = s
<1> DEFINE same == [a \in A |-> a]
<1>1. same \in [A -> A] /\ \A a \in A : g[a] = <<same[a]>>
  OBVIOUS
<1>2. MapSeq(same, s) = s
  <2>1. \A i \in DOMAIN s : s[i] \in A
    OBVIOUS
  <2>2. MapSeq(same, s) = [i \in DOMAIN s |-> s[i]]
    BY <2>1 DEF MapSeq
  <2> QED
    BY <2>2
<1> HIDE DEF same
<1> QED
  BY <1>1, <1>2, MapIsFlat

\* The part of a flat map that comes of the i-th element, and those around it.
Before(g, s, i) == FlatMap(g, SubSeq(s, 1, i - 1))
After(g, s, i)  == FlatMap(g, SubSeq(s, i + 1, Len(s)))

LEMMA FlatMapSplit ==
    ASSUME NEW A, NEW B, NEW g \in Mappers(A, B), NEW s \in Seq(A), NEW i \in 1 .. Len(s)
    PROVE  /\ Before(g, s, i) \in Seq(B) /\ g[s[i]] \in Seq(B) /\ After(g, s, i) \in Seq(B)
           /\ FlatMap(g, SubSeq(s, 1, i)) = Before(g, s, i) \o g[s[i]]
           /\ FlatMap(g, s) = (Before(g, s, i) \o g[s[i]]) \o After(g, s, i)
<1> DEFINE l == SubSeq(s, 1, i - 1)
           m == SubSeq(s, 1, i)
           r == SubSeq(s, i + 1, Len(s))
<1>1. l \in Seq(A) /\ m \in Seq(A) /\ r \in Seq(A) /\ s[i] \in A
  <2>1. \A j \in 1 .. Len(s) : s[j] \in A
    OBVIOUS
  <2>2. \A a, b \in Int : 1 <= a /\ b <= Len(s) => SubSeq(s, a, b) \in Seq(A)
    BY <2>1, SubSeqProperties
  <2> QED
    BY <2>1, <2>2
<1>2. m = Append(l, s[i])
  <2>1. l \o <<s[i]>> = m
    BY SubSeqRecursiveSecond
  <2> QED
    BY <1>1, <2>1, AppendIsConcat
<1>3. m \o r = s
  <2>1. SubSeq(s, 1, i) \o SubSeq(s, i + 1, Len(s)) = SubSeq(s, 1, Len(s))
    BY ConcatAdjacentSubSeq
  <2> QED
    BY <2>1, SubSeqFull
<1> HIDE DEF l, m, r
<1>4. FlatMap(g, m) = FlatMap(g, l) \o g[s[i]]
  BY <1>1, <1>2, FlatMapAppend
<1>5. FlatMap(g, s) = FlatMap(g, m) \o FlatMap(g, r)
  <2>1. \A x, y \in Seq(A) : FlatMap(g, x \o y) = FlatMap(g, x) \o FlatMap(g, y)
    BY FlatMapConcat
  <2> QED
    BY <1>1, <1>3, <2>1, Zenon
<1>6. FlatMap(g, l) \in Seq(B) /\ FlatMap(g, r) \in Seq(B) /\ g[s[i]] \in Seq(B)
  BY <1>1, FlatMapType DEF Mappers
<1> QED
  BY <1>4, <1>5, <1>6, Zenon DEF Before, After, l, m, r

\* A flat map is empty only if all its parts are.
LEMMA FlatMapParts ==
    ASSUME NEW A, NEW B, NEW g \in Mappers(A, B), NEW s \in Seq(A),
           FlatMap(g, s) = <<>>, NEW i \in 1 .. Len(s)
    PROVE  g[s[i]] = <<>>
<1> DEFINE before == Before(g, s, i)
           after  == After(g, s, i)
<1>1. /\ before \in Seq(B) /\ g[s[i]] \in Seq(B) /\ after \in Seq(B)
      /\ FlatMap(g, s) = (before \o g[s[i]]) \o after
  <2>1. /\ Before(g, s, i) \in Seq(B) /\ g[s[i]] \in Seq(B) /\ After(g, s, i) \in Seq(B)
        /\ FlatMap(g, s) = (Before(g, s, i) \o g[s[i]]) \o After(g, s, i)
    BY FlatMapSplit, SMTT(30)
  <2> QED
    BY <2>1, Zenon DEF before, after
<1> HIDE DEF before, after
<1>2. before \o g[s[i]] \in Seq(B)
  BY <1>1, ConcatProperties
<1>3. \A x, y \in Seq(B) : x \o y = <<>> => x = <<>> /\ y = <<>>
  BY ConcatSimplifications
<1>4. before \o g[s[i]] = <<>>
  BY <1>1, <1>2, <1>3, Zenon
<1> QED
  BY <1>1, <1>3, <1>4, Zenon

\* Sequences that are not empty add up to at least their number.
LEMMA FlattenLength ==
    ASSUME NEW A, NEW ss \in Seq(Seq(A) \ {<<>>})
    PROVE  FlattenSeq(ss) \in Seq(A) /\ Len(FlattenSeq(ss)) >= Len(ss)
<1> DEFINE P == Seq(A) \ {<<>>}
           S == {u \in Seq(P) : Len(FlattenSeq(u)) >= Len(u)}
<1>0. \A u \in Seq(P) : u \in Seq(Seq(A)) /\ FlattenSeq(u) \in Seq(A) /\ Len(u) \in Nat
  BY FlattenType, SeqMonotonic
<1>1. <<>> \in S
  BY FlattenEmpty, EmptySeq
<1>2. ASSUME NEW u \in Seq(P), NEW a \in P, u \in S
      PROVE  Append(u, a) \in S
  <2>1. Append(u, a) \in Seq(P) /\ Len(Append(u, a)) = Len(u) + 1
    OBVIOUS
  <2>2. FlattenSeq(Append(u, a)) = FlattenSeq(u) \o a
    BY <1>0, FlattenAppend
  <2>3. Len(FlattenSeq(u) \o a) = Len(FlattenSeq(u)) + Len(a)
    BY <1>0, ConcatProperties
  <2>4. Len(a) \in Nat \ {0} /\ Len(FlattenSeq(u)) \in Nat /\ Len(u) \in Nat
        /\ Len(FlattenSeq(u)) >= Len(u)
    <3>1. Len(a) \in Nat \ {0}
      BY EmptySeq
    <3>2. FlattenSeq(u) \in Seq(A) /\ Len(u) \in Nat
      BY <1>0
    <3>3. Len(FlattenSeq(u)) \in Nat
      BY <3>2
    <3>4. Len(FlattenSeq(u)) >= Len(u)
      BY <1>2
    <3> QED
      BY <3>1, <3>2, <3>3, <3>4
  <2>5. Len(FlattenSeq(Append(u, a))) >= Len(u) + 1
    BY <2>2, <2>3, <2>4
  <2> QED
    BY <2>1, <2>5
<1>3. Seq(P) \subseteq S
  <2> HIDE DEF S
  <2> QED
    BY <1>1, <1>2, SetOfSequences
<1> QED
  BY <1>0, <1>3

LEMMA Appended ==
    ASSUME NEW A, NEW s \in Seq(A), NEW a \in A
    PROVE  /\ Append(s, a) \in Seq(A) /\ Len(s) \in Nat
           /\ Len(Append(s, a)) = Len(s) + 1 /\ Append(s, a)[Len(s) + 1] = a
           /\ \A i \in 1 .. Len(s) : Append(s, a)[i] = s[i]
BY AppendProperties

LEMMA AppendedPrefix ==
    ASSUME NEW A, NEW s \in Seq(A), NEW a \in A
    PROVE  SubSeq(Append(s, a), 1, Len(s)) = s
<1> DEFINE u == Append(s, a)
           t == SubSeq(u, 1, Len(s))
<1>1. /\ u \in Seq(A) /\ Len(s) \in Nat /\ Len(u) = Len(s) + 1
      /\ \A i \in 1 .. Len(s) : u[i] = s[i]
  BY Appended
<1>2. \A i \in 1 .. Len(s) : s[i] \in A /\ u[i] \in A
  BY <1>1
<1> HIDE DEF u
<1>3. /\ t \in Seq(A) /\ Len(t) = Len(s)
      /\ \A i \in 1 .. Len(s) : t[i] = u[i]
  BY <1>1, <1>2, SubSeqProperties
<1> HIDE DEF t
<1>4. t = s
  BY <1>1, <1>3, SeqEqual
<1> QED
  BY <1>4 DEF t, u

\* Empty sequences in the odd places make no difference.
LEMMA FlattenEvenPlaces ==
    ASSUME NEW A, NEW tt \in Seq(Seq(A)), NEW ss \in Seq(Seq(A)),
           Len(ss) = 2 * Len(tt) \/ Len(ss) = 2 * Len(tt) + 1,
           \A i \in 1 .. Len(ss) : i % 2 = 1 => ss[i] = <<>>,
           \A k \in 1 .. Len(tt) : ss[2 * k] = tt[k]
    PROVE  FlattenSeq(ss) = FlattenSeq(tt)
<1> DEFINE P == Seq(A)
           Even(t, s) == /\ Len(s) = 2 * Len(t)
                         /\ \A i \in 1 .. Len(s) : i % 2 = 1 => s[i] = <<>>
                         /\ \A k \in 1 .. Len(t) : s[2 * k] = t[k]
           S == {t \in Seq(P) : \A s \in Seq(P) : Even(t, s) => FlattenSeq(s) = FlattenSeq(t)}
<1>1. <<>> \in S
  <2>1. \A s \in Seq(P) : Len(s) = 0 => s = <<>>
    OBVIOUS
  <2> QED
    BY <2>1
<1>2. ASSUME NEW t \in Seq(P), NEW a \in P, t \in S
      PROVE  Append(t, a) \in S
  <2> DEFINE u == Append(t, a)
  <2>1. /\ u \in Seq(P) /\ Len(u) = Len(t) + 1 /\ u[Len(t) + 1] = a
        /\ \A k \in 1 .. Len(t) : u[k] = t[k]
        /\ Len(t) \in Nat
    BY AppendProperties
  <2>2. FlattenSeq(u) = FlattenSeq(t) \o a
    BY FlattenAppend
  <2> HIDE DEF u
  <2>3. ASSUME NEW s \in Seq(P), Even(u, s)
        PROVE  FlattenSeq(s) = FlattenSeq(u)
    <3> DEFINE n == 2 * Len(t)
               l == SubSeq(s, 1, n)
               m == Append(l, <<>>)
               r == Append(m, a)
    <3>1. /\ n \in Nat /\ Len(s) = n + 2 /\ s[n + 1] = <<>> /\ s[n + 2] = a
          /\ \A i \in 1 .. Len(s) : s[i] \in P
      <4>1. n \in Nat /\ Len(s) = n + 2
        BY <2>1, <2>3
      <4>2. /\ (n + 1) % 2 = 1 /\ n + 1 \in 1 .. Len(s)
            /\ n + 2 = 2 * (Len(t) + 1) /\ Len(t) + 1 \in 1 .. Len(u)
        BY <2>1, <4>1
      <4>3. \A i \in 1 .. Len(s) : i % 2 = 1 => s[i] = <<>>
        BY <2>3
      <4>4. \A k \in 1 .. Len(u) : s[2 * k] = u[k]
        BY <2>3
      <4>5. s[n + 1] = <<>>
        BY <4>2, <4>3
      <4>6. s[2 * (Len(t) + 1)] = u[Len(t) + 1]
        BY <4>2, <4>4, Zenon
      <4>7. \A i \in 1 .. Len(s) : s[i] \in P
        OBVIOUS
      <4> QED
        BY <2>1, <4>1, <4>2, <4>5, <4>6, <4>7
    <3>2. l \in Seq(P) /\ Len(l) = n /\ \A i \in 1 .. n : l[i] = s[i]
      BY <3>1, SubSeqProperties
    <3> HIDE DEF l
    <3>3. Even(t, l)
      <4>1. \A i \in 1 .. n : i % 2 = 1 => l[i] = <<>>
        BY <2>3, <3>1, <3>2
      <4>2. \A k \in 1 .. Len(t) : 2 * k \in 1 .. n /\ s[2 * k] = u[k]
        <5>1. \A k \in 1 .. Len(t) : 2 * k \in 1 .. n /\ k \in 1 .. Len(u)
          BY <2>1
        <5>2. \A k \in 1 .. Len(u) : s[2 * k] = u[k]
          BY <2>3
        <5> QED
          BY <5>1, <5>2
      <4>3. \A k \in 1 .. Len(t) : l[2 * k] = t[k]
        BY <2>1, <3>2, <4>2
      <4> QED
        BY <3>2, <4>1, <4>3
    <3>4. <<>> \in P /\ m \in Seq(P) /\ r \in Seq(P)
      BY <3>2
    <3>5. s = r
      <4>1. /\ Len(m) = n + 1 /\ m[n + 1] = <<>> /\ \A i \in 1 .. n : m[i] = l[i]
        <5>1. /\ Len(m) = Len(l) + 1 /\ m[Len(l) + 1] = <<>>
              /\ \A i \in 1 .. Len(l) : m[i] = l[i]
          <6>1. l \in Seq(P) /\ <<>> \in P
            BY <3>2, <3>4
          <6>2. \A x \in Seq(P), e \in P :
                   /\ Len(Append(x, e)) = Len(x) + 1 /\ Append(x, e)[Len(x) + 1] = e
                   /\ \A i \in 1 .. Len(x) : Append(x, e)[i] = x[i]
            BY Appended
          <6> HIDE DEF P
          <6> QED
            BY <6>1, <6>2, Zenon
        <5> QED
          BY <3>1, <3>2, <5>1
      <4> HIDE DEF m
      <4>2. /\ Len(r) = n + 2 /\ r[n + 2] = a /\ \A i \in 1 .. n + 1 : r[i] = m[i]
        <5>1. /\ Len(r) = Len(m) + 1 /\ r[Len(m) + 1] = a
              /\ \A i \in 1 .. Len(m) : r[i] = m[i]
          BY <3>4, Appended
        <5> QED
          BY <3>1, <4>1, <5>1
      <4> HIDE DEF r, n
      <4>3. \A i \in 1 .. n + 2 : i \in 1 .. n \/ i = n + 1 \/ i = n + 2
        BY <3>1
      <4>4. \A i \in 1 .. n : i \in 1 .. n + 1
        BY <3>1
      <4>5. n + 1 \in 1 .. n + 1
        BY <3>1
      <4>6. \A i \in 1 .. Len(s) : s[i] = r[i]
        BY <3>1, <3>2, <4>1, <4>2, <4>3, <4>4, <4>5
      <4>7. s \in Seq(P) /\ r \in Seq(P) /\ Len(s) = Len(r)
        BY <3>1, <3>4, <4>2
      <4> HIDE DEF P
      <4> QED
        BY <4>6, <4>7, SeqEqual
    <3>6. FlattenSeq(r) = FlattenSeq(m) \o a /\ FlattenSeq(m) = FlattenSeq(l) \o <<>>
      BY <3>2, <3>4, FlattenAppend
    <3>7. FlattenSeq(l) \o <<>> = FlattenSeq(l)
      BY <3>2, FlattenType, ConcatEmptySeq
    <3>8. FlattenSeq(l) = FlattenSeq(t)
      BY <1>2, <3>2, <3>3
    <3> QED
      BY <2>2, <3>5, <3>6, <3>7, <3>8, Zenon
  <2> QED
    BY <2>1, <2>3 DEF u
<1>3. Seq(P) \subseteq S
  <2> HIDE DEF S
  <2> QED
    BY <1>1, <1>2, SetOfSequences
<1>4. CASE Len(ss) = 2 * Len(tt)
  BY <1>3, <1>4
<1>5. CASE Len(ss) = 2 * Len(tt) + 1
  <2> DEFINE n == 2 * Len(tt)
             l == SubSeq(ss, 1, n)
  <2>1. n \in Nat /\ Len(ss) = n + 1 /\ n % 2 = 0 /\ \A i \in 1 .. n : ss[i] \in P
    BY <1>5
  <2>2. ss[n + 1] = <<>>
    BY <2>1
  <2>3. l \in Seq(P) /\ Len(l) = n /\ \A i \in 1 .. n : l[i] = ss[i]
    BY <2>1, SubSeqProperties
  <2> HIDE DEF l
  <2>4. Even(tt, l)
    <3>1. \A k \in 1 .. Len(tt) : 2 * k \in 1 .. n
      BY <2>1
    <3>2. \A k \in 1 .. Len(tt) : l[2 * k] = tt[k]
      BY <2>3, <3>1
    <3>3. \A i \in 1 .. n : i \in 1 .. Len(ss)
      BY <2>1
    <3>4. \A i \in 1 .. Len(l) : i % 2 = 1 => l[i] = <<>>
      BY <2>3, <3>3
    <3> QED
      BY <2>3, <3>2, <3>4
  <2>5. FlattenSeq(l) = FlattenSeq(tt)
    BY <1>3, <2>3, <2>4
  <2>6. <<>> \in P /\ Append(l, <<>>) \in Seq(P)
    BY <2>3
  <2>7. ss = Append(l, <<>>)
    <3> DEFINE m == Append(l, <<>>)
    <3>1. Len(m) = n + 1 /\ m[n + 1] = <<>> /\ \A i \in 1 .. n : m[i] = l[i]
      <4>1. /\ Len(m) = Len(l) + 1 /\ m[Len(l) + 1] = <<>>
            /\ \A i \in 1 .. Len(l) : m[i] = l[i]
        <5>1. l \in Seq(P) /\ <<>> \in P
          BY <2>3, <2>6
        <5>2. \A x \in Seq(P), a \in P :
                 /\ Len(Append(x, a)) = Len(x) + 1 /\ Append(x, a)[Len(x) + 1] = a
                 /\ \A i \in 1 .. Len(x) : Append(x, a)[i] = x[i]
          BY Appended
        <5> HIDE DEF P
        <5> QED
          BY <5>1, <5>2, Zenon
      <4> QED
        BY <2>1, <2>3, <4>1
    <3> HIDE DEF m, n
    <3>2. \A i \in 1 .. n + 1 : i \in 1 .. n \/ i = n + 1
      BY <2>1
    <3>3. \A i \in 1 .. Len(ss) : ss[i] = m[i]
      BY <2>1, <2>2, <2>3, <3>1, <3>2
    <3> QED
      BY <2>1, <2>6, <3>1, <3>3, SeqEqual DEF m
  <2>8. FlattenSeq(Append(l, <<>>)) = FlattenSeq(l) \o <<>>
    BY <2>3, <2>6, FlattenAppend
  <2>9. FlattenSeq(l) \o <<>> = FlattenSeq(l)
    BY <2>3, FlattenType, ConcatEmptySeq
  <2> QED
    BY <2>5, <2>7, <2>8, <2>9, Zenon
<1> QED
  BY <1>4, <1>5

-----------------------------------------------------------------------------
(* Places: which element of s each element of a flat map comes of.         *)

\* The number of elements ahead of those of the k-th element of s.
Offset(g, s, k) == Len(Before(g, s, k))

LEMMA Offsets ==
    ASSUME NEW A, NEW B, NEW g \in Mappers(A, B), NEW s \in Seq(A)
    PROVE  /\ Offset(g, s, 1) = 0
           /\ Offset(g, s, Len(s) + 1) = Len(FlatMap(g, s))
           /\ \A k \in 1 .. Len(s) : /\ s[k] \in A /\ g[s[k]] \in Seq(B)
                                     /\ Len(g[s[k]]) \in Nat
                                     /\ Offset(g, s, k) \in Nat
                                     /\ Offset(g, s, k + 1) = Offset(g, s, k) + Len(g[s[k]])
<1>1. Offset(g, s, 1) = 0
  <2>1. SubSeq(s, 1, 1 - 1) = <<>>
    BY SubSeqEmpty
  <2>2. FlatMap(g, <<>>) = <<>>
    BY FlatMapEmpty
  <2>3. Offset(g, s, 1) = Len(<<>>)
    BY <2>1, <2>2 DEF Offset, Before
  <2> QED
    BY <2>3
<1>2. Offset(g, s, Len(s) + 1) = Len(FlatMap(g, s))
  <2>1. SubSeq(s, 1, (Len(s) + 1) - 1) = s
    <3>1. (Len(s) + 1) - 1 = Len(s)
      OBVIOUS
    <3> QED
      BY <3>1, SubSeqFull
  <2> QED
    BY <2>1 DEF Offset, Before
<1>3. ASSUME NEW k \in 1 .. Len(s)
      PROVE  /\ s[k] \in A /\ g[s[k]] \in Seq(B) /\ Len(g[s[k]]) \in Nat
             /\ Offset(g, s, k) \in Nat
             /\ Offset(g, s, k + 1) = Offset(g, s, k) + Len(g[s[k]])
  <2>1. /\ Before(g, s, k) \in Seq(B) /\ g[s[k]] \in Seq(B)
        /\ FlatMap(g, SubSeq(s, 1, k)) = Before(g, s, k) \o g[s[k]]
    BY FlatMapSplit
  <2>2. (k + 1) - 1 = k
    OBVIOUS
  <2>3. Before(g, s, k + 1) = Before(g, s, k) \o g[s[k]]
    BY <2>1, <2>2 DEF Before
  <2>4. Len(Before(g, s, k) \o g[s[k]]) = Len(Before(g, s, k)) + Len(g[s[k]])
    BY <2>1, ConcatProperties
  <2> QED
    BY <2>1, <2>3, <2>4 DEF Offset
<1> QED
  BY <1>1, <1>2, <1>3

\* What comes of one element ends before what comes of the next begins.
LEMMA OffsetsGrow ==
    ASSUME NEW A, NEW B, NEW g \in Mappers(A, B), NEW s \in Seq(A),
           NEW k \in 1 .. Len(s), NEW n \in k + 1 .. Len(s) + 1
    PROVE  Offset(g, s, k) + Len(g[s[k]]) <= Offset(g, s, n)
<1> DEFINE off(i) == Offset(g, s, i)
           S == {i \in Nat : i \in k + 1 .. Len(s) + 1 => off(k + 1) <= off(i)}
<1>1. \A i \in 1 .. Len(s) : /\ off(i) \in Nat /\ Len(g[s[i]]) \in Nat
                             /\ off(i + 1) = off(i) + Len(g[s[i]])
  BY Offsets
<1> HIDE DEF off
<1>2. 0 \in S
  OBVIOUS
<1>3. ASSUME NEW i \in Nat, i \in S
      PROVE  i + 1 \in S
  <2>1. CASE i + 1 \notin k + 1 .. Len(s) + 1
    BY <2>1
  <2>2. CASE i = k
    BY <1>1, <2>2
  <2>3. CASE i \in k + 1 .. Len(s)
    <3>1. off(k + 1) <= off(i)
      BY <1>3, <2>3
    <3>2. off(i + 1) = off(i) + Len(g[s[i]]) /\ off(i) \in Nat /\ Len(g[s[i]]) \in Nat
      BY <1>1, <2>3
    <3>3. off(k + 1) \in Nat
      BY <1>1
    <3>4. off(k + 1) <= off(i + 1)
      BY <3>1, <3>2, <3>3
    <3> QED
      BY <3>4
  <2> QED
    BY <2>1, <2>2, <2>3
<1>4. Nat \subseteq S
  <2> HIDE DEF S
  <2> QED
    BY <1>2, <1>3, SetOfNaturals
<1>5. off(k + 1) <= off(n)
  BY <1>4
<1> QED
  BY <1>1, <1>5 DEF off

LEMMA FlatMapAt ==
    ASSUME NEW A, NEW B, NEW g \in Mappers(A, B), NEW s \in Seq(A),
           NEW k \in 1 .. Len(s), NEW q \in 1 .. Len(g[s[k]])
    PROVE  /\ Offset(g, s, k) + q \in 1 .. Len(FlatMap(g, s))
           /\ FlatMap(g, s)[Offset(g, s, k) + q] = g[s[k]][q]
<1> DEFINE b == Before(g, s, k)
           m == g[s[k]]
           a == After(g, s, k)
<1>1. /\ b \in Seq(B) /\ m \in Seq(B) /\ a \in Seq(B)
      /\ FlatMap(g, s) = (b \o m) \o a
  BY FlatMapSplit
<1> HIDE DEF b, m, a
<1>2. /\ b \o m \in Seq(B) /\ Len(b \o m) = Len(b) + Len(m)
      /\ \A i \in 1 .. Len(b) + Len(m) :
            (b \o m)[i] = IF i <= Len(b) THEN b[i] ELSE m[i - Len(b)]
  BY <1>1, ConcatProperties
<1>3. /\ Len((b \o m) \o a) = Len(b \o m) + Len(a)
      /\ \A i \in 1 .. Len(b \o m) + Len(a) :
            ((b \o m) \o a)[i] = IF i <= Len(b \o m) THEN (b \o m)[i] ELSE a[i - Len(b \o m)]
  BY <1>1, <1>2, ConcatProperties
<1>4. /\ Len(b) \in Nat /\ Len(m) \in Nat /\ Len(a) \in Nat /\ q \in 1 .. Len(m)
  BY <1>1 DEF m
<1>5. Len(b) + q \in 1 .. Len((b \o m) \o a) /\ ((b \o m) \o a)[Len(b) + q] = m[q]
  <2>1. Len(b) + q \in 1 .. Len(b) + Len(m) /\ Len(b) + q \in 1 .. Len(b \o m) + Len(a)
    BY <1>2, <1>4
  <2>2. ((b \o m) \o a)[Len(b) + q] = (b \o m)[Len(b) + q]
    BY <1>2, <1>3, <2>1
  <2>3. (b \o m)[Len(b) + q] = m[(Len(b) + q) - Len(b)] /\ (Len(b) + q) - Len(b) = q
    BY <1>2, <1>4, <2>1
  <2> QED
    BY <1>3, <2>1, <2>2, <2>3
<1> QED
  BY <1>1, <1>5 DEF Offset, b, m

LEMMA FlatMapWhere ==
    ASSUME NEW A, NEW B, NEW g \in Mappers(A, B), NEW s \in Seq(A),
           NEW p \in 1 .. Len(FlatMap(g, s))
    PROVE  \E k \in 1 .. Len(s) : \E q \in 1 .. Len(g[s[k]]) :
              p = Offset(g, s, k) + q /\ FlatMap(g, s)[p] = g[s[k]][q]
<1> DEFINE off(i) == Offset(g, s, i)
           len(i) == Len(g[s[i]])
           S == {n \in Nat : n <= Len(s) => \A i \in 1 .. off(n + 1) :
                    \E k \in 1 .. Len(s) : \E q \in 1 .. len(k) : i = off(k) + q}
<1>1. /\ \A i \in 1 .. Len(s) : /\ off(i) \in Nat /\ len(i) \in Nat
                                /\ off(i + 1) = off(i) + len(i)
      /\ off(1) = 0 /\ off(Len(s) + 1) = Len(FlatMap(g, s)) /\ Len(s) \in Nat
  BY Offsets
<1> HIDE DEF off, len
<1>2. 0 \in S
  BY <1>1
<1>3. ASSUME NEW n \in Nat, n \in S
      PROVE  n + 1 \in S
  <2>1. CASE n + 1 > Len(s)
    BY <1>1, <2>1
  <2>2. CASE n + 1 <= Len(s)
    <3>1. /\ n + 1 \in 1 .. Len(s) /\ off(n + 1) \in Nat /\ len(n + 1) \in Nat
          /\ off((n + 1) + 1) = off(n + 1) + len(n + 1)
      BY <1>1, <2>2
    <3>2. ASSUME NEW i \in 1 .. off((n + 1) + 1)
          PROVE  \E k \in 1 .. Len(s) : \E q \in 1 .. len(k) : i = off(k) + q
      <4>1. CASE i \in 1 .. off(n + 1)
        BY <1>1, <1>3, <2>2, <4>1
      <4>2. CASE i \notin 1 .. off(n + 1)
        <5>1. i - off(n + 1) \in 1 .. len(n + 1) /\ i = off(n + 1) + (i - off(n + 1))
          BY <3>1, <4>2
        <5> QED
          BY <3>1, <5>1
      <4> QED
        BY <4>1, <4>2
    <3> QED
      BY <3>2
  <2> QED
    BY <1>1, <2>1, <2>2
<1>4. Nat \subseteq S
  <2> HIDE DEF S
  <2> QED
    BY <1>2, <1>3, SetOfNaturals
<1>5. Len(s) \in S
  BY <1>1, <1>4
<1>6. PICK k \in 1 .. Len(s) : \E q \in 1 .. len(k) : p = off(k) + q
  BY <1>1, <1>5
<1>7. PICK q \in 1 .. len(k) : p = off(k) + q
  BY <1>6
<1>8. FlatMap(g, s)[Offset(g, s, k) + q] = g[s[k]][q]
  BY <1>7, FlatMapAt DEF len
<1> QED
  BY <1>7, <1>8 DEF off, len

\* Only one element of s makes anything.
LEMMA FlatMapOnly ==
    ASSUME NEW A, NEW B, NEW g \in Mappers(A, B), NEW s \in Seq(A), NEW i \in 1 .. Len(s),
           \A j \in 1 .. Len(s) : j # i => g[s[j]] = <<>>
    PROVE  FlatMap(g, s) = g[s[i]]
<1> DEFINE f == FlatMap(g, s)
           m == g[s[i]]
           off(j) == Offset(g, s, j)
<1>1. /\ \A j \in 1 .. Len(s) : /\ off(j) \in Nat /\ off(j + 1) = off(j) + Len(g[s[j]])
      /\ off(1) = 0 /\ off(Len(s) + 1) = Len(f) /\ Len(s) \in Nat
      /\ m \in Seq(B) /\ Len(m) \in Nat
  BY Offsets
<1>2. f \in Seq(B)
  BY FlatMapType
<1> HIDE DEF f, m, off
<1>3. \A n \in 1 .. Len(s) + 1 : off(n) = IF n <= i THEN 0 ELSE Len(m)
  <2> DEFINE S == {n \in Nat : n \in 1 .. Len(s) + 1
                               => off(n) = IF n <= i THEN 0 ELSE Len(m)}
  <2>1. 0 \in S
    OBVIOUS
  <2>2. ASSUME NEW n \in Nat, n \in S
        PROVE  n + 1 \in S
    <3>1. CASE n = 0
      BY <1>1, <3>1
    <3>2. CASE n \in 1 .. Len(s)
      <4>1. off(n + 1) = off(n) + Len(g[s[n]]) /\ off(n) = IF n <= i THEN 0 ELSE Len(m)
        BY <1>1, <2>2, <3>2
      <4>2. Len(g[s[n]]) = IF n = i THEN Len(m) ELSE 0
        BY <3>2 DEF m
      <4>3. off(n + 1) = IF n + 1 <= i THEN 0 ELSE Len(m)
        BY <1>1, <3>2, <4>1, <4>2
      <4> QED
        BY <4>3
    <3>3. CASE n > Len(s)
      BY <1>1, <3>3
    <3> QED
      BY <1>1, <3>1, <3>2, <3>3
  <2>3. Nat \subseteq S
    <3> HIDE DEF S
    <3> QED
      BY <2>1, <2>2, SetOfNaturals
  <2> QED
    BY <1>1, <2>3
<1>4. off(i) = 0 /\ off(Len(s) + 1) = Len(m)
  BY <1>1, <1>3
<1>5. \A q \in 1 .. Len(m) : f[off(i) + q] = m[q]
  BY FlatMapAt DEF f, m, off
<1>6. Len(f) = Len(m) /\ \A q \in 1 .. Len(m) : f[q] = m[q]
  BY <1>1, <1>4, <1>5
<1>7. f = m
  BY <1>1, <1>2, <1>6, SeqEqual
<1> QED
  BY <1>7 DEF f, m

LEMMA FlatMapNone ==
    ASSUME NEW A, NEW B, NEW g \in Mappers(A, B), NEW s \in Seq(A),
           \A j \in 1 .. Len(s) : g[s[j]] = <<>>
    PROVE  FlatMap(g, s) = <<>>
<1>1. CASE s = <<>>
  BY <1>1, FlatMapEmpty
<1>2. CASE s # <<>>
  <2>1. 1 \in 1 .. Len(s)
    BY <1>2
  <2>2. FlatMap(g, s) = g[s[1]]
    BY <2>1, FlatMapOnly
  <2> QED
    BY <2>1, <2>2
<1> QED
  BY <1>1, <1>2

LEMMA SamePrefix ==
    ASSUME NEW A, NEW s \in Seq(A), NEW t \in Seq(A), NEW n \in Nat,
           n <= Len(s), n <= Len(t), \A i \in 1 .. n : s[i] = t[i]
    PROVE  SubSeq(s, 1, n) = SubSeq(t, 1, n)
<1> DEFINE u == SubSeq(s, 1, n)
           v == SubSeq(t, 1, n)
<1>1. \A i \in 1 .. n : s[i] \in A /\ t[i] \in A
  OBVIOUS
<1>2. u \in Seq(A) /\ Len(u) = n /\ \A i \in 1 .. n : u[i] = s[i]
  BY <1>1, SubSeqProperties
<1>3. v \in Seq(A) /\ Len(v) = n /\ \A i \in 1 .. n : v[i] = t[i]
  BY <1>1, SubSeqProperties
<1> HIDE DEF u, v
<1>4. u = v
  BY <1>2, <1>3, SeqEqual
<1> QED
  BY <1>4 DEF u, v

=============================================================================
