---------------------------- MODULE UpLoadProofs ----------------------------
(***************************************************************************)
(* What UpLoad.tla guarantees for bodies of any number of parts of any     *)
(* size, cut into reads in any way, and for a buffer of any size in which  *)
(* a boundary and a header fit.                                            *)
(***************************************************************************)
EXTENDS UpLoad, SequenceTheorems, NaturalsInduction, WellFoundedInduction, TLAPS

-----------------------------------------------------------------------------
(* Putting sequences together.                                             *)

\* A set of numbers that is not empty has a least one.
LEMMA LeastOf ==
    ASSUME NEW S \in SUBSET Nat, S # {}
    PROVE  \E x \in S : \A y \in S : x <= y
  <1>1. PICK x \in S : \A y \in S : ~(<<y, x>> \in OpToRel(<, Nat))
    BY NatLessThanWellFounded, WFMin
  <1>2. \A y \in S : ~(y < x)
    BY <1>1 DEF OpToRel
  <1> QED
    BY <1>2

\* Short sequences.
LEMMA TupleUnits ==
    ASSUME NEW S, NEW x \in S, NEW y \in S, NEW z \in S, NEW w \in S
    PROVE  /\ <<x, y, z>> \in Seq(S) /\ Len(<<x, y, z>>) = 3
           /\ <<x, y, z>>[1] = x /\ <<x, y, z>>[2] = y /\ <<x, y, z>>[3] = z
           /\ <<x, y, z, w>> \in Seq(S) /\ Len(<<x, y, z, w>>) = 4
           /\ <<x, y, z, w>>[1] = x /\ <<x, y, z, w>>[2] = y
           /\ <<x, y, z, w>>[3] = z /\ <<x, y, z, w>>[4] = w
  <1>1. /\ <<x, y, z>> \in Seq(S) /\ Len(<<x, y, z>>) = 3
        /\ <<x, y, z>>[1] = x /\ <<x, y, z>>[2] = y /\ <<x, y, z>>[3] = z
    OBVIOUS
  <1>2. /\ <<x, y, z, w>> \in Seq(S) /\ Len(<<x, y, z, w>>) = 4
    OBVIOUS
  <1>3. /\ <<x, y, z, w>>[1] = x /\ <<x, y, z, w>>[2] = y
        /\ <<x, y, z, w>>[3] = z /\ <<x, y, z, w>>[4] = w
    OBVIOUS
  <1> QED
    BY <1>1, <1>2, <1>3

\* The units that the program looks for.
LEMMA MarkUnits ==
    /\ N \in Units /\ D \in Units /\ B \in Units /\ Garbage \in Units
    /\ N # D /\ N # B /\ D # B
    /\ Garbage # N /\ Garbage # D
    /\ \A x \in Heads : x \in Units /\ x # N /\ x # D /\ x # B
  <1>1. /\ N \in Units /\ D \in Units /\ B \in Units /\ Garbage \in Units
        /\ \A x \in Heads : x \in Units
    BY UpLoadAssumption
  <1>2. \A x \in Heads : x # N /\ x # D /\ x # B
    BY DEF Heads, N, D, B, F, E, H, X
  <1> QED
    BY <1>1, <1>2 DEF N, D, B, Garbage

\* Being a prefix, unit by unit.
LEMMA PrefixUnits ==
    ASSUME NEW S, NEW s \in Seq(S), NEW t \in Seq(S)
    PROVE  IsPrefix(s, t) <=> /\ Len(s) <= Len(t)
                              /\ \A k \in 1..Len(s) : t[k] = s[k]
  <1>1. Len(s) \in Nat /\ Len(t) \in Nat
    OBVIOUS
  <1>2. SubSeq(s, 1, Len(s)) = s
    OBVIOUS
  <1> SUFFICES ASSUME Len(s) <= Len(t)
               PROVE  s = SubSeq(t, 1, Len(s)) <=> \A k \in 1..Len(s) : t[k] = s[k]
    BY <1>2 DEF IsPrefix
  <1> DEFINE u == SubSeq(t, 1, Len(s))
  <1>3. u \in Seq(S) /\ Len(u) = Len(s) /\ \A k \in 1..Len(s) : u[k] = t[k]
    BY <1>1
  <1> HIDE DEF u
  <1>4. s = u <=> \A k \in 1..Len(s) : t[k] = s[k]
    BY <1>3, SeqEqual
  <1> QED
    BY <1>4 DEF u

\* Prefixes are ordered.
LEMMA PrefixOrder ==
    ASSUME NEW S, NEW s \in Seq(S), NEW t \in Seq(S), NEW u \in Seq(S)
    PROVE  /\ IsPrefix(s, s)
           /\ IsPrefix(s, t) /\ IsPrefix(t, u) => IsPrefix(s, u)
  BY PrefixUnits

\* Where the units of two sequences are when they are put together.
LEMMA ConcatUnits ==
    ASSUME NEW S, NEW s \in Seq(S), NEW t \in Seq(S)
    PROVE  /\ s \o t \in Seq(S)
           /\ Len(s) \in Nat /\ Len(t) \in Nat
           /\ Len(s \o t) = Len(s) + Len(t)
           /\ \A k \in 1..Len(s) : (s \o t)[k] = s[k]
           /\ \A k \in 1..Len(t) : (s \o t)[Len(s) + k] = t[k]
           /\ IsPrefix(s, s \o t)
  <1>1. /\ s \o t \in Seq(S)
        /\ Len(s) \in Nat /\ Len(t) \in Nat
        /\ Len(s \o t) = Len(s) + Len(t)
        /\ \A k \in 1..Len(s) : (s \o t)[k] = s[k]
        /\ \A k \in 1..Len(t) : (s \o t)[Len(s) + k] = t[k]
    OBVIOUS
  <1> DEFINE u == s \o t
  <1>2. u \in Seq(S) /\ Len(s) <= Len(u) /\ \A k \in 1..Len(s) : u[k] = s[k]
    BY <1>1
  <1> HIDE DEF u
  <1>3. IsPrefix(s, u)
    BY <1>2, PrefixUnits
  <1> QED
    BY <1>1, <1>3 DEF u

\* The same with a name for the two together.
LEMMA ConcatAs ==
    ASSUME NEW S, NEW s \in Seq(S), NEW t \in Seq(S), NEW u, u = s \o t
    PROVE  /\ u \in Seq(S)
           /\ Len(s) \in Nat /\ Len(t) \in Nat
           /\ Len(u) = Len(s) + Len(t)
           /\ \A k \in 1..Len(s) : u[k] = s[k]
           /\ \A k \in 1..Len(t) : u[Len(s) + k] = t[k]
  BY ConcatUnits

\* f lists what the first m sequences of seqs are together, for each m up to n.
Sums(f, seqs, n) ==
    f = [i \in 1..n |-> IF i = 1 THEN seqs[i] ELSE f[i - 1] \o seqs[i]]

\* Sum i is the first sequence, or sequence i behind the sum before it.
SumStep(f, seqs, i) == f[i] = IF i = 1 THEN seqs[i] ELSE f[i - 1] \o seqs[i]

\* The sums one by one.
LEMMA SumsAt ==
    ASSUME NEW seqs, NEW n \in Nat, NEW f, Sums(f, seqs, n)
    PROVE  \A i \in 1..n : SumStep(f, seqs, i)
  BY DEF Sums, SumStep

\* There are such sums, ...
LEMMA SumsExist ==
    ASSUME NEW seqs, NEW n \in Nat, n >= 1
    PROVE  \E f : Sums(f, seqs, n)
  <1> DEFINE Bad == {m \in 1..n : ~ \E f : Sums(f, seqs, m)}
  <1>1. Bad = {}
    <2> SUFFICES ASSUME Bad # {} PROVE FALSE
      OBVIOUS
    <2>1. Bad \in SUBSET Nat
      OBVIOUS
    <2>2. PICK m \in Bad : \A k \in Bad : m <= k
      <3> HIDE DEF Bad
      <3> QED
        BY <2>1, LeastOf
    <2>3. m \in 1..n /\ ~ \E f : Sums(f, seqs, m)
      OBVIOUS
    <2>4. CASE m = 1
      <3>1. Sums([i \in 1..1 |-> seqs[i]], seqs, 1)
        BY DEF Sums
      <3> QED
        BY <2>3, <2>4, <3>1
    <2>5. CASE m # 1
      <3>1. m - 1 \in 1..n /\ m - 1 \notin Bad
        BY <2>2, <2>3, <2>5
      <3>2. PICK g : Sums(g, seqs, m - 1)
        BY <3>1
      <3> DEFINE f == [i \in 1..m |-> IF i = m THEN g[m - 1] \o seqs[m] ELSE g[i]]
      <3>3. \A i \in 1..m - 1 : f[i] = g[i]
        BY <2>3
      <3>4. \A i \in 1..m - 1 : g[i] = IF i = 1 THEN seqs[i] ELSE g[i - 1] \o seqs[i]
        BY <3>2 DEF Sums
      <3>5. \A i \in 1..m : f[i] = IF i = 1 THEN seqs[i] ELSE f[i - 1] \o seqs[i]
        <4> SUFFICES ASSUME NEW i \in 1..m
                     PROVE  f[i] = IF i = 1 THEN seqs[i] ELSE f[i - 1] \o seqs[i]
          OBVIOUS
        <4>1. CASE i = m
          <5>1. m \in 1..m /\ m - 1 \in 1..m - 1
            BY <2>3, <2>5
          <5>2. f[m] = g[m - 1] \o seqs[m]
            BY <5>1
          <5>3. f[m - 1] = g[m - 1]
            BY <3>3, <5>1
          <5> QED
            BY <2>5, <4>1, <5>2, <5>3
        <4>2. CASE i # m
          <5>1. i \in 1..m - 1 /\ (i # 1 => i - 1 \in 1..m - 1)
            BY <2>3, <4>2
          <5> QED
            BY <3>3, <3>4, <5>1
        <4> QED
          BY <4>1, <4>2
      <3>6. f = [i \in 1..m |-> f[i]]
        OBVIOUS
      <3> HIDE DEF f
      <3>7. Sums(f, seqs, m)
        BY <3>5, <3>6 DEF Sums
      <3> QED
        BY <2>3, <3>7
    <2> QED
      BY <2>4, <2>5
  <1>2. n \notin Bad
    BY <1>1
  <1> QED
    BY <1>2

\* ... they are sequences, ...
LEMMA SumsType ==
    ASSUME NEW S, NEW seqs \in Seq(Seq(S)), NEW f, Sums(f, seqs, Len(seqs))
    PROVE  \A i \in 1..Len(seqs) : f[i] \in Seq(S)
  <1> DEFINE n == Len(seqs)
             Bad == {m \in 1..n : f[m] \notin Seq(S)}
  <1>1. Bad = {}
    <2> SUFFICES ASSUME Bad # {} PROVE FALSE
      OBVIOUS
    <2>1. Bad \in SUBSET Nat
      OBVIOUS
    <2>2. PICK m \in Bad : \A k \in Bad : m <= k
      <3> HIDE DEF Bad
      <3> QED
        BY <2>1, LeastOf
    <2>3. /\ m \in 1..n /\ seqs[m] \in Seq(S) /\ n \in Nat
          /\ f[m] = IF m = 1 THEN seqs[m] ELSE f[m - 1] \o seqs[m]
      BY SumsAt DEF SumStep
    <2>4. CASE m = 1
      BY <2>3, <2>4
    <2>5. CASE m # 1
      <3>1. m - 1 \in 1..n /\ m - 1 \notin Bad
        BY <2>2, <2>3, <2>5
      <3>2. f[m - 1] \in Seq(S)
        BY <3>1
      <3> QED
        BY <2>3, <2>5, <3>2, ConcatProperties
    <2> QED
      BY <2>4, <2>5
  <1> QED
    BY <1>1

\* ... each puts the next one behind those before it, ...
LEMMA SumsNext ==
    ASSUME NEW S, NEW seqs \in Seq(Seq(S)), NEW f, Sums(f, seqs, Len(seqs)),
           NEW m \in 2..Len(seqs)
    PROVE  f[m] = f[m - 1] \o seqs[m]
  <1>1. /\ Len(seqs) \in Nat /\ m \in 1..Len(seqs) /\ m # 1
        /\ m - 1 \in 1..Len(seqs)
    OBVIOUS
  <1>2. f[m] = IF m = 1 THEN seqs[m] ELSE f[m - 1] \o seqs[m]
    <2>1. Len(seqs) \in Nat /\ Sums(f, seqs, Len(seqs))
      OBVIOUS
    <2>2. \A k \in 1..Len(seqs) : SumStep(f, seqs, k)
      BY <2>1, SumsAt, Zenon
    <2> QED
      BY <1>1, <2>2, Zenon DEF SumStep
  <1> QED
    BY <1>1, <1>2, Zenon

\* ... and each is the beginning of all that follow.
LEMMA SumsGrow ==
    ASSUME NEW S, NEW seqs \in Seq(Seq(S)), NEW f, Sums(f, seqs, Len(seqs)),
           NEW i \in 1..Len(seqs), NEW j \in i..Len(seqs)
    PROVE  IsPrefix(f[i], f[j])
  <1> DEFINE Bad == {m \in i..Len(seqs) : ~IsPrefix(f[i], f[m])}
  <1>1. Len(seqs) \in Nat
    OBVIOUS
  <1>2. \A m \in 1..Len(seqs) : f[m] \in Seq(S) /\ seqs[m] \in Seq(S)
    BY SumsType
  <1>3. IsPrefix(f[i], f[i])
    BY <1>2, PrefixOrder, Zenon
  <1>4. ASSUME NEW m \in i + 1..Len(seqs), IsPrefix(f[i], f[m - 1])
        PROVE  IsPrefix(f[i], f[m])
    <2>1. m \in 2..Len(seqs) /\ m - 1 \in 1..Len(seqs) /\ m \in 1..Len(seqs)
      BY <1>1
    <2>2. f[m] = f[m - 1] \o seqs[m]
      BY <2>1, SumsNext, Zenon
    <2>3. f[m - 1] \in Seq(S) /\ seqs[m] \in Seq(S) /\ f[m] \in Seq(S)
      BY <1>2, <2>1, Zenon
    <2>4. IsPrefix(f[m - 1], f[m])
      <3>1. IsPrefix(f[m - 1], f[m - 1] \o seqs[m])
        BY <2>3, ConcatUnits, Zenon
      <3> QED
        BY <2>2, <3>1, Zenon
    <2> QED
      BY <1>2, <1>4, <2>3, <2>4, PrefixOrder, Zenon
  <1>5. Bad = {}
    <2> SUFFICES ASSUME Bad # {} PROVE FALSE
      OBVIOUS
    <2>1. Bad \in SUBSET Nat
      BY <1>1
    <2>2. PICK m \in Bad : \A k \in Bad : m <= k
      <3> HIDE DEF Bad
      <3> QED
        BY <2>1, LeastOf
    <2>3. m \in i..Len(seqs) /\ ~IsPrefix(f[i], f[m])
      OBVIOUS
    <2>4. m # i
      BY <1>3, <2>3, Zenon
    <2>5. m - 1 \in i..Len(seqs) /\ m \in i + 1..Len(seqs)
      BY <1>1, <2>3, <2>4
    <2>6. m - 1 \notin Bad
      <3> HIDE DEF Bad
      <3> QED
        BY <2>2, <2>5
    <2>7. IsPrefix(f[i], f[m - 1])
      BY <2>5, <2>6, Zenon
    <2> QED
      BY <1>4, <2>3, <2>5, <2>7, Zenon
  <1>6. j \notin Bad
    BY <1>5
  <1> QED
    BY <1>6, Zenon

\* FlattenSeq is the last of them.
LEMMA FlattenSum ==
    ASSUME NEW seqs, Len(seqs) \in Nat, Len(seqs) >= 1
    PROVE  \E f : Sums(f, seqs, Len(seqs)) /\ FlattenSeq(seqs) = f[Len(seqs)]
  <1> DEFINE h == CHOOSE f : Sums(f, seqs, Len(seqs))
  <1>1. Sums(h, seqs, Len(seqs))
    BY SumsExist
  <1>2. FlattenSeq(seqs) = h[Len(seqs)]
    BY DEF FlattenSeq, Sums
  <1> QED
    BY <1>1, <1>2

\* How much lies before sequence m.
Before(f, m) == IF m = 1 THEN 0 ELSE Len(f[m - 1])

\* The units of each sequence are in the sum of all, behind those before it.
LEMMA SumsUnits ==
    ASSUME NEW S, NEW seqs \in Seq(Seq(S)), NEW f, Sums(f, seqs, Len(seqs)),
           NEW m \in 1..Len(seqs)
    PROVE  /\ Before(f, m) \in Nat
           /\ Len(f[m]) = Before(f, m) + Len(seqs[m])
           /\ \A k \in 1..Len(seqs[m]) :
                 f[Len(seqs)][Before(f, m) + k] = seqs[m][k]
  <1> DEFINE o == Before(f, m)
             s == f[m - 1]
             t == seqs[m]
             u == f[m]
             v == f[Len(seqs)]
  <1>1. Len(seqs) \in Nat /\ Len(seqs) \in m..Len(seqs)
    OBVIOUS
  <1>2. t \in Seq(S) /\ u \in Seq(S) /\ v \in Seq(S)
    BY <1>1, SumsType
  <1>3. IsPrefix(u, v)
    BY <1>1, SumsGrow
  <1>4. m = 1 => o = 0 /\ u = t
    <2>1. Len(seqs) \in Nat /\ Sums(f, seqs, Len(seqs))
      OBVIOUS
    <2>2. \A k \in 1..Len(seqs) : SumStep(f, seqs, k)
      BY <2>1, SumsAt, Zenon
    <2>3. f[m] = IF m = 1 THEN seqs[m] ELSE f[m - 1] \o seqs[m]
      BY <1>1, <2>2, Zenon DEF SumStep
    <2> QED
      BY <2>3 DEF Before
  <1>5. m # 1 => o = Len(s) /\ s \in Seq(S) /\ u = s \o t
    <2> SUFFICES ASSUME m # 1 PROVE o = Len(s) /\ s \in Seq(S) /\ u = s \o t
      OBVIOUS
    <2>1. m \in 2..Len(seqs) /\ m - 1 \in 1..Len(seqs)
      BY <1>1
    <2>2. u = s \o t
      BY <2>1, SumsNext, Zenon
    <2>3. s \in Seq(S)
      BY <2>1, SumsType, Zenon
    <2>4. o = Len(s)
      BY Zenon DEF Before
    <2> QED
      BY <2>2, <2>3, <2>4
  <1> HIDE DEF o, s, t, u, v
  <1>6. /\ o \in Nat
        /\ Len(u) = o + Len(t)
        /\ \A k \in 1..Len(t) : u[o + k] = t[k]
    <2>1. CASE m = 1
      BY <1>2, <1>4, <2>1
    <2>2. CASE m # 1
      <3>1. s \in Seq(S) /\ u = s \o t /\ o = Len(s)
        BY <1>5, <2>2
      <3>2. /\ Len(s) \in Nat
            /\ Len(u) = Len(s) + Len(t)
            /\ \A k \in 1..Len(t) : u[Len(s) + k] = t[k]
        BY <1>2, <3>1, ConcatAs
      <3> QED
        BY <3>1, <3>2, Zenon
    <2> QED
      BY <2>1, <2>2
  <1>7. Len(t) \in Nat /\ \A k \in 1..Len(u) : v[k] = u[k]
    BY <1>2, <1>3, PrefixUnits
  <1>8. ASSUME NEW k \in 1..Len(t) PROVE v[o + k] = t[k]
    <2>1. o + k \in 1..Len(u)
      BY <1>6, <1>7
    <2> QED
      BY <1>6, <1>7, <2>1, Zenon
  <1> QED
    BY <1>6, <1>8 DEF o, t, u, v

-----------------------------------------------------------------------------
(* Where the units of a body are.                                          *)

Closing(b, i) == IF i < Len(b) THEN _m_boundry ELSE _l_boundry
Segment(b, i) == PartUnits(b[i]) \o Closing(b, i)

\* s is a part of content c with the boundary behind it.
IsSegment(s, b, i, c) ==
    /\ s \in Seq(Units)
    /\ Len(c) \in Nat
    /\ Len(s) = Len(c) + 7
    /\ s[1] = b[i].header /\ s[2] = N /\ s[3] = N
    /\ \A k \in 1..Len(c) : s[3 + k] = c[k]
    /\ s[Len(c) + 4] = N /\ s[Len(c) + 5] = D /\ s[Len(c) + 6] = B
    /\ s[Len(c) + 7] = IF i < Len(b) THEN N ELSE D

\* The segments of a body are such parts.
LEMMA SegmentUnits ==
    ASSUME NEW b \in Seq(Part), NEW i \in 1..Len(b)
    PROVE  IsSegment(Segment(b, i), b, i, b[i].content)
  <1> DEFINE c == b[i].content
  <1> DEFINE h == <<b[i].header, N, N>>
             e == Closing(b, i)
             p == h \o c
  <1>1. b[i].header \in Heads /\ c \in Seq(Units) /\ Len(c) \in Nat
    <2>1. b[i] \in Part
      OBVIOUS
    <2>2. b[i].header \in Heads /\ c \in Seq(Units)
      BY <2>1 DEF Part
    <2> QED
      BY <2>2
  <1> HIDE DEF c
  <1>2. /\ h \in Seq(Units) /\ Len(h) = 3
        /\ h[1] = b[i].header /\ h[2] = N /\ h[3] = N
    BY <1>1, MarkUnits, TupleUnits
  <1>3. /\ e \in Seq(Units) /\ Len(e) = 4
        /\ e[1] = N /\ e[2] = D /\ e[3] = B
        /\ e[4] = IF i < Len(b) THEN N ELSE D
    BY MarkUnits, TupleUnits DEF Closing, _m_boundry, _l_boundry
  <1>4. Segment(b, i) = p \o e
    BY DEF Segment, PartUnits, c
  <1> HIDE DEF h, e
  <1>5. /\ p \in Seq(Units) /\ Len(p) = Len(c) + 3
        /\ p[1] = h[1] /\ p[2] = h[2] /\ p[3] = h[3]
        /\ \A k \in 1..Len(c) : p[3 + k] = c[k]
    <2>1. p = h \o c
      OBVIOUS
    <2> HIDE DEF p
    <2>2. /\ p \in Seq(Units) /\ Len(p) = Len(h) + Len(c)
          /\ \A k \in 1..Len(h) : p[k] = h[k]
          /\ \A k \in 1..Len(c) : p[Len(h) + k] = c[k]
      <3>1. h \in Seq(Units) /\ c \in Seq(Units)
        BY <1>1, <1>2
      <3> QED
        BY <2>1, <3>1, ConcatAs
    <2> QED
      BY <1>1, <1>2, <2>2
  <1> HIDE DEF p
  <1> DEFINE s == p \o e
  <1>6. s = p \o e
    OBVIOUS
  <1> HIDE DEF s
  <1>7. /\ s \in Seq(Units) /\ Len(s) = Len(p) + Len(e)
        /\ \A k \in 1..Len(p) : s[k] = p[k]
        /\ \A k \in 1..Len(e) : s[Len(p) + k] = e[k]
    <2>1. p \in Seq(Units) /\ e \in Seq(Units)
      BY <1>3, <1>5
    <2> QED
      BY <1>6, <2>1, ConcatAs
  <1>8. /\ s[1] = p[1] /\ s[2] = p[2] /\ s[3] = p[3]
        /\ \A k \in 1..Len(c) : s[3 + k] = p[3 + k]
    BY <1>1, <1>5, <1>7
  <1>9. /\ s[Len(c) + 4] = e[1] /\ s[Len(c) + 5] = e[2]
        /\ s[Len(c) + 6] = e[3] /\ s[Len(c) + 7] = e[4]
    <2>1. \A k \in 1..4 : s[Len(c) + 3 + k] = e[k]
      BY <1>3, <1>5, <1>7
    <2>2. /\ Len(c) + 3 + 1 = Len(c) + 4 /\ Len(c) + 3 + 2 = Len(c) + 5
          /\ Len(c) + 3 + 3 = Len(c) + 6 /\ Len(c) + 3 + 4 = Len(c) + 7
      BY <1>1
    <2> QED
      BY <2>1, <2>2
  <1>10. /\ s \in Seq(Units) /\ Len(s) = Len(c) + 7
    BY <1>1, <1>3, <1>5, <1>7
  <1>11. IsSegment(s, b, i, c)
    BY <1>1, <1>2, <1>3, <1>5, <1>8, <1>9, <1>10 DEF IsSegment
  <1>12. Segment(b, i) = s
    BY <1>4, Zenon DEF s
  <1> QED
    BY <1>11, <1>12, Zenon DEF c

\* end[i] is the number of units up to the end of the boundary behind part i,
\* end[0] that up to the end of the first boundary.
Layout(b, end) ==
    /\ end \in [0..Len(b) -> Nat]
    /\ end[0] = 3
    /\ end[Len(b)] = Len(BodyUnits(b))
    /\ BodyUnits(b)[1] = D /\ BodyUnits(b)[2] = B /\ BodyUnits(b)[3] = N
    /\ \A i \in 1..Len(b) :
          /\ end[i] = end[i - 1] + Len(b[i].content) + 7
          /\ end[i] <= Len(BodyUnits(b))
          /\ BodyUnits(b)[end[i - 1] + 1] = b[i].header
          /\ BodyUnits(b)[end[i - 1] + 2] = N
          /\ BodyUnits(b)[end[i - 1] + 3] = N
          /\ \A k \in 1..Len(b[i].content) :
                BodyUnits(b)[end[i - 1] + 3 + k] = b[i].content[k]
          /\ BodyUnits(b)[end[i] - 3] = N
          /\ BodyUnits(b)[end[i] - 2] = D
          /\ BodyUnits(b)[end[i] - 1] = B
          /\ BodyUnits(b)[end[i]] = IF i < Len(b) THEN N ELSE D

\* Every body has such a layout.
LEMMA LayoutExists ==
    ASSUME NEW b \in Bodies
    PROVE  /\ BodyUnits(b) \in Seq(Units)
           /\ \E end : Layout(b, end)
  <1> DEFINE seqs == [i \in 1..Len(b) |-> Segment(b, i)]
             first == <<D, B, N>>
             n == Len(b)
  <1>1. b \in Seq(Part) /\ b # << >>
    BY UpLoadAssumption
  <1>2. n \in Nat /\ n >= 1
    BY <1>1
  <1>3. seqs \in Seq(Seq(Units)) /\ Len(seqs) = n
    <2>1. \A i \in 1..n : Segment(b, i) \in Seq(Units)
      BY <1>1, SegmentUnits DEF IsSegment
    <2> QED
      BY <1>2, <2>1
  <1>4. \A i \in 1..n : seqs[i] = Segment(b, i)
    OBVIOUS
  <1>5. BodyUnits(b) = first \o FlattenSeq(seqs)
    BY DEF BodyUnits, Segment, Closing
  <1> HIDE DEF seqs
  <1>6. PICK f : Sums(f, seqs, n) /\ FlattenSeq(seqs) = f[n]
    BY <1>2, <1>3, FlattenSum
  <1>7. f[n] \in Seq(Units) /\ \A i \in 1..n : f[i] \in Seq(Units)
    BY <1>2, <1>3, <1>6, SumsType
  <1>8. Sums(f, seqs, Len(seqs))
    BY <1>3, <1>6
  <1>9. \A m \in 1..Len(seqs) :
            /\ Before(f, m) \in Nat
            /\ Len(f[m]) = Before(f, m) + Len(seqs[m])
            /\ \A k \in 1..Len(seqs[m]) :
                  f[Len(seqs)][Before(f, m) + k] = seqs[m][k]
    BY <1>3, <1>8, SumsUnits
  <1> DEFINE v == f[n]
             u == first \o v
  <1>10. first \in Seq(Units) /\ Len(first) = 3
        /\ first[1] = D /\ first[2] = B /\ first[3] = N
    BY MarkUnits, TupleUnits
  <1>11. BodyUnits(b) = u /\ v \in Seq(Units)
    BY <1>5, <1>6, <1>7
  <1> HIDE DEF first, v
  <1>12. /\ u \in Seq(Units) /\ Len(u) = 3 + Len(v)
         /\ u[1] = D /\ u[2] = B /\ u[3] = N
         /\ \A k \in 1..Len(v) : u[3 + k] = v[k]
    <2>1. u = first \o v
      OBVIOUS
    <2> HIDE DEF u
    <2>2. /\ u \in Seq(Units) /\ Len(u) = Len(first) + Len(v)
          /\ \A k \in 1..Len(first) : u[k] = first[k]
          /\ \A k \in 1..Len(v) : u[Len(first) + k] = v[k]
      <3>1. first \in Seq(Units) /\ v \in Seq(Units)
        BY <1>10, <1>11
      <3> QED
        BY <2>1, <3>1, ConcatAs
    <2> QED
      BY <1>10, <2>2
  <1> HIDE DEF u
  <1> DEFINE end == [i \in 0..n |-> IF i = 0 THEN 3 ELSE 3 + Len(f[i])]
  <1>13. end \in [0..n -> Nat] /\ end[0] = 3
    <2>1. \A i \in 1..n : Len(f[i]) \in Nat
      <3> SUFFICES ASSUME NEW i \in 1..n PROVE Len(f[i]) \in Nat
        OBVIOUS
      <3>1. f[i] \in Seq(Units)
        BY <1>7
      <3> QED
        BY <3>1, LenProperties, Zenon
    <2>2. \A i \in 0..n : i = 0 \/ i \in 1..n
      BY <1>2
    <2> DEFINE L(i) == Len(f[i])
    <2> HIDE DEF L
    <2>3. \A i \in 1..n : L(i) \in Nat
      BY <2>1, Zenon DEF L
    <2>4. end = [i \in 0..n |-> IF i = 0 THEN 3 ELSE 3 + L(i)]
      BY Zenon DEF L
    <2> HIDE DEF end
    <2> QED
      BY <1>2, <2>2, <2>3, <2>4
  <1>14. end[n] = Len(u)
    <2>1. end[n] = 3 + Len(f[n])
      BY <1>2
    <2> QED
      BY <1>12, <2>1, Zenon DEF v
  <1>15. ASSUME NEW i \in 1..n
         PROVE  /\ end[i] = end[i - 1] + Len(b[i].content) + 7
                /\ end[i] <= Len(u)
                /\ end[i - 1] \in Nat
                /\ \A k \in 1..Len(Segment(b, i)) :
                      u[end[i - 1] + k] = Segment(b, i)[k]
    <2> DEFINE o == Before(f, i)
               t == seqs[i]
    <2>1. /\ o \in Nat
          /\ Len(f[i]) = o + Len(seqs[i])
          /\ \A k \in 1..Len(seqs[i]) : f[Len(seqs)][o + k] = seqs[i][k]
      <3>1. i \in 1..Len(seqs)
        BY <1>3
      <3> QED
        BY <1>9, <3>1, Zenon
    <2>2. t = Segment(b, i) /\ f[Len(seqs)] = v
      BY <1>3, <1>4, Zenon DEF v
    <2>3. i - 1 \in 0..n /\ i \in 0..n /\ i # 0
      BY <1>2
    <2>4. end[i - 1] = 3 + o
      BY <2>3 DEF Before
    <2>5. end[i] = 3 + Len(f[i])
      BY <2>3
    <2> HIDE DEF o, t, end
    <2>6. Len(f[i]) = o + Len(t) /\ \A k \in 1..Len(t) : v[o + k] = t[k]
      BY <2>1, <2>2, Zenon DEF t
    <2>7. Len(t) = Len(b[i].content) + 7 /\ Len(b[i].content) \in Nat
      <3>1. IsSegment(Segment(b, i), b, i, b[i].content)
        BY <1>1, SegmentUnits, Zenon
      <3>2. IsSegment(t, b, i, b[i].content)
        BY <2>2, <3>1, Zenon
      <3> QED
        BY <3>2 DEF IsSegment
    <2>8. Len(f[i]) <= Len(v) /\ Len(v) \in Nat
      <3>1. n \in i..n /\ n = Len(seqs)
        BY <1>2, <1>3
      <3>2. IsPrefix(f[i], f[n])
        BY <1>3, <1>6, <3>1, SumsGrow
      <3>3. f[i] \in Seq(Units)
        BY <1>7
      <3>4. Len(f[i]) <= Len(f[n])
        BY <1>7, <3>2, <3>3, PrefixUnits, Zenon
      <3> QED
        BY <1>11, <3>4 DEF v
    <2> DEFINE l == Len(f[i])
    <2>9. l = o + Len(t) /\ l <= Len(v) /\ end[i] = 3 + l
      BY <2>5, <2>6, <2>8, Zenon
    <2> HIDE DEF l
    <2>10. \A k \in 1..Len(t) : u[3 + (o + k)] = v[o + k]
      BY <1>12, <2>1, <2>7, <2>8, <2>9
    <2> DEFINE a == end[i - 1]
    <2>11. a = 3 + o
      BY <2>4
    <2> HIDE DEF a
    <2>12. \A k \in 1..Len(t) : u[a + k] = t[k]
      <3> SUFFICES ASSUME NEW k \in 1..Len(t) PROVE u[a + k] = t[k]
        OBVIOUS
      <3>1. a + k = 3 + (o + k)
        BY <2>1, <2>7, <2>11
      <3> QED
        BY <2>6, <2>10, <3>1, Zenon
    <2> DEFINE c == b[i].content
               z == end[i]
    <2>13. z = a + Len(c) + 7 /\ a \in Nat /\ z <= Len(u)
      <3>1. z = 3 + l
        BY <2>9, Zenon
      <3>2. o \in Nat /\ Len(t) = Len(c) + 7 /\ Len(c) \in Nat
        BY <2>1, <2>7, Zenon
      <3> HIDE DEF c, z
      <3>3. Len(u) = 3 + Len(v) /\ Len(v) \in Nat
        BY <1>12, <2>8, Zenon
      <3> QED
        BY <2>9, <2>11, <3>1, <3>2, <3>3
    <2> QED
      BY <2>2, <2>12, <2>13, Zenon DEF a
  <1> HIDE DEF end
  <1>16. ASSUME NEW i \in 1..n
         PROVE  /\ end[i] = end[i - 1] + Len(b[i].content) + 7
                /\ end[i] <= Len(u)
                /\ u[end[i - 1] + 1] = b[i].header
                /\ u[end[i - 1] + 2] = N
                /\ u[end[i - 1] + 3] = N
                /\ \A k \in 1..Len(b[i].content) :
                      u[end[i - 1] + 3 + k] = b[i].content[k]
                /\ u[end[i] - 3] = N
                /\ u[end[i] - 2] = D
                /\ u[end[i] - 1] = B
                /\ u[end[i]] = IF i < Len(b) THEN N ELSE D
    <2> DEFINE c == b[i].content
               s == Segment(b, i)
               e == end[i - 1]
    <2>1. /\ end[i] = e + Len(c) + 7 /\ e \in Nat /\ end[i] <= Len(u)
          /\ \A k \in 1..Len(s) : u[e + k] = s[k]
      BY <1>15
    <2>2. /\ Len(c) \in Nat /\ Len(s) = Len(c) + 7
          /\ s[1] = b[i].header /\ s[2] = N /\ s[3] = N
          /\ \A k \in 1..Len(c) : s[3 + k] = c[k]
          /\ s[Len(c) + 4] = N /\ s[Len(c) + 5] = D
          /\ s[Len(c) + 6] = B /\ s[Len(c) + 7] = IF i < Len(b) THEN N ELSE D
      <3>1. IsSegment(s, b, i, c)
        BY <1>1, SegmentUnits, Zenon
      <3> HIDE DEF c, s, e
      <3> QED
        BY <3>1, Zenon DEF IsSegment
    <2> HIDE DEF c, s, e
    <2>3. /\ u[e + 1] = s[1] /\ u[e + 2] = s[2] /\ u[e + 3] = s[3]
          /\ u[e + (Len(c) + 4)] = s[Len(c) + 4]
          /\ u[e + (Len(c) + 5)] = s[Len(c) + 5]
          /\ u[e + (Len(c) + 6)] = s[Len(c) + 6]
          /\ u[e + (Len(c) + 7)] = s[Len(c) + 7]
      <3>1. /\ 1 \in 1..Len(s) /\ 2 \in 1..Len(s) /\ 3 \in 1..Len(s)
            /\ Len(c) + 4 \in 1..Len(s) /\ Len(c) + 5 \in 1..Len(s)
            /\ Len(c) + 6 \in 1..Len(s) /\ Len(c) + 7 \in 1..Len(s)
        BY <2>2
      <3> QED
        BY <2>1, <3>1, Zenon
    <2>4. /\ e + (Len(c) + 4) = end[i] - 3 /\ e + (Len(c) + 5) = end[i] - 2
          /\ e + (Len(c) + 6) = end[i] - 1 /\ e + (Len(c) + 7) = end[i]
      BY <2>1, <2>2
    <2>5. \A k \in 1..Len(c) : u[e + 3 + k] = c[k]
      <3> SUFFICES ASSUME NEW k \in 1..Len(c) PROVE u[e + 3 + k] = c[k]
        OBVIOUS
      <3>1. Len(c) \in Nat /\ Len(s) = Len(c) + 7 /\ e \in Nat
        BY <2>1, <2>2, Zenon
      <3> DEFINE l == Len(c)
      <3>2. k \in 1..l /\ l \in Nat /\ Len(s) = l + 7
        BY <3>1, Zenon
      <3> HIDE DEF l
      <3>3. 3 + k \in 1..Len(s) /\ e + (3 + k) = e + 3 + k
        BY <3>1, <3>2
      <3>4. u[e + (3 + k)] = s[3 + k] /\ s[3 + k] = c[k]
        BY <2>1, <2>2, <3>3, Zenon
      <3> QED
        BY <3>3, <3>4, Zenon
    <2>6. /\ u[e + 1] = b[i].header
          /\ u[e + 2] = N /\ u[e + 3] = N
          /\ u[end[i] - 3] = N /\ u[end[i] - 2] = D /\ u[end[i] - 1] = B
          /\ u[end[i]] = IF i < Len(b) THEN N ELSE D
      BY <2>2, <2>3, <2>4
    <2> QED
      BY <2>1, <2>5, <2>6 DEF c, e
  <1>17. Layout(b, end)
    BY <1>11, <1>12, <1>13, <1>14, <1>16 DEF Layout
  <1> QED
    BY <1>11, <1>12, <1>17
\* A layout for each body.
EndsOf(b) == CHOOSE end : Layout(b, end)

LEMMA EndsLayout ==
    ASSUME NEW b \in Bodies
    PROVE  BodyUnits(b) \in Seq(Units) /\ Layout(b, EndsOf(b))
  <1>1. \E end : Layout(b, end)
    BY LayoutExists
  <1>2. Layout(b, EndsOf(b))
    BY <1>1, Zenon DEF EndsOf
  <1> QED
    BY <1>2, LayoutExists

-----------------------------------------------------------------------------
(* The buffer is a window on the body.                                     *)

IsBuffer(b) == b.cells \in [Cells -> Units] /\ b.len \in 0..MAX_BUFF

\* The content of buffer b is what follows the first at units of u.
Holds(b, u, at) ==
    /\ IsBuffer(b)
    /\ at \in Nat
    /\ at + b.len <= Len(u)
    /\ \A k \in 0..b.len - 1 : b.cells[k] = u[at + k + 1]

\* What has not been read of u when the buffer ends at place p.
RestOf(rest, u, p) ==
    /\ rest \in Seq(Units)
    /\ p \in Nat
    /\ Len(u) = p + Len(rest)
    /\ \A k \in 1..Len(rest) : rest[k] = u[p + k]

\* Reading on.
LEMMA FilledHolds ==
    ASSUME NEW u \in Seq(Units), NEW at, Holds(buf, u, at),
           RestOf(input, u, at + buf.len),
           NEW n \in 0..Asked(buf)
    PROVE  /\ Holds(Filled(buf, n), u, at)
           /\ Filled(buf, n).len = buf.len + n
           /\ \A k \in Cells : k >= buf.len + n => Filled(buf, n).cells[k] = buf.cells[k]
  <1> DEFINE b == Filled(buf, n)
             m == Len(input)
             l == Len(u)
  <1>1. b.len = buf.len + n
    BY DEF Filled
  <1>2. \A i \in Cells : b.cells[i] = IF i \in buf.len..buf.len + n - 1
                                        THEN input[i - buf.len + 1] ELSE buf.cells[i]
    BY DEF Filled
  <1>3. b.cells = [i \in Cells |-> IF i \in buf.len..buf.len + n - 1
                                     THEN input[i - buf.len + 1] ELSE buf.cells[i]]
    BY DEF Filled
  <1>4. MAX_BUFF \in Nat /\ MAX_BUFF >= 7
    BY UpLoadAssumption
  <1>5. /\ buf.len \in 0..MAX_BUFF /\ buf.cells \in [Cells -> Units]
        /\ at \in Nat /\ at + buf.len <= l
        /\ \A k \in 0..buf.len - 1 : buf.cells[k] = u[at + k + 1]
    BY DEF Holds, IsBuffer
  <1>6. /\ input \in Seq(Units) /\ m \in Nat
        /\ l = at + buf.len + m
        /\ \A k \in 1..m : input[k] = u[at + buf.len + k]
    BY DEF RestOf
  <1>7. n \in Nat /\ n <= m /\ buf.len + n <= MAX_BUFF
    BY <1>4, <1>5, <1>6 DEF Asked, Least, Room
  <1>8. \A k \in 1..m : input[k] \in Units
    BY <1>6
  <1> HIDE DEF b, l, m
  <1>9. ASSUME NEW i \in Cells
        PROVE  /\ b.cells[i] \in Units
               /\ i <= buf.len + n - 1 => b.cells[i] = u[at + i + 1]
    <2>1. CASE i \in buf.len..buf.len + n - 1
      <3>1. i - buf.len + 1 \in 1..m /\ at + buf.len + (i - buf.len + 1) = at + i + 1
        <4> DEFINE z == buf.len
        <4>1. z \in Int /\ i \in z..z + n - 1 /\ at \in Nat /\ n \in Nat /\ n <= m
          BY <1>5, <1>7, <2>1
        <4>2. m \in Nat
          BY <1>6
        <4> HIDE DEF z
        <4>3. i - z + 1 \in 1..m /\ at + z + (i - z + 1) = at + i + 1
          BY <4>1, <4>2
        <4> QED
          BY <4>3 DEF z
      <3>2. b.cells[i] = input[i - buf.len + 1]
        BY <1>2, <2>1
      <3>3. input[i - buf.len + 1] = u[at + buf.len + (i - buf.len + 1)]
        BY <1>6, <3>1, Zenon
      <3>4. input[i - buf.len + 1] \in Units
        BY <1>8, <3>1, Zenon
      <3> QED
        BY <3>1, <3>2, <3>3, <3>4
    <2>2. CASE i \notin buf.len..buf.len + n - 1
      <3>1. b.cells[i] = buf.cells[i] /\ buf.cells[i] \in Units
        BY <1>2, <1>5, <2>2
      <3>2. i <= buf.len + n - 1 => i \in 0..buf.len - 1
        BY <1>5, <1>7, <2>2 DEF Cells
      <3> QED
        BY <1>5, <3>1, <3>2
    <2> QED
      BY <2>1, <2>2
  <1>10. b.cells \in [Cells -> Units]
    <2>1. \A i \in Cells : (IF i \in buf.len..buf.len + n - 1
                              THEN input[i - buf.len + 1] ELSE buf.cells[i]) \in Units
      BY <1>2, <1>9
    <2> QED
      BY <1>3, <2>1
  <1>11. \A k \in 0..b.len - 1 : k \in Cells /\ k <= buf.len + n - 1
    BY <1>1, <1>4, <1>5, <1>7 DEF Cells
  <1>12. \A k \in 0..b.len - 1 : b.cells[k] = u[at + k + 1]
    BY <1>9, <1>11
  <1>13. b.len \in 0..MAX_BUFF /\ at + b.len <= l
    BY <1>1, <1>4, <1>5, <1>6, <1>7
  <1>14. \A k \in Cells : k >= buf.len + n => b.cells[k] = buf.cells[k]
    BY <1>2, <1>5, <1>7 DEF Cells
  <1> QED
    BY <1>1, <1>5, <1>10, <1>12, <1>13, <1>14 DEF Holds, IsBuffer, b, l

\* The units that come after those that were read.
LEMMA RestShrinks ==
    ASSUME NEW u \in Seq(Units), NEW p, RestOf(input, u, p), NEW n \in 0..Len(input)
    PROVE  RestOf(SubSeq(input, n + 1, Len(input)), u, p + n)
  <1> DEFINE m == Len(input)
             r == SubSeq(input, n + 1, Len(input))
             l == Len(u)
  <1>1. /\ input \in Seq(Units) /\ m \in Nat /\ p \in Nat
        /\ l = p + m
        /\ \A k \in 1..m : input[k] = u[p + k]
    BY DEF RestOf
  <1>2. /\ r \in Seq(Units) /\ Len(r) = m - n
        /\ \A k \in 1..m - n : r[k] = input[n + k]
    BY <1>1
  <1> HIDE DEF l, m, r
  <1>3. n \in Nat /\ n <= m
    BY <1>1 DEF m
  <1>4. ASSUME NEW k \in 1..m - n PROVE r[k] = u[p + n + k]
    <2>1. n + k \in 1..m /\ p + (n + k) = p + n + k
      BY <1>1, <1>3
    <2>2. r[k] = input[n + k]
      BY <1>2, Zenon
    <2>3. input[n + k] = u[p + (n + k)]
      BY <1>1, <2>1, Zenon
    <2> QED
      BY <2>1, <2>2, <2>3
  <1>5. l = p + n + Len(r) /\ p + n \in Nat
    BY <1>1, <1>2, <1>3
  <1> QED
    BY <1>2, <1>4, <1>5 DEF RestOf, l, r

\* Taking units off the front.
LEMMA ShiftedHolds ==
    ASSUME NEW u, NEW at, NEW b, Holds(b, u, at), Len(u) \in Nat, NEW n \in 0..b.len
    PROVE  /\ Holds(Shifted(b, n), u, at + n)
           /\ Shifted(b, n).len = b.len - n
  <1> DEFINE c == Shifted(b, n)
             l == Len(u)
  <1>1. c.len = b.len - n
    BY DEF Shifted
  <1>2. c.cells = [i \in Cells |-> Cell(b, IF i < b.len - n THEN i + n ELSE i)]
    BY DEF Shifted
  <1>3. MAX_BUFF \in Nat
    BY UpLoadAssumption
  <1>4. /\ b.len \in 0..MAX_BUFF /\ b.cells \in [Cells -> Units]
        /\ at \in Nat /\ at + b.len <= l
        /\ \A k \in 0..b.len - 1 : b.cells[k] = u[at + k + 1]
    BY DEF Holds, IsBuffer
  <1> HIDE DEF c, l
  <1>5. l \in Nat /\ n \in Nat /\ n <= b.len
    BY <1>3, <1>4 DEF l
  <1>6. \A i : Cell(b, i) \in Units
    BY <1>4, MarkUnits DEF Cell
  <1>7. c.cells \in [Cells -> Units]
    BY <1>2, <1>6
  <1>8. ASSUME NEW k \in 0..c.len - 1 PROVE c.cells[k] = u[at + n + k + 1]
    <2>1. k \in Cells /\ k < b.len - n /\ k + n \in Cells /\ k + n \in 0..b.len - 1
      BY <1>1, <1>3, <1>4, <1>5 DEF Cells
    <2>2. c.cells[k] = b.cells[k + n]
      BY <1>2, <2>1 DEF Cell
    <2>3. b.cells[k + n] = u[at + (k + n) + 1]
      BY <1>4, <2>1, Zenon
    <2>4. at + (k + n) + 1 = at + n + k + 1
      BY <1>4, <1>5, <2>1
    <2> QED
      BY <2>2, <2>3, <2>4
  <1>9. c.len \in 0..MAX_BUFF /\ at + n \in Nat /\ at + n + c.len <= l
    BY <1>1, <1>3, <1>4, <1>5
  <1> QED
    BY <1>1, <1>7, <1>8, <1>9 DEF Holds, IsBuffer, c, l

\* What is found in the content of the buffer is found in the body.
LEMMA UnitAt ==
    ASSUME NEW u, NEW at, NEW b, Holds(b, u, at), NEW k \in 0..b.len - 1
    PROVE  k \in Cells /\ b.cells[k] = u[at + k + 1]
  BY UpLoadAssumption DEF Holds, IsBuffer, Cells
\* Comparing short sequences with the cells.
LEMMA LiesTwo ==
    ASSUME NEW b, NEW i \in Int, NEW x \in Units, NEW y \in Units
    PROVE  Lies(b, <<x, y>>, i) <=> /\ i \in Cells /\ b.cells[i] = x
                                    /\ i + 1 \in Cells /\ b.cells[i + 1] = y
  <1> DEFINE s == <<x, y>>
  <1>1. Len(s) = 2 /\ s[1] = x /\ s[2] = y
    OBVIOUS
  <1> HIDE DEF s
  <1>2. Lies(b, s, i) <=> \A k \in 1..2 : i + k - 1 \in Cells /\ b.cells[i + k - 1] = s[k]
    BY <1>1 DEF Lies
  <1>3. i + 1 - 1 = i /\ i + 2 - 1 = i + 1
    OBVIOUS
  <1>4. Lies(b, s, i) => /\ i \in Cells /\ b.cells[i] = x
                         /\ i + 1 \in Cells /\ b.cells[i + 1] = y
    <2>1. 1 \in 1..2 /\ 2 \in 1..2
      OBVIOUS
    <2> QED
      BY <1>1, <1>2, <1>3, <2>1, Zenon
  <1>5. ASSUME i \in Cells, b.cells[i] = x, i + 1 \in Cells, b.cells[i + 1] = y
        PROVE  Lies(b, s, i)
    <2> SUFFICES ASSUME NEW k \in 1..2
                 PROVE  i + k - 1 \in Cells /\ b.cells[i + k - 1] = s[k]
      BY <1>2
    <2>1. k = 1 \/ k = 2
      OBVIOUS
    <2> QED
      BY <1>1, <1>3, <1>5, <2>1, Zenon
  <1> QED
    BY <1>4, <1>5 DEF s

LEMMA LiesFour ==
    ASSUME NEW b, NEW i \in Int,
           NEW x \in Units, NEW y \in Units, NEW z \in Units, NEW w \in Units
    PROVE  Lies(b, <<x, y, z, w>>, i) <=> /\ i \in Cells /\ b.cells[i] = x
                                          /\ i + 1 \in Cells /\ b.cells[i + 1] = y
                                          /\ i + 2 \in Cells /\ b.cells[i + 2] = z
                                          /\ i + 3 \in Cells /\ b.cells[i + 3] = w
  <1> DEFINE s == <<x, y, z, w>>
  <1>1. Len(s) = 4 /\ s[1] = x /\ s[2] = y /\ s[3] = z /\ s[4] = w
    BY TupleUnits
  <1> HIDE DEF s
  <1>2. Lies(b, s, i) <=> \A k \in 1..4 : i + k - 1 \in Cells /\ b.cells[i + k - 1] = s[k]
    BY <1>1 DEF Lies
  <1>3. i + 1 - 1 = i /\ i + 2 - 1 = i + 1 /\ i + 3 - 1 = i + 2 /\ i + 4 - 1 = i + 3
    OBVIOUS
  <1>4. Lies(b, s, i) => /\ i \in Cells /\ b.cells[i] = x
                         /\ i + 1 \in Cells /\ b.cells[i + 1] = y
                         /\ i + 2 \in Cells /\ b.cells[i + 2] = z
                         /\ i + 3 \in Cells /\ b.cells[i + 3] = w
    <2>1. 1 \in 1..4 /\ 2 \in 1..4 /\ 3 \in 1..4 /\ 4 \in 1..4
      OBVIOUS
    <2> QED
      BY <1>1, <1>2, <1>3, <2>1, Zenon
  <1>5. ASSUME i \in Cells, b.cells[i] = x, i + 1 \in Cells, b.cells[i + 1] = y,
               i + 2 \in Cells, b.cells[i + 2] = z, i + 3 \in Cells, b.cells[i + 3] = w
        PROVE  Lies(b, s, i)
    <2> SUFFICES ASSUME NEW k \in 1..4
                 PROVE  i + k - 1 \in Cells /\ b.cells[i + k - 1] = s[k]
      BY <1>2
    <2>1. k = 1 \/ k = 2 \/ k = 3 \/ k = 4
      OBVIOUS
    <2> QED
      BY <1>1, <1>3, <1>5, <2>1, Zenon
  <1> QED
    BY <1>4, <1>5 DEF s

\* A boundary, or the last one.
LEMMA LiesBoundry ==
    ASSUME NEW b, NEW i \in Int
    PROVE  /\ Lies(b, _f_boundry, i) <=> /\ i \in Cells /\ b.cells[i] = D
                                         /\ i + 1 \in Cells /\ b.cells[i + 1] = B
           /\ Lies(b, _l_boundry, i) <=> /\ i \in Cells /\ b.cells[i] = N
                                         /\ i + 1 \in Cells /\ b.cells[i + 1] = D
                                         /\ i + 2 \in Cells /\ b.cells[i + 2] = B
                                         /\ i + 3 \in Cells /\ b.cells[i + 3] = D
           /\ Lies(b, _m_boundry, i) <=> /\ i \in Cells /\ b.cells[i] = N
                                         /\ i + 1 \in Cells /\ b.cells[i + 1] = D
                                         /\ i + 2 \in Cells /\ b.cells[i + 2] = B
                                         /\ i + 3 \in Cells /\ b.cells[i + 3] = N
           /\ Lies(b, <<N, N>>, i) <=> /\ i \in Cells /\ b.cells[i] = N
                                       /\ i + 1 \in Cells /\ b.cells[i + 1] = N
  BY LiesTwo, LiesFour, MarkUnits, Zenon DEF _f_boundry, _l_boundry, _m_boundry

LEMMA RoomFor ==
    ASSUME NEW b, NEW i
    PROVE  HasRoomFor(b, i) <=> b.len - i >= 4
  <1>1. Len(_l_boundry) = 4
    BY DEF _l_boundry
  <1> QED
    BY <1>1 DEF HasRoomFor

-----------------------------------------------------------------------------
(* Looking for a boundary in the content of a part.                        *)

\* Content c and the boundary behind it are in u from place start on.
Lays(u, start, c) ==
    /\ start \in Nat /\ Len(u) \in Nat /\ Len(c) \in Nat
    /\ start + Len(c) + 4 <= Len(u)
    /\ \A k \in 1..Len(c) : u[start + k] = c[k]
    /\ u[start + Len(c) + 1] = N
    /\ u[start + Len(c) + 2] = D
    /\ u[start + Len(c) + 3] = B
    /\ u[start + Len(c) + 4] \in {N, D}

\* The boundary does not begin before the end of the content.
LEMMA NoBoundryBefore ==
    ASSUME NEW u, NEW start, NEW c, Lays(u, start, c), Fits(c),
           NEW k \in start + 1..start + Len(c) + 1
    PROVE  ~(u[k] = D /\ u[k + 1] = B)
  <1> DEFINE l == Len(c)
  <1>1. /\ start \in Nat /\ l \in Nat
        /\ \A j \in 1..l : u[start + j] = c[j]
        /\ u[start + l + 1] = N
    BY DEF Lays
  <1>2. \A i \in 1..l - 1 : ~(c[i] = D /\ c[i + 1] = B)
    BY DEF Fits
  <1>3. N # D /\ N # B
    BY MarkUnits
  <1> HIDE DEF l
  <1>4. k \in start + 1..start + l + 1
    BY DEF l
  <1>5. CASE k = start + l + 1
    BY <1>1, <1>3, <1>5, Zenon
  <1>6. CASE k = start + l
    <2>1. k + 1 = start + l + 1
      BY <1>1, <1>6
    <2> QED
      BY <1>1, <1>3, <2>1, Zenon
  <1>7. CASE k \in start + 1..start + l - 1
    <2>1. k - start \in 1..l - 1 /\ k - start \in 1..l /\ k - start + 1 \in 1..l
      BY <1>1, <1>7
    <2>2. start + (k - start) = k /\ start + (k - start + 1) = k + 1
      BY <1>1, <1>7
    <2>3. u[start + (k - start)] = c[k - start]
          /\ u[start + (k - start + 1)] = c[k - start + 1]
      BY <1>1, <2>1
    <2>4. u[k] = c[k - start] /\ u[k + 1] = c[k - start + 1]
      BY <2>2, <2>3
    <2> QED
      BY <1>2, <2>1, <2>4, Zenon
  <1> QED
    BY <1>1, <1>4, <1>5, <1>6, <1>7

\* How much of a buffer without a boundary does not belong to the beginning of
\* one.
Surely(n) == IF n <= 3 THEN 0 ELSE n - 3

LEMMA KeptSurely ==
    ASSUME NEW b, b.len \in Nat
    PROVE  KeptFrom(b) = Surely(b.len) /\ Surely(b.len) \in 0..b.len
  <1> DEFINE l == b.len
             P(i) == ~HasRoomFor(b, i) /\ \A j \in 0..i - 1 : HasRoomFor(b, j)
  <1>1. \A i : HasRoomFor(b, i) <=> l - i >= 4
    BY RoomFor
  <1>2. KeptFrom(b) = CHOOSE i \in 0..l : P(i)
    BY DEF KeptFrom
  <1>3. Surely(l) \in 0..l /\ P(Surely(l))
    <2> HIDE DEF l
    <2>1. l \in Nat
      BY DEF l
    <2>2. Surely(l) \in 0..l /\ ~(l - Surely(l) >= 4) /\ \A j \in 0..Surely(l) - 1 : l - j >= 4
      BY <2>1 DEF Surely
    <2> QED
      BY <1>1, <2>2
  <1>4. \A i \in 0..l : P(i) => i = Surely(l)
    <2> SUFFICES ASSUME NEW i \in 0..l, P(i) PROVE i = Surely(l)
      OBVIOUS
    <2>1. ~(l - i >= 4) /\ \A j \in 0..i - 1 : l - j >= 4
      BY <1>1
    <2> HIDE DEF l, P
    <2>2. l \in Nat
      BY DEF l
    <2>3. i = 0 \/ i - 1 \in 0..i - 1
      BY <2>2
    <2>4. i = 0 \/ l - (i - 1) >= 4
      BY <2>1, <2>3
    <2> QED
      BY <2>1, <2>2, <2>4 DEF Surely
  <1> HIDE DEF P, l
  <1>5. KeptFrom(b) = Surely(l)
    BY <1>2, <1>3, <1>4
  <1> QED
    BY <1>3, <1>5 DEF l

\* Where the boundary behind the content is in a buffer that begins inside the
\* content.
LEMMA Scan ==
    ASSUME NEW u, NEW start, NEW c, Lays(u, start, c), Fits(c),
           NEW b, NEW at, Holds(b, u, at),
           start <= at, at <= start + Len(c), b.len >= 1, at > start => b.len >= 2,
           NEW r, r = start + Len(c) - at
    PROVE  /\ r \in Nat
           /\ r + 4 <= b.len => MatchBoundry(b) /\ Pos(b) = r
           /\ r + 4 > b.len => ~MatchBoundry(b) /\ Pos(b) = Surely(b.len)
           /\ Pos(b) \in 0..b.len /\ Pos(b) <= r
  <1> DEFINE l == Len(c)
             n == b.len
  <1>1. /\ start \in Nat /\ l \in Nat /\ Len(u) \in Nat
        /\ \A k \in 1..l : u[start + k] = c[k]
        /\ u[start + l + 1] = N /\ u[start + l + 2] = D
        /\ u[start + l + 3] = B /\ u[start + l + 4] \in {N, D}
    BY DEF Lays
  <1>2. MAX_BUFF \in Nat
    BY UpLoadAssumption
  <1>3. /\ n \in 0..MAX_BUFF /\ at \in Nat
        /\ \A k \in 0..n - 1 : b.cells[k] = u[at + k + 1]
    BY DEF Holds, IsBuffer
  <1>4. n \in Nat /\ n >= 1 /\ (at > start => n >= 2) /\ start <= at /\ at <= start + l
        /\ r = start + l - at
    BY <1>2, <1>3
  <1>5. N # D /\ N # B /\ D # B
    BY MarkUnits
  <1>6. \A k \in start + 1..start + l + 1 : ~(u[k] = D /\ u[k + 1] = B)
    BY NoBoundryBefore
  <1>7. l >= 1 => c[1] # D
    BY DEF Fits
  <1> HIDE DEF l, n
  <1>8. r \in Nat
    <2>1. start \in Nat /\ l \in Nat
      BY <1>1
    <2>2. at \in Nat
      BY <1>3
    <2> QED
      BY <1>4, <2>1, <2>2
  <1>9. ~Lies(b, _f_boundry, 0)
    <2> SUFFICES ASSUME b.cells[0] = D, b.cells[0 + 1] = B PROVE FALSE
      BY LiesBoundry
    <2>1. b.cells[0] = u[at + 1]
      <3>1. 0 \in 0..n - 1 /\ at + 0 + 1 = at + 1
        BY <1>3, <1>4
      <3> QED
        BY <1>3, <3>1
    <2>2. CASE n >= 2
      <3>1. 1 \in 0..n - 1 /\ at + 1 + 1 = (at + 1) + 1 /\ 0 + 1 = 1
        BY <1>3, <1>4, <2>2
      <3>2. b.cells[1] = u[at + 1 + 1]
        BY <1>3, <3>1, Zenon
      <3>3. at + 1 \in start + 1..start + l + 1
        BY <1>1, <1>3, <1>4
      <3> QED
        BY <1>6, <2>1, <3>1, <3>2, <3>3
    <2>3. CASE at = start /\ l >= 1
      <3>1. 1 \in 1..l
        BY <1>1, <2>3
      <3>2. u[start + 1] = c[1]
        BY <1>1, <3>1, Zenon
      <3> QED
        BY <1>7, <2>1, <2>3, <3>2, Zenon
    <2>4. CASE at = start /\ l = 0
      <3>1. at + 1 = start + l + 1
        BY <1>1, <2>4
      <3> QED
        BY <1>1, <1>5, <2>1, <3>1
    <2> QED
      BY <1>1, <1>3, <1>4, <2>2, <2>3, <2>4
  <1>10. ASSUME NEW i \in Hits(b) PROVE i \in Nat /\ i >= r /\ i + 4 <= n
    <2>1. /\ i \in 0..n - 1 /\ HasRoomFor(b, i)
          /\ Lies(b, _m_boundry, i) \/ Lies(b, _l_boundry, i)
      BY DEF Hits, n
    <2>2. i \in Int
      BY <2>1
    <2>3. b.cells[i + 1] = D /\ b.cells[i + 2] = B
      BY <2>1, <2>2, LiesBoundry, Zenon
    <2>4. i + 4 <= n /\ i \in Nat
      <3>1. n - i >= 4
        BY <2>1, RoomFor DEF n
      <3> QED
        BY <1>4, <2>1, <3>1
    <2>5. /\ i + 1 \in 0..n - 1 /\ at + (i + 1) + 1 = at + i + 2
          /\ i + 2 \in 0..n - 1 /\ at + (i + 2) + 1 = at + i + 2 + 1
      BY <1>3, <1>4, <2>4
    <2>6. u[at + i + 2] = D /\ u[at + i + 2 + 1] = B
      BY <1>3, <2>3, <2>5, Zenon
    <2>7. at + i + 2 \notin start + 1..start + l + 1
      BY <1>6, <2>6, Zenon
    <2> QED
      BY <1>1, <1>3, <1>4, <2>4, <2>7
  <1>11. CASE r + 4 <= n
    <2>1. r \in Hits(b)
      <3>1. /\ r \in 0..n - 1 /\ r + 1 \in 0..n - 1 /\ r + 2 \in 0..n - 1 /\ r + 3 \in 0..n - 1
            /\ at + r + 1 = start + l + 1 /\ at + (r + 1) + 1 = start + l + 2
            /\ at + (r + 2) + 1 = start + l + 3 /\ at + (r + 3) + 1 = start + l + 4
        BY <1>1, <1>3, <1>4, <1>8, <1>11
      <3>2. /\ b.cells[r] = N /\ b.cells[r + 1] = D /\ b.cells[r + 2] = B
            /\ b.cells[r + 3] \in {N, D}
        <4>1. /\ b.cells[r] = u[at + r + 1] /\ b.cells[r + 1] = u[at + (r + 1) + 1]
              /\ b.cells[r + 2] = u[at + (r + 2) + 1]
              /\ b.cells[r + 3] = u[at + (r + 3) + 1]
          BY <1>3, <3>1, Zenon
        <4> QED
          BY <1>1, <3>1, <4>1, Zenon
      <3>3. r \in Cells /\ r + 1 \in Cells /\ r + 2 \in Cells /\ r + 3 \in Cells
        BY <3>1, UnitAt DEF n
      <3>4. r \in Int
        BY <1>8
      <3>5. CASE b.cells[r + 3] = N
        <4>1. Lies(b, _m_boundry, r)
          BY <3>2, <3>3, <3>4, <3>5, LiesBoundry, Zenon
        <4>2. HasRoomFor(b, r)
          <5>1. n - r >= 4
            BY <1>4, <1>8, <1>11
          <5> QED
            BY <5>1, RoomFor DEF n
        <4> QED
          BY <3>1, <4>1, <4>2 DEF Hits, n
      <3>6. CASE b.cells[r + 3] = D
        <4>1. Lies(b, _l_boundry, r)
          BY <3>2, <3>3, <3>4, <3>6, LiesBoundry, Zenon
        <4>2. HasRoomFor(b, r)
          <5>1. n - r >= 4
            BY <1>4, <1>8, <1>11
          <5> QED
            BY <5>1, RoomFor DEF n
        <4> QED
          BY <3>1, <4>1, <4>2 DEF Hits, n
      <3> QED
        BY <3>2, <3>5, <3>6
    <2> DEFINE Q(i) == \A j \in Hits(b) : i <= j
    <2>2. Q(r)
      BY <1>10
    <2>3. \A i \in Hits(b) : Q(i) => i = r
      <3> SUFFICES ASSUME NEW i \in Hits(b), Q(i) PROVE i = r
        OBVIOUS
      <3>1. i <= r /\ i \in Nat /\ i >= r
        BY <1>10, <2>1
      <3> QED
        BY <1>8, <3>1
    <2>4. Hits(b) # {}
      BY <2>1
    <2>5. Pos(b) = CHOOSE i \in Hits(b) : Q(i)
      BY <1>9, <2>4 DEF Pos
    <2> HIDE DEF Q
    <2>6. Pos(b) = r
      BY <2>1, <2>2, <2>3, <2>5
    <2> QED
      BY <1>3, <1>4, <1>8, <1>11, <2>4, <2>6 DEF MatchBoundry, n
  <1>12. CASE r + 4 > n
    <2>1. Hits(b) = {}
      <3> SUFFICES ASSUME NEW i \in Hits(b) PROVE FALSE
        OBVIOUS
      <3>1. i \in Nat /\ i >= r /\ i + 4 <= n
        BY <1>10
      <3> QED
        BY <1>3, <1>4, <1>8, <1>12, <3>1
    <2>2. KeptFrom(b) = Surely(n) /\ Surely(n) \in 0..n
      BY <1>4, KeptSurely DEF n
    <2>3. Pos(b) = Surely(n)
      BY <1>9, <2>1, <2>2 DEF Pos
    <2>4. ~MatchBoundry(b)
      BY <1>9, <2>1 DEF MatchBoundry
    <2>5. Surely(n) <= r
      BY <1>4, <1>8, <1>12 DEF Surely
    <2> QED
      BY <1>4, <1>8, <1>12, <2>2, <2>3, <2>4, <2>5 DEF n
  <1> QED
    BY <1>4, <1>8, <1>11, <1>12 DEF n
\* The first empty line behind place at of u is j units on; what is before it.
EmptyLine(u, at, j) ==
    /\ u[at + j + 1] = N
    /\ u[at + j + 2] = N
    /\ \A k \in 0..j - 1 : ~(u[at + k + 1] = N /\ u[at + k + 2] = N)

SaidBefore(u, at, j, x) == \E k \in 0..j - 1 : u[at + k + 1] = x

FirstEnd(b) == CHOOSE i \in HeaderEnds(b) : \A k \in HeaderEnds(b) : i <= k

\* Where the header ends, and what is in it, if the buffer begins with it.
LEMMA HeaderScan ==
    ASSUME NEW u, NEW at, NEW b, Holds(b, u, at),
           NEW j \in Nat, EmptyLine(u, at, j),
           NEW end, end = FirstEnd(b)
    PROVE  /\ HeaderEnds(b) # {} /\ ~(end + 2 > b.len) => end = j /\ j + 2 <= b.len
           /\ j + 2 <= b.len => /\ HeaderEnds(b) # {}
                                /\ end = j
                                /\ \A x : Says(b, j, x) <=> SaidBefore(u, at, j, x)
  <1> DEFINE n == b.len
  <1>1. MAX_BUFF \in Nat
    BY UpLoadAssumption
  <1>2. n \in Nat /\ at \in Nat
    BY <1>1 DEF Holds, IsBuffer
  <1>3. \A k \in 0..n - 1 : k \in Cells /\ b.cells[k] = u[at + k + 1]
    BY UnitAt
  <1> HIDE DEF n
  <1>4. \A i \in HeaderEnds(b) : i \in Nat /\ b.cells[i] = N /\ b.cells[i + 1] = N
    <2> SUFFICES ASSUME NEW i \in HeaderEnds(b)
                 PROVE  i \in Nat /\ b.cells[i] = N /\ b.cells[i + 1] = N
      OBVIOUS
    <2>1. i \in Cells /\ Lies(b, <<N, N>>, i)
      BY DEF HeaderEnds
    <2>2. i \in Nat /\ i \in Int
      BY <1>1, <2>1 DEF Cells
    <2> QED
      BY <2>1, <2>2, LiesBoundry
  <1>5. HeaderEnds(b) # {} => /\ end \in HeaderEnds(b)
                              /\ \A k \in HeaderEnds(b) : end <= k
    <2>1. HeaderEnds(b) \in SUBSET Nat
      BY <1>4
    <2>2. HeaderEnds(b) # {} => \E i \in HeaderEnds(b) : \A k \in HeaderEnds(b) : i <= k
      BY <2>1, LeastOf
    <2> QED
      BY <2>2 DEF FirstEnd
  <1>6. j + 2 <= n => j \in HeaderEnds(b)
    <2> SUFFICES ASSUME j + 2 <= n PROVE j \in HeaderEnds(b)
      OBVIOUS
    <2>1. /\ j \in 0..n - 1 /\ j + 1 \in 0..n - 1 /\ j \in Int
          /\ at + (j + 1) + 1 = at + j + 2
      BY <1>2
    <2>2. u[at + j + 1] = N /\ u[at + j + 2] = N
      BY DEF EmptyLine
    <2>3. j \in Cells /\ b.cells[j] = N /\ j + 1 \in Cells /\ b.cells[j + 1] = N
      BY <1>3, <2>1, <2>2
    <2>4. Lies(b, <<N, N>>, j)
      BY <2>1, <2>3, LiesBoundry, Zenon
    <2> QED
      BY <2>3, <2>4 DEF HeaderEnds
  <1>7. ASSUME HeaderEnds(b) # {}, end + 2 <= n PROVE end >= j
    <2>1. end \in Nat /\ b.cells[end] = N /\ b.cells[end + 1] = N
      BY <1>4, <1>5, <1>7
    <2>2. /\ end \in 0..n - 1 /\ end + 1 \in 0..n - 1
          /\ at + (end + 1) + 1 = at + end + 2
      BY <1>2, <1>7, <2>1
    <2>3. u[at + end + 1] = N /\ u[at + end + 2] = N
      BY <1>3, <2>1, <2>2
    <2>4. end \notin 0..j - 1
      BY <2>3 DEF EmptyLine
    <2> QED
      BY <2>1, <2>4
  <1>8. HeaderEnds(b) # {} => end \in Nat
    BY <1>4, <1>5
  <1>9. ASSUME j + 2 <= n PROVE HeaderEnds(b) # {} /\ end = j
    <2>1. HeaderEnds(b) # {}
      BY <1>6, <1>9
    <2>2. end <= j /\ end \in Nat
      BY <1>5, <1>6, <1>8, <1>9, <2>1
    <2>3. end + 2 <= n
      BY <1>2, <1>9, <2>2
    <2> QED
      BY <1>7, <2>1, <2>2, <2>3
  <1>10. ASSUME HeaderEnds(b) # {}, ~(end + 2 > n) PROVE end = j /\ j + 2 <= n
    <2>1. end \in Nat
      BY <1>8, <1>10
    <2>2. end + 2 <= n
      BY <1>2, <1>10, <2>1
    <2>3. end >= j
      BY <1>7, <1>10, <2>2
    <2>4. j + 2 <= n
      BY <1>2, <2>1, <2>2, <2>3
    <2> QED
      BY <1>9, <2>4
  <1>11. ASSUME j + 2 <= n
         PROVE  \A x : Says(b, j, x) <=> SaidBefore(u, at, j, x)
    <2>1. \A k \in 0..j - 1 : k \in 0..n - 1
      BY <1>2, <1>11
    <2>2. \A k \in 0..j - 1 : Cell(b, k) = u[at + k + 1]
      BY <1>3, <2>1 DEF Cell
    <2> QED
      BY <2>2 DEF Says, SaidBefore
  <1> QED
    BY <1>9, <1>10, <1>11 DEF n

-----------------------------------------------------------------------------
(* The parts in the body.                                                  *)

\* Where the content of part i begins, and where it ends.
StartOf(b, i) == EndsOf(b)[i - 1] + 3
StopOf(b, i) == StartOf(b, i) + Len(b[i].content)

LEMMA PartLays ==
    ASSUME NEW b \in Bodies, NEW i \in 1..Len(b), NEW u, u = BodyUnits(b)
    PROVE  /\ Len(b) \in Nat /\ b[i].header \in Heads /\ b[i].content \in Seq(Units)
           /\ Lays(u, StartOf(b, i), b[i].content)
           /\ StartOf(b, i) \in Nat /\ StopOf(b, i) \in Nat
           /\ u[StopOf(b, i) + 1] = N /\ u[StopOf(b, i) + 2] = D
           /\ u[StopOf(b, i) + 3] = B
           /\ u[StopOf(b, i) + 4] = IF i < Len(b) THEN N ELSE D
           /\ StopOf(b, i) + 4 <= Len(u)
  <1> DEFINE e == EndsOf(b)[i - 1]
             z == EndsOf(b)[i]
             c == b[i].content
             l == Len(c)
             w == Len(u)
  <1>1. u \in Seq(Units) /\ Layout(b, EndsOf(b))
    BY EndsLayout
  <1>2. b \in Seq(Part) /\ Len(b) \in Nat
    BY UpLoadAssumption
  <1>3. b[i] \in Part /\ i - 1 \in 0..Len(b)
    BY <1>2
  <1>4. b[i].header \in Heads /\ c \in Seq(Units)
    BY <1>3 DEF Part
  <1>5. l \in Nat /\ w \in Nat
    <2>1. \A s \in Seq(Units) : Len(s) \in Nat
      OBVIOUS
    <2> QED
      BY <1>1, <1>4, <2>1, Zenon
  <1>6. e \in Nat
    BY <1>1, <1>3 DEF Layout
  <1>7. /\ z = e + l + 7 /\ z <= w
        /\ \A k \in 1..l : u[e + 3 + k] = c[k]
        /\ u[z - 3] = N /\ u[z - 2] = D /\ u[z - 1] = B
        /\ u[z] = IF i < Len(b) THEN N ELSE D
    BY <1>1, Zenon DEF Layout
  <1>8. StartOf(b, i) = e + 3 /\ StopOf(b, i) = e + 3 + l
    BY Zenon DEF StartOf, StopOf
  <1> HIDE DEF e, z, c, l, w
  <1>9. /\ z - 3 = e + 3 + l + 1 /\ z - 2 = e + 3 + l + 2
        /\ z - 1 = e + 3 + l + 3 /\ z = e + 3 + l + 4
        /\ e + 3 \in Nat /\ e + 3 + l \in Nat /\ e + 3 + l + 4 <= w
    BY <1>5, <1>6, <1>7
  <1>10. /\ u[e + 3 + l + 1] = N /\ u[e + 3 + l + 2] = D /\ u[e + 3 + l + 3] = B
         /\ u[e + 3 + l + 4] = IF i < Len(b) THEN N ELSE D
    BY <1>7, <1>9
  <1>11. Lays(u, e + 3, c)
    BY <1>5, <1>7, <1>9, <1>10 DEF Lays, l, w
  <1> QED
    BY <1>2, <1>4, <1>8, <1>9, <1>10, <1>11, Zenon DEF c, w

\* Between two parts there are the end of a boundary and a header.
LEMMA NextPart ==
    ASSUME NEW b \in Bodies, NEW i \in 1..Len(b), i < Len(b), NEW u, u = BodyUnits(b)
    PROVE  /\ i + 1 \in 1..Len(b)
           /\ StartOf(b, i + 1) = StopOf(b, i) + 7
           /\ u[StopOf(b, i) + 5] = b[i + 1].header
           /\ u[StopOf(b, i) + 6] = N
           /\ u[StopOf(b, i) + 7] = N
           /\ StopOf(b, i) + 7 <= Len(u)
  <1> DEFINE j == i + 1
             e == EndsOf(b)[i - 1]
             z == EndsOf(b)[i]
             y == EndsOf(b)[j]
             l == Len(b[i].content)
             m == Len(b[j].content)
             w == Len(u)
  <1>1. Layout(b, EndsOf(b))
    BY EndsLayout
  <1>2. Len(b) \in Nat
    BY PartLays
  <1>3. j \in 1..Len(b) /\ j - 1 = i /\ i \in 0..Len(b) /\ i - 1 \in 0..Len(b)
    BY <1>2
  <1>4. l \in Nat /\ m \in Nat /\ w \in Nat
    <2>1. \A s \in Seq(Units) : Len(s) \in Nat
      OBVIOUS
    <2>2. b[i].content \in Seq(Units) /\ b[j].content \in Seq(Units) /\ u \in Seq(Units)
      <3> HIDE DEF j
      <3> QED
        BY <1>3, PartLays, EndsLayout
    <2> QED
      BY <2>1, <2>2, Zenon
  <1>5. e \in Nat /\ z \in Nat
    BY <1>1, <1>3 DEF Layout
  <1>6. z = e + l + 7
    BY <1>1, Zenon DEF Layout
  <1> HIDE DEF j
  <1>7. /\ y = EndsOf(b)[j - 1] + m + 7 /\ y <= w
        /\ u[EndsOf(b)[j - 1] + 1] = b[j].header
        /\ u[EndsOf(b)[j - 1] + 2] = N
        /\ u[EndsOf(b)[j - 1] + 3] = N
    BY <1>1, <1>3, Zenon DEF Layout
  <1>8. EndsOf(b)[j - 1] = z
    BY <1>3, Zenon
  <1>9. StopOf(b, i) = e + 3 + l /\ StartOf(b, j) = z + 3
    BY <1>8, Zenon DEF StartOf, StopOf
  <1>10. y = z + m + 7 /\ u[z + 1] = b[j].header /\ u[z + 2] = N /\ u[z + 3] = N
    BY <1>7, <1>8, Zenon
  <1> HIDE DEF e, z, y, l, m, w
  <1>11. /\ e + 3 + l + 5 = z + 1 /\ e + 3 + l + 6 = z + 2 /\ e + 3 + l + 7 = z + 3
         /\ e + 3 + l + 7 <= w
    BY <1>4, <1>5, <1>6, <1>7, <1>10
  <1> QED
    BY <1>3, <1>9, <1>10, <1>11 DEF j, w

\* The first boundary and the first header.
LEMMA FirstPart ==
    ASSUME NEW b \in Bodies, NEW u, u = BodyUnits(b)
    PROVE  /\ 1 \in 1..Len(b)
           /\ StartOf(b, 1) = 6
           /\ u[1] = D /\ u[2] = B /\ u[3] = N
           /\ u[4] = b[1].header /\ u[5] = N /\ u[6] = N
           /\ Len(u) >= 10
  <1> DEFINE e == EndsOf(b)[0]
             z == EndsOf(b)[1]
             m == Len(b[1].content)
             w == Len(u)
  <1>1. Layout(b, EndsOf(b))
    BY EndsLayout
  <1>2. Len(b) \in Nat /\ 1 \in 1..Len(b)
    BY UpLoadAssumption
  <1>3. m \in Nat /\ w \in Nat
    <2>1. \A s \in Seq(Units) : Len(s) \in Nat
      OBVIOUS
    <2>2. b[1].content \in Seq(Units) /\ u \in Seq(Units)
      BY <1>2, PartLays, EndsLayout
    <2> QED
      BY <2>1, <2>2, Zenon
  <1>4. 1 - 1 = 0
    OBVIOUS
  <1>5. e = 3 /\ u[1] = D /\ u[2] = B /\ u[3] = N
    BY <1>1, Zenon DEF Layout
  <1>6. /\ z = e + m + 7 /\ z <= w
        /\ u[e + 1] = b[1].header /\ u[e + 2] = N /\ u[e + 3] = N
    <2>1. /\ z = EndsOf(b)[1 - 1] + m + 7 /\ z <= w
          /\ u[EndsOf(b)[1 - 1] + 1] = b[1].header
          /\ u[EndsOf(b)[1 - 1] + 2] = N /\ u[EndsOf(b)[1 - 1] + 3] = N
      BY <1>1, <1>2, Zenon DEF Layout
    <2> QED
      BY <1>4, <2>1, Zenon
  <1>7. StartOf(b, 1) = e + 3
    BY <1>4, Zenon DEF StartOf
  <1> HIDE DEF e, z, m, w
  <1>8. w >= 10 /\ e + 3 = 6
    BY <1>3, <1>5, <1>6
  <1> QED
    BY <1>2, <1>5, <1>6, <1>7, <1>8 DEF w
\* The first pos units in the buffer.
Taken(b, pos) == [i \in 1..pos |-> Cell(b, i - 1)]

\* What a file is given: the first d units of c, or Lost in place of some.
Marked == Units \union {Lost}

Got(s, c, d) ==
    /\ s \in Seq(Marked)
    /\ Len(s) = d
    /\ \A k \in 1..d : s[k] \in {c[k], Lost}

\* What the file gets from the buffer continues what it has.
LEMMA Appended ==
    ASSUME NEW u, NEW start, NEW c \in Seq(Units), Lays(u, start, c),
           NEW b, NEW at, Holds(b, u, at), start <= at,
           NEW pos \in 0..b.len, at + pos <= start + Len(c),
           NEW s, Got(s, c, at - start), NEW q \in 0..pos
    PROVE  Got(s \o Stores(Taken(b, pos), q), c, (at + pos) - start)
  <1> DEFINE units == Taken(b, pos)
             t == Stores(units, q)
             v == s \o t
             l == Len(c)
             d == at - start
             n == b.len
  <1>1. /\ start \in Nat /\ l \in Nat
        /\ \A k \in 1..l : u[start + k] = c[k]
    BY DEF Lays
  <1>2. n \in Nat /\ at \in Nat
    BY UpLoadAssumption DEF Holds, IsBuffer
  <1>3. \A k \in 0..n - 1 : k \in Cells /\ b.cells[k] = u[at + k + 1]
    BY UnitAt
  <1> HIDE DEF l, n
  <1>4. pos \in Nat /\ pos <= n
    BY <1>2 DEF n
  <1>5. d \in Nat /\ d + pos <= l /\ at = start + d /\ (at + pos) - start = d + pos
    BY <1>1, <1>2, <1>4 DEF l
  <1>6. s \in Seq(Marked) /\ Len(s) = d /\ \A k \in 1..d : s[k] \in {c[k], Lost}
    BY DEF Got
  <1> HIDE DEF d
  <1>8. \A k \in 1..pos : Cell(b, k - 1) = c[d + k] /\ Cell(b, k - 1) \in Units
    <2> SUFFICES ASSUME NEW k \in 1..pos
                 PROVE  Cell(b, k - 1) = c[d + k] /\ Cell(b, k - 1) \in Units
      OBVIOUS
    <2>1. k - 1 \in 0..n - 1 /\ at + (k - 1) + 1 = start + (d + k) /\ d + k \in 1..l
      BY <1>1, <1>2, <1>4, <1>5
    <2>2. Cell(b, k - 1) = u[at + (k - 1) + 1]
      BY <1>3, <2>1 DEF Cell
    <2>3. u[start + (d + k)] = c[d + k] /\ c[d + k] \in Units
      <3>1. \A j \in 1..l : c[j] \in Units
        BY DEF l
      <3> QED
        BY <1>1, <2>1, <3>1, Zenon
    <2> QED
      BY <2>1, <2>2, <2>3
  <1>9. /\ t \in Seq(Marked) /\ Len(t) = pos
        /\ \A k \in 1..pos : t[k] \in {c[d + k], Lost}
    <2>1. units = [i \in 1..pos |-> Cell(b, i - 1)]
      BY DEF Taken
    <2>2. DOMAIN units = 1..pos /\ \A k \in 1..pos : units[k] = Cell(b, k - 1)
      BY <2>1, Zenon
    <2> HIDE DEF units
    <2>3. t = [i \in 1..pos |-> IF i <= q THEN units[i] ELSE Lost]
      BY <2>2, Zenon DEF Stores
    <2> HIDE DEF t
    <2>4. \A k \in 1..pos : t[k] \in {units[k], Lost}
      BY <2>3
    <2>5. \A k \in 1..pos : t[k] \in {c[d + k], Lost} /\ t[k] \in Marked
      BY <1>8, <2>2, <2>4, Zenon DEF Marked
    <2>6. t \in [1..pos -> Marked]
      BY <2>3, <2>5
    <2>7. t \in Seq(Marked) /\ Len(t) = pos
      BY <1>4, <2>6
    <2> QED
      BY <2>5, <2>7
  <1>10. v = s \o t
    OBVIOUS
  <1> HIDE DEF t, v, units
  <1>11. /\ v \in Seq(Marked) /\ Len(v) = Len(s) + Len(t)
         /\ \A k \in 1..Len(s) : v[k] = s[k]
         /\ \A k \in 1..Len(t) : v[Len(s) + k] = t[k]
    <2>1. s \in Seq(Marked) /\ t \in Seq(Marked)
      BY <1>6, <1>9
    <2> QED
      BY <1>10, <2>1, ConcatAs
  <1>12. \A k \in 1..d + pos : v[k] \in {c[k], Lost}
    <2> SUFFICES ASSUME NEW k \in 1..d + pos PROVE v[k] \in {c[k], Lost}
      OBVIOUS
    <2>1. CASE k \in 1..d
      BY <1>6, <1>11, <2>1, Zenon
    <2>2. CASE k \notin 1..d
      <3>1. k - d \in 1..pos /\ d + (k - d) = k
        BY <1>4, <1>5, <2>2
      <3>2. v[d + (k - d)] = t[k - d] /\ t[k - d] \in {c[d + (k - d)], Lost}
        BY <1>6, <1>9, <1>11, <3>1
      <3> QED
        BY <3>1, <3>2, Zenon
    <2> QED
      BY <2>1, <2>2
  <1>13. Len(v) = d + pos
    BY <1>6, <1>9, <1>11
  <1>14. Got(v, c, d + pos)
    BY <1>11, <1>12, <1>13, Zenon DEF Got
  <1> QED
    BY <1>5, <1>14, Zenon DEF t, v, units

-----------------------------------------------------------------------------
(* The inductive invariant.                                                *)

U == BodyUnits(body)

\* The place in the body where the buffer begins.
At == Len(U) - Len(input) - buf.len

Kinds ==
    /\ body \in Bodies
    /\ pc \in {"header", "store", "drop", "end"}
    /\ part \in 0..Len(body)
    /\ written \in [1..Len(body) -> Seq(Marked)]
    /\ refused \in BOOLEAN
    /\ short \in BOOLEAN
    /\ result \in {"none", "success", "failed", "crash"}

\* The buffer and what has not been read are consecutive pieces of the body; the
\* program stops in the middle of a step when it gives up or crashes.
Stream ==
    /\ IsBuffer(buf)
    /\ RestOf(input, U, Len(U) - Len(input))
    /\ pc # "end" => Holds(buf, U, At)

InPart ==
    /\ part >= 1
    /\ StartOf(body, part) <= At
    /\ At <= StopOf(body, part)
    /\ At > StartOf(body, part) => buf.len >= 2

\* Where in the body the program is.  When it looks for a header after a part, the
\* boundary behind the part is in the buffer; behind the units of the content
\* that it has used it has two more: a boundary is never recognised by its end.
Place ==
    /\ pc = "header" /\ part = 0 =>
          At = 0 /\ buf.len = 0 /\ \A i \in Cells : buf.cells[i] = Garbage
    /\ pc = "header" /\ part # 0 => At = StopOf(body, part) /\ buf.len >= 4
    /\ pc = "store" =>
          /\ InPart
          /\ body[part].header = F
          /\ Got(written[part], body[part].content, At - StartOf(body, part))
    /\ pc = "drop" => InPart /\ (body[part].header = F => At = StopOf(body, part))

\* Part i has been gone through: no error has ended the program there.
Done(i) ==
    /\ body[i].header \in {F, H}
    /\ body[i].header = F => Got(written[i], body[i].content, Len(body[i].content))
    /\ body[i].header # F => written[i] = << >>

Files ==
    \A i \in 1..Len(body) :
        /\ i < part => Done(i)
        /\ i > part => written[i] = << >>
        /\ i = part /\ pc # "store" =>
              Done(i) \/ (pc = "end" /\ result # "success" /\ written[i] = << >>)

Outcome ==
    /\ result = "success" => pc = "end" /\ part = Len(body)
    /\ result = "crash" => short
    /\ result = "failed" => short \/ refused \/ (part > 0 /\ body[part].header = X)
    /\ pc # "end" => result = "none"

UpInv == Kinds /\ Stream /\ Place /\ Files /\ Outcome

\* What is known about the body in every state.
LEMMA Sent ==
    ASSUME Kinds
    PROVE  /\ body \in Bodies /\ Len(body) \in Nat
           /\ U \in Seq(Units) /\ Len(U) \in Nat
           /\ \A i \in 1..Len(body) :
                 /\ body[i].header \in Heads /\ body[i].content \in Seq(Units)
                 /\ StartOf(body, i) \in Nat /\ StopOf(body, i) \in Nat
                 /\ Lays(U, StartOf(body, i), body[i].content)
                 /\ U[StopOf(body, i) + 1] = N /\ U[StopOf(body, i) + 2] = D
                 /\ U[StopOf(body, i) + 3] = B
                 /\ U[StopOf(body, i) + 4] = IF i < Len(body) THEN N ELSE D
                 /\ StopOf(body, i) + 4 <= Len(U)
  <1>1. body \in Bodies
    BY DEF Kinds
  <1>2. Len(body) \in Nat
    BY <1>1, UpLoadAssumption
  <1>3. U \in Seq(Units) /\ Len(U) \in Nat
    BY <1>1, EndsLayout DEF U
  <1> QED
    BY <1>1, <1>2, <1>3, PartLays, Zenon DEF U

\* Reading: the filled buffer is still a window, and what is left follows it.
LEMMA Reading ==
    ASSUME Kinds, Stream, pc # "end", NEW n, ReadContent(n), body' = body
    PROVE  /\ Holds(Filled(buf, n), U, At)
           /\ Filled(buf, n).len = buf.len + n
           /\ \A k \in Cells : k >= buf.len + n => Filled(buf, n).cells[k] = buf.cells[k]
           /\ At \in Nat /\ buf.len \in Nat /\ n \in Nat
           /\ Len(U) = At + buf.len + Len(input) /\ Len(input) \in Nat
           /\ Len(input') = Len(input) - n /\ n <= Len(input)
           /\ RestOf(input', U, Len(U) - Len(input'))
           /\ buf.len = 0 /\ Len(input) >= 1 => n >= 1
           /\ short' \/ buf.len + n = MAX_BUFF \/ n = Len(input)
           /\ short => short' 
           /\ short' \in BOOLEAN
  <1> DEFINE m == Len(input)
             l == Len(U)
             z == buf.len
  <1>1. MAX_BUFF \in Nat /\ MAX_BUFF >= 7
    BY UpLoadAssumption
  <1>2. l \in Nat /\ U \in Seq(Units)
    BY Sent
  <1>3. Holds(buf, U, At) /\ RestOf(input, U, l - m) /\ IsBuffer(buf)
    BY DEF Stream
  <1>4. m \in Nat /\ l - m \in Nat
    <2>1. \A s \in Seq(Units) : Len(s) \in Nat
      OBVIOUS
    <2> QED
      BY <1>3, <2>1 DEF RestOf
  <1>5. z \in 0..MAX_BUFF /\ At \in Nat
    BY <1>3 DEF Holds, IsBuffer
  <1>6. At = l - m - z
    BY DEF At
  <1>7. /\ n \in Least(1, Asked(buf))..Asked(buf)
        /\ input' = SubSeq(input, n + 1, m)
        /\ short' = (short \/ n < Asked(buf))
    BY DEF ReadContent
  <1>8. Asked(buf) = IF MAX_BUFF - z < m THEN MAX_BUFF - z ELSE m
    BY DEF Asked, Least, Room
  <1>9. short \in BOOLEAN
    BY DEF Kinds
  <1> HIDE DEF m, l, z, At
  <1>10. Asked(buf) \in Nat /\ Asked(buf) <= m /\ z + Asked(buf) <= MAX_BUFF
    BY <1>1, <1>4, <1>5, <1>8
  <1>11. /\ n \in 0..Asked(buf) /\ n \in Nat /\ n <= m
         /\ z = 0 /\ m >= 1 => n >= 1
    <2>1. Least(1, Asked(buf)) = IF 1 < Asked(buf) THEN 1 ELSE Asked(buf)
      BY DEF Least
    <2> QED
      BY <1>1, <1>4, <1>5, <1>7, <1>8, <1>10, <2>1
  <1>12. At + z = l - m /\ l = At + z + m
    BY <1>2, <1>4, <1>5, <1>6
  <1>13. /\ Holds(Filled(buf, n), U, At)
         /\ Filled(buf, n).len = z + n
         /\ \A k \in Cells : k >= z + n => Filled(buf, n).cells[k] = buf.cells[k]
    <2>1. RestOf(input, U, At + buf.len)
      BY <1>3, <1>12 DEF z
    <2> QED
      BY <1>2, <1>3, <1>11, <2>1, FilledHolds DEF z
  <1>14. RestOf(input', U, l - m + n)
    <2>1. n \in 0..Len(input)
      BY <1>4, <1>11 DEF m
    <2>2. RestOf(SubSeq(input, n + 1, Len(input)), U, l - m + n)
      BY <1>2, <1>3, <2>1, RestShrinks
    <2> QED
      BY <1>7, <2>2 DEF m
  <1>15. Len(input') = m - n
    <2>1. input \in Seq(Units)
      BY <1>3 DEF RestOf
    <2> QED
      BY <1>4, <1>7, <1>11, <2>1 DEF m
  <1>16. l - Len(input') = l - m + n
    BY <1>2, <1>4, <1>11, <1>15
  <1>17. short' \/ z + n = MAX_BUFF \/ n = m
    <2>1. CASE n < Asked(buf)
      BY <1>7, <2>1
    <2>2. CASE ~(n < Asked(buf))
      <3>1. n = Asked(buf)
        BY <1>10, <1>11, <2>2
      <3> QED
        BY <1>1, <1>4, <1>5, <1>8, <3>1
    <2> QED
      BY <2>1, <2>2, Zenon
  <1>18. (short => short') /\ short' \in BOOLEAN
    BY <1>7, <1>9
  <1>19. z \in Nat
    BY <1>1, <1>5
  <1> QED
    BY <1>4, <1>5, <1>11, <1>12, <1>13, <1>14, <1>15, <1>16, <1>17, <1>18, <1>19 DEF m, l, z

\* Taking units off the front moves the window.
LEMMA Moving ==
    ASSUME Kinds, Stream, pc # "end", NEW n, ReadContent(n), body' = body,
           NEW pos \in 0..buf.len + n, buf' = Shifted(Filled(buf, n), pos)
    PROVE  /\ Stream'
           /\ At' = At + pos
           /\ buf'.len = buf.len + n - pos
  <1> DEFINE b == Filled(buf, n)
             l == Len(U)
             m == Len(input)
             z == buf.len
  <1>1. /\ Holds(b, U, At) /\ b.len = z + n
        /\ At \in Nat /\ z \in Nat /\ n \in Nat /\ l = At + z + m /\ m \in Nat
        /\ Len(input') = m - n /\ RestOf(input', U, l - Len(input'))
    BY Reading
  <1>2. U' = U /\ l \in Nat
    BY Sent DEF U
  <1>3. /\ Holds(buf', U, At + pos) /\ buf'.len = z + n - pos
    <2>1. pos \in 0..b.len
      BY <1>1
    <2> HIDE DEF b
    <2>2. Holds(Shifted(b, pos), U, At + pos) /\ Shifted(b, pos).len = b.len - pos
      BY <1>1, <1>2, <2>1, ShiftedHolds
    <2> QED
      BY <1>1, <2>2 DEF b
  <1>4. At' = Len(U') - Len(input') - buf'.len
    BY DEF At
  <1> HIDE DEF l, m, z, b
  <1>5. pos \in Nat
    BY <1>1 DEF z
  <1>6. At' = l - (m - n) - (z + n - pos)
    BY <1>1, <1>2, <1>3, <1>4 DEF l
  <1> HIDE DEF At
  <1>7. At' = At + pos
    BY <1>1, <1>5, <1>6
  <1>8. IsBuffer(buf')
    BY <1>3 DEF Holds
  <1>9. Holds(buf', U', At')
    BY <1>2, <1>3, <1>7, Zenon
  <1>10. RestOf(input', U', Len(U') - Len(input'))
    BY <1>1, <1>2, Zenon DEF l
  <1> QED
    BY <1>3, <1>7, <1>8, <1>9, <1>10 DEF Stream, z
-----------------------------------------------------------------------------
(* Each operation keeps the invariant.                                     *)

\* The last boundary is recognised behind the last part, and there only.
LEMMA OverAtEnd ==
    ASSUME Kinds, Stream, Place, pc = "header"
    PROVE  IsOver(buf) <=> part # 0 /\ part = Len(body)
  <1>1. IsOver(buf) <=> /\ 0 \in Cells /\ buf.cells[0] = N
                        /\ 0 + 1 \in Cells /\ buf.cells[0 + 1] = D
                        /\ 0 + 2 \in Cells /\ buf.cells[0 + 2] = B
                        /\ 0 + 3 \in Cells /\ buf.cells[0 + 3] = D
    BY LiesBoundry DEF IsOver
  <1>2. CASE part = 0
    <2>1. \A i \in Cells : buf.cells[i] # N
      BY <1>2, MarkUnits DEF Place
    <2> QED
      BY <1>1, <1>2, <2>1
  <1>3. CASE part # 0
    <2>1. At = StopOf(body, part) /\ buf.len >= 4
      BY <1>3 DEF Place
    <2>2. Holds(buf, U, At)
      BY DEF Stream
    <2>3. part \in 1..Len(body) /\ Len(body) \in Nat
      BY <1>3, Sent DEF Kinds
    <2>4. At \in Nat /\ buf.len \in Nat
      BY <2>2, UpLoadAssumption DEF Holds, IsBuffer
    <2>5. /\ U[At + 1] = N /\ U[At + 2] = D /\ U[At + 3] = B
          /\ U[At + 4] = IF part < Len(body) THEN N ELSE D
      BY <2>1, <2>3, Sent
    <2> HIDE DEF At
    <2>6. /\ 0 \in 0..buf.len - 1 /\ 1 \in 0..buf.len - 1
          /\ 2 \in 0..buf.len - 1 /\ 3 \in 0..buf.len - 1
          /\ At + 0 + 1 = At + 1 /\ At + 1 + 1 = At + 2
          /\ At + 2 + 1 = At + 3 /\ At + 3 + 1 = At + 4
      BY <2>1, <2>4
    <2>7. \A k \in 0..buf.len - 1 : k \in Cells /\ buf.cells[k] = U[At + k + 1]
      BY <2>2, UnitAt
    <2>8. /\ 0 \in Cells /\ 1 \in Cells /\ 2 \in Cells /\ 3 \in Cells
          /\ buf.cells[0] = N /\ buf.cells[1] = D /\ buf.cells[2] = B
          /\ buf.cells[3] = IF part < Len(body) THEN N ELSE D
      BY <2>5, <2>6, <2>7
    <2>9. 0 + 1 = 1 /\ 0 + 2 = 2 /\ 0 + 3 = 3
      OBVIOUS
    <2>10. IsOver(buf) <=> buf.cells[3] = D
      BY <1>1, <2>8, <2>9
    <2>11. buf.cells[3] = D <=> ~(part < Len(body))
      BY <2>8, MarkUnits
    <2> QED
      BY <1>3, <2>3, <2>10, <2>11
  <1> QED
    BY <1>2, <1>3

\* Where the header of the next part ends.
LEMMA HeaderPlace ==
    ASSUME Kinds, Stream, Place, pc = "header", ~IsOver(buf)
    PROVE  /\ part + 1 \in 1..Len(body)
           /\ \E j \in {4, 5} :
                 /\ EmptyLine(U, At, j)
                 /\ \A x \in Heads : SaidBefore(U, At, j, x) <=> body[part + 1].header = x
                 /\ At + j + 2 = StartOf(body, part + 1)
                 /\ At + j + 2 <= Len(U)
                 /\ At + 7 <= Len(U)
  <1>1. body \in Bodies /\ Len(body) \in Nat /\ Len(U) \in Nat
    BY Sent
  <1>2. part \in 0..Len(body)
    BY DEF Kinds
  <1>3. \A i \in 1..Len(body) : body[i].header # N
    BY Sent, MarkUnits, Zenon
  <1>4. N # D /\ N # B /\ \A x \in Heads : x # N /\ x # D /\ x # B
    BY MarkUnits
  <1>5. Holds(buf, U, At)
    BY DEF Stream
  <1>6. At \in Nat
    BY <1>5 DEF Holds
  <1>7. CASE part = 0
    <2> DEFINE h == body[1].header
    <2>1. /\ 1 \in 1..Len(body) /\ StartOf(body, 1) = 6
          /\ U[1] = D /\ U[2] = B /\ U[3] = N /\ U[4] = h /\ U[5] = N /\ U[6] = N
          /\ Len(U) >= 10
      BY <1>1, FirstPart DEF U
    <2>2. At = 0 /\ part + 1 = 1
      BY <1>7 DEF Place
    <2> HIDE DEF At, h
    <2>3. h # N /\ h = body[1].header
      BY <1>3, <2>1 DEF h
    <2>4. U[At + 4 + 1] = N /\ U[At + 4 + 2] = N
      BY <2>1, <2>2
    <2>5. \A k \in 0..3 : k = 0 \/ k = 1 \/ k = 2 \/ k = 3
      OBVIOUS
    <2>6. /\ U[At + 0 + 1] = D /\ U[At + 1 + 1] = B /\ U[At + 2 + 1] = N /\ U[At + 3 + 1] = h
          /\ U[At + 2 + 2] = h
      BY <2>1, <2>2
    <2>7. \A k \in 0..3 : ~(U[At + k + 1] = N /\ U[At + k + 2] = N)
      BY <1>4, <2>3, <2>5, <2>6, Zenon
    <2>8. \A x \in Heads : (\E k \in 0..3 : U[At + k + 1] = x) <=> h = x
      <3>1. 3 \in 0..3
        OBVIOUS
      <3> QED
        BY <1>4, <2>5, <2>6, <3>1, Zenon
    <2>9. At + 4 + 2 = StartOf(body, part + 1) /\ At + 4 + 2 <= Len(U) /\ At + 7 <= Len(U)
      BY <1>1, <2>1, <2>2
    <2>10. 4 - 1 = 3
      OBVIOUS
    <2>11. /\ EmptyLine(U, At, 4)
           /\ \A x \in Heads : SaidBefore(U, At, 4, x) <=> body[part + 1].header = x
      BY <2>2, <2>3, <2>4, <2>7, <2>8, <2>10, Zenon DEF EmptyLine, SaidBefore
    <2> QED
      BY <2>1, <2>2, <2>9, <2>11, Zenon
  <1>8. CASE part # 0
    <2> DEFINE h == body[part + 1].header
    <2>1. part \in 1..Len(body) /\ part < Len(body)
      BY <1>1, <1>2, <1>8, OverAtEnd
    <2>2. At = StopOf(body, part)
      BY <1>8 DEF Place
    <2>3. /\ part + 1 \in 1..Len(body)
          /\ StartOf(body, part + 1) = At + 7
          /\ U[At + 5] = h /\ U[At + 6] = N /\ U[At + 7] = N
          /\ At + 7 <= Len(U)
      BY <1>1, <2>1, <2>2, NextPart DEF U
    <2>4. U[At + 1] = N /\ U[At + 2] = D /\ U[At + 3] = B /\ U[At + 4] = N
      BY <2>1, <2>2, Sent
    <2> HIDE DEF At, h
    <2>5. h # N /\ h = body[part + 1].header
      BY <1>3, <2>3 DEF h
    <2>6. \A k \in 0..4 : k = 0 \/ k = 1 \/ k = 2 \/ k = 3 \/ k = 4
      OBVIOUS
    <2>7. /\ At + 0 + 1 = At + 1 /\ At + 1 + 1 = At + 2 /\ At + 2 + 1 = At + 3
          /\ At + 3 + 1 = At + 4 /\ At + 4 + 1 = At + 5 /\ At + 5 + 1 = At + 6
          /\ At + 0 + 2 = At + 2 /\ At + 3 + 2 = At + 5 /\ At + 5 + 2 = At + 7
      BY <1>6
    <2>8. /\ U[At + 0 + 1] = N /\ U[At + 1 + 1] = D /\ U[At + 2 + 1] = B
          /\ U[At + 3 + 1] = N /\ U[At + 4 + 1] = h /\ U[At + 0 + 2] = D
          /\ U[At + 3 + 2] = h /\ U[At + 5 + 1] = N /\ U[At + 5 + 2] = N
      BY <2>3, <2>4, <2>7
    <2>9. \A k \in 0..4 : ~(U[At + k + 1] = N /\ U[At + k + 2] = N)
      BY <1>4, <2>5, <2>6, <2>8, Zenon
    <2>10. \A x \in Heads : (\E k \in 0..4 : U[At + k + 1] = x) <=> h = x
      <3>1. 4 \in 0..4
        OBVIOUS
      <3> QED
        BY <1>4, <2>6, <2>8, <3>1, Zenon
    <2>11. 5 - 1 = 4
      OBVIOUS
    <2>12. /\ EmptyLine(U, At, 5)
           /\ \A x \in Heads : SaidBefore(U, At, 5, x) <=> body[part + 1].header = x
      BY <2>5, <2>8, <2>9, <2>10, <2>11, Zenon DEF EmptyLine, SaidBefore
    <2> QED
      BY <2>3, <2>7, <2>12, Zenon
  <1> QED
    BY <1>7, <1>8

\* What GetBoundry finds: the header of the next part, unless a read was short.
LEMMA HeaderRead ==
    ASSUME Kinds, Stream, Place, pc = "header", ~IsOver(buf),
           NEW n, ReadContent(n), body' = body,
           NEW end, end = FirstEnd(Filled(buf, n))
    PROVE  /\ part + 1 \in 1..Len(body)
           /\ HeaderEnds(Filled(buf, n)) # {} /\ ~(end + 2 > Filled(buf, n).len) =>
                 /\ end + 2 \in 0..buf.len + n
                 /\ At + (end + 2) = StartOf(body, part + 1)
                 /\ \A x \in Heads :
                       Says(Filled(buf, n), end, x) <=> body[part + 1].header = x
           /\ HeaderEnds(Filled(buf, n)) = {} \/ end + 2 > Filled(buf, n).len => short'
  <1> DEFINE b == Filled(buf, n)
  <1>1. part + 1 \in 1..Len(body)
    BY HeaderPlace
  <1>2. PICK j \in {4, 5} :
           /\ EmptyLine(U, At, j)
           /\ \A x \in Heads : SaidBefore(U, At, j, x) <=> body[part + 1].header = x
           /\ At + j + 2 = StartOf(body, part + 1)
           /\ At + j + 2 <= Len(U)
           /\ At + 7 <= Len(U)
    BY HeaderPlace
  <1>3. /\ Holds(b, U, At) /\ b.len = buf.len + n
        /\ At \in Nat /\ buf.len \in Nat /\ n \in Nat
        /\ Len(U) = At + buf.len + Len(input) /\ Len(input) \in Nat
        /\ short' \/ buf.len + n = MAX_BUFF \/ n = Len(input)
    BY Reading
  <1>4. MAX_BUFF \in Nat /\ MAX_BUFF >= 7
    BY UpLoadAssumption
  <1>5. j \in Nat /\ j + 2 <= 7
    BY <1>2
  <1> HIDE DEF b
  <1>6. /\ HeaderEnds(b) # {} /\ ~(end + 2 > b.len) => end = j /\ j + 2 <= b.len
        /\ j + 2 <= b.len => /\ HeaderEnds(b) # {}
                             /\ end = j
                             /\ \A x : Says(b, j, x) <=> SaidBefore(U, At, j, x)
    <2>1. end = FirstEnd(b)
      BY DEF b
    <2>2. EmptyLine(U, At, j)
      BY <1>2, Zenon
    <2>3. Holds(b, U, At) /\ j \in Nat
      BY <1>3, <1>5
    <2> HIDE DEF U, At
    <2> QED
      BY <2>1, <2>2, <2>3, HeaderScan, Zenon
  <1>7. short' \/ j + 2 <= b.len
    <2>1. CASE buf.len + n = MAX_BUFF
      BY <1>3, <1>4, <1>5, <2>1
    <2>2. CASE n = Len(input)
      <3>1. At + 7 <= Len(U)
        BY <1>2, Zenon
      <3> DEFINE l == Len(U)
                 m == Len(input)
                 z == buf.len
                 a == At
      <3>2. a + 7 <= l /\ l = a + z + m /\ n = m /\ a \in Nat /\ z \in Nat /\ m \in Nat
        BY <1>3, <2>2, <3>1
      <3>3. b.len = z + n
        BY <1>3
      <3> HIDE DEF l, m, z, a
      <3> QED
        BY <1>5, <3>2, <3>3
    <2> QED
      BY <1>3, <2>1, <2>2
  <1>8. ASSUME HeaderEnds(b) # {}, ~(end + 2 > b.len)
        PROVE  /\ end + 2 \in 0..buf.len + n
               /\ At + (end + 2) = StartOf(body, part + 1)
               /\ \A x \in Heads : Says(b, end, x) <=> body[part + 1].header = x
    <2>1. end = j /\ j + 2 <= b.len
      BY <1>6, <1>8
    <2>2. \A x \in Heads : Says(b, j, x) <=> body[part + 1].header = x
      BY <1>2, <1>6, <2>1, Zenon
    <2>3. At + (j + 2) = At + j + 2
      BY <1>3, <1>5
    <2>4. j + 2 \in 0..buf.len + n
      BY <1>3, <1>5, <2>1
    <2>5. At + j + 2 = StartOf(body, part + 1)
      BY <1>2, Zenon
    <2> QED
      BY <2>1, <2>2, <2>3, <2>4, <2>5, Zenon
  <1>9. ASSUME HeaderEnds(b) = {} \/ end + 2 > b.len, ~short' PROVE FALSE
    <2>1. j + 2 <= b.len
      BY <1>7, <1>9
    <2>2. HeaderEnds(b) # {} /\ end = j
      BY <1>6, <2>1
    <2>3. ~(j + 2 > b.len)
      <3>1. b.len \in Nat
        BY <1>3
      <3> QED
        BY <1>5, <2>1, <3>1
    <2> QED
      BY <1>9, <2>2, <2>3, Zenon
  <1> QED
    BY <1>1, <1>8, <1>9 DEF b
\* One turn of StoreFile or DropData, in the content of a part: the boundary is
\* found if it is there, and what is taken off the buffer is content.
LEMMA PartRead ==
    ASSUME BodiesFit, Kinds, Stream, InPart, pc # "end",
           NEW n, ReadContent(n), body' = body, NEW b, b = Filled(buf, n)
    PROVE  /\ part \in 1..Len(body)
           /\ Pos(b) \in 0..buf.len + n
           /\ At + Pos(b) <= StopOf(body, part)
           /\ MatchBoundry(b) => /\ At + Pos(b) = StopOf(body, part)
                                 /\ buf.len + n - Pos(b) >= 4
           /\ ~MatchBoundry(b) => /\ At + Pos(b) > StartOf(body, part) =>
                                        buf.len + n - Pos(b) >= 2
                                  /\ At = StopOf(body, part) => Pos(b) = 0
  <1> DEFINE c == body[part].content
             start == StartOf(body, part)
             stop == StopOf(body, part)
             l == Len(U)
             m == Len(input)
             z == buf.len
             a == At
             r == start + Len(c) - a
  <1>1. part \in 1..Len(body) /\ Len(body) \in Nat
    BY Sent DEF Kinds, InPart
  <1>2. /\ start \in Nat /\ stop \in Nat /\ Lays(U, start, c) /\ stop + 4 <= l
        /\ stop = start + Len(c) /\ Len(c) \in Nat
    <2>1. /\ start \in Nat /\ stop \in Nat /\ Lays(U, start, c) /\ stop + 4 <= l
      BY <1>1, Sent
    <2>2. stop = start + Len(c)
      BY DEF StopOf
    <2>3. Len(c) \in Nat
      BY <2>1 DEF Lays
    <2> QED
      BY <2>1, <2>2, <2>3
  <1>3. Fits(c)
    BY <1>1, Sent DEF BodiesFit
  <1>4. /\ Holds(b, U, a) /\ b.len = z + n
        /\ a \in Nat /\ z \in Nat /\ n \in Nat
        /\ l = a + z + m /\ m \in Nat
        /\ z = 0 /\ m >= 1 => n >= 1
    BY Reading
  <1>5. start <= a /\ a <= stop /\ (a > start => z >= 2)
    BY DEF InPart
  <1> HIDE DEF c, start, stop, l, m, z, a
  <1>6. l \in Nat
    BY <1>4
  <1>7. b.len >= 1 /\ (a > start => b.len >= 2) /\ a <= start + Len(c)
    BY <1>2, <1>4, <1>5, <1>6
  <1>8. /\ r \in Nat
        /\ r + 4 <= b.len => MatchBoundry(b) /\ Pos(b) = r
        /\ r + 4 > b.len => ~MatchBoundry(b) /\ Pos(b) = Surely(b.len)
        /\ Pos(b) \in 0..b.len /\ Pos(b) <= r
    <2>1. /\ Lays(U, start, c) /\ Fits(c) /\ Holds(b, U, a)
          /\ start <= a /\ a <= start + Len(c) /\ b.len >= 1 /\ (a > start => b.len >= 2)
          /\ r = start + Len(c) - a
      BY <1>2, <1>3, <1>4, <1>5, <1>7
    <2> HIDE DEF r
    <2> QED
      BY <2>1, Scan
  <1>9. a + r = stop /\ r = stop - a
    BY <1>2, <1>4
  <1> HIDE DEF r
  <1> DEFINE p == Pos(b)
             k == b.len
  <1>10. /\ p \in Nat /\ k \in Nat /\ p <= r /\ p <= k
         /\ r + 4 <= k => MatchBoundry(b) /\ p = r
         /\ r + 4 > k => ~MatchBoundry(b) /\ p = Surely(k)
         /\ k = z + n
    BY <1>4, <1>8
  <1> HIDE DEF p, k
  <1>11. Surely(k) = IF k <= 3 THEN 0 ELSE k - 3
    BY DEF Surely
  <1>12. p \in 0..z + n /\ a + p <= stop
    BY <1>2, <1>4, <1>8, <1>9, <1>10
  <1>13. ASSUME MatchBoundry(b) PROVE a + p = stop /\ z + n - p >= 4
    <2>1. r + 4 <= k /\ p = r
      BY <1>8, <1>10, <1>13
    <2> QED
      BY <1>4, <1>8, <1>9, <1>10, <2>1
  <1>14. ASSUME ~MatchBoundry(b)
         PROVE  /\ a + p > start => z + n - p >= 2
                /\ a = stop => p = 0
    <2>1. r + 4 > k /\ p = Surely(k)
      BY <1>8, <1>10, <1>14
    <2>2. a = stop => p = 0
      BY <1>2, <1>4, <1>8, <1>9, <1>10, <1>11, <2>1
    <2>3. CASE k <= 3
      <3>1. p = 0
        BY <1>11, <2>1, <2>3
      <3> QED
        BY <1>2, <1>4, <1>5, <1>10, <2>2, <3>1
    <2>4. CASE k > 3
      <3>1. z + n - p = 3
        BY <1>4, <1>10, <1>11, <2>1, <2>4
      <3> QED
        BY <2>2, <3>1
    <2> QED
      BY <1>10, <2>3, <2>4
  <1> QED
    BY <1>1, <1>12, <1>13, <1>14 DEF a, p, z, start, stop

\* BoundaryOver: the program ends, behind the last part.
LEMMA OverKeeps ==
    ASSUME UpInv, BoundaryOver, body' = body
    PROVE  UpInv'
  <1>1. Kinds /\ Stream /\ Place /\ Files /\ Outcome
    BY DEF UpInv
  <1>2. /\ pc = "header" /\ IsOver(buf) /\ pc' = "end" /\ result' = "success"
        /\ input' = input /\ buf' = buf /\ part' = part
        /\ written' = written /\ refused' = refused /\ short' = short
    BY DEF BoundaryOver, Ends
  <1>3. Kinds'
    BY <1>1, <1>2 DEF Kinds
  <1>4. Stream'
    BY <1>1, <1>2 DEF Stream, U
  <1>5. Place'
    BY <1>2 DEF Place
  <1>6. Files'
    <2>1. \A i \in 1..Len(body) : Done(i) => Done(i)'
      BY <1>2 DEF Done
    <2> QED
      BY <1>1, <1>2, <2>1 DEF Files
  <1>7. Outcome'
    <2>1. part = Len(body)
      BY <1>1, <1>2, OverAtEnd
    <2> QED
      BY <1>2, <2>1 DEF Outcome
  <1> QED
    BY <1>3, <1>4, <1>5, <1>6, <1>7 DEF UpInv

\* GetBoundry: it fails or crashes after a short read, or gets to the content of
\* the next part.
LEMMA HeaderKeeps ==
    ASSUME UpInv, NEW n, GetBoundry(n), body' = body
    PROVE  UpInv'
  <1> DEFINE b == Filled(buf, n)
             end == FirstEnd(b)
             bad == HeaderEnds(b) = {} \/ end + 2 > b.len
  <1>1. Kinds /\ Stream /\ Place /\ Files /\ Outcome
    BY DEF UpInv
  <1>2. pc = "header" /\ ~IsOver(buf) /\ ReadContent(n) /\ written' = written
    BY DEF GetBoundry
  <1>3. bad => /\ pc' = "end" /\ result' \in {"failed", "crash"}
               /\ buf' = buf /\ part' = part /\ refused' = refused
    BY DEF GetBoundry, Ends, FirstEnd
  <1>4. ~bad => /\ buf' = Shifted(b, end + 2)
                /\ part' = part + 1
                /\ Disposition(b, end)
    BY DEF GetBoundry, FirstEnd
  <1>5. /\ part + 1 \in 1..Len(body)
        /\ ~bad => /\ end + 2 \in 0..buf.len + n
                   /\ At + (end + 2) = StartOf(body, part + 1)
                   /\ \A x \in Heads : Says(b, end, x) <=> body[part + 1].header = x
        /\ bad => short'
    <2> HIDE DEF end
    <2>1. end = FirstEnd(Filled(buf, n))
      BY DEF end
    <2> QED
      BY <1>1, <1>2, <2>1, HeaderRead
  <1>6. /\ RestOf(input', U, Len(U) - Len(input'))
        /\ short => short'
        /\ short' \in BOOLEAN
    BY <1>1, <1>2, Reading
  <1>7. U' = U
    BY DEF U
  <1>8. Len(body) \in Nat /\ part \in 0..Len(body)
    BY <1>1, Sent DEF Kinds
  <1> HIDE DEF bad, b, end
  <1>9. CASE bad
    <2>1. Kinds'
      BY <1>1, <1>2, <1>3, <1>6, <1>9 DEF Kinds
    <2>2. Stream'
      BY <1>1, <1>3, <1>6, <1>7, <1>9 DEF Stream
    <2>3. Place'
      BY <1>3, <1>9 DEF Place
    <2>4. Files'
      <3>1. \A i \in 1..Len(body) : Done(i) => Done(i)'
        BY <1>2 DEF Done
      <3> QED
        BY <1>1, <1>2, <1>3, <1>9, <3>1 DEF Files
    <2>5. Outcome'
      BY <1>3, <1>5, <1>9 DEF Outcome
    <2> QED
      BY <2>1, <2>2, <2>3, <2>4, <2>5 DEF UpInv
  <1>10. CASE ~bad
    <2>1. /\ end + 2 \in 0..buf.len + n /\ buf' = Shifted(b, end + 2) /\ part' = part + 1
          /\ At + (end + 2) = StartOf(body, part + 1)
          /\ result = "none"
      BY <1>1, <1>2, <1>4, <1>5, <1>10 DEF Outcome
    <2> DEFINE head == body[part + 1].header
    <2>a. head \in Heads
      BY <1>1, <1>5, Sent, Zenon
    <2>b. /\ \/ /\ pc' = "store" /\ head = F
             \/ /\ pc' = "drop" /\ head = H
             \/ /\ pc' = "end" /\ result' = "failed" /\ (head = X \/ refused')
          /\ pc' # "end" => result' = result
          /\ refused' \in BOOLEAN /\ result' \in {"none", "failed"}
      <3>1. Disposition(b, end)
        BY <1>4, <1>10
      <3>2. \A x \in Heads : Says(b, end, x) <=> head = x
        BY <1>5, <1>10
      <3>3. refused \in BOOLEAN
        BY <1>1 DEF Kinds
      <3> HIDE DEF head
      <3>4. F \in Heads /\ E \in Heads /\ H \in Heads
        BY DEF Heads
      <3>5. head = F \/ head = E \/ head = H \/ head = X
        BY <2>a DEF Heads
      <3> QED
        BY <2>1, <3>1, <3>2, <3>3, <3>4, <3>5 DEF Disposition, Ends
    <2> HIDE DEF head
    <2>2. Stream' /\ At' = At + (end + 2)
      <3>1. pc # "end" /\ buf' = Shifted(Filled(buf, n), end + 2)
        BY <1>2, <2>1 DEF b
      <3> QED
        BY <1>1, <1>2, <2>1, <3>1, Moving
    <2>3. part' \in 1..Len(body) /\ part' \in 0..Len(body)
      BY <1>5, <1>8, <2>1
    <2>4. pc' \in {"store", "drop", "end"} /\ head = body[part'].header
      BY <2>1, <2>b DEF head
    <2>5. At' = StartOf(body, part')
      BY <2>1, <2>2, Zenon
    <2>6. /\ StartOf(body, part') \in Nat
          /\ StartOf(body, part') <= StopOf(body, part')
          /\ body[part'].content \in Seq(Units)
      <3> DEFINE c == body[part'].content
                 start == StartOf(body, part')
      <3>1. start \in Nat /\ c \in Seq(Units) /\ StopOf(body, part') = start + Len(c)
        BY <1>1, <2>3, Sent, Zenon DEF StopOf
      <3> HIDE DEF c, start
      <3>2. start <= start + Len(c)
        BY <3>1
      <3> QED
        BY <3>1, <3>2 DEF c, start
    <2>7. written[part'] = << >>
      <3>1. part' > part
        BY <1>8, <2>1
      <3> QED
        BY <1>1, <2>3, <3>1 DEF Files
    <2>8. Kinds'
      BY <1>1, <1>2, <1>6, <2>b, <2>3, <2>4 DEF Kinds
    <2>9. InPart'
      <3>1. part' >= 1
        BY <2>3
      <3>2. ~(At' > StartOf(body, part'))
        BY <2>5, <2>6
      <3>3. StartOf(body, part') <= At' /\ At' <= StopOf(body, part')
        BY <2>5, <2>6
      <3> QED
        BY <3>1, <3>2, <3>3 DEF InPart
    <2>10. Got(<< >>, body[part'].content, At' - StartOf(body, part'))
      <3>1. At' - StartOf(body, part') = 0
        BY <2>5, <2>6
      <3>2. << >> \in Seq(Marked) /\ Len(<< >>) = 0 /\ 1..0 = {}
        OBVIOUS
      <3> QED
        BY <3>1, <3>2, Zenon DEF Got
    <2>11. Place'
      <3>1. pc' # "header"
        BY <2>4
      <3>2. pc' = "store" => body[part'].header = F
        BY <2>b, <2>4
      <3>3. pc' = "drop" => body[part'].header # F
        BY <2>b, <2>4 DEF F, H
      <3>4. body' = body /\ written' = written /\ written'[part'] = << >>
        BY <1>2, <2>7
      <3> QED
        BY <2>9, <2>10, <3>1, <3>2, <3>3, <3>4, Zenon DEF Place
    <2>12. Files'
      <3>a. \A i \in 1..Len(body) : Done(i) => Done(i)'
        BY <1>2 DEF Done
      <3> SUFFICES ASSUME NEW i \in 1..Len(body)
                   PROVE  /\ i < part' => Done(i)'
                          /\ i > part' => written[i] = << >>
                          /\ i = part' /\ pc' # "store" =>
                                \/ Done(i)'
                                \/ pc' = "end" /\ result' # "success" /\ written[i] = << >>
        BY <1>2, Zenon DEF Files
      <3>1. i < part' => i < part \/ i = part
        BY <1>8, <2>1
      <3>2. i > part' => i > part
        BY <1>8, <2>1
      <3>3. ASSUME i = part', pc' # "store"
            PROVE  \/ Done(i)'
                   \/ pc' = "end" /\ result' # "success" /\ written[i] = << >>
        <4>1. CASE pc' = "end"
          BY <2>b, <2>7, <3>3, <4>1
        <4>2. CASE pc' = "drop"
          <5>1. body[i].header = H /\ written[i] = << >> /\ H # F
            BY <2>b, <2>4, <2>7, <3>3, <4>2 DEF F, H
          <5>2. Done(i)
            BY <5>1 DEF Done
          <5> QED
            BY <3>a, <5>2
        <4> QED
          BY <2>b, <3>3, <4>1, <4>2
      <3> QED
        BY <1>1, <1>2, <3>a, <3>1, <3>2, <3>3 DEF Files
    <2>13. Outcome'
      <3>1. part' > 0
        BY <2>3
      <3> QED
        BY <2>b, <2>1, <2>4, <3>1 DEF Outcome
    <2> QED
      BY <2>2, <2>8, <2>11, <2>12, <2>13 DEF UpInv
  <1> QED
    BY <1>9, <1>10

\* StoreFile: what it writes continues the content of the part.
LEMMA StoreKeeps ==
    ASSUME BodiesFit, UpInv, NEW n, StoreFile(n), body' = body
    PROVE  UpInv'
  <1> DEFINE b == Filled(buf, n)
             pos == Pos(b)
             units == [i \in 1..pos |-> Cell(b, i - 1)]
             c == body[part].content
             start == StartOf(body, part)
             stop == StopOf(body, part)
  <1>1. Kinds /\ Stream /\ Place /\ Files /\ Outcome
    BY DEF UpInv
  <1>2. /\ pc = "store" /\ ReadContent(n)
        /\ \E k \in 0..pos : written' = [written EXCEPT ![part] = @ \o Stores(units, k)]
        /\ buf' = Shifted(b, pos)
        /\ pc' = (IF MatchBoundry(b) THEN "drop" ELSE "store")
        /\ part' = part /\ result' = result /\ refused' = refused
    BY DEF StoreFile
  <1>q. PICK q \in 0..pos : written' = [written EXCEPT ![part] = @ \o Stores(units, q)]
    BY <1>2
  <1>3. /\ InPart /\ body[part].header = F
        /\ Got(written[part], c, At - start)
    BY <1>1, <1>2 DEF Place
  <1>4. pc # "end"
    BY <1>2
  <1>5. /\ part \in 1..Len(body)
        /\ pos \in 0..buf.len + n
        /\ At + pos <= stop
        /\ MatchBoundry(b) => At + pos = stop /\ buf.len + n - pos >= 4
        /\ ~MatchBoundry(b) => (At + pos > start => buf.len + n - pos >= 2)
    BY <1>1, <1>2, <1>3, <1>4, PartRead
  <1>6. /\ Holds(b, U, At) /\ b.len = buf.len + n
        /\ At \in Nat /\ buf.len \in Nat /\ n \in Nat
        /\ short => short'
        /\ short' \in BOOLEAN
    BY <1>1, <1>2, <1>4, Reading
  <1>7. /\ c \in Seq(Units) /\ start \in Nat /\ stop \in Nat /\ Lays(U, start, c)
        /\ stop = start + Len(c)
    <2>1. stop = start + Len(c)
      BY DEF StopOf
    <2> QED
      BY <1>1, <1>5, <2>1, Sent
  <1>8. start <= At /\ At <= stop
    BY <1>3 DEF InPart
  <1>9. Got(written[part] \o Stores(units, q), c, (At + pos) - start)
    <2> DEFINE a == At
               w == written[part]
    <2>1. pos \in 0..b.len
      BY <1>5, <1>6
    <2>2. units = Taken(b, pos)
      BY DEF Taken
    <2> HIDE DEF b, pos, units, c, start, stop, a, w
    <2>3. /\ a + pos <= start + Len(c) /\ Holds(b, U, a) /\ start <= a
          /\ c \in Seq(Units) /\ Lays(U, start, c) /\ Got(w, c, a - start)
      BY <1>3, <1>5, <1>6, <1>7, <1>8 DEF a, w
    <2> HIDE DEF U
    <2>4. Got(w \o Stores(Taken(b, pos), q), c, (a + pos) - start)
      BY <2>1, <2>3, Appended
    <2> QED
      BY <2>2, <2>4, Zenon DEF a, w
  <1> HIDE DEF b, pos, units, c, start, stop
  <1>10. Got(written'[part], c, (At + pos) - start)
    <2>1. written'[part] = written[part] \o Stores(units, q)
      BY <1>1, <1>q, <1>5 DEF Kinds
    <2> QED
      BY <1>9, <2>1, Zenon
  <1>11. \A i \in 1..Len(body) : i # part => written'[i] = written[i]
    BY <1>1, <1>q DEF Kinds
  <1>12. Stream' /\ At' = At + pos /\ buf'.len = buf.len + n - pos
    <2>1. buf' = Shifted(Filled(buf, n), pos) /\ pos \in 0..buf.len + n
      BY <1>2, <1>5 DEF b
    <2> QED
      BY <1>1, <1>2, <1>4, <2>1, Moving
  <1>13. StartOf(body', part') = start /\ StopOf(body', part') = stop
         /\ body'[part'] = body[part] /\ body'[part'].content = c
    BY <1>2 DEF start, stop, c
  <1>14. pos \in Nat
    BY <1>5, <1>6
  <1>15. Kinds'
    <2>1. written'[part] \in Seq(Marked)
      BY <1>10 DEF Got
    <2>2. written' \in [1..Len(body) -> Seq(Marked)]
      <3>1. \A i \in 1..Len(body) : written'[i] \in Seq(Marked)
        BY <1>1, <1>11, <2>1 DEF Kinds
      <3>2. written' = [i \in 1..Len(body) |-> written'[i]]
        BY <1>1, <1>q DEF Kinds
      <3> QED
        BY <3>1, <3>2, Zenon
    <2>3. pc' \in {"header", "store", "drop", "end"}
      BY <1>2
    <2> QED
      BY <1>1, <1>2, <1>6, <2>2, <2>3 DEF Kinds
  <1>16. InPart'
    <2> DEFINE a == At
               z == buf.len + n - pos
    <2>1. At' = a + pos /\ buf'.len = z
      BY <1>12
    <2>2. /\ a \in Nat /\ start \in Nat /\ stop \in Nat /\ start <= a /\ a + pos <= stop
      BY <1>5, <1>6, <1>7, <1>8
    <2>3. a + pos > start => z >= 2
      BY <1>5, <1>6, <1>14
    <2> HIDE DEF a, z
    <2>4. start <= a + pos
      BY <1>14, <2>2
    <2>5. part' >= 1
      BY <1>2, <1>5
    <2>6. InPart' <=> /\ part' >= 1 /\ start <= At' /\ At' <= stop
                      /\ At' > start => buf'.len >= 2
      BY <1>13, Zenon DEF InPart
    <2> QED
      BY <2>1, <2>2, <2>3, <2>4, <2>5, <2>6, Zenon
  <1>17. Place'
    <2>1. pc' # "header"
      BY <1>2
    <2>2. body'[part'].header = F
      BY <1>3, <1>13
    <2>3. Got(written'[part'], body'[part'].content, At' - StartOf(body', part'))
      <3>1. At' - StartOf(body', part') = (At + pos) - start
        BY <1>12, <1>13
      <3>2. written'[part'] = written'[part] /\ body'[part'].content = c
        BY <1>2, <1>13, Zenon
      <3> QED
        BY <1>10, <3>1, <3>2, Zenon
    <2>4. pc' = "drop" => At' = StopOf(body', part')
      <3>1. pc' = "drop" => MatchBoundry(b)
        BY <1>2
      <3> QED
        BY <1>5, <1>12, <1>13, <3>1, Zenon
    <2> QED
      BY <1>16, <2>1, <2>2, <2>3, <2>4, Zenon DEF Place
  <1>18. Files'
    <2>a. \A i \in 1..Len(body) : i # part /\ Done(i) => Done(i)'
      BY <1>11 DEF Done
    <2> SUFFICES ASSUME NEW i \in 1..Len(body)
                 PROVE  /\ i < part => Done(i)'
                        /\ i > part => written'[i] = << >>
                        /\ i = part /\ pc' # "store" => Done(i)'
      BY <1>2, Zenon DEF Files
    <2>1. (i < part \/ i > part) => i # part
      BY <1>5
    <2>2. ASSUME i = part, pc' # "store" PROVE Done(i)'
      <3>1. MatchBoundry(b)
        BY <1>2, <2>2
      <3>2. At + pos = stop
        BY <1>5, <3>1
      <3>3. stop - start = Len(c)
        <4> DEFINE l == Len(c)
        <4>1. l \in Nat /\ stop = start + l /\ start \in Nat
          BY <1>7
        <4> HIDE DEF l
        <4>2. stop - start = l
          BY <4>1
        <4> QED
          BY <4>2 DEF l
      <3>4. (At + pos) - start = Len(c)
        BY <3>2, <3>3
      <3>5. Got(written'[part], c, Len(c))
        BY <1>10, <3>4, Zenon
      <3>6. body'[part].header = F /\ body'[part].content = c
        BY <1>3 DEF c
      <3> QED
        BY <2>2, <3>5, <3>6, Zenon DEF Done
    <2> QED
      BY <1>1, <1>11, <2>a, <2>1, <2>2 DEF Files
  <1>19. Outcome'
    BY <1>1, <1>2, <1>6 DEF Outcome
  <1> QED
    BY <1>12, <1>15, <1>17, <1>18, <1>19 DEF UpInv

\* DropData: it stops at the boundary behind the part.
LEMMA DropKeeps ==
    ASSUME BodiesFit, UpInv, NEW n, DropData(n), body' = body
    PROVE  UpInv'
  <1> DEFINE b == Filled(buf, n)
             pos == Pos(b)
             start == StartOf(body, part)
             stop == StopOf(body, part)
  <1>1. Kinds /\ Stream /\ Place /\ Files /\ Outcome
    BY DEF UpInv
  <1>2. /\ pc = "drop" /\ ReadContent(n)
        /\ written' = written
        /\ buf' = Shifted(b, pos)
        /\ pc' = (IF MatchBoundry(b) THEN "header" ELSE "drop")
        /\ part' = part /\ result' = result /\ refused' = refused
    BY DEF DropData
  <1>3. InPart /\ (body[part].header = F => At = stop)
    BY <1>1, <1>2 DEF Place
  <1>4. pc # "end"
    BY <1>2
  <1>5. /\ part \in 1..Len(body)
        /\ pos \in 0..buf.len + n
        /\ At + pos <= stop
        /\ MatchBoundry(b) => At + pos = stop /\ buf.len + n - pos >= 4
        /\ ~MatchBoundry(b) => /\ At + pos > start => buf.len + n - pos >= 2
                               /\ At = stop => pos = 0
    BY <1>1, <1>2, <1>3, <1>4, PartRead
  <1>6. /\ At \in Nat /\ buf.len \in Nat /\ n \in Nat
        /\ short => short'
        /\ short' \in BOOLEAN
    BY <1>1, <1>2, <1>4, Reading
  <1>7. start \in Nat /\ stop \in Nat
    BY <1>1, <1>5, Sent
  <1>8. start <= At
    BY <1>3 DEF InPart
  <1> HIDE DEF b, pos, start, stop
  <1>9. Stream' /\ At' = At + pos /\ buf'.len = buf.len + n - pos
    <2>1. buf' = Shifted(Filled(buf, n), pos) /\ pos \in 0..buf.len + n
      BY <1>2, <1>5 DEF b
    <2> QED
      BY <1>1, <1>2, <1>4, <2>1, Moving
  <1>10. StartOf(body', part') = start /\ StopOf(body', part') = stop
         /\ body'[part'] = body[part]
    BY <1>2 DEF start, stop
  <1>11. pos \in Nat /\ part # 0
    BY <1>5, <1>6
  <1>12. Kinds'
    <2>1. pc' \in {"header", "store", "drop", "end"}
      BY <1>2
    <2> QED
      BY <1>1, <1>2, <1>6, <2>1 DEF Kinds
  <1>13. ASSUME MatchBoundry(b) PROVE Place'
    <2>1. pc' = "header" /\ At' = stop /\ buf'.len >= 4
      BY <1>2, <1>5, <1>9, <1>13
    <2>2. Place'
      <3>1. pc' = "header" /\ part' # 0 /\ At' = StopOf(body', part') /\ buf'.len >= 4
        BY <1>2, <1>10, <1>11, <2>1
      <3>2. pc' # "store" /\ pc' # "drop"
        BY <2>1
      <3> QED
        BY <3>1, <3>2, Zenon DEF Place
    <2> QED
      BY <2>2
  <1>14. ASSUME ~MatchBoundry(b) PROVE Place'
    <2> DEFINE a == At
               z == buf.len + n - pos
    <2>1. At' = a + pos /\ buf'.len = z
      BY <1>9
    <2>2. a \in Nat /\ start <= a /\ a + pos <= stop
      BY <1>5, <1>6, <1>8
    <2>3. a + pos > start => z >= 2
      BY <1>5, <1>14
    <2>4. body[part].header = F => a = stop /\ pos = 0
      BY <1>3, <1>5, <1>14 DEF stop
    <2> HIDE DEF a, z
    <2>5. start <= a + pos
      BY <1>7, <1>11, <2>2
    <2>6. part' >= 1
      BY <1>2, <1>5
    <2>7. InPart' <=> /\ part' >= 1 /\ start <= At' /\ At' <= stop
                      /\ At' > start => buf'.len >= 2
      BY <1>10, Zenon DEF InPart
    <2>8. InPart'
      BY <2>1, <2>2, <2>3, <2>5, <2>6, <2>7, Zenon
    <2>9. body[part].header = F => At' = stop
      <3>1. a + 0 = a
        BY <2>2
      <3> QED
        BY <2>1, <2>4, <3>1, Zenon
    <2>10. pc' = "drop"
      BY <1>2, <1>14
    <2>11. Place'
      <3>1. pc' # "header" /\ pc' # "store"
        BY <2>10
      <3> QED
        BY <1>10, <2>8, <2>9, <2>10, <3>1, Zenon DEF Place
    <2> QED
      BY <2>11
  <1>15. Files'
    <2>1. pc # "store" /\ pc # "end"
      BY <1>2
    <2>2. \A i \in 1..Len(body) : Done(i) => Done(i)'
      BY <1>2 DEF Done
    <2> QED
      BY <1>1, <1>2, <2>1, <2>2, Zenon DEF Files
  <1>16. Outcome'
    BY <1>1, <1>2, <1>6 DEF Outcome
  <1> QED
    BY <1>9, <1>12, <1>13, <1>14, <1>15, <1>16 DEF UpInv

-----------------------------------------------------------------------------
(* The theorems.                                                           *)

\* At the beginning the buffer is empty, in front of the body.
LEMMA InitUp ==
    ASSUME Init
    PROVE  UpInv
  <1>1. /\ body \in Bodies /\ input = U
        /\ buf.cells = [i \in Cells |-> Garbage] /\ buf.len = 0
        /\ pc = "header" /\ part = 0
        /\ written = [i \in 1..Len(body) |-> << >>]
        /\ refused = FALSE /\ short = FALSE /\ result = "none"
    BY DEF Init, U
  <1>2. U \in Seq(Units) /\ Len(body) \in Nat
    <2>1. U \in Seq(Units)
      BY <1>1, EndsLayout DEF U
    <2>2. Len(body) \in Nat
      BY <1>1, UpLoadAssumption
    <2> QED
      BY <2>1, <2>2
  <1>3. Kinds
    <2>1. << >> \in Seq(Marked)
      OBVIOUS
    <2>2. 0 \in 0..Len(body)
      BY <1>2
    <2> QED
      BY <1>1, <2>1, <2>2 DEF Kinds
  <1>4. At = 0 /\ Len(U) - Len(input) = 0 /\ Len(U) \in Nat
    <2> DEFINE l == Len(U)
    <2>1. l \in Nat
      BY <1>2
    <2> HIDE DEF l
    <2>2. l - l = 0 /\ l - l - 0 = 0
      BY <2>1
    <2> QED
      BY <1>1, <2>1, <2>2 DEF At, l
  <1>5. Stream
    <2>1. IsBuffer(buf)
      BY <1>1, UpLoadAssumption, MarkUnits DEF IsBuffer
    <2>2. RestOf(input, U, 0)
      <3>1. Len(U) = 0 + Len(U) /\ \A k \in 1..Len(U) : 0 + k = k
        BY <1>4
      <3>2. 0 \in Nat
        OBVIOUS
      <3> QED
        BY <1>1, <1>2, <3>1, <3>2, Zenon DEF RestOf
    <2>3. Holds(buf, U, 0)
      <3>1. 0 + buf.len <= Len(U) /\ 0 \in Nat /\ \A k \in 0..buf.len - 1 : FALSE
        BY <1>1, <1>4
      <3> QED
        BY <2>1, <3>1 DEF Holds
    <2> QED
      BY <1>4, <2>1, <2>2, <2>3 DEF Stream
  <1>6. Place
    <2>1. \A i \in Cells : buf.cells[i] = Garbage
      BY <1>1
    <2>2. pc # "store" /\ pc # "drop"
      BY <1>1
    <2> QED
      BY <1>1, <1>4, <2>1, <2>2, Zenon DEF Place
  <1>7. Files
    <2> SUFFICES ASSUME NEW i \in 1..Len(body)
                 PROVE  ~(i < part) /\ written[i] = << >> /\ i # part
      BY Zenon DEF Files
    <2> QED
      BY <1>1, <1>2
  <1>8. Outcome
    BY <1>1 DEF Outcome
  <1> QED
    BY <1>3, <1>5, <1>6, <1>7, <1>8 DEF UpInv

\* The invariant holds whatever the bodies are, if the boundary is not in a
\* content and none begins with dashes.
LEMMA UpInvariant ==
    ASSUME BodiesFit
    PROVE  Spec => []UpInv
  <1>1. Init => UpInv
    BY InitUp
  <1>2. UpInv /\ [Next]_vars => UpInv'
    <2> SUFFICES ASSUME UpInv, [Next]_vars PROVE UpInv'
      OBVIOUS
    <2>1. CASE UNCHANGED vars
      BY <2>1 DEF vars, UpInv, Kinds, Stream, Place, Files, Done, Outcome, U, At, InPart
    <2>2. CASE Next
      <3>1. body' = body
        BY <2>2 DEF Next
      <3>2. CASE BoundaryOver
        BY <3>1, <3>2, OverKeeps
      <3>3. ASSUME NEW n \in 0..MAX_BUFF, GetBoundry(n) PROVE UpInv'
        BY <3>1, <3>3, HeaderKeeps
      <3>4. ASSUME NEW n \in 0..MAX_BUFF, StoreFile(n) PROVE UpInv'
        BY <3>1, <3>4, StoreKeeps
      <3>5. ASSUME NEW n \in 0..MAX_BUFF, DropData(n) PROVE UpInv'
        BY <3>1, <3>5, DropKeeps
      <3> QED
        BY <2>2, <3>2, <3>3, <3>4, <3>5 DEF Next
    <2> QED
      BY <2>1, <2>2
  <1> QED
    BY <1>1, <1>2, PTL DEF Spec
\* A piece at the end, from the back.
LEMMA RestIsSuffix ==
    ASSUME NEW u \in Seq(Units), NEW rest, RestOf(rest, u, Len(u) - Len(rest))
    PROVE  IsSuffix(rest, u)
  <1> DEFINE s == Reverse(rest)
             t == Reverse(u)
             l == Len(u)
             m == Len(rest)
  <1>1. /\ rest \in Seq(Units) /\ l - m \in Nat
        /\ \A k \in 1..m : rest[k] = u[(l - m) + k]
    BY DEF RestOf
  <1>2. l \in Nat /\ m \in Nat
    BY <1>1
  <1>3. s = [i \in 1..m |-> rest[(m - i) + 1]] /\ t = [i \in 1..l |-> u[(l - i) + 1]]
    BY DEF Reverse
  <1> HIDE DEF s, t, l, m
  <1>4. m <= l
    BY <1>1, <1>2
  <1>5. \A i \in 1..m : rest[(m - i) + 1] \in Units
    <2> SUFFICES ASSUME NEW i \in 1..m PROVE rest[(m - i) + 1] \in Units
      OBVIOUS
    <2>1. (m - i) + 1 \in 1..m
      BY <1>2
    <2>2. \A k \in 1..m : rest[k] \in Units
      BY <1>1 DEF m
    <2> QED
      BY <2>1, <2>2, Zenon
  <1>6. \A i \in 1..l : u[(l - i) + 1] \in Units
    <2> SUFFICES ASSUME NEW i \in 1..l PROVE u[(l - i) + 1] \in Units
      OBVIOUS
    <2>1. (l - i) + 1 \in 1..l
      BY <1>2
    <2>2. \A k \in 1..l : u[k] \in Units
      BY DEF l
    <2> QED
      BY <2>1, <2>2, Zenon
  <1>7. s \in Seq(Units) /\ Len(s) = m /\ \A i \in 1..m : s[i] = rest[(m - i) + 1]
    <2>1. s \in [1..m -> Units]
      BY <1>3, <1>5
    <2> QED
      BY <1>2, <1>3, <2>1
  <1>8. t \in Seq(Units) /\ Len(t) = l /\ \A i \in 1..l : t[i] = u[(l - i) + 1]
    <2>1. t \in [1..l -> Units]
      BY <1>3, <1>6
    <2> QED
      BY <1>2, <1>3, <2>1
  <1>9. ASSUME NEW k \in 1..m PROVE t[k] = s[k]
    <2>1. (m - k) + 1 \in 1..m /\ k \in 1..l /\ (l - m) + ((m - k) + 1) = (l - k) + 1
      BY <1>2, <1>4
    <2>2. rest[(m - k) + 1] = u[(l - m) + ((m - k) + 1)]
      BY <1>1, <2>1, Zenon
    <2> QED
      BY <1>7, <1>8, <2>1, <2>2
  <1>10. IsPrefix(s, t)
    <2>1. Len(s) <= Len(t) /\ \A k \in 1..Len(s) : t[k] = s[k]
      BY <1>4, <1>7, <1>8, <1>9
    <2> QED
      BY <1>7, <1>8, <2>1, PrefixUnits
  <1> QED
    BY <1>10 DEF IsSuffix, s, t

\* The program keeps to its types: what it has not read is an end of the body, and
\* the buffer is never filled beyond its length.
THEOREM TypeCorrect ==
    ASSUME BodiesFit
    PROVE  Spec => []TypeOK
  <1>1. UpInv => TypeOK
    <2> SUFFICES ASSUME UpInv PROVE TypeOK
      OBVIOUS
    <2>1. Kinds /\ Stream
      BY DEF UpInv
    <2>2. U \in Seq(Units)
      BY <2>1, Sent
    <2>3. IsSuffix(input, U)
      BY <2>1, <2>2, RestIsSuffix DEF Stream
    <2> QED
      BY <2>1, <2>3 DEF TypeOK, Kinds, Marked, Stream, IsBuffer, U
  <1> QED
    BY <1>1, UpInvariant, PTL

\* However the body is cut into reads and wherever the buffer ends, what is given
\* to write for a file is its own content from the beginning on (StoreFile and
\* MatchBoundry, upload.cpp:90-113 and 154-184).
THEOREM FilesInOrder ==
    ASSUME BodiesFit
    PROVE  Spec => []FileInOrder
  <1>1. UpInv => FileInOrder
    <2> SUFFICES ASSUME UpInv, NEW i \in 1..Len(body), written[i] # << >>
                 PROVE  body[i].header = F /\ BeginsAs(written[i], body[i].content)
      BY DEF FileInOrder
    <2> DEFINE c == body[i].content
    <2>1. Kinds /\ Stream /\ Place /\ Files
      BY DEF UpInv
    <2>2. c \in Seq(Units) /\ Len(c) \in Nat
      BY <2>1, Sent
    <2>3. part \in 0..Len(body) /\ Len(body) \in Nat
      BY <2>1, Sent DEF Kinds
    <2>4. ASSUME Done(i) PROVE body[i].header = F /\ BeginsAs(written[i], c)
      <3>1. body[i].header = F /\ Got(written[i], c, Len(c))
        BY <2>4 DEF Done
      <3> HIDE DEF c
      <3> QED
        BY <2>2, <3>1 DEF Got, BeginsAs
    <2>5. ASSUME i = part, pc = "store" PROVE body[i].header = F /\ BeginsAs(written[i], c)
      <3> DEFINE d == At - StartOf(body, part)
      <3>1. InPart /\ body[i].header = F /\ Got(written[i], c, d)
        BY <2>1, <2>5 DEF Place
      <3>2. d \in Nat /\ d <= Len(c)
        <4> DEFINE start == StartOf(body, part)
                   stop == StopOf(body, part)
                   l == Len(c)
        <4>1. start <= At /\ At <= stop /\ stop = start + l
          BY <2>5, <3>1 DEF InPart, StopOf
        <4>2. start \in Nat
          BY <2>1, <2>5, Sent
        <4>3. At \in Nat
          BY <2>1, <2>5 DEF Stream, Holds
        <4>4. l \in Nat
          BY <2>2
        <4> HIDE DEF start, stop, l, At
        <4>5. At - start \in Nat /\ At - start <= l
          BY <4>1, <4>2, <4>3, <4>4
        <4> QED
          BY <4>5 DEF start, l
      <3> HIDE DEF d, c
      <3> QED
        BY <3>1, <3>2 DEF Got, BeginsAs
    <2>6. i < part \/ i > part \/ i = part
      BY <2>3
    <2> QED
      BY <2>1, <2>4, <2>5, <2>6 DEF Files
  <1> QED
    BY <1>1, UpInvariant, PTL

\* When main prints success the content of every file has gone to write, and is
\* stored whole if write has taken all of it; open does not truncate
\* (upload.cpp:159), so no file that is there already may be longer.
THEOREM SuccessIsWhole ==
    ASSUME BodiesFit, OldFileCovered
    PROVE  Spec => []SuccessMeansWhole
  <1>1. UpInv => SuccessMeansWhole
    <2> SUFFICES ASSUME UpInv, result = "success", NEW i \in 1..Len(body)
                 PROVE  /\ body[i].header \in {F, H}
                        /\ body[i].header = F =>
                              /\ Len(written[i]) = Len(body[i].content)
                              /\ ~LostSome(i) => Stored(i) = body[i].content
      BY DEF SuccessMeansWhole
    <2> DEFINE c == body[i].content
               s == written[i]
    <2>1. Kinds /\ Files /\ Outcome
      BY DEF UpInv
    <2>2. c \in Seq(Units) /\ Len(body) \in Nat /\ body \in Bodies
      BY <2>1, Sent
    <2>3. pc = "end" /\ part = Len(body)
      BY <2>1 DEF Outcome
    <2>4. Done(i)
      <3>1. i < part \/ i = part
        BY <2>2, <2>3
      <3> QED
        BY <2>1, <2>3, <3>1 DEF Files
    <2>5. ASSUME body[i].header = F
          PROVE  Len(s) = Len(c) /\ (~LostSome(i) => Stored(i) = c)
      <3>1. Got(s, c, Len(c))
        BY <2>4, <2>5 DEF Done
      <3>2. Len(OldFile) <= Len(c)
        BY <2>2, <2>5 DEF OldFileCovered
      <3>3. LostSome(i) <=> \E k \in 1..Len(s) : s[k] = Lost
        BY DEF LostSome
      <3>4. Stored(i) = s \o SubSeq(OldFile, Len(s) + 1, Len(OldFile))
        BY DEF Stored
      <3> HIDE DEF c, s
      <3>5. /\ s \in Seq(Marked) /\ Len(s) = Len(c) /\ Len(c) \in Nat
            /\ \A k \in 1..Len(c) : s[k] \in {c[k], Lost}
        BY <2>2, <3>1 DEF Got
      <3>6. ASSUME ~LostSome(i) PROVE Stored(i) = c
        <4>1. \A k \in 1..Len(c) : s[k] = c[k]
          BY <3>3, <3>5, <3>6, Zenon
        <4>2. s = c
          BY <2>2, <3>5, <4>1
        <4>3. Len(c) \in Nat /\ OldFile \in Seq(Units) /\ Len(OldFile) \in Nat
          BY <3>5, UpLoadAssumption
        <4>4. SubSeq(OldFile, Len(c) + 1, Len(OldFile)) = << >>
          BY <3>2, <4>3
        <4>5. c \o << >> = c
          BY <2>2
        <4> QED
          BY <3>4, <4>2, <4>4, <4>5, Zenon
      <3> QED
        BY <3>5, <3>6
    <2> QED
      BY <2>4, <2>5 DEF Done
  <1> QED
    BY <1>1, UpInvariant, PTL

\* The program crashes only after a short read: GetBoundry reads but once
\* (upload.cpp:115).  It gives up only then, or because a file could not be
\* opened (l.160), or at a header without Content-Disposition (l.133).
THEOREM FailsForCause ==
    ASSUME BodiesFit
    PROVE  Spec => []FailsOnlyForCause
  <1>1. UpInv => FailsOnlyForCause
    BY DEF UpInv, Outcome, FailsOnlyForCause
  <1> QED
    BY <1>1, UpInvariant, PTL
=============================================================================
