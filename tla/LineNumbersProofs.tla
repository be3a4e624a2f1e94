-------------------------- MODULE LineNumbersProofs --------------------------
(***************************************************************************)
(* Proofs about LineNumbers: whatever the parts and the number, the loop   *)
(* of getPdfLineNumber names the right line.                               *)
(*                                                                         *)
(* The loop is a recursive function.  That it exists, and what it has      *)
(* counted after i parts, is shown by induction over a set of numbers,     *)
(* which the least element of a set of natural numbers gives.              *)
(***************************************************************************)
EXTENDS LineNumbers, FiniteSetTheorems, SequenceTheorems, WellFoundedInduction, TLAPS

-----------------------------------------------------------------------------
(* Induction over a set.                                                   *)

\* A set of natural numbers has a least element.
LEMMA LeastElement ==
    ASSUME NEW T, T \subseteq Nat, T # {}
    PROVE  \E m \in T : \A k \in T : m <= k
<1> DEFINE R == {ss \in Nat \X Nat : ss[1] < ss[2]}
<1>1. IsWellFoundedOn(R, Nat)
  BY NatLessThanWellFounded DEF OpToRel
<1>2. PICK m \in T : \A k \in T : ~ (<<k, m>> \in R)
  <2> HIDE DEF R
  <2> QED
    BY <1>1, WFMin
<1>3. \A k \in T : ~ (k < m)
  BY <1>2
<1> QED
  BY <1>2, <1>3

\* A set that holds 0, and the successor of everything in it up to N, holds
\* the numbers up to N.
LEMMA UpTo ==
    ASSUME NEW N \in Nat, NEW T, 0 \in T,
           \A i \in 1 .. N : i - 1 \in T => i \in T
    PROVE  \A i \in 0 .. N : i \in T
<1> SUFFICES ASSUME NEW j \in 0 .. N, j \notin T
             PROVE  FALSE
  OBVIOUS
<1> DEFINE Missing == {i \in 0 .. N : i \notin T}
<1>1. Missing \subseteq Nat /\ Missing # {}
  OBVIOUS
<1>2. PICK m \in Missing : \A k \in Missing : m <= k
  <2> HIDE DEF Missing
  <2> QED
    BY <1>1, LeastElement
<1>3. m \in 1 .. N /\ m \notin T
  BY <1>2
<1>4. m - 1 \in 0 .. N /\ ~ (m <= m - 1)
  BY <1>3
<1>5. m - 1 \in T
  BY <1>2, <1>4
<1> QED
  BY <1>3, <1>5

-----------------------------------------------------------------------------
(* The loop.                                                               *)

Start == [at |-> "before", pdf |-> 0, std |-> 0]

Rounds(parts, n, h, m) ==
    /\ h[0] = Start
    /\ \A i \in 1 .. m : h[i] = Count(h[i - 1], parts[i], n)

\* What the loop counts is defined after any number of parts.
LEMMA RoundsExist ==
    ASSUME NEW parts, NEW n, NEW N \in Nat
    PROVE  \E h : Rounds(parts, n, h, N)
<1> DEFINE T == {m \in 0 .. N : \E h : Rounds(parts, n, h, m)}
<1>1. 0 \in T
  <2>1. Rounds(parts, n, [i \in {0} |-> Start], 0)
    BY DEF Rounds
  <2> QED
    BY <2>1
<1>2. ASSUME NEW m \in 1 .. N, m - 1 \in T
      PROVE  m \in T
  <2>1. PICK h : Rounds(parts, n, h, m - 1)
    BY <1>2
  <2> DEFINE g == [i \in 0 .. m |-> IF i = m THEN Count(h[m - 1], parts[m], n) ELSE h[i]]
  <2>2. g[0] = Start
    BY <2>1 DEF Rounds
  <2>3. \A i \in 1 .. m : g[i] = Count(g[i - 1], parts[i], n)
    <3> TAKE i \in 1 .. m
    <3>1. g[i - 1] = h[i - 1]
      OBVIOUS
    <3> QED
      BY <2>1, <3>1 DEF Rounds
  <2> HIDE DEF g
  <2>4. Rounds(parts, n, g, m)
    BY <2>2, <2>3 DEF Rounds
  <2> QED
    BY <2>4
<1> HIDE DEF T
<1>3. N \in T
  BY <1>1, <1>2, UpTo
<1> QED
  BY <1>3 DEF T

\* The loop begins with nothing counted and takes one part after the other.
LEMMA CountsRounds ==
    ASSUME NEW S, NEW parts \in Seq(S), NEW n
    PROVE  Rounds(parts, n, Counts(parts, n), Len(parts))
<1> DEFINE N == Len(parts)
           Body(h) == [i \in 0 .. N |->
                          IF i = 0 THEN [at |-> "before", pdf |-> 0, std |-> 0]
                                   ELSE Count(h[i - 1], parts[i], n)]
<1>1. N \in Nat
  BY LenProperties
<1>2. PICK h : Rounds(parts, n, h, N)
  BY <1>1, RoundsExist
<1> DEFINE g == [i \in 0 .. N |-> h[i]]
<1>3. g = Body(g)
  <2>1. ASSUME NEW i \in 0 .. N
        PROVE  h[i] = IF i = 0 THEN [at |-> "before", pdf |-> 0, std |-> 0]
                               ELSE Count(g[i - 1], parts[i], n)
    <3>1. CASE i = 0
      BY <1>2, <3>1 DEF Rounds, Start
    <3>2. CASE i # 0
      <4>1. i \in 1 .. N /\ i - 1 \in 0 .. N
        BY <1>1, <3>2
      <4>2. g[i - 1] = h[i - 1]
        BY <4>1
      <4> QED
        BY <1>2, <3>2, <4>1, <4>2 DEF Rounds
    <3> QED
      BY <3>1, <3>2
  <2> QED
    BY <2>1, Zenon
<1>4. Counts(parts, n) = Body(Counts(parts, n))
  <2>1. \E f : f = Body(f)
    BY <1>3
  <2> QED
    BY <2>1, Zenon DEF Counts
<1> HIDE DEF g
<1>5. Counts(parts, n)[0] = Start
  BY <1>1, <1>4 DEF Start
<1>6. ASSUME NEW i \in 1 .. N
      PROVE  Counts(parts, n)[i] = Count(Counts(parts, n)[i - 1], parts[i], n)
  <2>1. i \in 0 .. N /\ i # 0
    BY <1>1
  <2> QED
    BY <1>4, <2>1
<1> QED
  BY <1>5, <1>6 DEF Rounds

-----------------------------------------------------------------------------
(* Lines.                                                                  *)

LEMMA PartProperties ==
    ASSUME NEW parts \in Seq(Part)
    PROVE  /\ Len(parts) \in Nat
           /\ DOMAIN parts = 1 .. Len(parts)
           /\ \A i \in 1 .. Len(parts) : /\ parts[i] \in Part
                                         /\ parts[i].type \in Markers
                                         /\ parts[i].lines \in Nat
<1>1. Len(parts) \in Nat /\ DOMAIN parts = 1 .. Len(parts)
  BY LenProperties
<1>2. \A i \in 1 .. Len(parts) : parts[i] \in Part
  BY <1>1, ElementOfSeq
<1>3. \A p \in Part : p.type \in Markers /\ p.lines \in Nat
  BY DEF Part
<1> QED
  BY <1>1, <1>2, <1>3

\* The first k lines of the part i.
LEMMA BlockProperties ==
    ASSUME NEW i \in Nat, NEW k \in Nat
    PROVE  /\ IsFiniteSet({i} \X (1 .. k))
           /\ Cardinality({i} \X (1 .. k)) = k
<1>1. IsFiniteSet({i}) /\ Cardinality({i}) = 1
  BY FS_Singleton
<1>2. IsFiniteSet(1 .. k) /\ Cardinality(1 .. k) = k
  BY FS_Interval
<1>3. IsFiniteSet({i} \X (1 .. k))
      /\ Cardinality({i} \X (1 .. k)) = Cardinality({i}) * Cardinality(1 .. k)
  BY <1>1, <1>2, FS_Product
<1> QED
  BY <1>1, <1>2, <1>3

LEMMA LineProperties ==
    ASSUME NEW parts \in Seq(Part), NEW types
    PROVE  /\ \A i \in 1 .. Len(parts) : \A k \in 1 .. parts[i].lines :
                 parts[i].type \in types => <<i, k>> \in LinesOf(parts, types)
           /\ \A l \in LinesOf(parts, types) :
                 /\ l[1] \in 1 .. Len(parts)
                 /\ l[2] \in 1 .. parts[l[1]].lines
                 /\ parts[l[1]].type \in types
                 /\ l = <<l[1], l[2]>>
           /\ IsFiniteSet(LinesOf(parts, types))
<1> DEFINE I == {j \in DOMAIN parts : parts[j].type \in types}
           L(i) == {i} \X (1 .. parts[i].lines)
           F == {L(i) : i \in I}
           f == [i \in I |-> L(i)]
<1>1. LinesOf(parts, types) = UNION F
  BY DEF LinesOf
<1>2. /\ I \subseteq 1 .. Len(parts)
      /\ Len(parts) \in Nat
      /\ \A i \in I : parts[i].type \in types
      /\ \A i \in 1 .. Len(parts) : parts[i].type \in types => i \in I
  BY PartProperties
<1>3. IsFiniteSet(I)
  BY <1>2, FS_Interval, FS_Subset
<1>4. ASSUME NEW i \in I
      PROVE  IsFiniteSet(L(i))
  <2>1. i \in Nat /\ parts[i].lines \in Nat
    BY <1>2, PartProperties
  <2> QED
    BY <2>1, BlockProperties
<1> HIDE DEF I
<1>5. ASSUME NEW i \in 1 .. Len(parts), NEW k \in 1 .. parts[i].lines,
             parts[i].type \in types
      PROVE  <<i, k>> \in LinesOf(parts, types)
  <2>1. i \in I
    BY <1>2, <1>5
  <2>2. <<i, k>> \in L(i)
    OBVIOUS
  <2> QED
    BY <1>1, <2>1, <2>2
<1>6. ASSUME NEW l \in LinesOf(parts, types)
      PROVE  /\ l[1] \in 1 .. Len(parts)
             /\ l[2] \in 1 .. parts[l[1]].lines
             /\ parts[l[1]].type \in types
             /\ l = <<l[1], l[2]>>
  <2>1. PICK i \in I : l \in L(i)
    BY <1>1, <1>6
  <2>2. PICK k \in 1 .. parts[i].lines : l = <<i, k>>
    BY <2>1
  <2>3. l[1] = i /\ l[2] = k
    BY <2>2
  <2> QED
    BY <1>2, <2>2, <2>3
<1> HIDE DEF L
<1>7. f \in Surjection(I, F)
  BY DEF Surjection
<1>8. IsFiniteSet(F)
  BY <1>3, <1>7, FS_Surjection
<1>9. IsFiniteSet(UNION F)
  BY <1>4, <1>8, FS_UNION
<1> QED
  BY <1>1, <1>5, <1>6, <1>9

\* The lines of the parts up to j, and how many they are.
LinesUpTo(parts, types, j) == {l \in LinesOf(parts, types) : l[1] <= j}
Total(parts, types, j)     == Cardinality(LinesUpTo(parts, types, j))

LEMMA TotalType ==
    ASSUME NEW parts \in Seq(Part), NEW types, NEW j \in Nat
    PROVE  /\ IsFiniteSet(LinesUpTo(parts, types, j))
           /\ Total(parts, types, j) \in Nat
<1>1. IsFiniteSet(LinesOf(parts, types))
  BY LineProperties
<1>2. LinesUpTo(parts, types, j) \in SUBSET LinesOf(parts, types)
  BY DEF LinesUpTo
<1> QED
  BY <1>1, <1>2, FS_Subset, FS_CardinalityType DEF Total

LEMMA TotalGrows ==
    ASSUME NEW parts \in Seq(Part), NEW types, NEW j \in Nat, NEW i \in 0 .. j
    PROVE  Total(parts, types, i) <= Total(parts, types, j)
<1>1. \A l \in LinesOf(parts, types) : l[1] \in Nat
  BY LineProperties, PartProperties
<1>2. LinesUpTo(parts, types, i) \in SUBSET LinesUpTo(parts, types, j)
  BY <1>1 DEF LinesUpTo
<1> QED
  BY <1>2, TotalType, FS_Subset DEF Total

\* No lines before the first part, all of them after the last one.
LEMMA TotalEnds ==
    ASSUME NEW parts \in Seq(Part), NEW types
    PROVE  /\ Total(parts, types, 0) = 0
           /\ Total(parts, types, Len(parts)) = Cardinality(LinesOf(parts, types))
<1>1. \A l \in LinesOf(parts, types) : l[1] \in 1 .. Len(parts)
  BY LineProperties
<1>2. LinesUpTo(parts, types, 0) = {}
  BY <1>1 DEF LinesUpTo
<1>3. LinesUpTo(parts, types, Len(parts)) = LinesOf(parts, types)
  BY <1>1, PartProperties DEF LinesUpTo
<1> QED
  BY <1>2, <1>3, FS_EmptySet DEF Total

\* The lines up to the k-th line of part i.
LEMMA TotalWithin ==
    ASSUME NEW parts \in Seq(Part), NEW types, NEW i \in 1 .. Len(parts), NEW k \in Nat
    PROVE  Cardinality(LinesUpTo(parts, types, i - 1) \cup ({i} \X (1 .. k)))
              = Total(parts, types, i - 1) + k
<1> DEFINE A == LinesUpTo(parts, types, i - 1)
           B == {i} \X (1 .. k)
<1>1. i - 1 \in Nat /\ i \in Nat
  BY PartProperties
<1>2. IsFiniteSet(A) /\ Cardinality(A) \in Nat
  BY <1>1, TotalType DEF Total
<1>3. IsFiniteSet(B) /\ Cardinality(B) = k
  BY <1>1, BlockProperties
<1>4. A \cap B = {}
  <2>1. \A l \in A : l[1] <= i - 1
    BY DEF LinesUpTo
  <2>2. \A l \in B : l[1] = i
    OBVIOUS
  <2>3. ~ (i <= i - 1)
    BY <1>1
  <2> HIDE DEF A, B
  <2>4. \A l \in A : l \notin B
    BY <2>1, <2>2, <2>3
  <2> QED
    BY <2>4
<1> HIDE DEF A, B
<1>5. Cardinality(A \cup B) = Cardinality(A) + Cardinality(B) - 0
  BY <1>2, <1>3, <1>4, FS_Union, FS_EmptySet
<1> QED
  BY <1>2, <1>3, <1>5 DEF A, B, Total

LEMMA TotalStep ==
    ASSUME NEW parts \in Seq(Part), NEW types, NEW i \in 1 .. Len(parts)
    PROVE  Total(parts, types, i) =
              Total(parts, types, i - 1) + (IF parts[i].type \in types THEN parts[i].lines ELSE 0)
<1>0. i - 1 \in Nat /\ i \in Nat /\ parts[i].lines \in Nat
  BY PartProperties
<1>1. CASE parts[i].type \in types
  <2>1. ASSUME NEW l
        PROVE  l \in LinesUpTo(parts, types, i)
                  <=> l \in LinesUpTo(parts, types, i - 1) \cup ({i} \X (1 .. parts[i].lines))
    <3>1. ASSUME l \in LinesOf(parts, types), l[1] <= i, ~ (l[1] <= i - 1)
          PROVE  l \in {i} \X (1 .. parts[i].lines)
      <4>1. l[1] \in 1 .. Len(parts) /\ l[2] \in 1 .. parts[l[1]].lines /\ l = <<l[1], l[2]>>
        BY <3>1, LineProperties
      <4>2. l[1] = i
        BY <1>0, <3>1, <4>1, PartProperties
      <4> QED
        BY <4>1, <4>2
    <3>2. ASSUME l \in {i} \X (1 .. parts[i].lines)
          PROVE  l \in LinesOf(parts, types) /\ l[1] <= i
      <4>1. PICK k \in 1 .. parts[i].lines : l = <<i, k>>
        BY <3>2
      <4>2. <<i, k>> \in LinesOf(parts, types)
        BY <1>1, LineProperties
      <4> QED
        BY <1>0, <4>1, <4>2
    <3>3. ASSUME l \in LinesOf(parts, types), l[1] <= i - 1
          PROVE  l[1] <= i
      <4>1. l[1] \in 1 .. Len(parts)
        BY <3>3, LineProperties
      <4> QED
        BY <1>0, <3>3, <4>1, PartProperties
    <3> QED
      BY <3>1, <3>2, <3>3 DEF LinesUpTo
  <2>2. LinesUpTo(parts, types, i)
           = LinesUpTo(parts, types, i - 1) \cup ({i} \X (1 .. parts[i].lines))
    BY <2>1
  <2> QED
    BY <1>0, <1>1, <2>2, TotalWithin DEF Total
<1>2. CASE parts[i].type \notin types
  <2>1. ASSUME NEW l \in LinesOf(parts, types)
        PROVE  l[1] <= i <=> l[1] <= i - 1
    <3>1. l[1] \in 1 .. Len(parts) /\ l[1] # i
      BY <1>2, LineProperties
    <3> QED
      BY <1>0, <3>1, PartProperties
  <2>2. LinesUpTo(parts, types, i) = LinesUpTo(parts, types, i - 1)
    BY <2>1 DEF LinesUpTo
  <2> QED
    BY <1>0, <1>2, <2>2, TotalType DEF Total
<1> QED
  BY <1>1, <1>2

\* The number of a line: the lines of the parts before, and its position.
LEMMA PlaceOfLine ==
    ASSUME NEW parts \in Seq(Part), NEW types, NEW l \in LinesOf(parts, types)
    PROVE  Place(parts, types, l) = Total(parts, types, l[1] - 1) + l[2]
<1> DEFINE i == l[1]
           k == l[2]
<1>1. i \in 1 .. Len(parts) /\ k \in 1 .. parts[i].lines /\ parts[i].type \in types
      /\ Len(parts) \in Nat /\ parts[i].lines \in Nat
  BY LineProperties, PartProperties
<1>2. ASSUME NEW m
      PROVE  m \in LinesOf(parts, types) /\ NotAfter(m, l)
                <=> m \in LinesUpTo(parts, types, i - 1) \cup ({i} \X (1 .. k))
  <2>1. ASSUME m \in LinesOf(parts, types)
        PROVE  /\ m[1] < i <=> m[1] <= i - 1
               /\ m[1] = i /\ m[2] <= k <=> m \in {i} \X (1 .. k)
    <3>1. m[1] \in 1 .. Len(parts) /\ m[2] \in 1 .. parts[m[1]].lines /\ m = <<m[1], m[2]>>
          /\ parts[m[1]].lines \in Nat
      BY <2>1, LineProperties, PartProperties
    <3>2. m[1] < i <=> m[1] <= i - 1
      BY <1>1, <3>1
    <3>3. ASSUME m[1] = i, m[2] <= k
          PROVE  m \in {i} \X (1 .. k)
      <4>1. m[2] \in 1 .. k
        BY <1>1, <3>1, <3>3
      <4> QED
        BY <3>1, <3>3, <4>1
    <3>4. ASSUME m \in {i} \X (1 .. k)
          PROVE  m[1] = i /\ m[2] <= k
      BY <3>4
    <3> QED
      BY <3>2, <3>3, <3>4
  <2>2. ASSUME m \in {i} \X (1 .. k)
        PROVE  m \in LinesOf(parts, types)
    <3>1. PICK q \in 1 .. k : m = <<i, q>>
      BY <2>2
    <3>2. q \in 1 .. parts[i].lines
      BY <1>1
    <3> HIDE DEF i
    <3>3. <<i, q>> \in LinesOf(parts, types)
      BY <1>1, <3>2, LineProperties
    <3> QED
      BY <3>1, <3>3
  <2> QED
    BY <2>1, <2>2 DEF LinesUpTo, NotAfter
<1>3. {m \in LinesOf(parts, types) : NotAfter(m, l)}
         = LinesUpTo(parts, types, i - 1) \cup ({i} \X (1 .. k))
  BY <1>2
<1>4. k \in Nat
  BY <1>1
<1> HIDE DEF i, k
<1>5. Place(parts, types, l) = Total(parts, types, i - 1) + k
  BY <1>1, <1>3, <1>4, TotalWithin DEF Place
<1> QED
  BY <1>5 DEF i, k

-----------------------------------------------------------------------------
(* What the loop has found after j parts.                                  *)

\* The n-th line is one of part i.
Within(parts, types, n, i) ==
    /\ Total(parts, types, i - 1) < n
    /\ n <= Total(parts, types, i)

\* While it is still searching it has counted the lines so far; then it knows
\* the part the line is in.
Found(parts, n, acc, j) ==
    \/ /\ acc = [at |-> "before", pdf |-> Total(parts, PrintedTypes, j),
                 std |-> Total(parts, CompiledTypes, j)]
       /\ Total(parts, CompiledTypes, j) < n
    \/ \E i \in 1 .. j :
          /\ Within(parts, CompiledTypes, n, i)
          /\ parts[i].type \in PrintedTypes
          /\ acc.at = "hit"
          /\ acc.std = Total(parts, CompiledTypes, i)
          /\ acc.pdf = Total(parts, PrintedTypes, i - 1)
                          + n - Total(parts, CompiledTypes, i - 1)
    \/ \E i \in 1 .. j :
          /\ Within(parts, CompiledTypes, n, i)
          /\ parts[i].type = "hidden"
          /\ acc.at = "hidden"

LEMMA FoundStep ==
    ASSUME NEW parts \in Seq(Part), NEW n \in Nat \ {0}, NEW j \in 1 .. Len(parts),
           NEW acc, Found(parts, n, acc, j - 1)
    PROVE  Found(parts, n, Count(acc, parts[j], n), j)
<1> DEFINE p  == parts[j]
           c0 == Total(parts, CompiledTypes, j - 1)
           c1 == Total(parts, CompiledTypes, j)
           p0 == Total(parts, PrintedTypes, j - 1)
           p1 == Total(parts, PrintedTypes, j)
<1>1. /\ p.type \in Markers /\ p.lines \in Nat
      /\ j - 1 \in Nat /\ j \in Nat
  BY PartProperties
<1>2. c0 \in Nat /\ p0 \in Nat
  BY <1>1, TotalType
<1>3. /\ c1 = c0 + (IF p.type \in CompiledTypes THEN p.lines ELSE 0)
      /\ p1 = p0 + (IF p.type \in PrintedTypes THEN p.lines ELSE 0)
  BY TotalStep
<1>4. /\ p.type = "test" => p.type \notin CompiledTypes /\ p.type \notin PrintedTypes
      /\ p.type = "hidden" => p.type \in CompiledTypes /\ p.type \notin PrintedTypes
      /\ p.type \notin {"test", "hidden"}
            => p.type \in CompiledTypes /\ p.type \in PrintedTypes
  BY <1>1 DEF CompiledTypes, PrintedTypes, Markers
<1>5. CASE acc.at # "before"
  <2>1. Count(acc, p, n) = acc
    BY <1>5 DEF Count
  <2>2. ~ (/\ acc = [at |-> "before", pdf |-> p0, std |-> c0]
           /\ c0 < n)
    BY <1>5
  <2>3. \A i \in 1 .. j - 1 : i \in 1 .. j
    BY <1>1
  <2> HIDE DEF p, c0, p0
  <2>4. \/ \E i \in 1 .. j - 1 :
              /\ Within(parts, CompiledTypes, n, i)
              /\ parts[i].type \in PrintedTypes
              /\ acc.at = "hit"
              /\ acc.std = Total(parts, CompiledTypes, i)
              /\ acc.pdf = Total(parts, PrintedTypes, i - 1)
                              + n - Total(parts, CompiledTypes, i - 1)
        \/ \E i \in 1 .. j - 1 :
              /\ Within(parts, CompiledTypes, n, i)
              /\ parts[i].type = "hidden"
              /\ acc.at = "hidden"
    BY <2>2 DEF Found, c0, p0
  <2>5. Found(parts, n, acc, j)
    BY <2>3, <2>4 DEF Found
  <2> QED
    BY <2>1, <2>5 DEF p
<1>6. CASE acc.at = "before"
  <2>1. acc = [at |-> "before", pdf |-> p0, std |-> c0] /\ c0 < n
    BY <1>6 DEF Found
  <2> DEFINE a == Count(acc, p, n)
  <2>2. CASE p.type = "test"
    <3>1. a = acc
      BY <2>2 DEF Count
    <3>2. c1 = c0 /\ p1 = p0
      BY <1>2, <1>3, <1>4, <2>2
    <3> HIDE DEF a, c0, c1, p0, p1, p
    <3>3. a = [at |-> "before", pdf |-> p1, std |-> c1] /\ c1 < n
      BY <2>1, <3>1, <3>2
    <3> QED
      BY <3>3 DEF Found, a, p, c1, p1
  <2>3. CASE p.type # "test" /\ ~Reaches(acc.std, p, n)
    <3>1. a = [acc EXCEPT !.pdf = acc.pdf + Printed(p), !.std = acc.std + p.lines]
      BY <1>6, <2>3 DEF Count
    <3>2. p1 = p0 + Printed(p) /\ c1 = c0 + p.lines
      BY <1>2, <1>3, <1>4, <2>3 DEF Printed
    <3>3. ~ (p.lines + c0 >= n)
      BY <2>1, <2>3 DEF Reaches
    <3>4. c1 < n
      BY <1>1, <1>2, <3>2, <3>3
    <3> HIDE DEF a, c0, c1, p0, p1, p
    <3>5. a = [at |-> "before", pdf |-> p1, std |-> c1]
      BY <2>1, <3>1, <3>2
    <3> QED
      BY <3>4, <3>5 DEF Found, a, p, c1, p1
  <2>4. CASE p.type # "test" /\ Reaches(acc.std, p, n)
    <3>1. p.lines + c0 >= n
      BY <2>1, <2>4 DEF Reaches
    <3>2. c1 = c0 + p.lines
      BY <1>3, <1>4, <2>4
    <3>3. Within(parts, CompiledTypes, n, j)
      BY <1>1, <1>2, <2>1, <3>1, <3>2 DEF Within
    <3>4. j \in 1 .. j
      BY <1>1
    <3>5. CASE p.type = "hidden"
      <4>1. a = [acc EXCEPT !.at = "hidden"]
        BY <1>6, <2>4, <3>5 DEF Count
      <4>2. a.at = "hidden"
        BY <2>1, <4>1
      <4> HIDE DEF a
      <4> QED
        BY <3>3, <3>4, <3>5, <4>2 DEF Found, a
    <3>6. CASE p.type # "hidden"
      <4>1. a = [at |-> "hit", pdf |-> acc.pdf + n - acc.std, std |-> acc.std + p.lines]
        BY <1>6, <2>4, <3>6 DEF Count
      <4>2. acc.pdf = p0 /\ acc.std = c0
        BY <2>1
      <4>3. p.type \in PrintedTypes
        BY <1>4, <2>4, <3>6
      <4> HIDE DEF a
      <4>4. a.at = "hit" /\ a.std = c1 /\ a.pdf = p0 + n - c0
        BY <3>2, <4>1, <4>2
      <4> QED
        BY <3>3, <3>4, <4>3, <4>4 DEF Found, a
    <3> QED
      BY <3>5, <3>6
  <2> QED
    BY <2>2, <2>3, <2>4
<1> QED
  BY <1>5, <1>6

LEMMA FoundAfterAll ==
    ASSUME NEW parts \in Seq(Part), NEW n \in Nat \ {0}
    PROVE  Found(parts, n, Counts(parts, n)[Len(parts)], Len(parts))
<1> DEFINE N == Len(parts)
           T == {j \in 0 .. N : Found(parts, n, Counts(parts, n)[j], j)}
<1>1. N \in Nat
  BY LenProperties
<1>2. Rounds(parts, n, Counts(parts, n), N)
  BY CountsRounds
<1>3. 0 \in T
  <2>1. Total(parts, CompiledTypes, 0) = 0 /\ Total(parts, PrintedTypes, 0) = 0
    BY TotalEnds
  <2>2. Counts(parts, n)[0] = [at |-> "before", pdf |-> 0, std |-> 0]
    BY <1>2 DEF Rounds, Start
  <2>3. Found(parts, n, Counts(parts, n)[0], 0)
    BY <2>1, <2>2 DEF Found
  <2> QED
    BY <1>1, <2>3
<1>4. ASSUME NEW j \in 1 .. N, j - 1 \in T
      PROVE  j \in T
  <2>1. Found(parts, n, Counts(parts, n)[j - 1], j - 1)
    BY <1>4
  <2>2. Counts(parts, n)[j] = Count(Counts(parts, n)[j - 1], parts[j], n)
    BY <1>2 DEF Rounds
  <2>3. Found(parts, n, Counts(parts, n)[j], j)
    BY <2>1, <2>2, FoundStep
  <2> QED
    BY <1>1, <2>3
<1> HIDE DEF T
<1>5. \A j \in 1 .. N : j - 1 \in T => j \in T
  BY <1>4
<1>6. \A j \in 0 .. N : j \in T
  BY <1>1, <1>3, <1>5, UpTo
<1>7. N \in T
  BY <1>1, <1>6
<1> QED
  BY <1>7 DEF T

\* Which part a line is in, from its number.
LEMMA LineWithin ==
    ASSUME NEW parts \in Seq(Part), NEW types, NEW n \in Nat \ {0},
           NEW l \in LinesOf(parts, types), Place(parts, types, l) = n,
           NEW i \in 1 .. Len(parts), Within(parts, types, n, i)
    PROVE  l[1] = i /\ n = Total(parts, types, i - 1) + l[2]
<1> DEFINE a == l[1]
           k == l[2]
           C(j) == Total(parts, types, j)
<1>1. /\ a \in 1 .. Len(parts) /\ Len(parts) \in Nat
      /\ k \in 1 .. parts[a].lines /\ parts[a].lines \in Nat
      /\ parts[a].type \in types
  BY LineProperties, PartProperties
<1>2. n = C(a - 1) + k
  BY PlaceOfLine
<1>3. C(a) = C(a - 1) + parts[a].lines
  BY <1>1, TotalStep
<1>4. \A x \in 0 .. Len(parts) : C(x) \in Nat
  BY TotalType
<1>5. \A y \in Nat : \A x \in 0 .. y : C(x) <= C(y)
  BY TotalGrows
<1>6. C(i - 1) < n /\ n <= C(i)
  BY DEF Within
<1> HIDE DEF C, a, k
<1>7. /\ a - 1 \in 0 .. Len(parts) /\ a \in 0 .. Len(parts)
      /\ i - 1 \in 0 .. Len(parts) /\ i \in 0 .. Len(parts)
  BY <1>1
<1>8. C(a - 1) < n /\ n <= C(a)
  <2>1. C(a - 1) \in Nat
    BY <1>4, <1>7
  <2> QED
    BY <2>1, <1>1, <1>2, <1>3
<1>9. ASSUME a < i
      PROVE  FALSE
  <2>1. C(a) <= C(i - 1)
    <3>1. i - 1 \in Nat /\ a \in 0 .. i - 1
      BY <1>1, <1>9
    <3> QED
      BY <3>1, <1>5
  <2>2. C(a) \in Nat /\ C(i - 1) \in Nat
    BY <1>4, <1>7
  <2> QED
    BY <1>6, <1>8, <2>1, <2>2
<1>10. ASSUME i < a
       PROVE  FALSE
  <2>1. C(i) <= C(a - 1)
    <3>1. a - 1 \in Nat /\ i \in 0 .. a - 1
      BY <1>1, <1>10
    <3> QED
      BY <3>1, <1>5
  <2>2. C(i) \in Nat /\ C(a - 1) \in Nat
    BY <1>4, <1>7
  <2> QED
    BY <1>6, <1>8, <2>1, <2>2
<1>11. a = i
  BY <1>1, <1>9, <1>10
<1> QED
  BY <1>2, <1>11 DEF a, k, C

\* The lines are numbered from 1 to their number, each once.
THEOREM LinesNumbered ==
    ASSUME NEW parts \in Seq(Part), NEW types,
           NEW n \in 1 .. Cardinality(LinesOf(parts, types))
    PROVE  \E l \in LinesOf(parts, types) :
              \A m \in LinesOf(parts, types) : Place(parts, types, m) = n <=> m = l
<1> DEFINE N == Len(parts)
           C(j) == Total(parts, types, j)
           T == {j \in 0 .. N : n <= C(j)}
<1>1. N \in Nat /\ n \in Nat \ {0}
  BY LineProperties, PartProperties, FS_CardinalityType
<1>2. C(0) = 0 /\ C(N) = Cardinality(LinesOf(parts, types))
  BY TotalEnds
<1>3. \A j \in 0 .. N : C(j) \in Nat
  BY TotalType
<1> HIDE DEF C
<1>4. T \subseteq Nat /\ T # {}
  <2>1. N \in T
    BY <1>1, <1>2, <1>3
  <2> QED
    BY <2>1
<1>5. PICK i \in T : \A j \in T : i <= j
  <2> HIDE DEF T
  <2> QED
    BY <1>4, LeastElement
<1>6. i \in 1 .. N
  <2>1. i # 0
    BY <1>1, <1>2, <1>5
  <2> QED
    BY <1>1, <1>5, <2>1
<1>7. i - 1 \in 0 .. N /\ i - 1 \notin T
  BY <1>1, <1>5, <1>6
<1>8. C(i - 1) < n /\ n <= C(i) /\ C(i - 1) \in Nat
  BY <1>1, <1>3, <1>5, <1>7
<1> HIDE DEF T
<1>9. Within(parts, types, n, i)
  BY <1>8 DEF Within, C
<1>10. parts[i].type \in types /\ C(i) = C(i - 1) + parts[i].lines
  <2>1. C(i) = C(i - 1) + (IF parts[i].type \in types THEN parts[i].lines ELSE 0)
    BY <1>6, TotalStep DEF C
  <2>2. CASE parts[i].type \in types
    BY <2>1, <2>2
  <2>3. CASE parts[i].type \notin types
    BY <1>1, <1>8, <2>1, <2>3
  <2> QED
    BY <2>2, <2>3
<1> DEFINE k == n - C(i - 1)
<1>11. k \in 1 .. parts[i].lines
  <2>1. parts[i].lines \in Nat
    BY <1>6, PartProperties
  <2> QED
    BY <1>1, <1>8, <1>10, <2>1
<1>12. n = C(i - 1) + k
  BY <1>1, <1>8
<1> HIDE DEF k
<1>13. <<i, k>> \in LinesOf(parts, types)
  BY <1>6, <1>10, <1>11, LineProperties
<1>14. Place(parts, types, <<i, k>>) = n
  <2>1. <<i, k>>[1] = i /\ <<i, k>>[2] = k
    OBVIOUS
  <2> QED
    BY <1>12, <1>13, <2>1, PlaceOfLine DEF C
<1>15. ASSUME NEW m \in LinesOf(parts, types), Place(parts, types, m) = n
       PROVE  m = <<i, k>>
  <2>1. m[1] = i /\ n = C(i - 1) + m[2]
    BY <1>1, <1>6, <1>9, <1>15, LineWithin DEF C
  <2>2. m = <<m[1], m[2]>> /\ m[2] \in 1 .. parts[i].lines
    BY <2>1, LineProperties
  <2>3. m[2] = k
    BY <1>8, <1>11, <1>12, <2>1, <2>2
  <2> QED
    BY <2>1, <2>2, <2>3
<1> QED
  BY <1>13, <1>14, <1>15

-----------------------------------------------------------------------------
(* What the loop finds is right.                                           *)

\* The place of a line is at most the number of lines.
LEMMA PlaceBounded ==
    ASSUME NEW parts \in Seq(Part), NEW types, NEW l
    PROVE  Place(parts, types, l) <= Cardinality(LinesOf(parts, types))
<1>1. IsFiniteSet(LinesOf(parts, types))
  BY LineProperties
<1>2. {m \in LinesOf(parts, types) : NotAfter(m, l)} \in SUBSET LinesOf(parts, types)
  OBVIOUS
<1> QED
  BY <1>1, <1>2, FS_Subset DEF Place

\* Whatever the parts of a code are, getPdfLineNumber turns the number of a
\* compiled line into the number it is printed with, and into -1 if it is not
\* printed, is the last line of its part, or does not exist.
THEOREM PrintedLineNamed ==
    ASSUME NEW parts \in Seq(Part), NEW n \in Nat \ {0}
    PROVE  /\ NamesLine(parts, n, PdfLineNumber(parts, n))
           /\ PdfLineNumber(parts, n) \in Int
<1> DEFINE N   == Len(parts)
           end == Counts(parts, n)[N]
           r   == PdfLineNumber(parts, n)
           all == Cardinality(LinesOf(parts, CompiledTypes))
<1>1. N \in Nat
  BY LenProperties
<1>2. r = IF end.at = "hidden" \/ n >= end.std THEN -1 ELSE end.pdf
  BY DEF PdfLineNumber
<1>3. Found(parts, n, end, N)
  BY FoundAfterAll
<1>4. Total(parts, CompiledTypes, N) = all /\ all \in Nat
  BY <1>1, TotalEnds, TotalType
<1> HIDE DEF end, r, all
<1>5. CASE /\ end = [at |-> "before", pdf |-> Total(parts, PrintedTypes, N),
                     std |-> Total(parts, CompiledTypes, N)]
           /\ Total(parts, CompiledTypes, N) < n
  <2>1. end.std = all /\ n > all
    BY <1>4, <1>5
  <2>2. r = -1
    BY <1>2, <1>4, <2>1
  <2>3. ASSUME NEW l \in LinesOf(parts, CompiledTypes),
               Place(parts, CompiledTypes, l) = n
        PROVE  FALSE
    <3>1. n <= all
      BY <2>3, PlaceBounded DEF all
    <3> QED
      BY <1>4, <2>1, <3>1
  <2> QED
    BY <2>2, <2>3 DEF NamesLine, r
<1>6. ASSUME NEW i \in 1 .. N, Within(parts, CompiledTypes, n, i)
      PROVE  /\ ~ (n > all)
             /\ Total(parts, CompiledTypes, i - 1) \in Nat
             /\ Total(parts, PrintedTypes, i - 1) \in Nat
  <2>1. i \in 0 .. N /\ i \in Nat /\ i - 1 \in Nat
    BY <1>1
  <2>2. /\ Total(parts, CompiledTypes, i) \in Nat
        /\ Total(parts, CompiledTypes, i - 1) \in Nat
        /\ Total(parts, PrintedTypes, i - 1) \in Nat
    BY <2>1, TotalType
  <2>3. Total(parts, CompiledTypes, i) <= all
    BY <1>1, <1>4, <2>1, TotalGrows
  <2>4. n <= Total(parts, CompiledTypes, i)
    BY <1>6 DEF Within
  <2> QED
    BY <1>4, <2>2, <2>3, <2>4
<1>7. ASSUME NEW i \in 1 .. N,
             /\ Within(parts, CompiledTypes, n, i)
             /\ parts[i].type \in PrintedTypes
             /\ end.at = "hit"
             /\ end.std = Total(parts, CompiledTypes, i)
             /\ end.pdf = Total(parts, PrintedTypes, i - 1)
                             + n - Total(parts, CompiledTypes, i - 1)
      PROVE  NamesLine(parts, n, r) /\ r \in Int
  <2> DEFINE c0 == Total(parts, CompiledTypes, i - 1)
             p0 == Total(parts, PrintedTypes, i - 1)
  <2>1. ~ (n > all) /\ c0 \in Nat /\ p0 \in Nat
    BY <1>6, <1>7
  <2>2. end.pdf \in Int
    BY <1>7, <2>1
  <2>3. parts[i].type \in CompiledTypes /\ parts[i].lines \in Nat
    BY <1>7, PartProperties DEF CompiledTypes, PrintedTypes
  <2>4. end.std = c0 + parts[i].lines
    BY <1>7, <2>3, TotalStep
  <2>5. ASSUME NEW l \in LinesOf(parts, CompiledTypes),
               Place(parts, CompiledTypes, l) = n
        PROVE  r = IF l \in LinesOf(parts, PrintedTypes) /\ ~EndsPart(parts, l)
                   THEN Place(parts, PrintedTypes, l) ELSE -1
    <3>1. l[1] = i /\ n = c0 + l[2]
      BY <1>7, <2>5, LineWithin
    <3>2. l[2] \in 1 .. parts[i].lines /\ l = <<i, l[2]>>
      BY <3>1, LineProperties
    <3>3. l \in LinesOf(parts, PrintedTypes)
      BY <1>7, <3>2, LineProperties
    <3>4. Place(parts, PrintedTypes, l) = p0 + l[2]
      BY <3>1, <3>3, PlaceOfLine
    <3>5. EndsPart(parts, l) <=> l[2] = parts[i].lines
      BY <3>1 DEF EndsPart
    <3> HIDE DEF c0, p0
    <3>6. end.pdf = p0 + l[2]
      BY <1>7, <2>1, <3>1, <3>2 DEF c0, p0
    <3>7. n >= end.std <=> l[2] = parts[i].lines
      BY <2>1, <2>3, <2>4, <3>1, <3>2
    <3>8. end.at # "hidden"
      BY <1>7
    <3> QED
      BY <1>2, <3>3, <3>4, <3>5, <3>6, <3>7, <3>8
  <2>6. r \in Int
    BY <1>2, <2>2
  <2> QED
    BY <2>1, <2>5, <2>6 DEF NamesLine, all
<1>8. ASSUME NEW i \in 1 .. N,
             /\ Within(parts, CompiledTypes, n, i)
             /\ parts[i].type = "hidden"
             /\ end.at = "hidden"
      PROVE  NamesLine(parts, n, r) /\ r \in Int
  <2>1. ~ (n > all)
    BY <1>6, <1>8
  <2>2. r = -1
    BY <1>2, <1>8
  <2>3. ASSUME NEW l \in LinesOf(parts, CompiledTypes),
               Place(parts, CompiledTypes, l) = n
        PROVE  l \notin LinesOf(parts, PrintedTypes)
    <3>1. l[1] = i
      BY <1>8, <2>3, LineWithin
    <3>2. parts[i].type \notin PrintedTypes
      BY <1>8 DEF PrintedTypes
    <3> QED
      BY <3>1, <3>2, LineProperties
  <2> QED
    BY <2>1, <2>2, <2>3 DEF NamesLine, all
<1> QED
  BY <1>3, <1>5, <1>7, <1>8 DEF Found, r

=============================================================================
