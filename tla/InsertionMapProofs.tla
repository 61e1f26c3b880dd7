------------------------- MODULE InsertionMapProofs -------------------------
(***************************************************************************)
(* What the operators on JavaScript Maps return, for entries of any kind.  *)
(***************************************************************************)
EXTENDS Integers, InsertionMap, SequenceTheorems, FiniteSetTheorems,
        FunctionTheorems, WellFoundedInduction, TLAPS

\* A Map has one entry per key.
UniqueKeys(m) == \A i, j \in DOMAIN m : m[i].id = m[j].id => i = j

\* The position of a key is an index of the Map that holds this key.
LEMMA PositionOfKey ==
  ASSUME NEW E, NEW m \in Seq(E), NEW w \in Keys(m)
  PROVE  Position(m, w) \in DOMAIN m /\ m[Position(m, w)].id = w
  BY DEF Keys, Position

\* Removing the entry at one place of a sequence.
LEMMA RemoveAtIsShift ==
  ASSUME NEW E, NEW m \in Seq(E), NEW p \in DOMAIN m
  PROVE  /\ RemoveAt(m, p) \in Seq(E)
         /\ Len(RemoveAt(m, p)) = Len(m) - 1
         /\ \A j \in 1 .. Len(m) - 1 :
              RemoveAt(m, p)[j] = IF j < p THEN m[j] ELSE m[j + 1]
<1> DEFINE l == SubSeq(m, 1, p - 1)
           r == SubSeq(m, p + 1, Len(m))
<1>1. Len(m) \in Nat /\ p \in 1 .. Len(m)
  OBVIOUS
<1>2. /\ l \in Seq(E)
      /\ Len(l) = p - 1
      /\ \A j \in 1 .. p - 1 : l[j] = m[j]
  <2>1. \A j \in 1 .. p - 1 : m[j] \in E
    BY <1>1
  <2>2. /\ SubSeq(m, 1, p - 1) \in Seq(E)
        /\ Len(SubSeq(m, 1, p - 1)) = IF 1 <= p - 1 THEN (p - 1) - 1 + 1 ELSE 0
        /\ \A j \in 1 .. (p - 1) - 1 + 1 : SubSeq(m, 1, p - 1)[j] = m[1 + j - 1]
    BY <1>1, <2>1, SubSeqProperties
  <2> QED
    BY <1>1, <2>2
<1>3. /\ r \in Seq(E)
      /\ Len(r) = Len(m) - p
      /\ \A j \in 1 .. Len(m) - p : r[j] = m[p + j]
  <2>1. \A j \in p + 1 .. Len(m) : m[j] \in E
    BY <1>1
  <2>2. /\ r \in Seq(E)
        /\ Len(r) = IF p + 1 <= Len(m) THEN Len(m) - (p + 1) + 1 ELSE 0
        /\ \A j \in 1 .. Len(m) - (p + 1) + 1 : r[j] = m[(p + 1) + j - 1]
    BY <1>1, <2>1, SubSeqProperties
  <2> QED
    BY <1>1, <2>2
<1>4. RemoveAt(m, p) = l \o r
  BY DEF RemoveAt
<1> HIDE DEF l, r
<1>5. /\ l \o r \in Seq(E)
      /\ Len(l \o r) = Len(l) + Len(r)
      /\ \A j \in 1 .. Len(l) + Len(r) :
           (l \o r)[j] = IF j <= Len(l) THEN l[j] ELSE r[j - Len(l)]
  BY <1>2, <1>3, ConcatProperties
<1>6. ASSUME NEW j \in 1 .. Len(m) - 1
      PROVE  (l \o r)[j] = IF j < p THEN m[j] ELSE m[j + 1]
  <2>1. CASE j < p
    <3>1. j \in 1 .. p - 1 /\ j <= Len(l) /\ j \in 1 .. Len(l) + Len(r)
      BY <2>1, <1>1, <1>2, <1>3
    <3>2. (l \o r)[j] = l[j]
      BY <3>1, <1>5
    <3>3. l[j] = m[j]
      BY <3>1, <1>2
    <3> QED
      BY <2>1, <3>2, <3>3
  <2>2. CASE ~(j < p)
    <3>0. Len(l) = p - 1 /\ j \in 1 .. Len(l) + Len(r) /\ ~(j <= Len(l))
      BY <2>2, <1>1, <1>2, <1>3
    <3>1. (l \o r)[j] = r[j - (p - 1)]
      BY <3>0, <1>5
    <3>2. j - (p - 1) \in 1 .. Len(m) - p /\ p + (j - (p - 1)) = j + 1
      BY <2>2, <1>1
    <3>3. r[j - (p - 1)] = m[p + (j - (p - 1))]
      BY <3>2, <1>3
    <3> QED
      BY <3>1, <3>2, <3>3, <2>2, <1>1
  <2> QED
    BY <2>1, <2>2
<1>7. Len(l \o r) = Len(m) - 1
  BY <1>1, <1>2, <1>3, <1>5
<1> QED
  BY <1>4, <1>5, <1>6, <1>7

\* Map.delete keeps exactly the entries of the other keys.
LEMMA MapDeleteProperties ==
  ASSUME NEW E, NEW m \in Seq(E), UniqueKeys(m), NEW w
  PROVE  /\ MapDelete(m, w) \in Seq(E)
         /\ UniqueKeys(MapDelete(m, w))
         /\ \A j \in DOMAIN MapDelete(m, w) :
              /\ MapDelete(m, w)[j].id # w
              /\ \E i \in DOMAIN m : MapDelete(m, w)[j] = m[i]
         /\ \A i \in DOMAIN m : m[i].id # w =>
              \E j \in DOMAIN MapDelete(m, w) : MapDelete(m, w)[j] = m[i]
<1>1. CASE w \notin Keys(m)
  BY <1>1 DEF MapDelete, Keys
<1>2. CASE w \in Keys(m)
  <2> DEFINE p == Position(m, w)
             d == RemoveAt(m, p)
  <2>1. p \in 1 .. Len(m) /\ m[p].id = w
    BY <1>2, PositionOfKey
  <2>2. /\ d \in Seq(E)
        /\ Len(d) = Len(m) - 1
        /\ \A j \in 1 .. Len(m) - 1 : d[j] = IF j < p THEN m[j] ELSE m[j + 1]
    BY <2>1, RemoveAtIsShift
  <2>3. MapDelete(m, w) = d
    BY <1>2 DEF MapDelete
  <2> HIDE DEF p, d
  <2>4. DOMAIN d = 1 .. Len(m) - 1 /\ Len(m) \in Nat
    BY <2>2
  <2>5. UniqueKeys(d)
    <3> SUFFICES ASSUME NEW i \in 1 .. Len(m) - 1, NEW j \in 1 .. Len(m) - 1,
                        d[i].id = d[j].id
                 PROVE  i = j
      BY <2>4 DEF UniqueKeys
    <3>1. d[i] = (IF i < p THEN m[i] ELSE m[i + 1])
      BY <2>2
    <3>2. d[j] = (IF j < p THEN m[j] ELSE m[j + 1])
      BY <2>2
    <3>3. \A a, b \in 1 .. Len(m) : m[a].id = m[b].id => a = b
      BY DEF UniqueKeys
    <3> DEFINE a == IF i < p THEN i ELSE i + 1
               b == IF j < p THEN j ELSE j + 1
    <3>4. /\ a \in 1 .. Len(m) /\ b \in 1 .. Len(m)
          /\ d[i] = m[a] /\ d[j] = m[b]
      BY <3>1, <3>2, <2>1, <2>4
    <3>5. a = b => i = j
      BY <2>1, <2>4
    <3> HIDE DEF a, b
    <3>6. a = b
      BY <3>3, <3>4
    <3> QED
      BY <3>5, <3>6
  <2>6. ASSUME NEW j \in DOMAIN d
        PROVE  d[j].id # w /\ \E i \in DOMAIN m : d[j] = m[i]
    <3> DEFINE i == IF j < p THEN j ELSE j + 1
    <3>1. i \in 1 .. Len(m) /\ i # p /\ d[j] = m[i]
      BY <2>1, <2>2, <2>4
    <3> HIDE DEF i
    <3>2. m[i].id # w
      BY <2>1, <3>1 DEF UniqueKeys
    <3> QED
      BY <3>1, <3>2
  <2>7. ASSUME NEW i \in DOMAIN m, m[i].id # w
        PROVE  \E j \in DOMAIN d : d[j] = m[i]
    <3>1. CASE i < p
      <4>1. i \in DOMAIN d /\ d[i] = m[i]
        BY <3>1, <2>1, <2>2, <2>4
      <4> QED
        BY <4>1
    <3>2. CASE i > p
      <4>1. i - 1 \in DOMAIN d /\ d[i - 1] = m[i]
        BY <3>2, <2>1, <2>2, <2>4
      <4> QED
        BY <4>1
    <3> QED
      BY <3>1, <3>2, <2>1, <2>7
  <2> QED
    BY <2>2, <2>3, <2>5, <2>6, <2>7
<1> QED
  BY <1>1, <1>2


\* Map.delete adds no entry.
LEMMA MapDeleteEntries ==
  ASSUME NEW E, NEW m \in Seq(E), NEW w
  PROVE  /\ MapDelete(m, w) \in Seq(E)
         /\ \A j \in DOMAIN MapDelete(m, w) :
              \E i \in DOMAIN m : MapDelete(m, w)[j] = m[i]
<1>1. CASE w \notin Keys(m)
  BY <1>1 DEF MapDelete
<1>2. CASE w \in Keys(m)
  <2> DEFINE p == Position(m, w)
             d == RemoveAt(m, p)
  <2>1. p \in DOMAIN m
    BY <1>2, PositionOfKey
  <2>2. /\ d \in Seq(E)
        /\ Len(d) = Len(m) - 1
        /\ \A j \in 1 .. Len(m) - 1 : d[j] = IF j < p THEN m[j] ELSE m[j + 1]
    BY <2>1, RemoveAtIsShift
  <2>3. MapDelete(m, w) = d
    BY <1>2 DEF MapDelete
  <2> HIDE DEF p, d
  <2>4. /\ DOMAIN d = 1 .. Len(m) - 1 /\ Len(m) \in Nat
        /\ DOMAIN m = 1 .. Len(m)
    BY <2>2
  <2>5. ASSUME NEW j \in DOMAIN d PROVE \E i \in DOMAIN m : d[j] = m[i]
    <3>1. j \in DOMAIN m /\ j + 1 \in DOMAIN m
      BY <2>4
    <3> QED
      BY <2>2, <2>4, <3>1
  <2> QED
    BY <2>2, <2>3, <2>5
<1> QED
  BY <1>1, <1>2

\* Map.delete leaves a Map of the same kind of entries.
LEMMA MapDeleteType ==
  ASSUME NEW E, NEW m \in Seq(E), NEW w
  PROVE  MapDelete(m, w) \in Seq(E)
<1>1. CASE w \in Keys(m)
  BY <1>1, PositionOfKey, RemoveAtIsShift DEF MapDelete
<1>2. CASE w \notin Keys(m)
  BY <1>2 DEF MapDelete
<1> QED
  BY <1>1, <1>2

\* Map.set keeps one entry per key, leaves the other keys as they are and
\* holds the new entry.
LEMMA MapSetProperties ==
  ASSUME NEW E, NEW m \in Seq(E), UniqueKeys(m), NEW e \in E
  PROVE  /\ MapSet(m, e) \in Seq(E)
         /\ UniqueKeys(MapSet(m, e))
         /\ MapSet(m, e) # <<>>
         /\ \A j \in DOMAIN MapSet(m, e) :
              \/ MapSet(m, e)[j] = e
              \/ /\ MapSet(m, e)[j].id # e.id
                 /\ \E i \in DOMAIN m : MapSet(m, e)[j] = m[i]
         /\ e.id \in Keys(MapSet(m, e))
<1>1. CASE e.id \in Keys(m)
  <2> DEFINE p == Position(m, e.id)
             n == [m EXCEPT ![p] = e]
  <2>1. p \in DOMAIN m /\ m[p].id = e.id
    BY <1>1, PositionOfKey
  <2>2. MapSet(m, e) = n
    BY <1>1 DEF MapSet
  <2> HIDE DEF p
  <2>3. /\ n \in Seq(E) /\ DOMAIN n = DOMAIN m /\ Len(n) = Len(m)
        /\ \A j \in DOMAIN m : n[j] = IF j = p THEN e ELSE m[j]
    BY <2>1
  <2>4. \A i, j \in DOMAIN m : m[i].id = m[j].id => i = j
    BY DEF UniqueKeys
  <2> HIDE DEF n
  <2>5. UniqueKeys(n)
    BY <2>1, <2>3, <2>4 DEF UniqueKeys
  <2>6. n # <<>> /\ e.id \in Keys(n)
    BY <2>1, <2>3 DEF Keys
  <2>7. ASSUME NEW j \in DOMAIN n
        PROVE  \/ n[j] = e
               \/ n[j].id # e.id /\ \E i \in DOMAIN m : n[j] = m[i]
    BY <2>1, <2>3, <2>4
  <2> QED
    BY <2>2, <2>3, <2>5, <2>6, <2>7
<1>2. CASE e.id \notin Keys(m)
  <2> DEFINE n == Append(m, e)
  <2>1. MapSet(m, e) = n
    BY <1>2 DEF MapSet
  <2>2. /\ n \in Seq(E)
        /\ DOMAIN n = 1 .. Len(m) + 1
        /\ DOMAIN m = 1 .. Len(m) /\ Len(m) \in Nat
        /\ \A j \in 1 .. Len(m) : n[j] = m[j]
        /\ n[Len(m) + 1] = e
    BY AppendProperties
  <2>3. \A i, j \in 1 .. Len(m) : m[i].id = m[j].id => i = j
    BY <2>2 DEF UniqueKeys
  <2>4. \A j \in 1 .. Len(m) : m[j].id # e.id
    BY <1>2, <2>2 DEF Keys
  <2> HIDE DEF n
  <2>5. UniqueKeys(n)
    <3> SUFFICES ASSUME NEW i \in 1 .. Len(m) + 1, NEW j \in 1 .. Len(m) + 1,
                        n[i].id = n[j].id
                 PROVE  i = j
      BY <2>2 DEF UniqueKeys
    <3>1. i <= Len(m) \/ i = Len(m) + 1
      BY <2>2
    <3>2. j <= Len(m) \/ j = Len(m) + 1
      BY <2>2
    <3> QED
      BY <3>1, <3>2, <2>2, <2>3, <2>4
  <2>6. n # <<>> /\ e.id \in Keys(n)
    BY <2>2 DEF Keys
  <2>7. ASSUME NEW j \in DOMAIN n
        PROVE  \/ n[j] = e
               \/ n[j].id # e.id /\ \E i \in DOMAIN m : n[j] = m[i]
    <3>1. j = Len(m) + 1 \/ j \in 1 .. Len(m)
      BY <2>2
    <3> QED
      BY <3>1, <2>2, <2>4
  <2> QED
    BY <2>1, <2>2, <2>5, <2>6, <2>7
<1> QED
  BY <1>1, <1>2

-----------------------------------------------------------------------------
(* Picking entries by their places.                                        *)

\* A set of numbers has a least one.
LEMMA LeastOf ==
  ASSUME NEW T, T \subseteq Nat, T # {}
  PROVE  \E x \in T : \A y \in T : x <= y
<1>1. PICK x \in T : \A y \in T : ~(<<y, x>> \in OpToRel(<, Nat))
  BY WFMin, NatLessThanWellFounded
<1>2. \A y \in T : ~(y < x)
  BY <1>1 DEF OpToRel
<1> QED
  BY <1>2

\* The size of an interval.
LEMMA IntervalSize ==
  ASSUME NEW a \in Int, NEW b \in Int, a <= b + 1
  PROVE  IsFiniteSet(a .. b) /\ Cardinality(a .. b) = b - a + 1
<1>1. IsFiniteSet(a .. b) /\ Cardinality(a .. b) = IF a > b THEN 0 ELSE b - a + 1
  BY FS_Interval
<1> QED
  BY <1>1

\* A part of a finite set that is not all of it has fewer elements.
LEMMA StrictlyFewer ==
  ASSUME NEW T, IsFiniteSet(T), NEW S, S \subseteq T, S # T
  PROVE  Cardinality(S) # Cardinality(T)
  BY FS_Subset

\* The entries at the places I are the entries there, each of them once.
LEMMA EntriesArePicked ==
  ASSUME NEW E, NEW m \in Seq(E), NEW I, I \subseteq DOMAIN m
  PROVE  \E f \in [1 .. Cardinality(I) -> I] :
           /\ Cardinality(I) \in Nat
           /\ Entries(m, I) = [n \in 1 .. Cardinality(I) |-> m[f[n]]]
           /\ \A i \in I : \E n \in 1 .. Cardinality(I) : f[n] = i
           /\ \A n, k \in 1 .. Cardinality(I) : f[n] = f[k] => n = k
<1> DEFINE c == Cardinality(I)
           upto(i) == {j \in I : j <= i}
           rank == [i \in I |-> Cardinality(upto(i))]
           f == [n \in 1 .. c |-> CHOOSE i \in I : Cardinality(upto(i)) = n]
<1>1. Len(m) \in Nat /\ DOMAIN m = 1 .. Len(m) /\ \A i \in I : i \in Nat
  OBVIOUS
<1>2. IsFiniteSet(I) /\ c \in Nat
  <2>1. IsFiniteSet(DOMAIN m)
    BY <1>1, IntervalSize
  <2>2. IsFiniteSet(I)
    BY <2>1, FS_Subset
  <2> QED
    BY <2>2, FS_CardinalityType
<1>3. ASSUME NEW i \in I
      PROVE  IsFiniteSet(upto(i)) /\ Cardinality(upto(i)) \in 1 .. c
  <2>1. upto(i) \subseteq I /\ i \in upto(i)
    BY <1>1
  <2> HIDE DEF upto
  <2>2. IsFiniteSet(upto(i)) /\ Cardinality(upto(i)) <= c
    BY <1>2, <2>1, FS_Subset
  <2>3. Cardinality(upto(i)) \in Nat /\ Cardinality(upto(i)) # 0
    BY <2>1, <2>2, FS_CardinalityType, FS_EmptySet
  <2> QED
    BY <1>2, <2>2, <2>3
<1>4. ASSUME NEW i \in I, NEW k \in I, i < k
      PROVE  Cardinality(upto(i)) # Cardinality(upto(k))
  <2>1. upto(i) \subseteq upto(k) /\ k \in upto(k) /\ k \notin upto(i)
    BY <1>1, <1>4
  <2>2. IsFiniteSet(upto(k))
    BY <1>3
  <2> HIDE DEF upto
  <2>3. upto(i) # upto(k)
    BY <2>1
  <2> QED
    BY <2>1, <2>2, <2>3, StrictlyFewer
<1>5. \A i, k \in I : Cardinality(upto(i)) = Cardinality(upto(k)) => i = k
  <2> HIDE DEF upto
  <2> QED
    BY <1>1, <1>4
<1> HIDE DEF upto
<1>6. rank \in Injection(I, 1 .. c)
  BY <1>3, <1>5 DEF Injection, IsInjective
<1>7. rank \in Surjection(I, 1 .. c)
  <2>1. IsFiniteSet(1 .. c) /\ Cardinality(1 .. c) = c
    BY <1>2, IntervalSize
  <2> HIDE DEF rank
  <2> QED
    BY <1>6, <2>1, FS_Injection
<1>8. \A n \in 1 .. c : \E i \in I : Cardinality(upto(i)) = n
  BY <1>7 DEF Surjection
<1>9. /\ f \in [1 .. c -> I]
      /\ \A n \in 1 .. c : Cardinality(upto(f[n])) = n
  BY <1>8
<1>10. Entries(m, I) = [n \in 1 .. c |-> m[f[n]]]
  BY DEF Entries, upto
<1> HIDE DEF f, c
<1>11. \A i \in I : \E n \in 1 .. c : f[n] = i
  <2> SUFFICES ASSUME NEW i \in I PROVE \E n \in 1 .. c : f[n] = i
    OBVIOUS
  <2>1. Cardinality(upto(i)) \in 1 .. c
    BY <1>3
  <2>2. f[Cardinality(upto(i))] = i
    BY <1>5, <1>9, <2>1
  <2> QED
    BY <2>1, <2>2
<1>12. \A n, k \in 1 .. c : f[n] = f[k] => n = k
  BY <1>9
<1> QED
  BY <1>2, <1>9, <1>10, <1>11, <1>12 DEF c

=============================================================================
