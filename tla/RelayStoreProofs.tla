-------------------------- MODULE RelayStoreProofs --------------------------
(***************************************************************************)
(* Theorems about RelayStore: the trims keep the newest messages and       *)
(* nothing else, so the stored history refines BoundedLog; only messages   *)
(* of one millisecond turn in the list a phone is given; and the tables of *)
(* a session agree.                                                        *)
(***************************************************************************)
EXTENDS RelayStore, InsertionMapProofs

-----------------------------------------------------------------------------
(* Sequences and their ends.                                               *)

\* Sequences of one length that agree everywhere are one sequence.
LEMMA SameRows ==
  ASSUME NEW S, NEW g \in Seq(S), NEW h \in Seq(S), Len(g) = Len(h),
         \A i \in 1 .. Len(g) : g[i] = h[i]
  PROVE  g = h
  BY LenProperties

\* g is what is left of h without its first a - 1 rows.
From(h, a) == SubSeq(h, a, Len(h))

\* The end of a sequence, row by row.
LEMMA FromProperties ==
  ASSUME NEW S, NEW h \in Seq(S), NEW a \in 1 .. Len(h) + 1
  PROVE  /\ From(h, a) \in Seq(S)
         /\ Len(From(h, a)) = Len(h) - a + 1
         /\ DOMAIN From(h, a) = 1 .. Len(h) - a + 1
         /\ \A i \in 1 .. Len(h) - a + 1 : From(h, a)[i] = h[a + i - 1]
<1>1. Len(h) \in Nat /\ \A i \in a .. Len(h) : h[i] \in S
  OBVIOUS
<1>2. /\ SubSeq(h, a, Len(h)) \in Seq(S)
      /\ Len(SubSeq(h, a, Len(h))) = IF a <= Len(h) THEN Len(h) - a + 1 ELSE 0
      /\ \A i \in 1 .. Len(h) - a + 1 : SubSeq(h, a, Len(h))[i] = h[a + i - 1]
  BY <1>1, SubSeqProperties
<1> QED
  BY <1>1, <1>2 DEF From

\* g is an end of h.
EndOf(g, h) == \E a \in 1 .. Len(h) + 1 : g = From(h, a)

\* An end of an end is an end.
LEMMA EndOfEnd ==
  ASSUME NEW S, NEW h \in Seq(S), NEW g, NEW f, EndOf(g, h), EndOf(f, g)
  PROVE  EndOf(f, h)
<1>1. PICK a \in 1 .. Len(h) + 1 : g = From(h, a)
  BY DEF EndOf
<1>2. /\ g \in Seq(S) /\ Len(g) = Len(h) - a + 1
      /\ \A i \in 1 .. Len(g) : g[i] = h[a + i - 1]
  BY <1>1, FromProperties
<1>3. PICK b \in 1 .. Len(g) + 1 : f = From(g, b)
  BY DEF EndOf
<1>4. /\ f \in Seq(S) /\ Len(f) = Len(g) - b + 1
      /\ \A i \in 1 .. Len(f) : f[i] = g[b + i - 1]
  <2>1. g \in Seq(S)
    BY <1>2
  <2>2. /\ From(g, b) \in Seq(S) /\ Len(From(g, b)) = Len(g) - b + 1
        /\ \A i \in 1 .. Len(g) - b + 1 : From(g, b)[i] = g[b + i - 1]
    BY <2>1, FromProperties
  <2> QED
    BY <1>3, <2>2
<1> DEFINE c == a + b - 1
<1>5. c \in 1 .. Len(h) + 1 /\ Len(f) = Len(h) - c + 1
  BY <1>2, <1>4
<1>6. /\ From(h, c) \in Seq(S) /\ Len(From(h, c)) = Len(h) - c + 1
      /\ \A i \in 1 .. Len(h) - c + 1 : From(h, c)[i] = h[c + i - 1]
  BY <1>5, FromProperties
<1>7. ASSUME NEW i \in 1 .. Len(f) PROVE f[i] = From(h, c)[i]
  <2>1. f[i] = g[b + i - 1] /\ b + i - 1 \in 1 .. Len(g)
    BY <1>2, <1>4
  <2>2. g[b + i - 1] = h[a + (b + i - 1) - 1]
    BY <1>2, <2>1
  <2>3. a + (b + i - 1) - 1 = c + i - 1
    OBVIOUS
  <2>4. From(h, c)[i] = h[c + i - 1]
    BY <1>5, <1>6
  <2> QED
    BY <2>1, <2>2, <2>3, <2>4
<1>8. f = From(h, c)
  <2> HIDE DEF c
  <2> QED
    BY <1>4, <1>5, <1>6, <1>7, SameRows
<1> QED
  BY <1>5, <1>8 DEF EndOf

\* The community's IsSuffix holds of an end.
LEMMA EndIsSuffix ==
  ASSUME NEW S, NEW h \in Seq(S), NEW g, EndOf(g, h)
  PROVE  IsSuffix(g, h)
<1>1. PICK a \in 1 .. Len(h) + 1 : g = From(h, a)
  BY DEF EndOf
<1>2. /\ g \in Seq(S) /\ Len(g) = Len(h) - a + 1 /\ Len(h) \in Nat
      /\ \A i \in 1 .. Len(g) : g[i] = h[a + i - 1]
  <2>1. /\ From(h, a) \in Seq(S) /\ Len(From(h, a)) = Len(h) - a + 1
        /\ \A i \in 1 .. Len(h) - a + 1 : From(h, a)[i] = h[a + i - 1]
    BY FromProperties
  <2> QED
    BY <1>1, <2>1
<1> DEFINE rg == Reverse(g)
           rh == Reverse(h)
<1>3. /\ rg \in Seq(S) /\ Len(rg) = Len(g)
      /\ \A i \in 1 .. Len(g) : rg[i] = g[Len(g) - i + 1]
  BY <1>2 DEF Reverse
<1>4. /\ rh \in Seq(S) /\ Len(rh) = Len(h)
      /\ \A i \in 1 .. Len(h) : rh[i] = h[Len(h) - i + 1]
  BY DEF Reverse
<1> HIDE DEF rg, rh
<1>5. \A i \in 1 .. Len(g) : rg[i] = rh[i]
  <2> SUFFICES ASSUME NEW i \in 1 .. Len(g) PROVE rg[i] = rh[i]
    OBVIOUS
  <2>1. Len(g) - i + 1 \in 1 .. Len(g) /\ i \in 1 .. Len(h)
    BY <1>2
  <2>2. g[Len(g) - i + 1] = h[a + (Len(g) - i + 1) - 1]
    BY <1>2, <2>1
  <2>3. a + (Len(g) - i + 1) - 1 = Len(h) - i + 1
    BY <1>2
  <2> QED
    BY <1>3, <1>4, <2>1, <2>2, <2>3
<1>6. /\ SubSeq(rg, 1, Len(rg)) \in Seq(S)
      /\ Len(SubSeq(rg, 1, Len(rg))) = Len(g)
      /\ \A i \in 1 .. Len(g) : SubSeq(rg, 1, Len(rg))[i] = rg[i]
  <2>1. \A i \in 1 .. Len(rg) : rg[i] \in S
    BY <1>3
  <2> QED
    BY <1>2, <1>3, <2>1, SubSeqProperties
<1>7. /\ SubSeq(rh, 1, Len(rg)) \in Seq(S)
      /\ Len(SubSeq(rh, 1, Len(rg))) = Len(g)
      /\ \A i \in 1 .. Len(g) : SubSeq(rh, 1, Len(rg))[i] = rh[i]
  <2>1. \A i \in 1 .. Len(rg) : rh[i] \in S
    BY <1>2, <1>3, <1>4
  <2> QED
    BY <1>2, <1>3, <1>4, <2>1, SubSeqProperties
<1>8. SubSeq(rg, 1, Len(rg)) = SubSeq(rh, 1, Len(rg))
  BY <1>5, <1>6, <1>7, SameRows
<1>9. IsPrefix(rg, rh)
  BY <1>2, <1>3, <1>4, <1>8 DEF IsPrefix
<1> QED
  BY <1>9 DEF IsSuffix, rg, rh

-----------------------------------------------------------------------------
(* The statements on one session's rows.                                   *)

\* The clock only moves forward: rows are in order of their timestamps.
InOrder(h) == \A i, j \in DOMAIN h : i <= j => h[i].ts <= h[j].ts

\* The rows of a history have timestamps.
LEMMA RowType ==
  ASSUME NEW h \in Seq(Row)
  PROVE  /\ Len(h) \in Nat /\ DOMAIN h = 1 .. Len(h)
         /\ \A i \in 1 .. Len(h) : h[i] \in Row /\ h[i].n \in Nat /\ h[i].ts \in Nat
<1>1. \A i \in 1 .. Len(h) : h[i] \in Row
  OBVIOUS
<1> QED
  BY <1>1 DEF Row

\* The rows at the last places of a sequence are its end.
LEMMA RowsAtEnd ==
  ASSUME NEW h \in Seq(Row), NEW a \in 1 .. Len(h) + 1
  PROVE  Entries(h, a .. Len(h)) = From(h, a)
<1> DEFINE I == a .. Len(h)
           c == Len(h) - a + 1
           place(n) == CHOOSE i \in I : Cardinality({j \in I : j <= i}) = n
<1>1. Len(h) \in Nat /\ a \in Nat /\ a >= 1 /\ a <= Len(h) + 1
  OBVIOUS
<1>0. c \in Nat /\ Cardinality(I) = c
  BY <1>1, IntervalSize
<1>2. ASSUME NEW n \in 1 .. c
      PROVE  place(n) = a + n - 1
  <2>1. ASSUME NEW i \in I PROVE Cardinality({j \in I : j <= i}) = i - a + 1
    <3> DEFINE T == {j \in I : j <= i}
    <3>1. T = a .. i /\ i \in Int /\ a <= i + 1
      BY <1>1
    <3> HIDE DEF I, T
    <3>2. Cardinality(T) = i - a + 1
      BY <1>1, <3>1, IntervalSize
    <3> QED
      BY <3>2 DEF T
  <2>2. a + n - 1 \in I /\ \A i \in I : i - a + 1 = n <=> i = a + n - 1
    BY <1>1
  <2> QED
    BY <2>1, <2>2
<1>3. Entries(h, I) = [n \in 1 .. c |-> h[a + n - 1]]
  <2>1. Entries(h, I) = [n \in 1 .. Cardinality(I) |-> h[place(n)]]
    BY DEF Entries
  <2> HIDE DEF I, c, place
  <2> QED
    BY <1>0, <1>2, <2>1
<1>4. /\ From(h, a) \in Seq(Row) /\ Len(From(h, a)) = c
      /\ \A i \in 1 .. c : From(h, a)[i] = h[a + i - 1]
  BY FromProperties
<1> HIDE DEF c
<1>5. [n \in 1 .. c |-> h[a + n - 1]] = From(h, a)
  BY <1>4, LenProperties
<1> QED
  BY <1>3, <1>5 DEF I

\* The trim keeps the newest Limit rows of a history in order.
LEMMA TrimKeepsNewest ==
  ASSUME NEW h \in Seq(Row), InOrder(h)
  PROVE  Trim(h) = BoundedHistory!Newest(h, Limit) /\ EndOf(Trim(h), h)
<1> DEFINE a == IF Len(h) > Limit THEN Len(h) - Limit + 1 ELSE 1
           I == {i \in DOMAIN h : Cardinality({j \in DOMAIN h : Newer(h, j, i)}) < Limit}
<1>1. Len(h) \in Nat /\ DOMAIN h = 1 .. Len(h)
      /\ \A i \in 1 .. Len(h) : h[i].ts \in Nat
  BY RowType
<1>2. a \in 1 .. Len(h) + 1
  BY <1>1, LimitAssumption
<1>3. I = a .. Len(h)
  <2>1. ASSUME NEW i \in 1 .. Len(h)
        PROVE  Cardinality({j \in DOMAIN h : Newer(h, j, i)}) = Len(h) - i
    <3>1. ASSUME NEW j \in 1 .. Len(h) PROVE Newer(h, j, i) <=> j > i
      <4>1. h[i].ts \in Nat /\ h[j].ts \in Nat
        BY <1>1
      <4>2. (j > i => h[i].ts <= h[j].ts) /\ (j <= i => h[j].ts <= h[i].ts)
        BY <1>1 DEF InOrder
      <4> QED
        BY <4>1, <4>2 DEF Newer
    <3> DEFINE T == {j \in DOMAIN h : Newer(h, j, i)}
    <3>2. T = i + 1 .. Len(h)
      BY <1>1, <3>1
    <3> HIDE DEF T
    <3>3. Cardinality(T) = Len(h) - i
      BY <1>1, <3>2, IntervalSize
    <3> QED
      BY <3>3 DEF T
  <2>2. \A i \in 1 .. Len(h) : Len(h) - i < Limit <=> i >= a
    BY <1>1, LimitAssumption
  <2>3. I = {i \in 1 .. Len(h) : i >= a}
    BY <1>1, <2>1, <2>2
  <2> HIDE DEF I
  <2> QED
    BY <1>1, <1>2, <2>3
<1>4. Trim(h) = From(h, a)
  <2>1. Trim(h) = Entries(h, I)
    BY DEF Trim
  <2> HIDE DEF I, a
  <2> QED
    BY <1>2, <1>3, <2>1, RowsAtEnd
<1>5. From(h, a) = BoundedHistory!Newest(h, Limit)
  BY DEF From, BoundedHistory!Newest
<1> QED
  BY <1>2, <1>4, <1>5 DEF EndOf

\* Rows that are too old are the first ones of a history in order.
LEMMA DropOldKeepsEnd ==
  ASSUME NEW h \in Seq(Row), InOrder(h), now \in Nat
  PROVE  EndOf(DropOld(h), h)
<1> DEFINE I == {i \in DOMAIN h : h[i].ts >= now - Retention}
<1>1. Len(h) \in Nat /\ DOMAIN h = 1 .. Len(h)
      /\ \A i \in 1 .. Len(h) : h[i].ts \in Nat
  BY RowType
<1>2. DropOld(h) = Entries(h, I)
  BY DEF DropOld
<1>3. PICK a \in 1 .. Len(h) + 1 : I = a .. Len(h)
  <2>1. CASE I = {}
    BY <1>1, <2>1
  <2>2. CASE I # {}
    <3>0. I \subseteq Nat
      BY <1>1
    <3>1. PICK a \in I : \A i \in I : a <= i
      <4> HIDE DEF I
      <4> QED
        BY <2>2, <3>0, LeastOf
    <3>2. \A i \in a .. Len(h) : i \in I
      <4> SUFFICES ASSUME NEW i \in a .. Len(h) PROVE h[i].ts >= now - Retention
        BY <1>1, <3>1
      <4>1. a \in 1 .. Len(h) /\ i \in 1 .. Len(h)
        BY <1>1, <3>1
      <4>2. h[a].ts >= now - Retention /\ h[a].ts <= h[i].ts
        BY <1>1, <3>1, <4>1 DEF InOrder
      <4> QED
        BY <1>1, <4>1, <4>2, TimeAssumption
    <3>3. I = a .. Len(h)
      BY <1>1, <3>1, <3>2
    <3> QED
      BY <1>1, <3>1, <3>3
  <2> QED
    BY <2>1, <2>2
<1> HIDE DEF I
<1> QED
  BY <1>2, <1>3, RowsAtEnd DEF EndOf

\* An end of a history in order is one.
LEMMA EndInOrder ==
  ASSUME NEW h \in Seq(Row), InOrder(h), NEW g, EndOf(g, h)
  PROVE  /\ g \in Seq(Row) /\ InOrder(g)
         /\ \A i \in DOMAIN g : \E j \in DOMAIN h : g[i] = h[j]
<1>1. PICK a \in 1 .. Len(h) + 1 : g = From(h, a)
  BY DEF EndOf
<1>2. /\ g \in Seq(Row) /\ Len(h) \in Nat /\ DOMAIN g = 1 .. Len(h) - a + 1
      /\ \A i \in DOMAIN g : g[i] = h[a + i - 1] /\ a + i - 1 \in DOMAIN h
  <2>1. /\ From(h, a) \in Seq(Row) /\ DOMAIN From(h, a) = 1 .. Len(h) - a + 1
        /\ \A i \in 1 .. Len(h) - a + 1 : From(h, a)[i] = h[a + i - 1]
    BY FromProperties
  <2> QED
    BY <1>1, <2>1
<1>3. InOrder(g)
  <2> SUFFICES ASSUME NEW i \in DOMAIN g, NEW j \in DOMAIN g, i <= j
               PROVE  g[i].ts <= g[j].ts
    BY DEF InOrder
  <2>1. a + i - 1 <= a + j - 1
    BY <1>2
  <2> QED
    BY <1>2, <2>1 DEF InOrder
<1> QED
  BY <1>2, <1>3

-----------------------------------------------------------------------------
(* The list a phone is given.                                              *)

\* The places of the rows listed before row i.
Earlier(h, i) == {j \in DOMAIN h : Before(h, j, i)}

\* Rows are listed in a strict order: an earlier row has fewer before it.
LEMMA EarlierHasFewer ==
  ASSUME NEW h \in Seq(Row), NEW i \in DOMAIN h, NEW j \in DOMAIN h,
         Before(h, i, j)
  PROVE  /\ Cardinality(Earlier(h, i)) \in Nat
         /\ Cardinality(Earlier(h, j)) \in Nat
         /\ Cardinality(Earlier(h, i)) < Cardinality(Earlier(h, j))
<1>1. Len(h) \in Nat /\ DOMAIN h = 1 .. Len(h)
      /\ \A k \in DOMAIN h : h[k].ts \in Nat
  BY RowType
<1>2. IsFiniteSet(DOMAIN h)
  BY <1>1, IntervalSize
<1>3. Earlier(h, j) \subseteq DOMAIN h
  BY DEF Earlier
<1>4. IsFiniteSet(Earlier(h, j))
  BY <1>2, <1>3, FS_Subset
<1>5. Earlier(h, i) \subseteq Earlier(h, j)
  BY <1>1 DEF Earlier, Before
<1>6. i \in Earlier(h, j) /\ i \notin Earlier(h, i)
  BY <1>1 DEF Earlier, Before
<1>7. /\ IsFiniteSet(Earlier(h, i))
      /\ Cardinality(Earlier(h, i)) <= Cardinality(Earlier(h, j))
      /\ Cardinality(Earlier(h, i)) # Cardinality(Earlier(h, j))
  BY <1>4, <1>5, <1>6, FS_Subset
<1> QED
  BY <1>4, <1>7, FS_CardinalityType

\* Of two different rows one is listed before the other.
LEMMA BeforeIsTotal ==
  ASSUME NEW h \in Seq(Row), NEW i \in DOMAIN h, NEW j \in DOMAIN h, i # j
  PROVE  Before(h, i, j) \/ Before(h, j, i)
<1>1. DOMAIN h = 1 .. Len(h) /\ \A k \in DOMAIN h : h[k].ts \in Nat
  BY RowType
<1> QED
  BY <1>1 DEF Before

\* Row i is listed after exactly the rows that are listed before it.
LEMMA PlaceInList ==
  ASSUME NEW h \in Seq(Row), NEW i \in DOMAIN h
  PROVE  /\ Cardinality(Earlier(h, i)) + 1 \in DOMAIN ListHistory(h)
         /\ ListHistory(h)[Cardinality(Earlier(h, i)) + 1] = h[i].n
<1> DEFINE c(k) == Cardinality(Earlier(h, k))
           place(n) == CHOOSE k \in DOMAIN h : c(k) = n - 1
<1>1. Len(h) \in Nat /\ DOMAIN h = 1 .. Len(h)
      /\ \A k \in DOMAIN h : h[k].ts \in Nat
  BY RowType
<1>2. IsFiniteSet(DOMAIN h) /\ Cardinality(DOMAIN h) = Len(h)
  BY <1>1, IntervalSize
<1>3. c(i) \in Nat /\ c(i) < Len(h)
  <2>1. Earlier(h, i) \subseteq DOMAIN h
    BY DEF Earlier
  <2>2. i \notin Earlier(h, i)
    BY <1>1 DEF Earlier, Before
  <2>3. /\ IsFiniteSet(Earlier(h, i))
        /\ c(i) <= Cardinality(DOMAIN h) /\ c(i) # Cardinality(DOMAIN h)
    BY <1>2, <2>1, <2>2, FS_Subset
  <2> QED
    BY <1>2, <2>3, FS_CardinalityType
<1>4. \A k \in DOMAIN h : c(k) = c(i) => k = i
  BY EarlierHasFewer, BeforeIsTotal
<1>5. ListHistory(h) = [n \in DOMAIN h |-> h[place(n)].n]
  BY DEF ListHistory, Earlier
<1> HIDE DEF c
<1>6. place(c(i) + 1) = i
  <2> DEFINE n == c(i) + 1
  <2>1. n - 1 = c(i)
    BY <1>3
  <2> HIDE DEF n
  <2>2. place(n) \in DOMAIN h /\ c(place(n)) = n - 1
    BY <2>1
  <2> QED
    BY <1>4, <2>1, <2>2 DEF n
<1> HIDE DEF place
<1>7. c(i) + 1 \in DOMAIN h
  BY <1>1, <1>3
<1>8. c(i) + 1 \in DOMAIN ListHistory(h) /\ ListHistory(h)[c(i) + 1] = h[i].n
  BY <1>5, <1>6, <1>7
<1> QED
  BY <1>8 DEF c

\* The message numbers of rows.
Numbers(h) == [i \in DOMAIN h |-> h[i].n]

\* Rows of different milliseconds are listed as they were relayed.
LEMMA ListOfDistinct ==
  ASSUME NEW h \in Seq(Row), InOrder(h),
         \A i, j \in DOMAIN h : h[i].ts = h[j].ts => i = j
  PROVE  ListHistory(h) = Numbers(h)
<1>1. Len(h) \in Nat /\ DOMAIN h = 1 .. Len(h)
      /\ \A k \in DOMAIN h : h[k].ts \in Nat
  BY RowType
<1>2. ASSUME NEW i \in DOMAIN h PROVE Cardinality(Earlier(h, i)) = i - 1
  <2>1. ASSUME NEW j \in DOMAIN h PROVE Before(h, j, i) <=> j < i
    <3>1. h[i].ts \in Nat /\ h[j].ts \in Nat
      BY <1>1
    <3>2. i \in Nat /\ j \in Nat /\ (i <= j => h[i].ts <= h[j].ts)
          /\ (j <= i => h[j].ts <= h[i].ts) /\ (h[i].ts = h[j].ts => i = j)
      BY <1>1 DEF InOrder
    <3> QED
      BY <3>1, <3>2 DEF Before
  <2>2. Earlier(h, i) = 1 .. i - 1
    BY <1>1, <2>1 DEF Earlier
  <2>3. Cardinality(1 .. i - 1) = (i - 1) - 1 + 1
    BY <1>1, IntervalSize
  <2> QED
    BY <1>1, <2>2, <2>3
<1>3. DOMAIN ListHistory(h) = DOMAIN h
  BY DEF ListHistory
<1>4. \A i \in DOMAIN h : ListHistory(h)[i] = h[i].n
  <2> SUFFICES ASSUME NEW i \in DOMAIN h PROVE ListHistory(h)[i] = h[i].n
    OBVIOUS
  <2>1. Cardinality(Earlier(h, i)) + 1 = i
    BY <1>1, <1>2
  <2> QED
    BY <2>1, PlaceInList
<1>5. ListHistory(h) = [i \in DOMAIN h |-> ListHistory(h)[i]]
  BY <1>3 DEF ListHistory
<1> QED
  BY <1>4, <1>5 DEF Numbers

-----------------------------------------------------------------------------
(* The invariant.                                                          *)

\* The histories are in order and not ahead of the clock, a snapshot and an
\* agent have their workspace listed while the session is there, and what has
\* no session has no rows.
StoreSound ==
  \A s \in Sessions :
    /\ InOrder(hist[s])
    /\ \A i \in DOMAIN hist[s] : hist[s][i].ts <= now
    /\ Keys(snaps[s]) \subseteq listed[s]
    /\ HasRow(s) => agents[s] \subseteq listed[s]
    /\ ~HasRow(s) => hist[s] = <<>> /\ listed[s] = {} /\ snaps[s] = <<>>

\* A row that is written now and comes last leaves the history in order.
LEMMA AppendInOrder ==
  ASSUME NEW h \in Seq(Row), InOrder(h), NEW r \in Row,
         \A i \in DOMAIN h : h[i].ts <= r.ts
  PROVE  /\ Append(h, r) \in Seq(Row) /\ InOrder(Append(h, r))
         /\ \A i \in DOMAIN Append(h, r) : Append(h, r)[i].ts <= r.ts
<1> DEFINE g == Append(h, r)
<1>1. Len(h) \in Nat /\ DOMAIN h = 1 .. Len(h)
      /\ \A k \in 1 .. Len(h) : h[k].ts \in Nat
  BY RowType
<1>2. /\ g \in Seq(Row) /\ Len(g) = Len(h) + 1 /\ DOMAIN g = 1 .. Len(h) + 1
      /\ \A i \in 1 .. Len(h) : g[i] = h[i]
      /\ g[Len(h) + 1] = r
  BY AppendProperties
<1> HIDE DEF g
<1>3. r.ts \in Nat
  BY DEF Row
<1>4. \A i \in DOMAIN g : g[i].ts <= r.ts
  <2> SUFFICES ASSUME NEW i \in 1 .. Len(h) + 1 PROVE g[i].ts <= r.ts
    BY <1>2
  <2>1. CASE i \in 1 .. Len(h)
    BY <1>1, <1>2, <2>1
  <2>2. CASE i = Len(h) + 1
    BY <1>2, <1>3, <2>2
  <2> QED
    BY <1>1, <2>1, <2>2
<1>5. InOrder(g)
  <2> SUFFICES ASSUME NEW i \in 1 .. Len(h) + 1, NEW j \in 1 .. Len(h) + 1, i <= j
               PROVE  g[i].ts <= g[j].ts
    BY <1>2 DEF InOrder
  <2>1. CASE j \in 1 .. Len(h)
    <3>1. i \in 1 .. Len(h)
      BY <1>1, <2>1
    <3> QED
      BY <1>1, <1>2, <2>1, <3>1 DEF InOrder
  <2>2. CASE j = Len(h) + 1
    BY <1>2, <1>4, <2>2
  <2> QED
    BY <1>1, <2>1, <2>2
<1> QED
  BY <1>2, <1>4, <1>5 DEF g

\* What the statements leave of a sound history.
LEMMA PrunedHistory ==
  ASSUME NEW h \in Seq(Row), InOrder(h), now \in Nat
  PROVE  EndOf(Trim(DropOld(h)), h)
<1> DEFINE g == DropOld(h)
<1>1. EndOf(g, h)
  BY DropOldKeepsEnd
<1> HIDE DEF g
<1>2. g \in Seq(Row) /\ InOrder(g)
  BY <1>1, EndInOrder
<1>3. EndOf(Trim(g), g)
  BY <1>2, TrimKeepsNewest
<1>4. EndOf(Trim(g), h)
  BY <1>1, <1>3, EndOfEnd
<1> QED
  BY <1>4 DEF g

-----------------------------------------------------------------------------
(* Types.                                                                  *)

\* The rows of one session keep their types when they are written.
LEMMA AppendMessageRows ==
  ASSUME TypeOK, StoreSound, NEW s \in Sessions, AppendMessage(s)
  PROVE  LET g == Append(hist[s], [n |-> count[s] + 1, ts |-> now])
         IN /\ g \in Seq(Row) /\ InOrder(g)
            /\ hist' = [hist EXCEPT ![s] = Trim(g)]
            /\ Trim(g) \in Seq(Row) /\ InOrder(Trim(g))
            /\ Trim(g) = BoundedHistory!Newest(g, Limit)
            /\ \A i \in DOMAIN Trim(g) : Trim(g)[i].ts <= now
<1> DEFINE h == hist[s]
           r == [n |-> count[s] + 1, ts |-> now]
           g == Append(h, r)
<1>1. h \in Seq(Row) /\ InOrder(h) /\ now \in Nat /\ count[s] \in Nat
  BY BoundAssumption DEF TypeOK, StoreSound
<1>2. r \in Row /\ r.ts = now
  BY <1>1 DEF Row
<1>3. \A i \in DOMAIN h : h[i].ts <= r.ts
  BY <1>2 DEF StoreSound
<1>4. hist' = [hist EXCEPT ![s] = Trim(g)]
  BY DEF AppendMessage
<1> HIDE DEF h, r
<1>5. g \in Seq(Row) /\ InOrder(g) /\ \A i \in DOMAIN g : g[i].ts <= now
  BY <1>1, <1>2, <1>3, AppendInOrder
<1> HIDE DEF g
<1>6. Trim(g) = BoundedHistory!Newest(g, Limit) /\ EndOf(Trim(g), g)
  BY <1>5, TrimKeepsNewest
<1>7. /\ Trim(g) \in Seq(Row) /\ InOrder(Trim(g))
      /\ \A i \in DOMAIN Trim(g) : \E j \in DOMAIN g : Trim(g)[i] = g[j]
  BY <1>5, <1>6, EndInOrder
<1>8. \A i \in DOMAIN Trim(g) : Trim(g)[i].ts <= now
  BY <1>5, <1>7
<1> QED
  BY <1>4, <1>5, <1>6, <1>7, <1>8 DEF g, h, r

\* The rows the minute timer leaves of a session that stays.
LEMMA PrunedRows ==
  ASSUME TypeOK, StoreSound, NEW s \in Sessions
  PROVE  LET g == Trim(DropOld(hist[s]))
         IN /\ g \in Seq(Row) /\ InOrder(g) /\ EndOf(g, hist[s])
            /\ \A i \in DOMAIN g : g[i].ts <= now
<1> DEFINE h == hist[s]
           g == Trim(DropOld(h))
<1>1. h \in Seq(Row) /\ InOrder(h) /\ now \in Nat
      /\ \A i \in DOMAIN h : h[i].ts <= now
  BY BoundAssumption DEF TypeOK, StoreSound
<1> HIDE DEF h
<1>2. EndOf(g, h)
  BY <1>1, PrunedHistory
<1> HIDE DEF g
<1>3. /\ g \in Seq(Row) /\ InOrder(g)
      /\ \A i \in DOMAIN g : \E j \in DOMAIN h : g[i] = h[j]
  BY <1>1, <1>2, EndInOrder
<1>4. \A i \in DOMAIN g : g[i].ts <= now
  BY <1>1, <1>3
<1> QED
  BY <1>2, <1>3, <1>4 DEF g, h

\* The snapshots of a session after one more was written.
LEMMA SnapshotRows ==
  ASSUME NEW m \in Seq(Snapshot), NEW w \in Workspaces, NEW b \in BOOLEAN
  PROVE  LET g == Append(MapDelete(m, w), [id |-> w, ide |-> b])
         IN g \in Seq(Snapshot) /\ Keys(g) \subseteq Keys(m) \cup {w}
<1> DEFINE d == MapDelete(m, w)
           e == [id |-> w, ide |-> b]
           g == Append(d, e)
<1>1. d \in Seq(Snapshot) /\ \A j \in DOMAIN d : \E i \in DOMAIN m : d[j] = m[i]
  BY MapDeleteEntries
<1>2. e \in Snapshot /\ e.id = w
  BY DEF Snapshot
<1> HIDE DEF d, e
<1>3. /\ g \in Seq(Snapshot) /\ DOMAIN g = 1 .. Len(d) + 1
      /\ Len(d) \in Nat /\ DOMAIN d = 1 .. Len(d)
      /\ \A i \in 1 .. Len(d) : g[i] = d[i]
      /\ g[Len(d) + 1] = e
  BY <1>1, <1>2, AppendProperties
<1> HIDE DEF g
<1>4. ASSUME NEW i \in DOMAIN g PROVE g[i].id \in Keys(m) \cup {w}
  <2>1. CASE i \in 1 .. Len(d)
    <3>1. PICK j \in DOMAIN m : g[i] = m[j]
      BY <1>1, <1>3, <2>1
    <3> QED
      BY <3>1 DEF Keys
  <2>2. CASE i = Len(d) + 1
    BY <1>2, <1>3, <2>2
  <2> QED
    BY <1>3, <2>1, <2>2
<1> QED
  BY <1>3, <1>4 DEF Keys, g, d, e

Inv == TypeOK /\ StoreSound

\* Every step keeps the types and the invariant.
LEMMA NextKeepsInv == Inv /\ [Next]_vars => Inv'
<1> SUFFICES ASSUME Inv, [Next]_vars PROVE Inv'
  OBVIOUS
<1>0. TypeOK /\ StoreSound
  BY DEF Inv
<1>1. CASE \E s \in Sessions : CreateSession(s)
  <2>1. PICK s \in Sessions : CreateSession(s)
    BY <1>1
  <2>2. /\ now \in 0 .. MaxTime /\ now + Ttl \in 0 .. MaxTime + Ttl
        /\ now + Ttl # -1
    BY <1>0, TimeAssumption, BoundAssumption DEF TypeOK
  <2>3. TypeOK'
    BY <1>0, <2>1, <2>2 DEF TypeOK, CreateSession, tables
  <2>4. StoreSound'
    BY <1>0, <2>1, <2>2 DEF TypeOK, StoreSound, CreateSession, tables, HasRow
  <2> QED
    BY <2>3, <2>4 DEF Inv
<1>2. CASE \E s \in Sessions : AppendMessage(s)
  <2>1. PICK s \in Sessions : AppendMessage(s)
    BY <1>2
  <2> DEFINE g == Trim(Append(hist[s], [n |-> count[s] + 1, ts |-> now]))
  <2>2. /\ hist' = [hist EXCEPT ![s] = g]
        /\ g \in Seq(Row) /\ InOrder(g)
        /\ \A i \in DOMAIN g : g[i].ts <= now
    BY <1>0, <2>1, AppendMessageRows
  <2> HIDE DEF g
  <2>3. count' \in [Sessions -> 0 .. MaxAppends]
    BY <1>0, <2>1, BoundAssumption DEF AppendMessage, TypeOK
  <2>4. UNCHANGED <<now, expires, listed, snaps, agents>> /\ HasRow(s)
    BY <2>1 DEF AppendMessage, tables
  <2>5. TypeOK'
    BY <1>0, <2>2, <2>3, <2>4 DEF TypeOK
  <2>6. StoreSound'
    BY <1>0, <2>2, <2>4 DEF TypeOK, StoreSound, HasRow
  <2> QED
    BY <2>5, <2>6 DEF Inv
<1>3. CASE \E s \in Sessions, w \in Workspaces : UpsertWorkspace(s, w)
  <2>1. PICK s \in Sessions, w \in Workspaces : UpsertWorkspace(s, w)
    BY <1>3
  <2>2. /\ listed' = [listed EXCEPT ![s] = listed[s] \cup {w}]
        /\ agents' = [agents EXCEPT ![s] = agents[s] \cup {w}]
        /\ HasRow(s)
        /\ UNCHANGED <<now, expires, hist, count, snaps>>
    BY <2>1 DEF UpsertWorkspace
  <2>3. TypeOK'
    BY <1>0, <2>2 DEF TypeOK
  <2>4. StoreSound'
    BY <1>0, <2>2 DEF TypeOK, StoreSound, HasRow
  <2> QED
    BY <2>3, <2>4 DEF Inv
<1>g. CASE \E s \in Sessions, w \in Workspaces : AgentGone(s, w)
  <2>1. PICK s \in Sessions, w \in Workspaces : AgentGone(s, w)
    BY <1>g
  <2>2. /\ agents' = [agents EXCEPT ![s] = agents[s] \ {w}]
        /\ UNCHANGED <<now, expires, hist, count, listed, snaps>>
    BY <2>1 DEF AgentGone, tables
  <2>3. TypeOK'
    BY <1>0, <2>2 DEF TypeOK
  <2>4. StoreSound'
    BY <1>0, <2>2 DEF TypeOK, StoreSound, HasRow
  <2> QED
    BY <2>3, <2>4 DEF Inv
<1>4. CASE \E s \in Sessions, w \in Workspaces, ide \in BOOLEAN :
             StatusSnapshot(s, w, ide)
  <2>1. PICK s \in Sessions, w \in Workspaces, ide \in BOOLEAN :
          StatusSnapshot(s, w, ide)
    BY <1>4
  <2> DEFINE kept == w \in Keys(snaps[s]) /\ At(snaps[s], w).ide
             b == ide \/ kept
             g == Append(MapDelete(snaps[s], w), [id |-> w, ide |-> b])
  <2>2. /\ snaps' = [snaps EXCEPT ![s] = g]
        /\ HasRow(s) /\ w \in agents[s]
        /\ UNCHANGED <<now, expires, hist, count, listed, agents>>
    BY <2>1 DEF StatusSnapshot, UpsertWorkspaceSnapshot
  <2>3. b \in BOOLEAN /\ snaps[s] \in Seq(Snapshot)
    <3>1. kept \in BOOLEAN
      OBVIOUS
    <3> HIDE DEF kept
    <3> QED
      BY <1>0, <3>1 DEF TypeOK
  <2> HIDE DEF b
  <2>4. g \in Seq(Snapshot) /\ Keys(g) \subseteq Keys(snaps[s]) \cup {w}
    BY <2>3, SnapshotRows
  <2> HIDE DEF g
  <2>5. TypeOK'
    BY <1>0, <2>2, <2>4 DEF TypeOK
  <2>l. Keys(g) \subseteq listed[s]
    BY <1>0, <2>2, <2>4 DEF StoreSound
  <2>6. StoreSound'
    BY <1>0, <2>2, <2>l DEF TypeOK, StoreSound, HasRow
  <2> QED
    BY <2>5, <2>6 DEF Inv
<1>5. CASE PruneExpired
  <2> DEFINE gone == {s \in Sessions : expires[s] <= now}
             g(s) == Trim(DropOld(hist[s]))
  <2>1. \A s \in Sessions :
          /\ g(s) \in Seq(Row) /\ InOrder(g(s))
          /\ \A i \in DOMAIN g(s) : g(s)[i].ts <= now
    BY <1>0, PrunedRows
  <2>2. /\ expires' = [s \in Sessions |-> IF s \in gone THEN -1 ELSE expires[s]]
        /\ hist' = [s \in Sessions |-> IF s \in gone THEN <<>> ELSE g(s)]
        /\ listed' = [s \in Sessions |-> IF s \in gone THEN {} ELSE listed[s]]
        /\ snaps' = [s \in Sessions |-> IF s \in gone THEN <<>> ELSE snaps[s]]
        /\ UNCHANGED <<now, count, agents>>
    BY <1>5 DEF PruneExpired
  <2>3. \A s \in Sessions : expires[s] = -1 => s \in gone
    BY <1>0, BoundAssumption DEF TypeOK
  <2> HIDE DEF gone, g
  <2>4. TypeOK'
    BY <1>0, <2>1, <2>2 DEF TypeOK
  <2>5. StoreSound'
    <3> SUFFICES ASSUME NEW s \in Sessions
                 PROVE  /\ InOrder(hist'[s])
                        /\ \A i \in DOMAIN hist'[s] : hist'[s][i].ts <= now
                        /\ Keys(snaps'[s]) \subseteq listed'[s]
                        /\ expires'[s] # -1 => agents[s] \subseteq listed'[s]
                        /\ expires'[s] = -1 => hist'[s] = <<>> /\ listed'[s] = {}
                                               /\ snaps'[s] = <<>>
      BY <2>2 DEF StoreSound, HasRow
    <3>1. CASE s \in gone
      BY <2>2, <3>1 DEF InOrder, Keys
    <3>2. CASE s \notin gone
      BY <1>0, <2>1, <2>2, <2>3, <3>2 DEF StoreSound, HasRow
    <3> QED
      BY <3>1, <3>2
  <2> QED
    BY <2>4, <2>5 DEF Inv
<1>6. CASE Tick
  <2>1. now' \in 0 .. MaxTime /\ now' >= now
    BY <1>0, <1>6, BoundAssumption DEF TypeOK, Tick
  <2>2. TypeOK'
    BY <1>0, <1>6, <2>1 DEF TypeOK, Tick, tables
  <2>3. \A s \in Sessions : \A i \in DOMAIN hist[s] : hist[s][i].ts <= now'
    <3> SUFFICES ASSUME NEW s \in Sessions, NEW i \in DOMAIN hist[s]
                 PROVE  hist[s][i].ts <= now'
      OBVIOUS
    <3>1. hist[s] \in Seq(Row) /\ hist[s][i].ts <= now /\ now \in Nat
      BY <1>0, BoundAssumption DEF TypeOK, StoreSound
    <3>2. hist[s][i].ts \in Nat
      BY <3>1, RowType
    <3> QED
      BY <2>1, <3>1, <3>2, BoundAssumption
  <2>4. StoreSound'
    BY <1>0, <1>6, <2>3 DEF StoreSound, Tick, tables, HasRow
  <2> QED
    BY <2>2, <2>4 DEF Inv
<1>7. CASE UNCHANGED vars
  BY <1>0, <1>7 DEF Inv, TypeOK, StoreSound, vars, tables, HasRow
<1> QED
  BY <1>1, <1>2, <1>3, <1>g, <1>4, <1>5, <1>6, <1>7 DEF Next

\* The tables are typed and sound in every state.
LEMMA InvHolds == Spec => []Inv
<1>1. Init => Inv
  <2> SUFFICES ASSUME Init PROVE Inv
    OBVIOUS
  <2>1. TypeOK
    BY BoundAssumption DEF Init, TypeOK
  <2>2. StoreSound
    BY DEF Init, StoreSound, InOrder, Keys
  <2> QED
    BY <2>1, <2>2 DEF Inv
<1>2. Inv /\ [Next]_vars => Inv'
  BY NextKeepsInv
<1> QED
  BY <1>1, <1>2, PTL DEF Spec

\* The tables always have their types.
THEOREM StoreTypeCorrect == Spec => []TypeOK
<1>1. Inv => TypeOK
  BY DEF Inv
<1> QED
  BY <1>1, InvHolds, PTL

-----------------------------------------------------------------------------
(* What the phone reads.                                                   *)

\* The workspaces the relay serves a tree of are offered to the phone, and
\* nothing is served of a session that has ended.
THEOREM TablesAlwaysAgree == Spec => []TablesAgree
<1>1. ASSUME Inv PROVE TablesAgree
  <2>0. TypeOK /\ StoreSound
    BY <1>1 DEF Inv
  <2> SUFFICES ASSUME NEW s \in Sessions
               PROVE  /\ \A w \in Workspaces \cup {None} :
                           TreeOf(s, w) \in listed[s] \cup {None}
                      /\ ~HasRow(s) => listed[s] = {} /\ ListHistory(hist[s]) = <<>>
    BY DEF TablesAgree, ListConnectedWorkspaces
  <2>1. snaps[s] \in Seq(Snapshot) /\ Keys(snaps[s]) \subseteq listed[s]
    BY <2>0 DEF TypeOK, StoreSound
  <2>2. FirstKey(snaps[s], None) \in Keys(snaps[s]) \cup {None}
    <3>1. CASE snaps[s] = <<>>
      BY <3>1 DEF FirstKey
    <3>2. CASE snaps[s] # <<>>
      <4>1. 1 \in DOMAIN snaps[s]
        BY <2>1, <3>2
      <4> QED
        BY <3>2, <4>1 DEF FirstKey, Keys
    <3> QED
      BY <3>1, <3>2
  <2>3. \A w \in Workspaces \cup {None} : TreeOf(s, w) \in listed[s] \cup {None}
    BY <2>1, <2>2 DEF TreeOf
  <2>4. ASSUME ~HasRow(s) PROVE listed[s] = {} /\ ListHistory(hist[s]) = <<>>
    <3>1. listed[s] = {} /\ hist[s] = <<>>
      BY <2>0, <2>4 DEF StoreSound
    <3> QED
      BY <3>1 DEF ListHistory
  <2> QED
    BY <2>3, <2>4
<1> QED
  BY <1>1, InvHolds, PTL

\* Two messages of a session share a millisecond, or its list is exactly in
\* the order in which the messages were relayed.
ReplayInOrderUnlessTied ==
  \A s \in Sessions :
    (\A i, j \in DOMAIN hist[s] : hist[s][i].ts = hist[s][j].ts => i = j) =>
      ListHistory(hist[s]) = numbers[s]

\* ReplayInOrder fails for no other reason than two messages of one
\* millisecond.
THEOREM ReplayOnlyTiesTurn == Spec => []ReplayInOrderUnlessTied
<1>1. ASSUME Inv PROVE ReplayInOrderUnlessTied
  <2> SUFFICES ASSUME NEW s \in Sessions,
                      \A i, j \in DOMAIN hist[s] : hist[s][i].ts = hist[s][j].ts => i = j
               PROVE  ListHistory(hist[s]) = numbers[s]
    BY DEF ReplayInOrderUnlessTied
  <2>1. hist[s] \in Seq(Row) /\ InOrder(hist[s])
    BY <1>1 DEF Inv, TypeOK, StoreSound
  <2>2. ListHistory(hist[s]) = Numbers(hist[s])
    BY <2>1, ListOfDistinct
  <2> QED
    BY <2>2 DEF numbers, Numbers
<1> QED
  BY <1>1, InvHolds, PTL

-----------------------------------------------------------------------------
(* The stored history implements the bounded log.                          *)

\* The numbers of rows are a sequence as long as the rows.
LEMMA NumbersType ==
  ASSUME NEW h \in Seq(Row)
  PROVE  /\ Numbers(h) \in Seq(Nat) /\ Len(Numbers(h)) = Len(h)
         /\ \A i \in 1 .. Len(h) : Numbers(h)[i] = h[i].n
<1>1. /\ Len(h) \in Nat /\ DOMAIN h = 1 .. Len(h)
      /\ \A i \in 1 .. Len(h) : h[i].n \in Nat
  BY RowType
<1>2. Numbers(h) = [i \in 1 .. Len(h) |-> h[i].n]
  BY <1>1 DEF Numbers
<1> QED
  BY <1>1, <1>2

\* The numbers of an end are the end of the numbers.
LEMMA NumbersOfEnd ==
  ASSUME NEW h \in Seq(Row), NEW a \in 1 .. Len(h) + 1
  PROVE  Numbers(From(h, a)) = From(Numbers(h), a)
<1> DEFINE g == From(h, a)
           q == Numbers(h)
<1>1. /\ g \in Seq(Row) /\ Len(g) = Len(h) - a + 1 /\ Len(h) \in Nat
      /\ \A i \in 1 .. Len(h) - a + 1 : g[i] = h[a + i - 1]
  BY FromProperties
<1>2. /\ q \in Seq(Nat) /\ Len(q) = Len(h)
      /\ \A i \in 1 .. Len(h) : q[i] = h[i].n
  BY NumbersType
<1> HIDE DEF g, q
<1>3. /\ From(q, a) \in Seq(Nat) /\ Len(From(q, a)) = Len(h) - a + 1
      /\ \A i \in 1 .. Len(h) - a + 1 : From(q, a)[i] = q[a + i - 1]
  BY <1>2, FromProperties
<1>4. /\ Numbers(g) \in Seq(Nat) /\ Len(Numbers(g)) = Len(g)
      /\ \A i \in 1 .. Len(g) : Numbers(g)[i] = g[i].n
  BY <1>1, NumbersType
<1>5. \A i \in 1 .. Len(h) - a + 1 : Numbers(g)[i] = From(q, a)[i]
  <2> SUFFICES ASSUME NEW i \in 1 .. Len(h) - a + 1
               PROVE  Numbers(g)[i] = From(q, a)[i]
    OBVIOUS
  <2>1. a + i - 1 \in 1 .. Len(h)
    BY <1>1
  <2> QED
    BY <1>1, <1>2, <1>3, <1>4, <2>1
<1>6. Numbers(g) = From(q, a)
  BY <1>1, <1>3, <1>4, <1>5, SameRows
<1> QED
  BY <1>6 DEF g, q

\* The number of a message that is written comes last.
LEMMA NumbersOfAppend ==
  ASSUME NEW h \in Seq(Row), NEW r \in Row
  PROVE  /\ Numbers(Append(h, r)) = Append(Numbers(h), r.n)
         /\ Append(h, r) \in Seq(Row) /\ Len(Append(h, r)) = Len(Numbers(h)) + 1
<1> DEFINE g == Append(h, r)
           q == Append(Numbers(h), r.n)
<1>1. /\ g \in Seq(Row) /\ Len(g) = Len(h) + 1 /\ Len(h) \in Nat
      /\ \A i \in 1 .. Len(h) : g[i] = h[i]
      /\ g[Len(h) + 1] = r
  BY AppendProperties
<1>2. /\ Numbers(h) \in Seq(Nat) /\ Len(Numbers(h)) = Len(h)
      /\ \A i \in 1 .. Len(h) : Numbers(h)[i] = h[i].n
  BY NumbersType
<1>3. r.n \in Nat
  BY DEF Row
<1>4. /\ q \in Seq(Nat) /\ Len(q) = Len(h) + 1
      /\ \A i \in 1 .. Len(h) : q[i] = h[i].n
      /\ q[Len(h) + 1] = r.n
  BY <1>2, <1>3, AppendProperties
<1> HIDE DEF g, q
<1>5. /\ Numbers(g) \in Seq(Nat) /\ Len(Numbers(g)) = Len(g)
      /\ \A i \in 1 .. Len(g) : Numbers(g)[i] = g[i].n
  BY <1>1, NumbersType
<1>6. \A i \in 1 .. Len(h) + 1 : Numbers(g)[i] = q[i]
  <2> SUFFICES ASSUME NEW i \in 1 .. Len(h) + 1 PROVE Numbers(g)[i] = q[i]
    OBVIOUS
  <2>1. CASE i \in 1 .. Len(h)
    BY <1>1, <1>4, <1>5, <2>1
  <2>2. CASE i = Len(h) + 1
    BY <1>1, <1>4, <1>5, <2>2
  <2> QED
    BY <1>1, <2>1, <2>2
<1>7. Numbers(g) = q
  BY <1>1, <1>4, <1>5, <1>6, SameRows
<1> QED
  BY <1>1, <1>2, <1>7 DEF g, q

\* The newest numbers are the numbers of the newest rows.
LEMMA NumbersOfNewest ==
  ASSUME NEW h \in Seq(Row)
  PROVE  Numbers(BoundedHistory!Newest(h, Limit))
           = BoundedHistory!Newest(Numbers(h), Limit)
<1> DEFINE a == IF Len(h) > Limit THEN Len(h) - Limit + 1 ELSE 1
<1>1. Len(Numbers(h)) = Len(h) /\ Len(h) \in Nat
  BY NumbersType
<1>2. a \in 1 .. Len(h) + 1
  BY <1>1, LimitAssumption
<1>3. /\ BoundedHistory!Newest(h, Limit) = From(h, a)
      /\ BoundedHistory!Newest(Numbers(h), Limit) = From(Numbers(h), a)
  BY <1>1 DEF From, BoundedHistory!Newest
<1> HIDE DEF a
<1> QED
  BY <1>2, <1>3, NumbersOfEnd

\* Every step of the store opens a session, adds a message, forgets the
\* oldest messages, or shows nothing.
LEMMA StepMaps ==
  Inv /\ [Next]_vars => [BoundedHistory!Next]_(BoundedHistory!vars)
<1> SUFFICES ASSUME Inv, [Next]_vars
             PROVE  BoundedHistory!Next \/ UNCHANGED BoundedHistory!vars
  OBVIOUS
<1> DEFINE open == [s \in Sessions |-> HasRow(s)]
<1>0. TypeOK /\ StoreSound
  BY DEF Inv
<1>i. /\ numbers = [s \in Sessions |-> Numbers(hist[s])]
      /\ numbers' = [s \in Sessions |-> Numbers(hist'[s])]
      /\ open = [s \in Sessions |-> expires[s] # -1]
      /\ open' = [s \in Sessions |-> expires'[s] # -1]
  BY DEF numbers, Numbers, HasRow
<1>1. ASSUME NEW s \in Sessions, CreateSession(s)
      PROVE  BoundedHistory!Open(s)
  <2>1. now + Ttl # -1
    BY <1>0, TimeAssumption, BoundAssumption DEF TypeOK
  <2>2. open' = [open EXCEPT ![s] = TRUE] /\ ~open[s]
    BY <1>0, <1>1, <1>i, <2>1 DEF CreateSession, TypeOK, HasRow
  <2>3. numbers' = numbers /\ count' = count /\ count[s] = 0
    BY <1>1, <1>i DEF CreateSession
  <2> QED
    BY <2>2, <2>3 DEF BoundedHistory!Open
<1>2. ASSUME NEW s \in Sessions, AppendMessage(s)
      PROVE  BoundedHistory!Add(s)
  <2> DEFINE h == hist[s]
             r == [n |-> count[s] + 1, ts |-> now]
             g == Append(h, r)
  <2>1. h \in Seq(Row) /\ r \in Row /\ r.n = count[s] + 1
    BY <1>0, BoundAssumption DEF TypeOK, Row
  <2>2. /\ hist' = [hist EXCEPT ![s] = Trim(g)]
        /\ Trim(g) = BoundedHistory!Newest(g, Limit)
    BY <1>0, <1>2, AppendMessageRows
  <2>3. /\ open[s] /\ open' = open
        /\ count' = [count EXCEPT ![s] = @ + 1]
    BY <1>2, <1>i DEF AppendMessage, HasRow
  <2>4. numbers[s] = Numbers(h)
    BY <1>i
  <2>t. hist \in [Sessions -> Seq(Row)]
    BY <1>0 DEF TypeOK
  <2> HIDE DEF h, r
  <2>5. g \in Seq(Row) /\ Numbers(g) = Append(Numbers(h), r.n)
    BY <2>1, NumbersOfAppend
  <2> HIDE DEF g
  <2>6. Numbers(Trim(g)) = BoundedHistory!Newest(Append(numbers[s], count[s] + 1), Limit)
    BY <2>1, <2>2, <2>4, <2>5, NumbersOfNewest
  <2>7. numbers' = [numbers EXCEPT
                      ![s] = BoundedHistory!Newest(Append(@, count[s] + 1), Limit)]
    BY <1>i, <2>2, <2>6, <2>t
  <2> QED
    BY <2>3, <2>7 DEF BoundedHistory!Add
<1>3. ASSUME NEW s \in Sessions, NEW w \in Workspaces,
             \/ UpsertWorkspace(s, w)
             \/ AgentGone(s, w)
             \/ \E ide \in BOOLEAN : StatusSnapshot(s, w, ide)
      PROVE  UNCHANGED BoundedHistory!vars
  <2>1. UNCHANGED <<expires, hist, count>>
    BY <1>3 DEF UpsertWorkspace, AgentGone, StatusSnapshot, UpsertWorkspaceSnapshot
  <2> QED
    BY <1>i, <2>1 DEF BoundedHistory!vars
<1>4. ASSUME PruneExpired PROVE BoundedHistory!Forget
  <2> DEFINE gone == {s \in Sessions : expires[s] <= now}
             g(s) == Trim(DropOld(hist[s]))
  <2>1. /\ expires' = [s \in Sessions |-> IF s \in gone THEN -1 ELSE expires[s]]
        /\ hist' = [s \in Sessions |-> IF s \in gone THEN <<>> ELSE g(s)]
        /\ UNCHANGED count
    BY <1>4 DEF PruneExpired
  <2>2. \A s \in Sessions : hist[s] \in Seq(Row) /\ EndOf(g(s), hist[s])
    BY <1>0, PrunedRows DEF TypeOK
  <2>3. \A s \in Sessions : expires[s] = -1 => s \in gone
    BY <1>0, BoundAssumption DEF TypeOK
  <2> HIDE DEF gone, g
  <2>4. \A s \in Sessions : open'[s] => open[s] /\ s \notin gone
    BY <1>i, <2>1, <2>3
  <2>5. ASSUME NEW s \in Sessions, ~open'[s] PROVE numbers'[s] = <<>>
    <3>1. s \in gone
      BY <1>i, <2>1, <2>3, <2>5
    <3>2. hist'[s] = <<>>
      BY <2>1, <3>1
    <3> QED
      BY <1>i, <3>2 DEF Numbers
  <2>6. ASSUME NEW s \in Sessions, open'[s] PROVE IsSuffix(numbers'[s], numbers[s])
    <3>1. hist'[s] = g(s) /\ hist[s] \in Seq(Row) /\ EndOf(g(s), hist[s])
      BY <2>1, <2>2, <2>4, <2>6
    <3>2. PICK a \in 1 .. Len(hist[s]) + 1 : g(s) = From(hist[s], a)
      BY <3>1 DEF EndOf
    <3>3. numbers'[s] = From(numbers[s], a)
      BY <1>i, <3>1, <3>2, NumbersOfEnd
    <3>4. numbers[s] \in Seq(Nat) /\ Len(numbers[s]) = Len(hist[s])
      BY <1>i, <3>1, NumbersType
    <3>5. EndOf(numbers'[s], numbers[s])
      BY <3>3, <3>4 DEF EndOf
    <3> QED
      BY <3>4, <3>5, EndIsSuffix
  <2> QED
    <3>1. \A s \in Sessions : open'[s] => open[s]
      BY <2>4
    <3>2. \A s \in Sessions :
            IF open'[s] THEN BoundedHistory!IsSuffix(numbers'[s], numbers[s])
                        ELSE numbers'[s] = <<>>
      <4>1. \A f, h : IsSuffix(f, h) <=> BoundedHistory!IsSuffix(f, h)
        BY DEF IsSuffix, IsPrefix, Reverse, BoundedHistory!IsSuffix,
               BoundedHistory!IsPrefix, BoundedHistory!Reverse
      <4> QED
        BY <2>5, <2>6, <4>1
    <3>3. UNCHANGED count
      BY <2>1
    <3> QED
      BY <3>1, <3>2, <3>3 DEF BoundedHistory!Forget
<1>5. ASSUME Tick \/ UNCHANGED vars PROVE UNCHANGED BoundedHistory!vars
  <2>1. UNCHANGED <<expires, hist, count>>
    BY <1>5 DEF Tick, vars
  <2> QED
    BY <1>i, <2>1 DEF BoundedHistory!vars
<1> QED
  BY <1>1, <1>2, <1>3, <1>4, <1>5 DEF Next, BoundedHistory!Next

\* For every limit, retention and TTL the stored history is a bounded log:
\* the inserts, the trims, the retention and the cascade lose only the oldest
\* messages.
THEOREM StoreRefinesBoundedLog == Spec => RefinesBoundedLog
<1>1. Init => BoundedHistory!Init
  <2> SUFFICES ASSUME Init PROVE BoundedHistory!Init
    OBVIOUS
  <2>1. [s \in Sessions |-> HasRow(s)] = [s \in Sessions |-> FALSE]
    BY DEF Init, HasRow
  <2>2. \A s \in Sessions : [i \in DOMAIN hist[s] |-> hist[s][i].n] = <<>>
    BY DEF Init
  <2>3. numbers = [s \in Sessions |-> <<>>]
    BY <2>2 DEF numbers
  <2> QED
    BY <2>1, <2>3 DEF Init, BoundedHistory!Init
<1>2. Inv /\ [Next]_vars => [BoundedHistory!Next]_(BoundedHistory!vars)
  BY StepMaps
<1> QED
  BY <1>1, <1>2, InvHolds, PTL DEF Spec, RefinesBoundedLog, BoundedHistory!Spec
=============================================================================
