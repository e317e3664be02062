-------------------------- MODULE CandidatePoolProofs --------------------------
(***************************************************************************)
(* Proofs about one query of the candidate pool retriever, for any index,  *)
(* scores, channels, weights and depths the configuration accepts.  The    *)
(* first part is about lists in a total order and their first rows, the    *)
(* second about the channels, the third about the fusion and the pool.     *)
(***************************************************************************)
EXTENDS CandidatePool, FiniteSetTheorems, NaturalsInduction, WellFoundedInduction, TLAPS

(* Lists *)

\* The lesser of two numbers.
LEMMA MinIs ==
  ASSUME NEW a \in Int, NEW b \in Int
  PROVE  Min({a, b}) = IF a <= b THEN a ELSE b
<1>. DEFINE m == IF a <= b THEN a ELSE b
<1>1. m \in {a, b} /\ \A y \in {a, b} : m <= y
  OBVIOUS
<1>2. \A x \in {a, b} : (\A y \in {a, b} : x <= y) => x = m
  OBVIOUS
<1>. QED
  BY <1>1, <1>2 DEF Min

\* The first k of a list are its rows up to k.
LEMMA CutIs ==
  ASSUME NEW S, NEW s \in Seq(S), NEW k \in Nat
  PROVE  /\ Cut(s, k) \in Seq(S)
         /\ Len(Cut(s, k)) = IF Len(s) <= k THEN Len(s) ELSE k
         /\ \A i \in 1 .. Len(Cut(s, k)) : Cut(s, k)[i] = s[i]
<1>. DEFINE n == IF Len(s) <= k THEN Len(s) ELSE k
<1>1. n \in 0 .. Len(s) /\ Min({k, Len(s)}) = n
  BY MinIs
<1>2. Cut(s, k) = SubSeq(s, 1, n)
  BY <1>1 DEF Cut
<1>. HIDE DEF n
<1>3. /\ SubSeq(s, 1, n) \in Seq(S) /\ Len(SubSeq(s, 1, n)) = n
      /\ \A i \in 1 .. n : SubSeq(s, 1, n)[i] = s[i]
  BY <1>1
<1>. QED
  BY <1>2, <1>3 DEF n

\* A cut of a cut is the shorter cut.
LEMMA CutOfCut ==
  ASSUME NEW S, NEW s \in Seq(S), NEW k \in Nat, NEW m \in Nat, m <= k
  PROVE  Cut(Cut(s, k), m) = Cut(s, m)
<1>1. /\ Cut(s, k) \in Seq(S) /\ Cut(Cut(s, k), m) \in Seq(S) /\ Cut(s, m) \in Seq(S)
  BY CutIs
<1>2. Len(Cut(Cut(s, k), m)) = Len(Cut(s, m))
  BY <1>1, CutIs
<1>3. \A i \in 1 .. Len(Cut(s, m)) : Cut(Cut(s, k), m)[i] = Cut(s, m)[i]
  BY <1>1, <1>2, CutIs
<1>. QED
  BY <1>1, <1>2, <1>3

\* Lists that agree up to k have the same first k.
LEMMA CutsAgree ==
  ASSUME NEW S, NEW s \in Seq(S), NEW t \in Seq(S), NEW k \in Nat,
         Len(s) = Len(t) \/ (k <= Len(s) /\ k <= Len(t)),
         \A i \in 1 .. Len(s) : (i <= k /\ i <= Len(t)) => s[i] = t[i]
  PROVE  Cut(s, k) = Cut(t, k)
<1>1. Cut(s, k) \in Seq(S) /\ Cut(t, k) \in Seq(S)
  BY CutIs
<1>2. Len(Cut(s, k)) = Len(Cut(t, k))
  BY CutIs
<1>3. \A i \in 1 .. Len(Cut(s, k)) : Cut(s, k)[i] = Cut(t, k)[i]
  BY <1>1, <1>2, CutIs
<1>. QED
  BY <1>1, <1>2, <1>3

-------------------------------------------------------------------------------
(* Total orders *)

Orders(before, rows) ==
  /\ \A a \in rows : <<a, a>> \notin before
  /\ \A a, b \in rows : a # b => <<a, b>> \in before \/ <<b, a>> \in before
  /\ \A a, b, c \in rows : <<a, b>> \in before /\ <<b, c>> \in before => <<a, c>> \in before

Ahead(r, rows, before) == {q \in rows : <<q, r>> \in before}

\* The number of rows ahead is below the number of rows and grows along the order.
LEMMA AheadCounts ==
  ASSUME NEW rows, IsFiniteSet(rows), NEW before, Orders(before, rows)
  PROVE  /\ Cardinality(rows) \in Nat
         /\ \A r \in rows : /\ IsFiniteSet(Ahead(r, rows, before))
                            /\ Cardinality(Ahead(r, rows, before)) \in 0 .. Cardinality(rows) - 1
         /\ \A a, b \in rows : <<a, b>> \in before =>
              Cardinality(Ahead(a, rows, before)) < Cardinality(Ahead(b, rows, before))
<1>. DEFINE A(r) == Ahead(r, rows, before)
<1>1. Cardinality(rows) \in Nat
  BY FS_CardinalityType
<1>2. ASSUME NEW r \in rows
      PROVE  /\ IsFiniteSet(A(r)) /\ Cardinality(A(r)) \in Nat
             /\ Cardinality(A(r)) < Cardinality(rows)
  <2>1. A(r) \in SUBSET rows /\ r \notin A(r)
    BY <1>2 DEF Ahead, Orders
  <2>2. /\ IsFiniteSet(A(r)) /\ Cardinality(A(r)) <= Cardinality(rows)
        /\ Cardinality(A(r)) # Cardinality(rows)
    BY <2>1, <1>2, FS_Subset
  <2>3. Cardinality(A(r)) \in Nat
    BY <2>2, FS_CardinalityType
  <2>. QED
    BY <1>1, <2>2, <2>3
<1>3. ASSUME NEW a \in rows, NEW b \in rows, <<a, b>> \in before
      PROVE  Cardinality(A(a)) < Cardinality(A(b))
  <2>1. A(a) \in SUBSET A(b) /\ a \in A(b) /\ a \notin A(a)
    BY <1>3 DEF Ahead, Orders
  <2>2. IsFiniteSet(A(b)) /\ Cardinality(A(b)) \in Nat /\ Cardinality(A(a)) \in Nat
    BY <1>2
  <2>3. Cardinality(A(a)) <= Cardinality(A(b)) /\ Cardinality(A(a)) # Cardinality(A(b))
    BY <2>1, <2>2, FS_Subset
  <2>. QED
    BY <2>2, <2>3
<1>. QED
  BY <1>1, <1>2, <1>3

\* InOrder lists every row once, at the place that counts the rows ahead of it.
LEMMA InOrderLists ==
  ASSUME NEW rows, IsFiniteSet(rows), NEW before, Orders(before, rows)
  PROVE  LET s == InOrder(rows, before) IN
         /\ s \in Seq(rows) /\ Len(s) = Cardinality(rows) /\ Cardinality(rows) \in Nat
         /\ \A i \in 1 .. Len(s) : Cardinality(Ahead(s[i], rows, before)) = i - 1
         /\ \A r \in rows : /\ Cardinality(Ahead(r, rows, before)) \in Nat
                            /\ Cardinality(Ahead(r, rows, before)) + 1 \in 1 .. Len(s)
                            /\ s[Cardinality(Ahead(r, rows, before)) + 1] = r
         /\ IsInjective(s) /\ Range(s) = rows
<1>. DEFINE s == InOrder(rows, before)
            n == Cardinality(rows)
            place == [r \in rows |-> Cardinality(Ahead(r, rows, before)) + 1]
<1>1. n \in Nat /\ place \in [rows -> 1 .. n]
  BY AheadCounts
<1>2. \A a, b \in rows : a # b => place[a] # place[b]
  <2>. SUFFICES ASSUME NEW a \in rows, NEW b \in rows, a # b
                PROVE  place[a] # place[b]
    OBVIOUS
  <2>1. <<a, b>> \in before \/ <<b, a>> \in before
    BY DEF Orders
  <2>2. /\ <<a, b>> \in before =>
             Cardinality(Ahead(a, rows, before)) < Cardinality(Ahead(b, rows, before))
        /\ <<b, a>> \in before =>
             Cardinality(Ahead(b, rows, before)) < Cardinality(Ahead(a, rows, before))
    BY AheadCounts
  <2>3. Cardinality(Ahead(a, rows, before)) \in Int /\ Cardinality(Ahead(b, rows, before)) \in Int
    BY AheadCounts
  <2>. QED
    BY <2>1, <2>2, <2>3
<1>3. \A i \in 1 .. n : \E r \in rows : place[r] = i
  <2>1. place \in Injection(rows, 1 .. n)
    BY <1>1, <1>2 DEF Injection, IsInjective
  <2>2. IsFiniteSet(1 .. n) /\ Cardinality(1 .. n) = n
    BY <1>1, FS_Interval
  <2>3. place \in Surjection(rows, 1 .. n)
    BY <2>1, <2>2, FS_Injection
  <2>. QED
    BY <2>3 DEF Surjection
<1>4. /\ s = [i \in 1 .. n |-> CHOOSE r \in rows : Cardinality(Ahead(r, rows, before)) = i - 1]
      /\ \A r \in rows : Cardinality(Ahead(r, rows, before)) \in Nat
  BY AheadCounts DEF InOrder, Ahead
<1>5. ASSUME NEW i \in 1 .. n
      PROVE  s[i] \in rows /\ Cardinality(Ahead(s[i], rows, before)) = i - 1
  <2>1. PICK r \in rows : place[r] = i
    BY <1>3
  <2>2. Cardinality(Ahead(r, rows, before)) = i - 1
    BY <2>1, <1>4, <1>1
  <2>. QED
    BY <2>2, <1>4
<1>. HIDE DEF s
<1>6. s \in Seq(rows) /\ Len(s) = n /\ DOMAIN s = 1 .. n
  BY <1>1, <1>4, <1>5
<1>7. ASSUME NEW r \in rows
      PROVE  place[r] \in 1 .. n /\ s[place[r]] = r
  <2>1. place[r] \in 1 .. n
    BY <1>1
  <2>2. s[place[r]] \in rows /\ Cardinality(Ahead(s[place[r]], rows, before)) = place[r] - 1
    BY <2>1, <1>5
  <2>3. place[s[place[r]]] = place[r]
    BY <2>1, <2>2, <1>4, <1>1
  <2>. QED
    BY <2>1, <2>2, <2>3, <1>2
<1>8. IsInjective(s)
  BY <1>5, <1>6, <1>1 DEF IsInjective
<1>9. Range(s) = rows
  BY <1>5, <1>6, <1>7 DEF Range
<1>. QED
  BY <1>1, <1>4, <1>5, <1>6, <1>7, <1>8, <1>9 DEF s

\* The first k of a list in order are the rows with fewer than k ahead.
LEMMA TopRows ==
  ASSUME NEW rows, IsFiniteSet(rows), NEW before, Orders(before, rows), NEW k \in Nat
  PROVE  LET top == Cut(InOrder(rows, before), k) IN
         /\ top \in Seq(rows) /\ IsInjective(top)
         /\ Len(top) = IF Cardinality(rows) <= k THEN Cardinality(rows) ELSE k
         /\ Range(top) = {r \in rows : Cardinality(Ahead(r, rows, before)) < k}
<1>. DEFINE s == InOrder(rows, before)
            top == Cut(s, k)
            ahead(r) == Cardinality(Ahead(r, rows, before))
<1>1. /\ s \in Seq(rows) /\ Len(s) = Cardinality(rows) /\ Cardinality(rows) \in Nat
      /\ \A i \in 1 .. Len(s) : ahead(s[i]) = i - 1
      /\ \A r \in rows : ahead(r) \in Nat /\ ahead(r) + 1 \in 1 .. Len(s) /\ s[ahead(r) + 1] = r
      /\ IsInjective(s)
  BY InOrderLists
<1>. HIDE DEF s, ahead
<1>2. /\ top \in Seq(rows) /\ Len(top) = IF Len(s) <= k THEN Len(s) ELSE k
      /\ \A i \in 1 .. Len(top) : top[i] = s[i]
  BY <1>1, CutIs
<1>. HIDE DEF top
<1>3. DOMAIN top = 1 .. Len(top) /\ DOMAIN s = 1 .. Len(s) /\ Len(top) \in Nat /\ Len(s) \in Nat
  BY <1>1, <1>2
<1>4. IsInjective(top)
  <2>. SUFFICES ASSUME NEW i \in 1 .. Len(top), NEW j \in 1 .. Len(top), top[i] = top[j]
                PROVE  i = j
    BY <1>3 DEF IsInjective
  <2>1. i \in DOMAIN s /\ j \in DOMAIN s /\ s[i] = s[j]
    BY <1>2, <1>3
  <2>. QED
    BY <2>1, <1>1 DEF IsInjective
<1>5. ASSUME NEW i \in 1 .. Len(top)
      PROVE  top[i] \in rows /\ ahead(top[i]) < k
  <2>1. i \in 1 .. Len(s) /\ i <= k
    BY <1>2, <1>3
  <2>2. top[i] = s[i]
    BY <1>2
  <2>3. ahead(s[i]) = i - 1
    BY <1>1, <2>1
  <2>4. s[i] \in rows
    BY <1>1, <2>1
  <2>. QED
    BY <2>1, <2>2, <2>3, <2>4
<1>6. ASSUME NEW r \in rows, ahead(r) < k
      PROVE  ahead(r) + 1 \in 1 .. Len(top) /\ top[ahead(r) + 1] = r
  <2>1. ahead(r) \in Nat /\ ahead(r) + 1 \in 1 .. Len(s) /\ s[ahead(r) + 1] = r
    BY <1>1
  <2>2. ahead(r) + 1 \in 1 .. Len(top)
    BY <1>2, <1>3, <1>6, <2>1
  <2>. QED
    BY <1>2, <2>1, <2>2
<1>7. Range(top) = {r \in rows : ahead(r) < k}
  BY <1>3, <1>5, <1>6 DEF Range
<1>. QED
  BY <1>1, <1>2, <1>4, <1>7 DEF s, top, ahead

\* Rows below which nothing is missing come in the same places as among all rows.
LEMMA ClosedIsEnough ==
  ASSUME NEW rows, IsFiniteSet(rows), NEW before, Orders(before, rows),
         NEW some \in SUBSET rows,
         \A r \in some : Ahead(r, rows, before) \subseteq some,
         NEW k \in Nat, k <= Cardinality(some)
  PROVE  Cut(InOrder(some, before), k) = Cut(InOrder(rows, before), k)
<1>. DEFINE s == InOrder(some, before)
            t == InOrder(rows, before)
<1>1. IsFiniteSet(some) /\ Orders(before, some) /\ Cardinality(some) <= Cardinality(rows)
  BY FS_Subset DEF Orders
<1>2. /\ s \in Seq(some) /\ Len(s) = Cardinality(some) /\ Cardinality(some) \in Nat
      /\ \A i \in 1 .. Len(s) : Cardinality(Ahead(s[i], some, before)) = i - 1
  BY <1>1, InOrderLists
<1>3. /\ t \in Seq(rows) /\ Len(t) = Cardinality(rows) /\ Cardinality(rows) \in Nat
      /\ \A r \in rows : t[Cardinality(Ahead(r, rows, before)) + 1] = r
  BY InOrderLists
<1>4. \A r \in some : Ahead(r, some, before) = Ahead(r, rows, before)
  BY DEF Ahead
<1>. HIDE DEF s, t
<1>5. \A i \in 1 .. Len(s) : s[i] = t[i]
  <2>. SUFFICES ASSUME NEW i \in 1 .. Len(s)
                PROVE  s[i] = t[i]
    OBVIOUS
  <2>1. s[i] \in some /\ Cardinality(Ahead(s[i], rows, before)) = i - 1
    BY <1>2, <1>4
  <2>2. t[(i - 1) + 1] = s[i] /\ (i - 1) + 1 = i
    BY <1>3, <2>1, <1>2
  <2>. QED
    BY <2>2
<1>6. s \in Seq(rows)
  BY <1>2
<1>7. Cut(s, k) = Cut(t, k)
  BY <1>1, <1>2, <1>3, <1>5, <1>6, CutsAgree
<1>. QED
  BY <1>7 DEF s, t

\* Scores and a key that tells the rows apart order them.
LEMMA BeforeOrders ==
  ASSUME NEW rows \in SUBSET Docs, NEW s, NEW key,
         \A d \in Docs : s[d] \in Int /\ key[d] \in Int,
         \A a, b \in Docs : key[a] = key[b] => a = b
  PROVE  Orders(Before(s, key), rows) /\ IsFiniteSet(rows)
<1>1. \A a, b \in Docs : <<a, b>> \in Before(s, key) <=>
        s[a] > s[b] \/ (s[a] = s[b] /\ key[a] < key[b])
  BY DEF Before
<1>2. IsFiniteSet(rows)
  BY PoolAssumption, FS_Subset
<1>. QED
  BY <1>1, <1>2 DEF Orders

-------------------------------------------------------------------------------
(* exact_top_k.py *)

\* The k-th largest score exists: it is the score of the k-th row of the full sort.
LEMMA BoundaryIs ==
  ASSUME NEW rows \in SUBSET Docs, NEW s, NEW key, NEW k \in Nat \ {0},
         \A d \in Docs : s[d] \in Int /\ key[d] \in Int,
         \A a, b \in Docs : key[a] = key[b] => a = b,
         k <= Cardinality(rows)
  PROVE  /\ Boundary(rows, s, k) \in Int
         /\ Cardinality({r \in rows : s[r] >= Boundary(rows, s, k)}) >= k
<1>. DEFINE order == Before(s, key)
            list == InOrder(rows, order)
            last == list[k]
            above(b) == {r \in rows : s[r] > b}
            reach(b) == {r \in rows : s[r] >= b}
<1>1. Orders(order, rows) /\ IsFiniteSet(rows)
  BY BeforeOrders
<1>2. last \in rows /\ Cardinality(Ahead(last, rows, order)) = k - 1
  BY <1>1, InOrderLists
<1>. HIDE DEF last, list
<1>3. \A q \in rows : <<q, last>> \in order => s[q] >= s[last]
  BY <1>2 DEF Before
<1>4. \A q \in rows : s[q] > s[last] => <<q, last>> \in order
  BY <1>2 DEF Before
<1>5. Cardinality(above(s[last])) < k
  <2>1. above(s[last]) \in SUBSET Ahead(last, rows, order)
    BY <1>4 DEF Ahead
  <2>2. IsFiniteSet(Ahead(last, rows, order))
    BY <1>1, <1>2, AheadCounts
  <2>3. IsFiniteSet(above(s[last])) /\ Cardinality(above(s[last])) <= k - 1
    BY <2>1, <2>2, <1>2, FS_Subset
  <2>4. Cardinality(above(s[last])) \in Nat
    BY <2>3, FS_CardinalityType
  <2>. QED
    BY <2>3, <2>4
<1>6. Cardinality(reach(s[last])) >= k
  <2>. DEFINE A == Ahead(last, rows, order)
  <2>1. IsFiniteSet(A) /\ Cardinality(A) = k - 1 /\ last \notin A
    BY <1>1, <1>2, AheadCounts DEF Ahead, Orders
  <2>2. A \cup {last} \in SUBSET reach(s[last])
    BY <1>2, <1>3 DEF Ahead
  <2>3. Cardinality(A \cup {last}) = k
    BY <2>1, FS_AddElement
  <2>4. IsFiniteSet(reach(s[last])) /\ Cardinality(reach(s[last])) \in Nat
    BY <1>1, FS_Subset, FS_CardinalityType
  <2>. QED
    BY <2>2, <2>3, <2>4, FS_Subset
<1>7. \E b \in {s[r] : r \in rows} : Cardinality(above(b)) < k /\ Cardinality(reach(b)) >= k
  BY <1>2, <1>5, <1>6
<1>8. /\ Boundary(rows, s, k) \in {s[r] : r \in rows}
      /\ Cardinality(reach(Boundary(rows, s, k))) >= k
  BY <1>7 DEF Boundary
<1>. QED
  BY <1>8

\* The partition keeps what the full sort puts first, ties at the boundary included.
LEMMA ExactIsFullSort ==
  ASSUME NEW rows \in SUBSET Docs, NEW s, NEW key, NEW k \in Nat \ {0},
         \A d \in Docs : s[d] \in Int /\ key[d] \in Int,
         \A a, b \in Docs : key[a] = key[b] => a = b
  PROVE  ExactTopK(rows, s, key, k) = FullSortTopK(rows, s, key, k)
<1>. DEFINE order == Before(s, key)
            some == {r \in rows : s[r] >= Boundary(rows, s, k)}
<1>1. Orders(order, rows) /\ IsFiniteSet(rows) /\ Cardinality(rows) \in Nat
  BY BeforeOrders, FS_CardinalityType
<1>2. CASE ~(Cardinality(rows) > k)
  BY <1>2 DEF ExactTopK, FullSortTopK
<1>3. CASE Cardinality(rows) > k
  <2>1. Boundary(rows, s, k) \in Int /\ Cardinality(some) >= k
    BY <1>1, <1>3, BoundaryIs
  <2>2. Cardinality(some) \in Nat
    BY <1>1, FS_Subset, FS_CardinalityType
  <2>3. \A r \in some : Ahead(r, rows, order) \subseteq some
    BY <2>1 DEF Ahead, Before
  <2>. HIDE DEF some
  <2>4. some \in SUBSET rows
    BY DEF some
  <2>5. Cut(InOrder(some, order), k) = Cut(InOrder(rows, order), k)
    BY <1>1, <2>1, <2>2, <2>3, <2>4, ClosedIsEnough
  <2>. QED
    BY <1>3, <2>5 DEF ExactTopK, FullSortTopK, Sorted, some
<1>. QED
  BY <1>2, <1>3

-------------------------------------------------------------------------------
(* The channels *)

PoolTypes ==
  /\ score \in [Lexical \cup Dense -> [Docs -> Scores]]
  /\ gain \in [Docs -> Gains]
  /\ next \in 1 .. Len(Channels) + 2
  /\ full \in [Range(Channels) -> Seq(Docs)]
  /\ prefix \in [Range(Channels) -> Seq(Docs)]
  /\ pool \in Seq(Docs)

\* A channel that ran holds, at both depths, what it finds on its own.
Searched ==
  \A i \in 1 .. Len(Channels) : i < next =>
    /\ full[Channels[i]] = Standalone(Channels[i], ChannelTopK)
    /\ prefix[Channels[i]] = Standalone(Channels[i], PrefixDepth)

\* The two lists that make the pool.
PoolFront == Cut(Fused(prefix), PrefixDepth)
PoolRest == Cut(Fused(full), TargetDepth)

Pooled ==
  next > Len(Channels) + 1 =>
    pool = Preserving(PoolFront, PoolRest)

\* The inductive invariant.
PoolInv == PoolTypes /\ Searched /\ Pooled

Queried == score \in [Lexical \cup Dense -> [Docs -> Scores]] /\ gain \in [Docs -> Gains]

\* What the assumption says of the channels.
LEMMA ChannelsAre ==
  /\ DOMAIN Channels = 1 .. Len(Channels) /\ Len(Channels) \in Nat
  /\ \A i, j \in 1 .. Len(Channels) : Channels[i] = Channels[j] => i = j
  /\ \A i \in 1 .. Len(Channels) :
       /\ Channels[i] \in Range(Channels)
       /\ Channels[i] \notin DOMAIN Derived => Channels[i] \in Lexical \cup Dense
       /\ Channels[i] \in DOMAIN Derived =>
            /\ Derived[Channels[i]] \in Lexical \cup Dense
            /\ Derived[Channels[i]] \notin DOMAIN Derived
            /\ \E j \in 1 .. i - 1 : Channels[j] = Derived[Channels[i]]
  /\ \A c \in Range(Channels) : \E i \in 1 .. Len(Channels) : Channels[i] = c
BY PoolAssumption DEF Range, IsInjective

LEMMA DepthsAre ==
  /\ PrefixDepth \in Nat \ {0} /\ TargetDepth \in Nat \ {0} /\ ChannelTopK \in Nat \ {0}
  /\ RrfK \in Nat \ {0} /\ Scale \in Nat \ {0}
  /\ PrefixDepth <= TargetDepth /\ TargetDepth <= ChannelTopK
BY PoolAssumption

LEMMA QueriedScores ==
  ASSUME Queried, NEW c \in Lexical \cup Dense, NEW d \in Docs
  PROVE  score[c][d] \in Int /\ gain[d] \in Int
<1>1. Scores \subseteq Int /\ Gains \subseteq Int
  BY PoolAssumption
<1>2. score[c] \in [Docs -> Scores] /\ gain[d] \in Gains
  BY DEF Queried
<1>3. score[c][d] \in Scores
  BY <1>2
<1>. QED
  BY <1>1, <1>2, <1>3

\* An independent channel scores rows and tells ties apart.
LEMMA ScoredRows ==
  ASSUME Queried, NEW c \in Lexical \cup Dense
  PROVE  /\ Rows(c) \in SUBSET Docs
         /\ \A d \in Docs : score[c][d] \in Int /\ TieKey(c)[d] \in Int
         /\ \A a, b \in Docs : TieKey(c)[a] = TieKey(c)[b] => a = b
<1>1. Rows(c) \in SUBSET Docs
  BY DEF Rows
<1>2. \A d \in Docs : score[c][d] \in Int
  BY QueriedScores
<1>3. CASE c \in Lexical
  BY <1>1, <1>2, <1>3, PoolAssumption DEF TieKey
<1>4. CASE c \notin Lexical
  BY <1>1, <1>2, <1>4, PoolAssumption DEF TieKey
<1>. QED
  BY <1>3, <1>4

LEMMA SearchIsFullSort ==
  ASSUME Queried, NEW c \in Lexical \cup Dense, NEW k \in Nat \ {0}
  PROVE  Search(c, k) = FullSortTopK(Rows(c), score[c], TieKey(c), k)
<1>1. /\ Rows(c) \in SUBSET Docs
      /\ \A d \in Docs : score[c][d] \in Int /\ TieKey(c)[d] \in Int
      /\ \A a, b \in Docs : TieKey(c)[a] = TieKey(c)[b] => a = b
  BY ScoredRows
<1>. QED
  BY <1>1, ExactIsFullSort DEF Search

\* So does a derived one, over whatever its source found.
LEMMA BoostedRowsScored ==
  ASSUME Queried, NEW c, Derived[c] \in Lexical \cup Dense, NEW found \in Seq(Docs)
  PROVE  /\ BoostedRows(found) \in SUBSET Docs
         /\ \A d \in Docs : BoostedScore(c, found)[d] \in Int /\ Id[d] \in Int
         /\ \A a, b \in Docs : Id[a] = Id[b] => a = b
<1>1. Range(found) \in SUBSET Docs
  BY DEF Range
<1>2. \A d \in Docs : gain[d] \in Int /\ score[Derived[c]][d] \in Int
  BY QueriedScores
<1>. QED
  BY <1>1, <1>2, PoolAssumption DEF BoostedRows, BoostedScore

\* What an independent channel finds: the rows with fewer than k ahead.
LEMMA IndependentFinds ==
  ASSUME Queried, NEW c \in Lexical \cup Dense, NEW k \in Nat
  PROVE  LET list == FullSortTopK(Rows(c), score[c], TieKey(c), k) IN
         /\ list \in Seq(Docs) /\ IsInjective(list)
         /\ IsFiniteSet(Rows(c)) /\ Cardinality(Rows(c)) \in Nat
         /\ Len(list) = IF Cardinality(Rows(c)) <= k THEN Cardinality(Rows(c)) ELSE k
         /\ Range(list) = {r \in Rows(c) :
                             Cardinality(Ahead(r, Rows(c), Before(score[c], TieKey(c)))) < k}
<1>. DEFINE order == Before(score[c], TieKey(c))
<1>1. /\ Rows(c) \in SUBSET Docs
      /\ \A d \in Docs : score[c][d] \in Int /\ TieKey(c)[d] \in Int
      /\ \A a, b \in Docs : TieKey(c)[a] = TieKey(c)[b] => a = b
  BY ScoredRows
<1>2. Orders(order, Rows(c)) /\ IsFiniteSet(Rows(c))
  BY <1>1, BeforeOrders
<1>3. Cardinality(Rows(c)) \in Nat
  BY <1>2, FS_CardinalityType
<1>. DEFINE list == Cut(InOrder(Rows(c), order), k)
<1>4. /\ list \in Seq(Rows(c)) /\ IsInjective(list)
      /\ Len(list) = IF Cardinality(Rows(c)) <= k THEN Cardinality(Rows(c)) ELSE k
      /\ Range(list) = {r \in Rows(c) : Cardinality(Ahead(r, Rows(c), order)) < k}
  BY <1>2, TopRows
<1>5. list = FullSortTopK(Rows(c), score[c], TieKey(c), k)
  BY DEF FullSortTopK, Sorted
<1>. HIDE DEF list, order
<1>6. list \in Seq(Docs)
  BY <1>4, <1>1
<1>. QED
  BY <1>2, <1>3, <1>4, <1>5, <1>6 DEF order

LEMMA DerivedFinds ==
  ASSUME Queried, NEW c, Derived[c] \in Lexical \cup Dense, NEW found \in Seq(Docs), NEW k \in Nat
  PROVE  LET order == Before(BoostedScore(c, found), Id)
             list == BoostedSearch(c, found, k) IN
         /\ Orders(order, BoostedRows(found)) /\ IsFiniteSet(BoostedRows(found))
         /\ list \in Seq(Docs) /\ IsInjective(list)
         /\ Range(list) = {r \in BoostedRows(found) :
                             Cardinality(Ahead(r, BoostedRows(found), order)) < k}
<1>. DEFINE order == Before(BoostedScore(c, found), Id)
            rows == BoostedRows(found)
            list == Cut(InOrder(rows, order), k)
<1>1. /\ rows \in SUBSET Docs
      /\ \A d \in Docs : BoostedScore(c, found)[d] \in Int /\ Id[d] \in Int
      /\ \A a, b \in Docs : Id[a] = Id[b] => a = b
  BY BoostedRowsScored
<1>2. Orders(order, rows) /\ IsFiniteSet(rows)
  BY <1>1, BeforeOrders
<1>3. /\ list \in Seq(rows) /\ IsInjective(list)
      /\ Range(list) = {r \in rows : Cardinality(Ahead(r, rows, order)) < k}
  BY <1>2, TopRows
<1>4. list = BoostedSearch(c, found, k)
  BY DEF BoostedSearch, Sorted
<1>. HIDE DEF list, order, rows
<1>5. list \in Seq(Docs)
  BY <1>3, <1>1
<1>. QED
  BY <1>2, <1>3, <1>4, <1>5 DEF order, rows

-------------------------------------------------------------------------------
(* The fusion *)

\* A sum over the positions 1 .. n exists and is a number: by the least counterexample.
LEMMA SumsExist ==
  ASSUME NEW n \in Nat, NEW share \in [1 .. n -> Int]
  PROVE  \E g \in [0 .. n -> Int] :
           \A i \in 0 .. n : g[i] = IF i = 0 THEN 0 ELSE g[i - 1] + share[i]
<1>. DEFINE sums(m) == {g \in [0 .. m -> Int] :
                          \A i \in 0 .. m : g[i] = IF i = 0 THEN 0 ELSE g[i - 1] + share[i]}
            bad == {m \in 0 .. n : sums(m) = {}}
<1>1. ASSUME bad # {}
      PROVE  FALSE
  <2>1. bad \subseteq Nat
    OBVIOUS
  <2>2. \E m \in bad : \A k \in bad : ~(<<k, m>> \in OpToRel(<, Nat))
    BY <1>1, <2>1, NatLessThanWellFounded, WFMin
  <2>3. PICK m \in bad : \A k \in bad : ~(k < m)
    BY <2>1, <2>2 DEF OpToRel
  <2>4. CASE m = 0
    <3>1. [i \in 0 .. 0 |-> 0] \in sums(0)
      OBVIOUS
    <3>. QED
      BY <2>4, <3>1
  <2>5. CASE m # 0
    <3>1. m \in 1 .. n /\ m - 1 \in 0 .. n /\ m - 1 < m
      BY <2>1, <2>3, <2>5
    <3>2. m - 1 \notin bad
      <4>. HIDE DEF bad
      <4>. QED
        BY <2>3, <3>1
    <3>3. PICK g \in [0 .. m - 1 -> Int] :
            \A i \in 0 .. m - 1 : g[i] = IF i = 0 THEN 0 ELSE g[i - 1] + share[i]
      BY <3>1, <3>2
    <3>. DEFINE h == [i \in 0 .. m |-> IF i = m THEN g[m - 1] + share[m] ELSE g[i]]
    <3>4. /\ h \in [0 .. m -> Int] /\ h[m] = g[m - 1] + share[m]
          /\ \A i \in 0 .. m - 1 : h[i] = g[i]
      BY <3>1, <3>3
    <3>. HIDE DEF h
    <3>5. \A i \in 0 .. m : h[i] = IF i = 0 THEN 0 ELSE h[i - 1] + share[i]
      <4>. SUFFICES ASSUME NEW i \in 0 .. m
                    PROVE  h[i] = IF i = 0 THEN 0 ELSE h[i - 1] + share[i]
        OBVIOUS
      <4>1. CASE i = m
        BY <3>1, <3>4, <4>1
      <4>2. CASE i # m
        <5>1. i \in 0 .. m - 1 /\ (i # 0 => i - 1 \in 0 .. m - 1)
          BY <4>2, <3>1
        <5>. QED
          BY <5>1, <3>3, <3>4
      <4>. QED
        BY <4>1, <4>2
    <3>6. h \in sums(m)
      BY <3>4, <3>5
    <3>. QED
      BY <3>6
  <2>. QED
    BY <2>4, <2>5
<1>2. n \notin bad
  <2>. HIDE DEF bad
  <2>. QED
    BY <1>1
<1>. QED
  BY <1>2

\* and is one number at every position.
LEMMA SumsAreNumbers ==
  ASSUME NEW n \in Nat, NEW share \in [1 .. n -> Int], NEW f,
         f = [i \in 0 .. n |-> IF i = 0 THEN 0 ELSE f[i - 1] + share[i]]
  PROVE  f[n] \in Int
<1>. DEFINE bad == {m \in 0 .. n : f[m] \notin Int}
<1>1. ASSUME bad # {}
      PROVE  FALSE
  <2>1. bad \subseteq Nat
    OBVIOUS
  <2>2. \E m \in bad : \A k \in bad : ~(<<k, m>> \in OpToRel(<, Nat))
    BY <1>1, <2>1, NatLessThanWellFounded, WFMin
  <2>3. PICK m \in bad : \A k \in bad : ~(k < m)
    BY <2>1, <2>2 DEF OpToRel
  <2>4. f[m] = IF m = 0 THEN 0 ELSE f[m - 1] + share[m]
    OBVIOUS
  <2>5. m = 0 \/ f[m - 1] \in Int
    BY <2>3
  <2>. QED
    BY <2>3, <2>4, <2>5
<1>2. n \notin bad
  <2>. HIDE DEF bad
  <2>. QED
    BY <1>1
<1>. QED
  BY <1>2

LEMMA ShareIsNumber ==
  ASSUME NEW c \in Range(Channels), NEW r, NEW list \in Seq(Docs)
  PROVE  Share(c, r, list) \in Int
<1>1. Weight[c] \in Nat /\ RrfK \in Nat \ {0} /\ Scale \in Nat
  BY PoolAssumption
<1>2. CASE r \in Range(list)
  <2>1. Place(r, list) \in 1 .. Len(list)
    BY <1>2 DEF Place, Range
  <2>2. Scale \div (RrfK + Place(r, list)) \in Int
    BY <1>1, <2>1
  <2>. QED
    BY <1>1, <1>2, <2>2 DEF Share
<1>3. CASE r \notin Range(list)
  BY <1>3 DEF Share
<1>. QED
  BY <1>2, <1>3

LEMMA FusedScoreIsNumber ==
  ASSUME NEW lists \in [Range(Channels) -> Seq(Docs)], NEW r
  PROVE  FusedScore(r, lists) \in Int
<1>. DEFINE n == Len(Channels)
            share == [i \in 1 .. n |-> Share(Channels[i], r, lists[Channels[i]])]
            sum[i \in 0 .. n] ==
              IF i = 0 THEN 0 ELSE sum[i - 1] + Share(Channels[i], r, lists[Channels[i]])
<1>1. n \in Nat /\ share \in [1 .. n -> Int]
  BY ChannelsAre, ShareIsNumber
<1>2. PICK g \in [0 .. n -> Int] :
        \A i \in 0 .. n : g[i] = IF i = 0 THEN 0 ELSE g[i - 1] + share[i]
  BY <1>1, SumsExist
<1>3. g = [i \in 0 .. n |-> IF i = 0 THEN 0
                            ELSE g[i - 1] + Share(Channels[i], r, lists[Channels[i]])]
  <2>1. \A i \in 1 .. n : share[i] = Share(Channels[i], r, lists[Channels[i]])
    OBVIOUS
  <2>. HIDE DEF share, n
  <2>2. \A i \in 0 .. n : i # 0 => i \in 1 .. n
    BY <1>1
  <2>3. \A i \in 0 .. n : g[i] = IF i = 0 THEN 0
                                 ELSE g[i - 1] + Share(Channels[i], r, lists[Channels[i]])
    BY <1>2, <2>1, <2>2
  <2>. QED
    BY <1>2, <2>3
<1>4. sum = [i \in 0 .. n |-> IF i = 0 THEN 0
                              ELSE sum[i - 1] + Share(Channels[i], r, lists[Channels[i]])]
  BY <1>3
<1>5. sum = [i \in 0 .. n |-> IF i = 0 THEN 0 ELSE sum[i - 1] + share[i]]
  <2>1. \A i \in 1 .. n : share[i] = Share(Channels[i], r, lists[Channels[i]])
    OBVIOUS
  <2>. HIDE DEF share, n, sum
  <2>2. \A i \in 0 .. n : i # 0 => i \in 1 .. n
    BY <1>1
  <2>3. \A i \in 0 .. n : (IF i = 0 THEN 0 ELSE sum[i - 1] + share[i])
                       = IF i = 0 THEN 0
                         ELSE sum[i - 1] + Share(Channels[i], r, lists[Channels[i]])
    BY <2>1, <2>2
  <2>. QED
    BY <1>4, <2>3
<1>6. sum[n] \in Int
  BY <1>1, <1>5, SumsAreNumbers
<1>. QED
  BY <1>6 DEF FusedScore

\* The cut of a fusion: every row a channel found at most once.
LEMMA FusionLists ==
  ASSUME NEW lists \in [Range(Channels) -> Seq(Docs)], NEW k \in Nat
  PROVE  LET top == Cut(Fused(lists), k) IN
         /\ Found(lists) \in SUBSET Docs /\ IsFiniteSet(Found(lists))
         /\ Cardinality(Found(lists)) \in Nat
         /\ top \in Seq(Docs) /\ IsInjective(top) /\ Range(top) \subseteq Found(lists)
         /\ Len(top) = IF Cardinality(Found(lists)) <= k THEN Cardinality(Found(lists)) ELSE k
<1>. DEFINE found == Found(lists)
            s == [r \in Docs |-> FusedScore(r, lists)]
            top == Cut(InOrder(found, Before(s, Id)), k)
<1>1. \A c \in Range(Channels) : Range(lists[c]) \subseteq Docs
  BY DEF Range
<1>2. found \in SUBSET Docs
  BY <1>1 DEF Found
<1>3. /\ \A d \in Docs : s[d] \in Int /\ Id[d] \in Int
      /\ \A a, b \in Docs : Id[a] = Id[b] => a = b
  BY FusedScoreIsNumber, PoolAssumption
<1>. HIDE DEF s, found
<1>4. Orders(Before(s, Id), found) /\ IsFiniteSet(found) /\ Cardinality(found) \in Nat
  BY <1>2, <1>3, BeforeOrders, FS_CardinalityType
<1>5. /\ top \in Seq(found) /\ IsInjective(top)
      /\ Len(top) = IF Cardinality(found) <= k THEN Cardinality(found) ELSE k
      /\ Range(top) \subseteq found
  BY <1>4, TopRows
<1>6. top = Cut(Fused(lists), k)
  BY DEF Fused, Sorted, s, found
<1>. HIDE DEF top
<1>7. top \in Seq(Docs)
  BY <1>5, <1>2
<1>. QED
  BY <1>2, <1>4, <1>5, <1>6, <1>7 DEF found

\* The number of rows of a list without repetitions is its length.
LEMMA LengthCounts ==
  ASSUME NEW S, NEW s \in Seq(S), IsInjective(s)
  PROVE  IsFiniteSet(Range(s)) /\ Cardinality(Range(s)) = Len(s)
<1>1. s \in Bijection(1 .. Len(s), Range(s))
  BY DEF Bijection, Injection, Surjection, IsInjective, Range
<1>2. IsFiniteSet(1 .. Len(s)) /\ Cardinality(1 .. Len(s)) = Len(s)
  <2>1. Len(s) \in Nat /\ 1 \in Int
    OBVIOUS
  <2>. QED
    BY <2>1, FS_Interval
<1>. QED
  BY <1>1, <1>2, FS_Bijection DEF ExistsBijection

\* The pool keeps its front, and goes on with what the front does not hold.
LEMMA PoolLists ==
  ASSUME NEW front \in Seq(Docs), NEW appended \in Seq(Docs),
         IsInjective(front), IsInjective(appended), Len(front) <= TargetDepth
  PROVE  LET p == Preserving(front, appended)
             both == Cardinality(Range(front) \cup Range(appended)) IN
         /\ p \in Seq(Docs) /\ IsInjective(p)
         /\ Range(p) \subseteq Range(front) \cup Range(appended)
         /\ both \in Nat /\ Len(p) = IF both <= TargetDepth THEN both ELSE TargetDepth
         /\ Cut(p, Len(front)) = front
<1>. DEFINE new == Range(appended) \ Range(front)
            earlier == {p \in new \X new : Place(p[1], appended) < Place(p[2], appended)}
            rest == InOrder(new, earlier)
            all == front \o rest
<1>1. /\ IsFiniteSet(Range(front)) /\ Cardinality(Range(front)) = Len(front)
      /\ IsFiniteSet(Range(appended))
  BY LengthCounts
<1>2. IsFiniteSet(new) /\ new \subseteq Docs /\ Range(front) \subseteq Docs
  BY <1>1, FS_Subset DEF Range
<1>3. \A r \in new : Place(r, appended) \in 1 .. Len(appended) /\ appended[Place(r, appended)] = r
  BY DEF Place, Range
<1>4. Orders(earlier, new)
  <2>1. \A a, b \in new : <<a, b>> \in earlier <=> Place(a, appended) < Place(b, appended)
    OBVIOUS
  <2>2. \A a \in new : Place(a, appended) \in Int
    BY <1>3
  <2>3. \A a, b \in new : Place(a, appended) = Place(b, appended) => a = b
    BY <1>3
  <2>. HIDE DEF new, earlier
  <2>. QED
    BY <2>1, <2>2, <2>3 DEF Orders
<1>5. /\ rest \in Seq(new) /\ Len(rest) = Cardinality(new) /\ Cardinality(new) \in Nat
      /\ IsInjective(rest) /\ Range(rest) = new
  BY <1>2, <1>4, InOrderLists
<1>6. Preserving(front, appended) = Cut(all, TargetDepth)
  BY DEF Preserving
<1>. HIDE DEF rest, earlier
<1>7. \A i \in 1 .. Len(rest) :
        rest[i] \in Docs /\ rest[i] \notin Range(front) /\ rest[i] \in Range(appended)
  BY <1>5, <1>2
<1>8. rest \in Seq(Docs)
  BY <1>5, <1>2
<1>. HIDE DEF new
<1>9. /\ all \in Seq(Docs) /\ Len(all) = Len(front) + Len(rest)
      /\ \A i \in 1 .. Len(front) : all[i] = front[i]
      /\ \A i \in 1 .. Len(all) : i > Len(front) =>
           i - Len(front) \in 1 .. Len(rest) /\ all[i] = rest[i - Len(front)]
  BY <1>8
<1>. HIDE DEF all
<1>10. \A i \in 1 .. Len(front) : all[i] \in Range(front)
  BY <1>9 DEF Range
<1>11. \A i, j \in 1 .. Len(all) : all[i] = all[j] => i = j
  <2>. SUFFICES ASSUME NEW i \in 1 .. Len(all), NEW j \in 1 .. Len(all), all[i] = all[j], i < j
                PROVE  FALSE
    BY <1>9
  <2>1. CASE j <= Len(front)
    <3>1. i \in DOMAIN front /\ j \in DOMAIN front /\ front[i] = front[j]
      BY <1>9, <2>1
    <3>. QED
      BY <3>1 DEF IsInjective
  <2>2. CASE i <= Len(front) /\ j > Len(front)
    BY <1>7, <1>9, <1>10, <2>2
  <2>3. CASE i > Len(front)
    <3>. DEFINE a == i - Len(front)
                b == j - Len(front)
    <3>1. a \in DOMAIN rest /\ b \in DOMAIN rest /\ rest[a] = rest[b] /\ a # b
      BY <1>9, <1>5, <2>3
    <3>. QED
      BY <3>1, <1>5 DEF IsInjective
  <2>. QED
    BY <2>1, <2>2, <2>3, <1>9
<1>. DEFINE p == Cut(all, TargetDepth)
            both == Cardinality(Range(front) \cup Range(appended))
<1>12. /\ p \in Seq(Docs) /\ Len(p) = IF Len(all) <= TargetDepth THEN Len(all) ELSE TargetDepth
       /\ \A i \in 1 .. Len(p) : p[i] = all[i]
  BY <1>9, DepthsAre, CutIs
<1>13. IsInjective(p)
  <2>. HIDE DEF p
  <2>. SUFFICES ASSUME NEW i \in 1 .. Len(p), NEW j \in 1 .. Len(p), p[i] = p[j]
                PROVE  i = j
    BY <1>12 DEF IsInjective
  <2>. QED
    BY <1>9, <1>11, <1>12, DepthsAre
<1>14. Range(p) \subseteq Range(front) \cup Range(appended)
  <2>. HIDE DEF p
  <2>. SUFFICES ASSUME NEW i \in 1 .. Len(p)
                PROVE  p[i] \in Range(front) \cup Range(appended)
    BY <1>12 DEF Range
  <2>1. i \in 1 .. Len(all) /\ p[i] = all[i]
    BY <1>9, <1>12, DepthsAre
  <2>2. CASE i <= Len(front)
    BY <2>1, <2>2, <1>10
  <2>3. CASE i > Len(front)
    BY <2>1, <2>3, <1>7, <1>9
  <2>. QED
    BY <2>2, <2>3
<1>15. both \in Nat /\ both = Len(all)
  <2>1. Range(front) \cap new = {} /\ Range(front) \cup new = Range(front) \cup Range(appended)
    BY DEF new
  <2>2. Cardinality(Range(front) \cap new) = 0
    BY <2>1, FS_EmptySet
  <2>3. Cardinality(Range(front) \cup new)
          = Cardinality(Range(front)) + Cardinality(new) - Cardinality(Range(front) \cap new)
    BY <1>1, <1>2, FS_Union
  <2>4. Len(front) \in Nat /\ Len(rest) \in Nat
    BY <1>5
  <2>5. Cardinality(Range(front)) = Len(front) /\ Cardinality(new) = Len(rest)
    BY <1>1, <1>5
  <2>6. Cardinality(Range(front) \cup new) = Len(front) + Len(rest)
    BY <2>2, <2>3, <2>4, <2>5
  <2>7. both = Cardinality(Range(front) \cup new)
    BY <2>1
  <2>. HIDE DEF both
  <2>. QED
    BY <2>4, <2>6, <2>7, <1>9
<1>16. Cut(p, Len(front)) = front
  <2>. HIDE DEF p
  <2>1. Cut(p, Len(front)) \in Seq(Docs) /\ Len(Cut(p, Len(front))) = Len(front)
    BY <1>9, <1>12, CutIs, DepthsAre
  <2>2. \A i \in 1 .. Len(front) : Cut(p, Len(front))[i] = front[i]
    BY <1>9, <1>12, <2>1, CutIs, DepthsAre
  <2>. QED
    BY <2>1, <2>2
<1>. QED
  BY <1>6, <1>12, <1>13, <1>14, <1>15, <1>16

-------------------------------------------------------------------------------
(* The invariant *)

LEMMA StandaloneLists ==
  ASSUME Queried, NEW i \in 1 .. Len(Channels), NEW k \in Nat
  PROVE  Standalone(Channels[i], k) \in Seq(Docs)
<1>. DEFINE c == Channels[i]
<1>1. CASE c \notin DOMAIN Derived
  BY <1>1, ChannelsAre, IndependentFinds DEF Standalone
<1>2. CASE c \in DOMAIN Derived
  <2>. DEFINE d == Derived[c]
              found == FullSortTopK(Rows(d), score[d], TieKey(d), k)
  <2>1. d \in Lexical \cup Dense
    BY <1>2, ChannelsAre
  <2>2. found \in Seq(Docs)
    BY <2>1, IndependentFinds
  <2>3. BoostedSearch(c, found, k) \in Seq(Docs)
    BY <2>1, <2>2, DerivedFinds
  <2>. QED
    BY <1>2, <2>3 DEF Standalone
<1>. QED
  BY <1>1, <1>2

\* What a channel finds on its own depends on the query alone.
LEMMA SameQuery ==
  ASSUME score' = score, gain' = gain
  PROVE  /\ \A c, k : Standalone(c, k)' = Standalone(c, k)
         /\ \A c : Rows(c)' = Rows(c)
BY DEF Standalone, BoostedSearch, BoostedRows, BoostedScore, Rows

LEMMA PoolStarts == Init => PoolInv
<1>. SUFFICES ASSUME Init
              PROVE  PoolInv
  OBVIOUS
<1>1. PoolTypes
  BY ChannelsAre DEF Init, PoolTypes
<1>2. Searched /\ Pooled
  BY ChannelsAre DEF Init, Searched, Pooled
<1>. QED
  BY <1>1, <1>2 DEF PoolInv

\* The next channel finds at both depths what it finds on its own: a derived one,
\* because its source is independent and ran before.
LEMMA ChannelSearched ==
  ASSUME PoolInv, NEW c, c = Channels[next], next \in 1 .. Len(Channels), NEW found,
         found = IF c \in DOMAIN Derived THEN BoostedSearch(c, full[Derived[c]], ChannelTopK)
                                         ELSE Search(c, ChannelTopK)
  PROVE  /\ found = Standalone(c, ChannelTopK)
         /\ PrefixResults(c, found) = Standalone(c, PrefixDepth)
<1>1. Queried /\ Searched
  BY DEF PoolInv, PoolTypes, Queried
<1>2. CASE c \notin DOMAIN Derived
  <2>. DEFINE all == Sorted(Rows(c), score[c], TieKey(c))
  <2>1. c \in Lexical \cup Dense
    BY <1>2, ChannelsAre
  <2>2. found = FullSortTopK(Rows(c), score[c], TieKey(c), ChannelTopK)
    BY <1>1, <1>2, <2>1, SearchIsFullSort, DepthsAre
  <2>3. all \in Seq(Rows(c))
    <3>1. Orders(Before(score[c], TieKey(c)), Rows(c)) /\ IsFiniteSet(Rows(c))
      BY <1>1, <2>1, ScoredRows, BeforeOrders
    <3>. QED
      BY <3>1, InOrderLists DEF Sorted
  <2>4. Cut(found, PrefixDepth) = FullSortTopK(Rows(c), score[c], TieKey(c), PrefixDepth)
    BY <2>2, <2>3, CutOfCut, DepthsAre DEF FullSortTopK
  <2>. QED
    BY <1>2, <2>2, <2>4 DEF Standalone, PrefixResults
<1>3. CASE c \in DOMAIN Derived
  <2>. DEFINE d == Derived[c]
  <2>1. d \notin DOMAIN Derived
    BY <1>3, ChannelsAre
  <2>2. PICK j \in 1 .. next - 1 : Channels[j] = d
    BY <1>3, ChannelsAre
  <2>3. j \in 1 .. Len(Channels) /\ j < next
    BY <2>2, ChannelsAre
  <2>4. full[d] = Standalone(d, ChannelTopK) /\ prefix[d] = Standalone(d, PrefixDepth)
    BY <1>1, <2>2, <2>3 DEF Searched
  <2>5. /\ full[d] = FullSortTopK(Rows(d), score[d], TieKey(d), ChannelTopK)
        /\ prefix[d] = FullSortTopK(Rows(d), score[d], TieKey(d), PrefixDepth)
    BY <2>1, <2>4 DEF Standalone
  <2>. QED
    BY <1>3, <2>5 DEF Standalone, PrefixResults
<1>. QED
  BY <1>2, <1>3

LEMMA SearchKeeps ==
  ASSUME PoolInv, SearchChannel
  PROVE  PoolInv'
<1>. DEFINE c == Channels[next]
            found == IF c \in DOMAIN Derived THEN BoostedSearch(c, full[Derived[c]], ChannelTopK)
                                             ELSE Search(c, ChannelTopK)
<1>1. /\ next \in 1 .. Len(Channels) /\ next' = next + 1
      /\ full' = [full EXCEPT ![c] = found]
      /\ prefix' = [prefix EXCEPT ![c] = PrefixResults(c, found)]
      /\ score' = score /\ gain' = gain /\ pool' = pool
  BY ChannelsAre DEF SearchChannel
<1>2. PoolTypes /\ Searched /\ Queried
  BY DEF PoolInv, PoolTypes, Queried
<1>3. found = Standalone(c, ChannelTopK) /\ PrefixResults(c, found) = Standalone(c, PrefixDepth)
  BY <1>1, ChannelSearched
<1>4. Standalone(c, ChannelTopK) \in Seq(Docs) /\ Standalone(c, PrefixDepth) \in Seq(Docs)
  BY <1>1, <1>2, StandaloneLists, DepthsAre
<1>. HIDE DEF found
<1>5. c \in Range(Channels) /\ DOMAIN full = Range(Channels) /\ DOMAIN prefix = Range(Channels)
  BY <1>1, <1>2, ChannelsAre DEF PoolTypes
<1>6. PoolTypes'
  BY <1>1, <1>2, <1>3, <1>4, <1>5, ChannelsAre DEF PoolTypes
<1>7. Searched'
  <2>. SUFFICES ASSUME NEW i \in 1 .. Len(Channels), i < next + 1
                PROVE  /\ full'[Channels[i]] = Standalone(Channels[i], ChannelTopK)
                       /\ prefix'[Channels[i]] = Standalone(Channels[i], PrefixDepth)
    BY <1>1, SameQuery DEF Searched
  <2>1. CASE i = next
    BY <2>1, <1>1, <1>3, <1>5
  <2>2. CASE i # next
    <3>1. i < next /\ Channels[i] # c /\ Channels[i] \in Range(Channels)
      BY <2>2, <1>1, ChannelsAre
    <3>. QED
      BY <3>1, <1>1, <1>2, <1>5 DEF Searched
  <2>. QED
    BY <2>1, <2>2
<1>8. Pooled'
  BY <1>1, ChannelsAre DEF Pooled
<1>. QED
  BY <1>6, <1>7, <1>8 DEF PoolInv

LEMMA PoolParts ==
  ASSUME PoolTypes
  PROVE  /\ PoolFront \in Seq(Docs) /\ IsInjective(PoolFront) /\ Range(PoolFront) \subseteq Found(prefix)
         /\ Len(PoolFront) <= PrefixDepth /\ Len(PoolFront) <= TargetDepth
         /\ PoolRest \in Seq(Docs) /\ IsInjective(PoolRest)
         /\ Range(PoolRest) \subseteq Found(full)
         /\ IsFiniteSet(Found(full)) /\ Cardinality(Found(full)) \in Nat
         /\ Len(PoolRest) = IF Cardinality(Found(full)) <= TargetDepth
                              THEN Cardinality(Found(full)) ELSE TargetDepth
<1>1. /\ Cardinality(Found(prefix)) \in Nat
      /\ PoolFront \in Seq(Docs) /\ IsInjective(PoolFront) /\ Range(PoolFront) \subseteq Found(prefix)
      /\ Len(PoolFront) = IF Cardinality(Found(prefix)) <= PrefixDepth
                        THEN Cardinality(Found(prefix)) ELSE PrefixDepth
  <2>1. prefix \in [Range(Channels) -> Seq(Docs)] /\ PrefixDepth \in Nat
    BY DepthsAre DEF PoolTypes
  <2>. QED
    BY <2>1, FusionLists DEF PoolFront
<1>2. /\ PoolRest \in Seq(Docs) /\ IsInjective(PoolRest)
      /\ Range(PoolRest) \subseteq Found(full)
      /\ IsFiniteSet(Found(full)) /\ Cardinality(Found(full)) \in Nat
      /\ Len(PoolRest) = IF Cardinality(Found(full)) <= TargetDepth
                           THEN Cardinality(Found(full)) ELSE TargetDepth
  <2>1. full \in [Range(Channels) -> Seq(Docs)] /\ TargetDepth \in Nat
    BY DepthsAre DEF PoolTypes
  <2>. QED
    BY <2>1, FusionLists DEF PoolRest
<1>3. Len(PoolFront) <= PrefixDepth /\ Len(PoolFront) <= TargetDepth
  BY <1>1, DepthsAre
<1>. QED
  BY <1>1, <1>2, <1>3

LEMMA FuseKeeps ==
  ASSUME PoolInv, Fuse
  PROVE  PoolInv'
<1>1. /\ next = Len(Channels) + 1 /\ next' = next + 1 /\ pool' = Preserving(PoolFront, PoolRest)
      /\ score' = score /\ gain' = gain /\ full' = full /\ prefix' = prefix
  BY DEF Fuse, PoolFront, PoolRest
<1>2. PoolTypes /\ Searched
  BY DEF PoolInv
<1>3. /\ PoolFront \in Seq(Docs) /\ IsInjective(PoolFront) /\ Len(PoolFront) <= TargetDepth
      /\ PoolRest \in Seq(Docs) /\ IsInjective(PoolRest)
  BY <1>2, PoolParts
<1>4. Preserving(PoolFront, PoolRest) \in Seq(Docs)
  BY <1>3, PoolLists
<1>5. PoolTypes'
  BY <1>1, <1>2, <1>4, ChannelsAre DEF PoolTypes
<1>6. Searched'
  BY <1>1, <1>2, SameQuery DEF Searched
<1>7. Pooled'
  BY <1>1 DEF Pooled, PoolFront, PoolRest
<1>. QED
  BY <1>5, <1>6, <1>7 DEF PoolInv

LEMMA PoolSteps == PoolInv /\ [Next]_poolVars => PoolInv'
<1>. SUFFICES ASSUME PoolInv, [Next]_poolVars
              PROVE  PoolInv'
  OBVIOUS
<1>1. CASE SearchChannel
  BY <1>1, SearchKeeps
<1>2. CASE Fuse
  BY <1>2, FuseKeeps
<1>3. CASE UNCHANGED poolVars
  <2>1. /\ score' = score /\ gain' = gain /\ next' = next
        /\ full' = full /\ prefix' = prefix /\ pool' = pool
    BY <1>3 DEF poolVars
  <2>2. PoolTypes' /\ Pooled'
    BY <2>1 DEF PoolInv, PoolTypes, Pooled, PoolFront, PoolRest
  <2>3. Searched'
    BY <2>1, SameQuery DEF PoolInv, Searched
  <2>. QED
    BY <2>2, <2>3 DEF PoolInv
<1>. QED
  BY <1>1, <1>2, <1>3 DEF Next

-------------------------------------------------------------------------------
(* The properties *)

\* The variables keep their types, and a channel that ran holds what it finds alone.
THEOREM PoolInvariant == Spec => []PoolInv
<1>. QED
  BY PoolStarts, PoolSteps, PTL DEF Spec

\* Partitioning at the boundary score loses nothing against the full sort, for any
\* scores and ties, at the depth of the channel and at the one its list is cut to.
THEOREM TopKExact == Spec => []ExactTopKIsFullSort
<1>1. ASSUME PoolInv
      PROVE  ExactTopKIsFullSort
  <2>. SUFFICES ASSUME NEW i \in 1 .. Min({next - 1, Len(Channels)}),
                       Channels[i] \notin DOMAIN Derived
                PROVE  LET c == Channels[i] IN
                       /\ full[c] = FullSortTopK(Rows(c), score[c], TieKey(c), ChannelTopK)
                       /\ prefix[c] = FullSortTopK(Rows(c), score[c], TieKey(c), PrefixDepth)
    BY DEF ExactTopKIsFullSort
  <2>1. next \in Int /\ Len(Channels) \in Int
    BY <1>1, ChannelsAre DEF PoolInv, PoolTypes
  <2>2. Min({next - 1, Len(Channels)})
          = IF next - 1 <= Len(Channels) THEN next - 1 ELSE Len(Channels)
    <3>1. next - 1 \in Int
      BY <2>1
    <3>. QED
      BY ONLY <3>1, <2>1, MinIs
  <2>3. i \in 1 .. Len(Channels) /\ i < next
    BY <2>1, <2>2
  <2>. QED
    BY <1>1, <2>3 DEF PoolInv, Searched, Standalone
<1>. QED
  BY <1>1, PoolInvariant, PTL

\* The front of the pool is the baseline of the prefix depth, whatever the deep
\* lists and the appended rows are.
THEOREM PrefixKept == Spec => []PrefixIsBaseline
<1>1. ASSUME PoolInv
      PROVE  PrefixIsBaseline
  <2>. SUFFICES ASSUME next > Len(Channels) + 1
                PROVE  LET alone == [c \in Range(Channels) |-> Standalone(c, PrefixDepth)]
                           baseline == Cut(Fused(alone), PrefixDepth)
                       IN Cut(pool, Len(baseline)) = baseline
    BY DEF PrefixIsBaseline
  <2>1. \A c \in Range(Channels) : prefix[c] = Standalone(c, PrefixDepth)
    <3>. SUFFICES ASSUME NEW c \in Range(Channels)
                  PROVE  prefix[c] = Standalone(c, PrefixDepth)
      OBVIOUS
    <3>1. PICK i \in 1 .. Len(Channels) : Channels[i] = c
      BY ChannelsAre
    <3>2. i < next
      BY <1>1, ChannelsAre DEF PoolInv, PoolTypes
    <3>. QED
      BY <1>1, <3>1, <3>2 DEF PoolInv, Searched
  <2>2. prefix = [c \in Range(Channels) |-> Standalone(c, PrefixDepth)]
    BY <1>1, <2>1 DEF PoolInv, PoolTypes
  <2>3. PoolFront = Cut(Fused([c \in Range(Channels) |-> Standalone(c, PrefixDepth)]), PrefixDepth)
    BY <2>2 DEF PoolFront
  <2>4. pool = Preserving(PoolFront, PoolRest)
    BY <1>1 DEF PoolInv, Pooled
  <2>5. /\ PoolFront \in Seq(Docs) /\ IsInjective(PoolFront) /\ Len(PoolFront) <= TargetDepth
        /\ PoolRest \in Seq(Docs) /\ IsInjective(PoolRest)
    BY <1>1, PoolParts DEF PoolInv
  <2>6. Cut(pool, Len(PoolFront)) = PoolFront
    BY <2>4, <2>5, PoolLists
  <2>. QED
    BY <2>3, <2>6
<1>. QED
  BY <1>1, PoolInvariant, PTL

\* What a derived channel finds from its source's prefix, the source or the derived
\* channel found deep: a row that only the boost brings keeps its score in the deep
\* search, where no more than the rows its source added can come ahead of it.
LEMMA DerivedWithin ==
  ASSUME Queried, NEW c, NEW d \in Lexical \cup Dense, d = Derived[c]
  PROVE  LET near == FullSortTopK(Rows(d), score[d], TieKey(d), PrefixDepth)
             far == FullSortTopK(Rows(d), score[d], TieKey(d), ChannelTopK)
         IN Range(BoostedSearch(c, near, PrefixDepth))
              \subseteq Range(far) \cup Range(BoostedSearch(c, far, ChannelTopK))
<1>. DEFINE near == FullSortTopK(Rows(d), score[d], TieKey(d), PrefixDepth)
            far == FullSortTopK(Rows(d), score[d], TieKey(d), ChannelTopK)
            P == PrefixDepth
            K == ChannelTopK
            n == Cardinality(Rows(d))
            nearOrder == Before(BoostedScore(c, near), Id)
            farOrder == Before(BoostedScore(c, far), Id)
<1>1. P \in Nat \ {0} /\ K \in Nat \ {0} /\ P <= K
  BY DepthsAre
<1>2. /\ near \in Seq(Docs) /\ IsInjective(near) /\ Len(near) = (IF n <= P THEN n ELSE P)
      /\ far \in Seq(Docs) /\ IsInjective(far) /\ Len(far) = (IF n <= K THEN n ELSE K)
      /\ n \in Nat
  BY <1>1, IndependentFinds
<1>3. Range(near) \subseteq Range(far)
  <2>. DEFINE ahead(r) == Cardinality(Ahead(r, Rows(d), Before(score[d], TieKey(d))))
  <2>1. /\ Range(near) = {r \in Rows(d) : ahead(r) < P}
        /\ Range(far) = {r \in Rows(d) : ahead(r) < K}
    BY <1>1, IndependentFinds
  <2>2. \A r \in Rows(d) : ahead(r) \in Int
    BY ScoredRows, BeforeOrders, AheadCounts
  <2>. HIDE DEF ahead
  <2>. QED
    BY <1>1, <2>1, <2>2
<1>4. /\ Orders(nearOrder, BoostedRows(near)) /\ IsFiniteSet(BoostedRows(near))
      /\ Range(BoostedSearch(c, near, P)) =
           {r \in BoostedRows(near) : Cardinality(Ahead(r, BoostedRows(near), nearOrder)) < P}
  BY <1>1, <1>2, DerivedFinds
<1>5. /\ Orders(farOrder, BoostedRows(far)) /\ IsFiniteSet(BoostedRows(far))
      /\ Range(BoostedSearch(c, far, K)) =
           {r \in BoostedRows(far) : Cardinality(Ahead(r, BoostedRows(far), farOrder)) < K}
  BY <1>1, <1>2, DerivedFinds
<1>6. BoostedRows(near) \subseteq Docs /\ BoostedRows(far) \subseteq Docs
  BY <1>2, BoostedRowsScored
<1>. HIDE DEF near, far, P, K, n
<1>7. \A r \in Docs : r \notin Range(far) \ Range(near) =>
        BoostedScore(c, near)[r] = BoostedScore(c, far)[r]
  BY <1>3 DEF BoostedScore
<1>. SUFFICES ASSUME NEW r \in Range(BoostedSearch(c, near, P)), r \notin Range(far)
              PROVE  r \in Range(BoostedSearch(c, far, K))
  BY DEF near, far, P, K
<1>. DEFINE A == Ahead(r, BoostedRows(near), nearOrder)
            D == Ahead(r, BoostedRows(far), farOrder)
            added == Range(far) \ Range(near)
<1>8. r \in BoostedRows(near) /\ r \in BoostedRows(far) /\ r \in Docs
  BY <1>3, <1>4, <1>6 DEF BoostedRows
<1>9. D \subseteq A \cup added
  <2>. SUFFICES ASSUME NEW q \in BoostedRows(far), <<q, r>> \in farOrder, q \notin added
                PROVE  q \in BoostedRows(near) /\ <<q, r>> \in nearOrder
    BY DEF Ahead
  <2>1. q \in BoostedRows(near) /\ q \in Docs
    BY <1>6 DEF BoostedRows
  <2>2. /\ BoostedScore(c, near)[q] = BoostedScore(c, far)[q]
        /\ BoostedScore(c, near)[r] = BoostedScore(c, far)[r]
    BY <1>7, <1>8, <2>1
  <2>. QED
    BY <1>8, <2>1, <2>2 DEF Before
<1>10. IsFiniteSet(A) /\ Cardinality(A) \in Nat /\ Cardinality(A) < P
  BY <1>1, <1>4, <1>8, AheadCounts
<1>11. /\ IsFiniteSet(added) /\ Cardinality(added) \in Nat
       /\ Cardinality(added) = Len(far) - Len(near)
  <2>1. /\ IsFiniteSet(Range(far)) /\ Cardinality(Range(far)) = Len(far)
        /\ Cardinality(Range(near)) = Len(near)
    BY <1>2, LengthCounts
  <2>2. Range(far) \cap Range(near) = Range(near)
    BY <1>3
  <2>3. /\ IsFiniteSet(added)
        /\ Cardinality(added)
             = Cardinality(Range(far)) - Cardinality(Range(far) \cap Range(near))
    BY <2>1, FS_Difference
  <2>4. Cardinality(added) \in Nat
    BY <2>3, FS_CardinalityType
  <2>. QED
    BY <2>1, <2>2, <2>3, <2>4
<1>12. /\ IsFiniteSet(D) /\ Cardinality(D) \in Nat
       /\ Cardinality(D) <= Cardinality(A) + Cardinality(added)
  <2>1. /\ IsFiniteSet(A \cup added)
        /\ Cardinality(A \cup added)
             = Cardinality(A) + Cardinality(added) - Cardinality(A \cap added)
    BY <1>10, <1>11, FS_Union
  <2>2. IsFiniteSet(A \cap added) /\ Cardinality(A \cap added) \in Nat
    BY <1>10, FS_Intersection, FS_CardinalityType
  <2>3. IsFiniteSet(D) /\ Cardinality(D) <= Cardinality(A \cup added)
    BY <1>9, <2>1, FS_Subset
  <2>4. Cardinality(D) \in Nat
    BY <2>3, FS_CardinalityType
  <2>. HIDE DEF A, D, added
  <2>. QED
    BY <2>1, <2>2, <2>3, <2>4, <1>10, <1>11
<1>13. Cardinality(D) < K
  <2>1. Len(far) - Len(near) <= K - P \/ Len(far) - Len(near) = 0
    BY <1>1, <1>2
  <2>. HIDE DEF A, D, added
  <2>. QED
    BY <2>1, <1>1, <1>10, <1>11, <1>12, <1>2
<1>. QED
  BY <1>5, <1>8, <1>13

LEMMA PrefixWithin ==
  ASSUME PoolInv, next > Len(Channels) + 1
  PROVE  Found(prefix) \subseteq Found(full)
<1>1. PoolTypes /\ Searched /\ Queried
  BY DEF PoolInv, PoolTypes, Queried
<1>2. /\ DOMAIN full = Range(Channels) /\ DOMAIN prefix = Range(Channels)
      /\ \A i \in 1 .. Len(Channels) : i < next
  BY <1>1, ChannelsAre DEF PoolTypes
<1>3. \A i \in 1 .. Len(Channels) : Range(full[Channels[i]]) \subseteq Found(full)
  BY <1>2, ChannelsAre DEF Found
<1>. SUFFICES ASSUME NEW i \in 1 .. Len(Channels)
              PROVE  Range(prefix[Channels[i]]) \subseteq Found(full)
  <2>1. \A c \in Range(Channels) : \E i \in 1 .. Len(Channels) : Channels[i] = c
    BY ChannelsAre
  <2>. QED
    BY <1>2, <2>1 DEF Found
<1>. DEFINE c == Channels[i]
<1>4. full[c] = Standalone(c, ChannelTopK) /\ prefix[c] = Standalone(c, PrefixDepth)
  BY <1>1, <1>2 DEF Searched
<1>5. CASE c \notin DOMAIN Derived
  <2>. DEFINE ahead(r) == Cardinality(Ahead(r, Rows(c), Before(score[c], TieKey(c))))
  <2>1. c \in Lexical \cup Dense
    BY <1>5, ChannelsAre
  <2>2. /\ Range(prefix[c]) = {r \in Rows(c) : ahead(r) < PrefixDepth}
        /\ Range(full[c]) = {r \in Rows(c) : ahead(r) < ChannelTopK}
    BY <1>1, <1>4, <1>5, <2>1, IndependentFinds, DepthsAre DEF Standalone
  <2>3. \A r \in Rows(c) : ahead(r) \in Int
    BY <1>1, <2>1, ScoredRows, BeforeOrders, AheadCounts
  <2>. HIDE DEF ahead
  <2>4. Range(prefix[c]) \subseteq Range(full[c])
    BY <2>2, <2>3, DepthsAre
  <2>. QED
    BY <2>4, <1>3
<1>6. CASE c \in DOMAIN Derived
  <2>. DEFINE d == Derived[c]
              far == FullSortTopK(Rows(d), score[d], TieKey(d), ChannelTopK)
  <2>1. d \in Lexical \cup Dense /\ d \notin DOMAIN Derived
    BY <1>6, ChannelsAre
  <2>2. PICK j \in 1 .. i - 1 : Channels[j] = d
    BY <1>6, ChannelsAre
  <2>3. j \in 1 .. Len(Channels)
    BY <2>2, ChannelsAre
  <2>4. full[d] = far
    BY <1>1, <1>2, <2>1, <2>2, <2>3 DEF Searched, Standalone
  <2>5. Range(prefix[c]) \subseteq Range(far) \cup Range(full[c])
    BY <1>1, <1>4, <1>6, <2>1, DerivedWithin DEF Standalone
  <2>. QED
    BY <2>2, <2>3, <2>4, <2>5, <1>3
<1>. QED
  BY <1>5, <1>6

\* The pool repeats no row, invents none and is as long as the target depth or the
\* rows found allow, though prefix and appended rows come from different searches.
THEOREM PoolComplete == Spec => []PoolIsFull
<1>1. ASSUME PoolInv
      PROVE  PoolIsFull
  <2>. DEFINE both == Cardinality(Range(PoolFront) \cup Range(PoolRest))
              found == Cardinality(Found(full))
  <2>. SUFFICES ASSUME next > Len(Channels) + 1
                PROVE  /\ IsInjective(pool) /\ Range(pool) \subseteq Found(full)
                       /\ Len(pool) = Min({TargetDepth, found})
    BY DEF PoolIsFull
  <2>1. /\ PoolFront \in Seq(Docs) /\ IsInjective(PoolFront) /\ Range(PoolFront) \subseteq Found(prefix)
        /\ Len(PoolFront) <= TargetDepth
        /\ PoolRest \in Seq(Docs) /\ IsInjective(PoolRest)
        /\ Range(PoolRest) \subseteq Found(full)
        /\ IsFiniteSet(Found(full)) /\ found \in Nat
        /\ Len(PoolRest) = IF found <= TargetDepth THEN found ELSE TargetDepth
    BY <1>1, PoolParts DEF PoolInv
  <2>2. Found(prefix) \subseteq Found(full)
    BY <1>1, PrefixWithin
  <2>3. pool = Preserving(PoolFront, PoolRest)
    BY <1>1 DEF PoolInv, Pooled
  <2>4. /\ IsInjective(pool) /\ Range(pool) \subseteq Range(PoolFront) \cup Range(PoolRest)
        /\ both \in Nat /\ Len(pool) = IF both <= TargetDepth THEN both ELSE TargetDepth
    BY <2>1, <2>3, PoolLists
  <2>5. Range(PoolFront) \cup Range(PoolRest) \subseteq Found(full)
    BY <2>1, <2>2
  <2>6. Cardinality(Range(PoolRest)) = Len(PoolRest)
    BY <2>1, LengthCounts
  <2>7. both <= found /\ Len(PoolRest) <= both
    <3>1. IsFiniteSet(Range(PoolFront) \cup Range(PoolRest)) /\ both <= found
      BY <2>1, <2>5, FS_Subset
    <3>2. Cardinality(Range(PoolRest)) <= both
      BY <3>1, FS_Subset
    <3>. QED
      BY <3>1, <3>2, <2>6
  <2>8. Min({TargetDepth, found}) = IF TargetDepth <= found THEN TargetDepth ELSE found
    BY <2>1, DepthsAre, MinIs
  <2>9. Len(pool) = Min({TargetDepth, found})
    <3>. HIDE DEF both, found
    <3>. QED
      BY <2>1, <2>4, <2>7, <2>8, DepthsAre
  <2>. QED
    BY <2>4, <2>5, <2>9
<1>. QED
  BY <1>1, PoolInvariant, PTL

===============================================================================
