-------------------------- MODULE WriteBufferProofs --------------------------
(***************************************************************************)
(* BufInv is an invariant of WriteBuffer, for any arrays, pools, sizes,    *)
(* budgets and failures; the index, the reported contents and the column   *)
(* order follow from it.  With GarbageHeld (the arrays a commit has        *)
(* decided to drop are held until it takes) it also gives the refinement:  *)
(* each step is a step of StoredArrays or a stutter.  The byte counts are  *)
(* exact and the budget is kept as well: the running count is a sum over   *)
(* the pools, defined by recursion on sets of pools, and how it changes is *)
(* proved by induction on those sets, in the form of a set that contains   *)
(* the empty set and grows by one pool at a time.                          *)
(***************************************************************************)
EXTENDS BufferRefinement, FiniteSetTheorems, WellFoundedInduction, TLAPS

\* The types of the buffer proper, which dropping and writing change.
BufType ==
    /\ blocks \in [Pools -> Seq(Hashes)]
    /\ blockBytes \in [Pools -> Nat]
    /\ DOMAIN byHash \subseteq Hashes
    /\ \A h \in DOMAIN byHash : byHash[h] \in [pool : Pools, idx : Nat \ {0}]
    /\ bytes \in Nat

\* An initial segment of the naturals has as many members as its bound.
LEMMA UpTo == ASSUME NEW n \in Nat PROVE IsFiniteSet(1 .. n) /\ Cardinality(1 .. n) = n
<1>1. 1 \in Int /\ n \in Int
  OBVIOUS
<1>2. /\ IsFiniteSet(1 .. n)
      /\ Cardinality(1 .. n) = IF 1 > n THEN 0 ELSE n - 1 + 1
  BY <1>1, FS_Interval
<1>3. (IF 1 > n THEN 0 ELSE n - 1 + 1) = n
  OBVIOUS
<1> QED BY <1>2, <1>3


\* WriteBuffer::remove keeps blocks and index in step, drops h and only h, and
\* puts before an array of a block only one that was there before it, or one
\* that has moved into the place h had.
LEMMA Dropped ==
    ASSUME BufType, IndexExact, NEW h \in Buffered, DropBuffered(h)
    PROVE  /\ BufType'
           /\ IndexExact'
           /\ Buffered' = Buffered \ {h}
           /\ \A p \in Pools : Len(blocks'[p]) <= Len(blocks[p])
           /\ Len(blocks'[PoolOf[h]]) < Len(blocks[PoolOf[h]])
           /\ \A p \in Pools : \A i, j \in DOMAIN blocks'[p] : i < j =>
                  \E k, l \in DOMAIN blocks[p] :
                      /\ k < l
                      /\ blocks[p][k] = blocks'[p][i] \/ blocks[p][k] = h
                      /\ blocks[p][l] = blocks'[p][j]
<1> DEFINE p == byHash[h].pool
           i == byHash[h].idx
           n == Len(blocks[p])
<1>1. /\ p \in Pools
      /\ p = PoolOf[h]
      /\ n \in Nat
      /\ i \in 1 .. n
      /\ blocks[p][i] = h
      /\ DOMAIN blocks[p] = 1 .. n
      /\ blocks[p] \in Seq(Hashes)
      /\ \A j \in 1 .. n : blocks[p][j] \in Hashes
  BY DEF BufType, IndexExact, Buffered
<1>2. /\ blocks' = [blocks EXCEPT ![p] = SwapRemove(blocks[p], i)]
      /\ byHash' = Reindex(p, i)
      /\ blockBytes' = [blockBytes EXCEPT ![p] = Less(blockBytes[p], ColBytes[p])]
      /\ bytes' = Less(bytes, ColBytes[p])
  BY DEF DropBuffered
<1>3. /\ SwapRemove(blocks[p], i) \in Seq(Hashes)
      /\ Len(SwapRemove(blocks[p], i)) = n - 1
      /\ DOMAIN SwapRemove(blocks[p], i) = 1 .. n - 1
      /\ \A j \in 1 .. n - 1 : SwapRemove(blocks[p], i)[j]
                                 = IF j = i THEN blocks[p][n] ELSE blocks[p][j]
  <2>1. n - 1 \in Nat /\ n \in 1 .. n
    BY <1>1
  <2>2. \A j \in 1 .. n - 1 : (IF j = i THEN blocks[p][n] ELSE blocks[p][j]) \in Hashes
    BY <1>1, <2>1
  <2> HIDE DEF p, i, n
  <2>3. SwapRemove(blocks[p], i)
          = [j \in 1 .. n - 1 |-> IF j = i THEN blocks[p][n] ELSE blocks[p][j]]
    BY DEF SwapRemove, n
  <2> QED BY <2>1, <2>2, <2>3
<1>4. /\ blocks'[p] = SwapRemove(blocks[p], i)
      /\ \A q \in Pools : q # p => blocks'[q] = blocks[q]
      /\ blocks' \in [Pools -> Seq(Hashes)]
  BY <1>1, <1>2, <1>3 DEF BufType
<1>5. /\ Buffered' = Buffered \ {h}
      /\ \A g \in Buffered \ {h} :
             byHash'[g] = IF g = blocks[p][n] THEN [pool |-> p, idx |-> i] ELSE byHash[g]
  BY <1>1, <1>2 DEF Reindex, Buffered
<1>6. BufType'
  <2> HIDE DEF p, i, n
  <2>0. blockBytes[p] \in Nat /\ ColBytes[p] \in Nat /\ bytes \in Nat
    BY <1>1, BufferConstants DEF BufType
  <2>1. Less(blockBytes[p], ColBytes[p]) \in Nat /\ Less(bytes, ColBytes[p]) \in Nat
    BY <2>0 DEF Less
  <2>2. blockBytes' \in [Pools -> Nat] /\ bytes' \in Nat
    BY <1>1, <1>2, <2>1 DEF BufType
  <2>3. \A g \in Buffered' : byHash'[g] \in [pool : Pools, idx : Nat \ {0}]
    BY <1>1, <1>5 DEF BufType, Buffered
  <2> QED BY <1>4, <1>5, <2>2, <2>3 DEF BufType, Buffered
<1>7. IndexExact'
  <2> HIDE DEF p, i, n
  <2>1. ASSUME NEW g \in Buffered'
        PROVE  /\ byHash'[g].pool = PoolOf[g]
               /\ byHash'[g].idx \in DOMAIN blocks'[byHash'[g].pool]
               /\ blocks'[byHash'[g].pool][byHash'[g].idx] = g
    <3>1. g \in Buffered /\ g # h
      BY <1>5
    <3>2. /\ byHash[g].pool = PoolOf[g]
          /\ byHash[g].pool \in Pools
          /\ byHash[g].idx \in DOMAIN blocks[byHash[g].pool]
          /\ blocks[byHash[g].pool][byHash[g].idx] = g
      BY <3>1 DEF IndexExact, BufType, Buffered
    <3>3. CASE g = blocks[p][n]
      <4>1. byHash'[g] = [pool |-> p, idx |-> i]
        BY <1>5, <3>1, <3>3
      <4>2. i # n
        BY <1>1, <3>1, <3>3
      <4>3. byHash[g] = [pool |-> p, idx |-> n]
        BY <1>1, <3>3 DEF IndexExact
      <4> QED BY <1>1, <1>3, <1>4, <3>2, <3>3, <4>1, <4>2, <4>3
    <3>4. CASE g # blocks[p][n]
      <4>1. byHash'[g] = byHash[g]
        BY <1>5, <3>1, <3>4
      <4>2. CASE byHash[g].pool = p
        <5>1. byHash[g].idx # n /\ byHash[g].idx # i
          BY <1>1, <3>1, <3>2, <3>4, <4>2
        <5> QED BY <1>1, <1>3, <1>4, <3>2, <4>1, <4>2, <5>1
      <4>3. CASE byHash[g].pool # p
        BY <1>4, <3>2, <4>1, <4>3
      <4> QED BY <4>2, <4>3
    <3> QED BY <3>3, <3>4
  <2>2. ASSUME NEW q \in Pools, NEW j \in DOMAIN blocks'[q]
        PROVE  /\ blocks'[q][j] \in Buffered'
               /\ byHash'[blocks'[q][j]] = [pool |-> q, idx |-> j]
    <3>1. CASE q # p
      <4>1. /\ blocks'[q] = blocks[q]
            /\ blocks[q][j] \in Buffered
            /\ byHash[blocks[q][j]] = [pool |-> q, idx |-> j]
        BY <1>4, <3>1 DEF IndexExact
      <4>2. blocks[q][j] # h /\ blocks[q][j] # blocks[p][n]
        <5>1. /\ byHash[h] = [pool |-> p, idx |-> i]
              /\ byHash[blocks[p][n]] = [pool |-> p, idx |-> n]
          BY <1>1 DEF IndexExact
        <5> QED BY <3>1, <4>1, <5>1
      <4> QED BY <1>5, <4>1, <4>2
    <3>2. CASE q = p /\ j = i
      <4>1. j \in 1 .. n - 1 /\ blocks'[q][j] = blocks[p][n]
        BY <1>1, <1>3, <1>4, <3>2
      <4>2. /\ blocks[p][n] \in Buffered
            /\ byHash[blocks[p][n]] = [pool |-> p, idx |-> n]
            /\ byHash[h] = [pool |-> p, idx |-> i]
        BY <1>1 DEF IndexExact
      <4>3. blocks[p][n] # h
        BY <1>1, <3>2, <4>1, <4>2
      <4> QED BY <1>5, <3>2, <4>1, <4>2, <4>3
    <3>3. CASE q = p /\ j # i
      <4>1. j \in 1 .. n - 1 /\ blocks'[q][j] = blocks[p][j]
        BY <1>1, <1>3, <1>4, <3>3
      <4>2. /\ blocks[p][j] \in Buffered
            /\ byHash[blocks[p][j]] = [pool |-> p, idx |-> j]
            /\ byHash[blocks[p][n]] = [pool |-> p, idx |-> n]
            /\ byHash[h] = [pool |-> p, idx |-> i]
        BY <1>1, <4>1 DEF IndexExact
      <4>3. blocks[p][j] # h /\ blocks[p][j] # blocks[p][n]
        BY <1>1, <3>3, <4>1, <4>2
      <4> QED BY <1>5, <3>3, <4>1, <4>2, <4>3
    <3> QED BY <3>1, <3>2, <3>3
  <2> QED BY <2>1, <2>2 DEF IndexExact
<1>8. \A q \in Pools : Len(blocks'[q]) <= Len(blocks[q])
  <2> HIDE DEF p, i
  <2>1. \A q \in Pools : Len(blocks[q]) \in Nat
    BY DEF BufType
  <2> QED BY <1>1, <1>3, <1>4, <2>1
<1>9. Len(blocks'[PoolOf[h]]) < Len(blocks[PoolOf[h]])
  BY <1>1, <1>3, <1>4
<1>10. ASSUME NEW q \in Pools, NEW j \in DOMAIN blocks'[q], NEW k \in DOMAIN blocks'[q], j < k
       PROVE  \E a, b \in DOMAIN blocks[q] :
                  /\ a < b
                  /\ blocks[q][a] = blocks'[q][j] \/ blocks[q][a] = h
                  /\ blocks[q][b] = blocks'[q][k]
  <2> HIDE DEF p, i, n
  <2>1. CASE q # p
    BY <1>4, <1>10, <2>1
  <2>2. CASE q = p
    <3>1. /\ j \in 1 .. n - 1
          /\ k \in 1 .. n - 1
          /\ blocks'[q][j] = IF j = i THEN blocks[p][n] ELSE blocks[p][j]
          /\ blocks'[q][k] = IF k = i THEN blocks[p][n] ELSE blocks[p][k]
      BY <1>3, <1>4, <2>2
    <3>2. j \in 1 .. n /\ k \in 1 .. n /\ n \in 1 .. n /\ j < n
      BY <1>1, <3>1
    <3>3. CASE k = i
      BY <1>1, <1>10, <2>2, <3>1, <3>2, <3>3
    <3>4. CASE k # i
      BY <1>1, <1>10, <2>2, <3>1, <3>2, <3>4
    <3> QED BY <3>3, <3>4
  <2> QED BY <2>1, <2>2
<1> QED BY <1>5, <1>6, <1>7, <1>8, <1>9, <1>10

\* write_block_except keeps blocks and index in step, moves to the backend what
\* it does not skip, and leaves the rest in its relative order.
LEMMA Written ==
    ASSUME BufType, IndexExact, NEW p \in Pools, NEW skip, WriteBlock(p, skip)
    PROVE  /\ BufType'
           /\ IndexExact'
           /\ Buffered' = Buffered \ (Items(blocks[p]) \ skip)
           /\ disk' = disk \cup (Items(blocks[p]) \ skip)
           /\ refused' = refused
           /\ \A q \in Pools : q # p => blocks'[q] = blocks[q]
           /\ \A q \in Pools : Len(blocks'[q]) <= Len(blocks[q])
           /\ skip = {} => Len(blocks'[p]) = 0
           /\ Items(blocks'[p]) \subseteq skip
           /\ \A q \in Pools : \A i, j \in DOMAIN blocks'[q] : i < j =>
                  \E k, l \in DOMAIN blocks[q] :
                      /\ k < l
                      /\ blocks[q][k] = blocks'[q][i]
                      /\ blocks[q][l] = blocks'[q][j]
<1> DEFINE n == Len(blocks[p])
           I == {i \in DOMAIN blocks[p] : blocks[p][i] \in skip}
           gone == Items(blocks[p]) \ skip
           m == Cardinality(I)
<1>1. /\ n \in Nat
      /\ DOMAIN blocks[p] = 1 .. n
      /\ blocks[p] \in Seq(Hashes)
      /\ \A j \in 1 .. n : blocks[p][j] \in Hashes
      /\ I \subseteq 1 .. n
      /\ \A i \in I : blocks[p][i] \in skip
  BY DEF BufType
<1>2. m \in Nat /\ m <= n /\ (skip = {} => m = 0)
  <2>1. IsFiniteSet(1 .. n) /\ Cardinality(1 .. n) = n
    BY <1>1, UpTo
  <2>2. IsFiniteSet(I) /\ m <= n
    BY <1>1, <2>1, FS_Subset
  <2>3. m \in Nat
    BY <2>2, FS_CardinalityType
  <2>4. skip = {} => I = {}
    OBVIOUS
  <2> QED BY <2>2, <2>3, <2>4, FS_EmptySet
<1>3. PICK f \in Picks(blocks[p], skip) :
          /\ blocks' = [blocks EXCEPT ![p] = [j \in DOMAIN f |-> blocks[p][f[j]]]]
          /\ byHash' = [g \in Buffered \ gone |->
                          IF byHash[g].pool = p
                          THEN [pool |-> p, idx |-> CHOOSE j \in DOMAIN f : f[j] = byHash[g].idx]
                          ELSE byHash[g]]
          /\ blockBytes' = [blockBytes EXCEPT ![p]
                              = Len([j \in DOMAIN f |-> blocks[p][f[j]]]) * ColBytes[p]]
          /\ bytes' = Recount(p, Len([j \in DOMAIN f |-> blocks[p][f[j]]]) * ColBytes[p])
          /\ disk' = disk \cup gone
          /\ refused' = refused
  BY DEF WriteBlock
<1> DEFINE kept == [j \in DOMAIN f |-> blocks[p][f[j]]]
<1>4. /\ f \in [1 .. m -> I]
      /\ DOMAIN f = 1 .. m
      /\ \A j, k \in 1 .. m : j < k => f[j] < f[k]
      /\ \A i \in I : \E j \in 1 .. m : f[j] = i
  BY <1>3 DEF Picks
<1> HIDE DEF n, I, m
<1>5. /\ kept \in Seq(Hashes)
      /\ Len(kept) = m
      /\ DOMAIN kept = 1 .. m
      /\ \A j \in 1 .. m : /\ kept[j] = blocks[p][f[j]]
                           /\ f[j] \in 1 .. n
                           /\ kept[j] \in skip
  <2>1. \A j \in 1 .. m : /\ f[j] \in 1 .. n
                          /\ blocks[p][f[j]] \in Hashes
                          /\ blocks[p][f[j]] \in skip
    BY <1>1, <1>4
  <2>2. kept = [j \in 1 .. m |-> blocks[p][f[j]]]
    BY <1>4
  <2> HIDE DEF kept
  <2> QED BY <1>2, <2>1, <2>2
<1>6. /\ blocks'[p] = kept
      /\ \A q \in Pools : q # p => blocks'[q] = blocks[q]
      /\ blocks' \in [Pools -> Seq(Hashes)]
  <2> HIDE DEF kept
  <2>1. blocks' = [blocks EXCEPT ![p] = kept]
    BY <1>3 DEF kept
  <2> QED BY <1>5, <2>1 DEF BufType
<1>7. /\ Buffered' = Buffered \ gone
      /\ \A g \in Buffered \ gone :
             byHash'[g] = IF byHash[g].pool = p
                          THEN [pool |-> p, idx |-> CHOOSE j \in DOMAIN f : f[j] = byHash[g].idx]
                          ELSE byHash[g]
  BY <1>3 DEF Buffered
\* The new position of an array that stays, and it is the only one.
<1>8. ASSUME NEW g \in Buffered \ gone, byHash[g].pool = p
      PROVE  \E j \in 1 .. m : /\ byHash'[g] = [pool |-> p, idx |-> j]
                               /\ f[j] = byHash[g].idx
                               /\ kept[j] = g
  <2>1. byHash[g].idx \in 1 .. n /\ blocks[p][byHash[g].idx] = g
    BY <1>1, <1>8 DEF IndexExact, Buffered
  <2>2. byHash[g].idx \in I
    BY <1>1, <2>1, <1>8 DEF I, Items
  <2>3. \E j \in DOMAIN f : f[j] = byHash[g].idx
    BY <1>4, <2>2
  <2> DEFINE j == CHOOSE j \in DOMAIN f : f[j] = byHash[g].idx
  <2>4. j \in 1 .. m /\ f[j] = byHash[g].idx
    BY <1>4, <2>3
  <2>5. byHash'[g] = [pool |-> p, idx |-> j]
    BY <1>7, <1>8
  <2>6. kept[j] = g
    BY <1>5, <2>1, <2>4
  <2> QED BY <2>4, <2>5, <2>6
<1> HIDE DEF gone
<1>9. BufType'
  <2> HIDE DEF kept
  <2>1. ColBytes[p] \in Nat /\ blockBytes[p] \in Nat /\ bytes \in Nat
    BY BufferConstants DEF BufType
  <2>2. m * ColBytes[p] \in Nat
    BY <1>2, <2>1
  <2>3. blockBytes' = [blockBytes EXCEPT ![p] = m * ColBytes[p]]
    BY <1>3, <1>5 DEF kept
  <2>4. blockBytes' \in [Pools -> Nat]
    BY <2>2, <2>3 DEF BufType
  <2>5. bytes' = Recount(p, m * ColBytes[p])
    BY <1>3, <1>5 DEF kept
  <2>6. bytes' \in Nat
    BY <2>1, <2>2, <2>5 DEF Recount, Less
  <2>7. ASSUME NEW g \in Buffered'
        PROVE  byHash'[g] \in [pool : Pools, idx : Nat \ {0}]
    <3>1. g \in Buffered \ gone
      BY <1>7
    <3>2. CASE byHash[g].pool = p
      <4>1. PICK j \in 1 .. m : byHash'[g] = [pool |-> p, idx |-> j]
        BY <1>8, <3>1, <3>2
      <4>2. j \in Nat \ {0}
        BY <1>2
      <4> QED BY <4>1, <4>2
    <3>3. CASE byHash[g].pool # p
      BY <1>7, <3>1, <3>3 DEF BufType, Buffered
    <3> QED BY <3>2, <3>3
  <2> QED BY <1>6, <1>7, <2>4, <2>6, <2>7 DEF BufType, Buffered
<1>10. IndexExact'
  <2>1. ASSUME NEW g \in Buffered'
        PROVE  /\ byHash'[g].pool = PoolOf[g]
               /\ byHash'[g].idx \in DOMAIN blocks'[byHash'[g].pool]
               /\ blocks'[byHash'[g].pool][byHash'[g].idx] = g
    <3> HIDE DEF kept
    <3>1. g \in Buffered \ gone
      BY <1>7
    <3>2. /\ byHash[g].pool = PoolOf[g]
          /\ byHash[g].pool \in Pools
          /\ byHash[g].idx \in DOMAIN blocks[byHash[g].pool]
          /\ blocks[byHash[g].pool][byHash[g].idx] = g
      BY <3>1 DEF IndexExact, BufType, Buffered
    <3>3. CASE byHash[g].pool = p
      <4>1. PICK j \in 1 .. m : byHash'[g] = [pool |-> p, idx |-> j] /\ kept[j] = g
        BY <1>8, <3>1, <3>3
      <4> QED BY <1>5, <1>6, <3>2, <3>3, <4>1
    <3>4. CASE byHash[g].pool # p
      BY <1>6, <1>7, <3>1, <3>2, <3>4
    <3> QED BY <3>3, <3>4
  <2>2. ASSUME NEW q \in Pools, NEW j \in DOMAIN blocks'[q]
        PROVE  /\ blocks'[q][j] \in Buffered'
               /\ byHash'[blocks'[q][j]] = [pool |-> q, idx |-> j]
    <3> HIDE DEF kept
    <3>1. CASE q # p
      <4>1. /\ blocks'[q] = blocks[q]
            /\ blocks[q][j] \in Buffered
            /\ byHash[blocks[q][j]] = [pool |-> q, idx |-> j]
        BY <1>6, <3>1 DEF IndexExact
      <4>2. ASSUME NEW k \in DOMAIN blocks[p] PROVE blocks[p][k] # blocks[q][j]
        <5>1. byHash[blocks[p][k]] = [pool |-> p, idx |-> k]
          BY DEF IndexExact
        <5>2. byHash[blocks[p][k]].pool = p /\ byHash[blocks[q][j]].pool = q
          BY <4>1, <5>1
        <5> QED BY <3>1, <5>2
      <4>3. blocks[q][j] \in Buffered \ gone
        BY <4>1, <4>2 DEF gone, Items
      <4>4. byHash[blocks[q][j]].pool # p
        BY <3>1, <4>1
      <4> QED BY <1>7, <4>1, <4>3, <4>4
    <3>2. CASE q = p
      <4>1. /\ j \in 1 .. m
            /\ blocks'[q][j] = blocks[p][f[j]]
            /\ f[j] \in DOMAIN blocks[p]
            /\ blocks[p][f[j]] \in skip
        BY <1>1, <1>5, <1>6, <3>2
      <4>2. /\ blocks[p][f[j]] \in Buffered \ gone
            /\ byHash[blocks[p][f[j]]] = [pool |-> p, idx |-> f[j]]
            /\ byHash[blocks[p][f[j]]].pool = p
            /\ byHash[blocks[p][f[j]]].idx = f[j]
        BY <4>1 DEF IndexExact, gone
      <4>3. PICK k \in 1 .. m : /\ byHash'[blocks[p][f[j]]] = [pool |-> p, idx |-> k]
                                /\ f[k] = f[j]
        BY <1>8, <4>2
      <4>4. f[j] \in Nat /\ f[k] \in Nat
        BY <1>5, <4>1
      <4>5. k = j
        BY <1>2, <1>4, <4>1, <4>3, <4>4
      <4> QED BY <1>7, <3>2, <4>1, <4>2, <4>3, <4>5
    <3> QED BY <3>1, <3>2
  <2> QED BY <2>1, <2>2 DEF IndexExact
<1>11. \A q \in Pools : Len(blocks'[q]) <= Len(blocks[q])
  <2> HIDE DEF kept
  <2>1. \A q \in Pools : Len(blocks[q]) \in Nat
    BY DEF BufType
  <2> QED BY <1>2, <1>5, <1>6, <2>1 DEF n
<1>12. skip = {} => Len(blocks'[p]) = 0
  BY <1>2, <1>5, <1>6
<1>13. Items(blocks'[p]) \subseteq skip
  BY <1>5, <1>6 DEF Items
<1>14. ASSUME NEW q \in Pools, NEW i \in DOMAIN blocks'[q], NEW j \in DOMAIN blocks'[q], i < j
       PROVE  \E k, l \in DOMAIN blocks[q] :
                  /\ k < l
                  /\ blocks[q][k] = blocks'[q][i]
                  /\ blocks[q][l] = blocks'[q][j]
  <2> HIDE DEF kept
  <2>1. CASE q # p
    BY <1>6, <1>14, <2>1
  <2>2. CASE q = p
    BY <1>1, <1>4, <1>5, <1>6, <1>14, <2>2
  <2> QED BY <2>1, <2>2
<1>15. disk' = disk \cup gone /\ refused' = refused
  BY <1>3
<1> HIDE DEF kept
<1> QED BY <1>6, <1>7, <1>9, <1>10, <1>11, <1>12, <1>13, <1>14, <1>15 DEF gone

-----------------------------------------------------------------------------
(* Small facts about calls.                                                *)

LEMMA FreshFacts ==
    ASSUME CallShape
    PROVE  /\ call.op \notin {"push", "undo"} => Fresh = {}
           /\ call.op = "push" => Fresh = {call.hash}
           /\ call.op = "undo" => Fresh = Items(call.undo)
<1>1. Items(<<>>) = {}
  BY DEF Items
<1> QED BY <1>1 DEF CallShape, Fresh

LEMMA TypeSplit == TypeOK <=> /\ BufType
                              /\ maxBytes \in Budgets
                              /\ disk \subseteq Hashes
                              /\ call \in Calls
                              /\ arrived \in Seq(Hashes)
                              /\ owed \subseteq Hashes
                              /\ refused \subseteq Hashes
                              /\ overdue \in BOOLEAN
  BY DEF TypeOK, BufType

LEMMA IdleFacts == /\ Idle \in Calls
                   /\ Idle.op = "idle"
                   /\ Idle.hash = NoHash
                   /\ Idle.todo = {}
                   /\ Idle.skip = {}
                   /\ Idle.undo = <<>>
  BY DEF Idle, Calls

\* A block that fails has left nothing behind: it is no wider than a chunk.
LEMMA NothingTorn ==
    ASSUME BufInv, NEW torn, BlockFails(torn)
    PROVE  torn = {}
<1>1. PICK p \in DueNow \cup EvictNow : torn \in Torn(p, call.skip)
  BY DEF BlockFails
<1>2. p \in Pools
  BY <1>1 DEF DueNow, EvictNow, BufInv, TypeOK, Calls
<1> DEFINE n == Len(blocks[p])
           items == Items(blocks[p])
           new == (items \ call.skip) \ disk
<1>3. n \in Nat /\ DOMAIN blocks[p] = 1 .. n /\ ChunkCols[p] \in Nat /\ n <= ChunkCols[p]
  BY <1>2, BufferConstants DEF BufInv, TypeOK, WidthInv
<1>4. IsFiniteSet(items) /\ Cardinality(items) <= n
  <2>1. IsFiniteSet(1 .. n) /\ Cardinality(1 .. n) = n
    BY <1>3, UpTo
  <2> DEFINE s == blocks[p]
  <2>2. s \in Surjection(1 .. n, items)
    BY <1>2, <1>3 DEF Surjection, Items, BufInv, TypeOK
  <2> HIDE DEF s, n, items
  <2> QED BY <2>1, <2>2, FS_Surjection
<1>5. Cardinality(new) <= Cardinality(items) /\ IsFiniteSet(new)
  <2>1. new \in SUBSET items
    OBVIOUS
  <2> HIDE DEF new, items, n
  <2> QED BY <1>4, <2>1, FS_Subset
<1>6. Cardinality(new) \in Nat /\ Cardinality(items) \in Nat
  BY <1>4, <1>5, FS_CardinalityType
<1>7. ~(Cardinality(new) > ChunkCols[p])
  BY <1>3, <1>4, <1>5, <1>6
<1> QED BY <1>1, <1>7 DEF Torn

-----------------------------------------------------------------------------
(* One lemma per action.                                                   *)

LEMMA PushStep ==
    ASSUME BufInv, NEW h \in Hashes, Push(h)
    PROVE  BufInv'
<1> DEFINE p == PoolOf[h]
           n == Len(blocks[p])
<1>1. /\ p \in Pools
      /\ n \in Nat
      /\ blocks[p] \in Seq(Hashes)
      /\ DOMAIN blocks[p] = 1 .. n
      /\ ColBytes[p] \in Nat
      /\ ChunkCols[p] \in Nat \ {0}
      /\ n < ChunkCols[p]
  <2>1. /\ p \in Pools
        /\ ColBytes[p] \in Nat
        /\ ChunkCols[p] \in Nat \ {0}
    BY BufferConstants
  <2>2. blocks[p] \in Seq(Hashes)
    BY <2>1 DEF BufInv, TypeOK
  <2>3. n < ChunkCols[p]
    BY <2>1 DEF BufInv, WidthInv, Push
  <2> HIDE DEF p
  <2> QED BY <2>1, <2>2, <2>3
<1>2. /\ call.op = "idle"
      /\ h \notin Held
      /\ blocks' = [blocks EXCEPT ![p] = Append(blocks[p], h)]
      /\ byHash' = [g \in Buffered \cup {h} |->
                      IF g = h THEN [pool |-> p, idx |-> Position(p)] ELSE byHash[g]]
      /\ blockBytes' = [blockBytes EXCEPT ![p] = blockBytes[p] + ColBytes[p]]
      /\ bytes' = bytes + ColBytes[p]
      /\ call' = [Idle EXCEPT !.op = "push", !.hash = h,
                              !.todo = IF Full(p, n + 1) THEN {p} ELSE {}]
      /\ UNCHANGED <<maxBytes, disk, arrived, owed, refused, overdue>>
  BY DEF Push
<1>3. /\ call'.op = "push"
      /\ call'.hash = h
      /\ call'.todo = IF Full(p, n + 1) THEN {p} ELSE {}
      /\ call'.skip = {}
      /\ call'.undo = <<>>
      /\ call' \in Calls
  <2> DEFINE due == IF Full(p, n + 1) THEN {p} ELSE {}
  <2>1. call' = [op |-> "push", hash |-> h, todo |-> due, skip |-> {}, undo |-> <<>>]
    BY <1>2 DEF Idle
  <2>2. due \in SUBSET Pools
    BY <1>1
  <2> HIDE DEF due, p, n
  <2>3. call' \in Calls
    BY <2>1, <2>2 DEF Calls
  <2> QED BY <2>1, <2>3 DEF due
<1>4. /\ Append(blocks[p], h) \in Seq(Hashes)
      /\ Len(Append(blocks[p], h)) = n + 1
      /\ DOMAIN Append(blocks[p], h) = 1 .. n + 1
      /\ Append(blocks[p], h)[n + 1] = h
      /\ \A i \in 1 .. n : Append(blocks[p], h)[i] = blocks[p][i]
  <2> HIDE DEF p
  <2> QED BY <1>1
<1>5. /\ blocks'[p] = Append(blocks[p], h)
      /\ \A q \in Pools : q # p => blocks'[q] = blocks[q]
      /\ blocks' \in [Pools -> Seq(Hashes)]
  BY <1>1, <1>2, <1>4 DEF BufInv, TypeOK
<1>6. /\ Buffered' = Buffered \cup {h}
      /\ h \notin Buffered
      /\ byHash'[h] = [pool |-> p, idx |-> n + 1]
      /\ \A g \in Buffered : byHash'[g] = byHash[g]
  BY <1>2 DEF Buffered, Held, Position
<1> HIDE DEF p, n
<1>7. TypeOK'
  <2>1. blockBytes' \in [Pools -> Nat] /\ bytes' \in Nat
    BY <1>1, <1>2 DEF BufInv, TypeOK
  <2>2. DOMAIN byHash' \subseteq Hashes
    BY <1>6 DEF BufInv, TypeOK, Buffered
  <2>3. \A g \in DOMAIN byHash' : byHash'[g] \in [pool : Pools, idx : Nat \ {0}]
    BY <1>1, <1>6 DEF BufInv, TypeOK, Buffered
  <2> QED BY <1>2, <1>3, <1>5, <2>1, <2>2, <2>3 DEF BufInv, TypeOK
<1>8. IndexExact'
  <2>1. ASSUME NEW g \in Buffered'
        PROVE  /\ byHash'[g].pool = PoolOf[g]
               /\ byHash'[g].idx \in DOMAIN blocks'[byHash'[g].pool]
               /\ blocks'[byHash'[g].pool][byHash'[g].idx] = g
    <3>1. CASE g = h
      BY <1>1, <1>4, <1>5, <1>6, <3>1 DEF p
    <3>2. CASE g # h
      <4>1. /\ g \in Buffered
            /\ byHash'[g] = byHash[g]
            /\ byHash[g].pool = PoolOf[g]
            /\ byHash[g].pool \in Pools
            /\ byHash[g].idx \in DOMAIN blocks[byHash[g].pool]
            /\ blocks[byHash[g].pool][byHash[g].idx] = g
        BY <1>6, <3>2 DEF BufInv, IndexExact, TypeOK, Buffered
      <4> QED BY SMTT(30), <1>1, <1>4, <1>5, <4>1
    <3> QED BY <3>1, <3>2
  <2>2. ASSUME NEW q \in Pools, NEW j \in DOMAIN blocks'[q]
        PROVE  /\ blocks'[q][j] \in Buffered'
               /\ byHash'[blocks'[q][j]] = [pool |-> q, idx |-> j]
    <3>1. CASE q = p /\ j = n + 1
      BY <1>4, <1>5, <1>6, <3>1
    <3>2. CASE ~(q = p /\ j = n + 1)
      <4>1. j \in DOMAIN blocks[q] /\ blocks'[q][j] = blocks[q][j]
        BY <1>1, <1>4, <1>5, <3>2
      <4>2. /\ blocks[q][j] \in Buffered
            /\ byHash[blocks[q][j]] = [pool |-> q, idx |-> j]
        BY <4>1 DEF BufInv, IndexExact
      <4> QED BY <1>6, <4>1, <4>2
    <3> QED BY <3>1, <3>2
  <2> QED BY <2>1, <2>2 DEF IndexExact
<1>9. CallShape'
  <2>1. h \in Buffered' /\ h \in Held'
    BY <1>6 DEF Held
  <2> QED BY <1>3, <2>1 DEF CallShape, p
<1>10. WidthInv'
  <2>1. ASSUME NEW q \in Pools
        PROVE  \/ Len(blocks'[q]) < ChunkCols[q]
               \/ /\ Len(blocks'[q]) = ChunkCols[q]
                  /\ call'.op = "push"
                  /\ q \in call'.todo
    <3>1. CASE q # p
      BY <1>2, <1>5, <3>1 DEF BufInv, WidthInv
    <3>2. CASE q = p /\ n + 1 < ChunkCols[p]
      BY <1>4, <1>5, <3>2
    <3>3. CASE q = p /\ ~(n + 1 < ChunkCols[p])
      <4>1. n + 1 = ChunkCols[p]
        BY <1>1, <3>3
      <4> DEFINE c == AtLeastOne(maxBytes \div AtLeastOne(ColBytes[p]))
      <4>2. c \in Nat
        <5>1. maxBytes \in Nat
          BY BufferConstants DEF BufInv, TypeOK
        <5>2. AtLeastOne(ColBytes[p]) \in Nat \ {0}
          BY <1>1 DEF AtLeastOne
        <5>3. maxBytes \div AtLeastOne(ColBytes[p]) \in Nat
          BY <5>1, <5>2
        <5> QED BY <5>3 DEF AtLeastOne
      <4>3. WidthCap(p) = Lower(ChunkCols[p], c)
        BY DEF WidthCap
      <4> HIDE DEF c
      <4>4. Full(p, n + 1)
        BY <1>1, <4>1, <4>2, <4>3 DEF Full, Lower
      <4> QED BY <1>3, <1>4, <1>5, <3>3, <4>1, <4>4
    <3> QED BY <3>1, <3>2, <3>3
  <2> QED BY <2>1 DEF WidthInv
<1>11. Fresh = {} /\ Fresh' = {h}
  <2>1. Fresh = {}
    BY <1>2, FreshFacts DEF BufInv
  <2>2. Items(<<>>) = {}
    BY DEF Items
  <2> QED BY <1>3, <2>1, <2>2 DEF Fresh
<1>12. HeldInv'
  <2>1. Held' = Held \cup {h}
    BY <1>2, <1>6 DEF Held
  <2>2. owed' = owed /\ refused' = refused
    BY <1>2
  <2>3. disk' \cap Buffered' = {}
    BY <1>2, <1>6 DEF BufInv, HeldInv, Held
  <2> QED BY <1>2, <1>11, <2>1, <2>2, <2>3 DEF BufInv, HeldInv
<1>13. ArrivedInv'
  BY <1>2, <1>3, <1>6, <1>11 DEF BufInv, ArrivedInv
<1>14. OrderInv'
  <2>1. ASSUME NEW q \in Pools, NEW i \in DOMAIN blocks'[q], NEW j \in DOMAIN blocks'[q], i < j
        PROVE  \/ blocks'[q][j] \in Fresh'
               \/ \E a, b \in DOMAIN arrived' : /\ a < b
                                                /\ arrived'[a] = blocks'[q][i]
                                                /\ arrived'[b] = blocks'[q][j]
    <3>1. CASE q = p /\ j = n + 1
      BY <1>4, <1>5, <1>11, <3>1
    <3>2. CASE ~(q = p /\ j = n + 1)
      <4>1. /\ i \in DOMAIN blocks[q] /\ blocks'[q][i] = blocks[q][i]
            /\ j \in DOMAIN blocks[q] /\ blocks'[q][j] = blocks[q][j]
        BY <1>1, <1>4, <1>5, <2>1, <3>2
      <4>2. arrived' = arrived
        BY <1>2
      <4> QED BY <1>2, <1>11, <2>1, <4>1, <4>2 DEF BufInv, OrderInv
    <3> QED BY <3>1, <3>2
  <2> QED BY <2>1 DEF OrderInv
<1> QED BY <1>7, <1>8, <1>9, <1>10, <1>12, <1>13, <1>14 DEF BufInv

LEMMA WriteStep ==
    ASSUME BufInv, WriteNext
    PROVE  BufInv'
<1>1. PICK p \in DueNow \cup EvictNow :
          /\ WriteBlock(p, call.skip)
          /\ call' = [call EXCEPT !.todo = call.todo \ {p}]
          /\ UNCHANGED <<maxBytes, arrived, owed, overdue>>
  BY DEF WriteNext
<1>2. p \in Pools
  BY <1>1 DEF DueNow, EvictNow, BufInv, TypeOK, Calls
<1> DEFINE skip == call.skip
           gone == Items(blocks[p]) \ skip
<1>3. /\ call' \in Calls
      /\ call'.op = call.op
      /\ call'.hash = call.hash
      /\ call'.todo = call.todo \ {p}
      /\ call'.skip = call.skip
      /\ call'.undo = call.undo
  BY <1>1 DEF BufInv, TypeOK, Calls
<1>4. BufType
  BY TypeSplit DEF BufInv
<1>5. /\ BufType'
      /\ IndexExact'
      /\ Buffered' = Buffered \ gone
      /\ disk' = disk \cup gone
      /\ refused' = refused
      /\ \A q \in Pools : q # p => blocks'[q] = blocks[q]
      /\ \A q \in Pools : Len(blocks'[q]) <= Len(blocks[q])
      /\ skip = {} => Len(blocks'[p]) = 0
      /\ Items(blocks'[p]) \subseteq skip
  BY <1>1, <1>2, <1>4, Written DEF BufInv
<1>6. \A q \in Pools : \A i, j \in DOMAIN blocks'[q] : i < j =>
          \E k, l \in DOMAIN blocks[q] : /\ k < l
                                         /\ blocks[q][k] = blocks'[q][i]
                                         /\ blocks[q][l] = blocks'[q][j]
  BY <1>1, <1>2, <1>4, Written DEF BufInv
<1>7. gone \subseteq Buffered
  <2>1. \A i \in DOMAIN blocks[p] : blocks[p][i] \in Buffered
    BY <1>2 DEF BufInv, IndexExact
  <2> QED BY <2>1 DEF Items
<1>8. TypeOK'
  <2>1. disk' \subseteq Hashes
    BY <1>5, <1>7 DEF BufInv, TypeOK, Buffered
  <2> QED BY <1>1, <1>3, <1>5, <2>1, TypeSplit DEF BufInv, TypeOK, BufType
<1>9. Held' = Held
  BY <1>5, <1>7 DEF Held
<1>10. Fresh' = Fresh
  BY <1>3 DEF Fresh
<1>11. CallShape'
  <2>1. ASSUME call.op = "commit", NEW q \in Pools \ call'.todo
        PROVE  Items(blocks'[q]) \subseteq call'.skip
    <3>1. CASE q = p
      BY <1>3, <1>5, <3>1
    <3>2. CASE q # p
      BY <1>3, <1>5, <2>1, <3>2 DEF BufInv, CallShape
    <3> QED BY <3>1, <3>2
  <2>2. call.op = "free" => arrived' = <<>> /\ Buffered' \subseteq call'.skip
    BY <1>1, <1>3, <1>5 DEF BufInv, CallShape
  <2>3. call.op = "push" => /\ call'.hash \in Held'
                            /\ call'.todo # {} => /\ call'.todo = {PoolOf[call'.hash]}
                                                  /\ call'.hash \in Buffered'
    <3>1. call.op = "push" => call'.todo = {}
      BY <1>1, <1>3 DEF BufInv, CallShape, DueNow, EvictNow
    <3> QED BY <1>3, <1>9, <3>1 DEF BufInv, CallShape
  <2> QED BY <1>3, <2>1, <2>2, <2>3 DEF BufInv, CallShape
<1>12. WidthInv'
  <2>1. ASSUME NEW q \in Pools
        PROVE  Len(blocks'[q]) < ChunkCols[q]
    <3>0. /\ Len(blocks[q]) \in Nat
          /\ Len(blocks'[q]) \in Nat
          /\ ChunkCols[q] \in Nat \ {0}
      BY <1>4, <1>5, BufferConstants DEF BufType
    <3>1. CASE Len(blocks[q]) < ChunkCols[q]
      BY <1>5, <3>0, <3>1
    <3>2. CASE ~(Len(blocks[q]) < ChunkCols[q])
      <4>1. call.op = "push" /\ q \in call.todo
        BY <3>0, <3>2 DEF BufInv, WidthInv
      <4>2. call.todo = {PoolOf[call.hash]} /\ skip = {}
        BY <4>1 DEF BufInv, CallShape
      <4>3. p = q
        BY <1>1, <4>1, <4>2 DEF DueNow, EvictNow
      <4> QED BY <1>5, <3>0, <4>2, <4>3
    <3> QED BY <3>1, <3>2
  <2> QED BY <2>1 DEF WidthInv
<1>13. HeldInv'
  BY <1>1, <1>5, <1>9, <1>10 DEF BufInv, HeldInv
<1>14. ArrivedInv'
  BY <1>1, <1>3, <1>5, <1>10 DEF BufInv, ArrivedInv
<1>15. OrderInv'
  <2>1. arrived' = arrived
    BY <1>1
  <2> QED BY <1>3, <1>6, <1>10, <2>1 DEF BufInv, OrderInv
<1> QED BY <1>5, <1>8, <1>11, <1>12, <1>13, <1>14, <1>15 DEF BufInv

\* What a step that leaves the buffer alone keeps of it.
LEMMA SameBuffer ==
    ASSUME BufInv, UNCHANGED buf
    PROVE  /\ BufType'
           /\ IndexExact'
           /\ Buffered' = Buffered
           /\ blocks' = blocks
<1>1. BufType
  BY TypeSplit DEF BufInv
<1> QED BY <1>1 DEF buf, BufInv, BufType, IndexExact, Buffered

\* A call that starts from idle and so far only says what it will do.
LEMMA CallStarts ==
    ASSUME BufInv, call.op = "idle", UNCHANGED <<buf, disk, arrived, owed, refused, overdue>>,
           call' \in Calls, maxBytes' \in Budgets,
           call'.op \in {"budget", "write", "commit"},
           call'.undo = <<>>,
           call'.op # "commit" => call'.skip = {},
           call'.op = "budget" => call'.todo = {},
           call'.op = "commit" => \A p \in Pools \ call'.todo : blocks[p] = <<>>
    PROVE  BufInv'
<1>1. BufType' /\ IndexExact' /\ Buffered' = Buffered /\ blocks' = blocks
  BY SameBuffer
<1>2. TypeOK'
  BY <1>1 DEF BufInv, TypeOK, BufType
<1>3. Items(<<>>) = {}
  BY DEF Items
<1>4. Fresh = {} /\ Fresh' = {}
  BY <1>3, FreshFacts DEF BufInv, Fresh
<1>5. Held' = Held
  BY <1>1 DEF Held
<1>6. CallShape'
  <2>1. call'.op = "commit" => \A p \in Pools \ call'.todo : Items(blocks'[p]) \subseteq call'.skip
    BY <1>1, <1>3
  <2> QED BY <1>1, <2>1 DEF CallShape
<1>7. WidthInv'
  BY <1>1 DEF BufInv, WidthInv
<1>8. HeldInv'
  BY <1>1, <1>4, <1>5 DEF BufInv, HeldInv
<1>9. ArrivedInv'
  BY <1>1, <1>4 DEF BufInv, ArrivedInv
<1>10. OrderInv'
  BY <1>1, <1>4 DEF BufInv, OrderInv
<1> QED BY <1>1, <1>2, <1>6, <1>7, <1>8, <1>9, <1>10 DEF BufInv

LEMMA BudgetStep ==
    ASSUME BufInv, NEW b \in Budgets, SetMaxBytes(b)
    PROVE  BufInv'
<1>1. call' = [op |-> "budget", hash |-> NoHash, todo |-> {}, skip |-> {}, undo |-> <<>>]
  BY DEF SetMaxBytes, Idle
<1>2. call' \in Calls
  BY <1>1 DEF Calls
<1> QED BY <1>1, <1>2, CallStarts DEF SetMaxBytes

LEMMA HoldingStep ==
    ASSUME BufInv, NEW hs \in SUBSET Hashes, WriteHolding(hs)
    PROVE  BufInv'
<1> DEFINE due == {byHash[h].pool : h \in hs \cap Buffered}
<1>1. due \in SUBSET Pools
  BY DEF BufInv, TypeOK, Buffered
<1>2. call' = [op |-> "write", hash |-> NoHash, todo |-> due, skip |-> {}, undo |-> <<>>]
  BY DEF WriteHolding, Idle
<1> HIDE DEF due
<1>3. call' \in Calls
  BY <1>1, <1>2 DEF Calls
<1>4. maxBytes' \in Budgets
  BY DEF WriteHolding, BufInv, TypeOK
<1>5. call.op = "idle" /\ UNCHANGED <<buf, disk, arrived, owed, refused, overdue>>
  BY DEF WriteHolding
<1>6. /\ call'.op = "write"
      /\ call'.skip = {}
      /\ call'.undo = <<>>
  BY <1>2
<1> QED BY <1>3, <1>4, <1>5, <1>6, CallStarts

LEMMA CommitStep ==
    ASSUME BufInv, NEW garbage \in SUBSET Held, Commit(garbage)
    PROVE  BufInv'
<1> DEFINE due == {p \in Pools : blocks[p] # <<>>}
<1>1. garbage \in SUBSET Hashes
  BY DEF BufInv, TypeOK, Buffered, Held
<1>2. call' = [op |-> "commit", hash |-> NoHash, todo |-> due, skip |-> garbage, undo |-> <<>>]
  BY DEF Commit, Idle
<1>3. \A p \in Pools \ due : blocks[p] = <<>>
  OBVIOUS
<1>4. due \in SUBSET Pools
  OBVIOUS
<1> HIDE DEF due
<1>5. call' \in Calls
  BY <1>1, <1>2, <1>4 DEF Calls
<1>6. maxBytes' \in Budgets
  BY DEF Commit, BufInv, TypeOK
<1>7. call.op = "idle" /\ UNCHANGED <<buf, disk, arrived, owed, refused, overdue>>
  BY DEF Commit
<1>8. /\ call'.op = "commit"
      /\ call'.todo = due
      /\ call'.undo = <<>>
  BY <1>2
<1> QED BY <1>3, <1>5, <1>6, <1>7, <1>8, CallStarts

\* A call that ends, or a commit that fails, leaving the buffer as it is.
LEMMA CallEnds ==
    ASSUME BufInv, call.op \in {"budget", "write", "commit"},
           UNCHANGED <<buf, maxBytes, disk, arrived, owed, refused>>,
           call' = Idle, overdue' \in BOOLEAN
    PROVE  BufInv'
<1>1. BufType' /\ IndexExact' /\ Buffered' = Buffered /\ blocks' = blocks
  BY SameBuffer
<1>2. TypeOK'
  BY <1>1, IdleFacts DEF BufInv, TypeOK, BufType
<1>3. Items(<<>>) = {}
  BY DEF Items
<1>4. Fresh = {} /\ Fresh' = {}
  BY <1>3, FreshFacts, IdleFacts DEF BufInv, Fresh
<1>5. Held' = Held
  BY <1>1 DEF Held
<1>6. CallShape'
  BY IdleFacts DEF CallShape
<1>7. WidthInv'
  BY <1>1 DEF BufInv, WidthInv
<1>8. HeldInv'
  BY <1>1, <1>4, <1>5 DEF BufInv, HeldInv
<1>9. ArrivedInv'
  BY <1>1, <1>4 DEF BufInv, ArrivedInv
<1>10. OrderInv'
  BY <1>1, <1>4 DEF BufInv, OrderInv
<1> QED BY <1>1, <1>2, <1>6, <1>7, <1>8, <1>9, <1>10 DEF BufInv

LEMMA CallFailsStep ==
    ASSUME BufInv, CallFails
    PROVE  BufInv'
<1>1. PICK torn \in SUBSET Hashes : BlockFails(torn) /\ disk' = disk \cup torn
  BY DEF CallFails
<1>2. disk' = disk
  BY <1>1, NothingTorn
<1>3. overdue' \in BOOLEAN
  BY DEF CallFails
<1> QED BY <1>2, <1>3, CallEnds DEF CallFails

LEMMA ReturnStep ==
    ASSUME BufInv, Return
    PROVE  BufInv'
<1>0. overdue' \in BOOLEAN
  BY DEF Return, BufInv, TypeOK
<1>1. CASE call.op # "push"
  BY <1>0, <1>1, CallEnds DEF Return
<1>2. CASE call.op = "push"
  <2> DEFINE h == call.hash
             n == Len(arrived)
  <2>1. /\ call' = Idle
        /\ call.todo = {}
        /\ arrived' = Append(arrived, h)
        /\ owed' = owed \cup {h}
        /\ UNCHANGED <<buf, maxBytes, disk, refused>>
    BY <1>2 DEF Return
  <2>2. BufType' /\ IndexExact' /\ Buffered' = Buffered /\ blocks' = blocks
    BY <2>1, SameBuffer
  <2>3. Fresh = {h} /\ Fresh' = {}
    <3>1. Items(<<>>) = {}
      BY DEF Items
    <3> QED BY <1>2, <2>1, <3>1, FreshFacts, IdleFacts DEF BufInv, Fresh
  <2>4. h \in Held /\ Held' = Held /\ h \notin owed
    BY <1>2, <2>1, <2>2, <2>3 DEF BufInv, CallShape, Held, HeldInv
  <2>5. h \in Hashes
    BY <2>4 DEF BufInv, TypeOK, Held, Buffered
  <2>6. arrived \in Seq(Hashes) /\ n \in Nat /\ DOMAIN arrived = 1 .. n
    BY DEF BufInv, TypeOK
  <2>7. /\ arrived' \in Seq(Hashes)
        /\ DOMAIN arrived' = 1 .. n + 1
        /\ arrived'[n + 1] = h
        /\ \A a \in 1 .. n : arrived'[a] = arrived[a]
    <3> HIDE DEF h
    <3> QED BY <2>1, <2>5, <2>6
  <2>8. Items(arrived') = Items(arrived) \cup {h}
    <3> HIDE DEF h, n
    <3>1. Items(arrived) \cup {h} \subseteq Items(arrived')
      BY <2>6, <2>7 DEF Items
    <3>2. Items(arrived') \subseteq Items(arrived) \cup {h}
      BY <2>6, <2>7 DEF Items
    <3> QED BY <3>1, <3>2
  <2>9. h \notin Items(arrived)
    BY <2>4 DEF BufInv, ArrivedInv
  <2>10. TypeOK'
    BY <1>0, <2>1, <2>2, <2>5, <2>7, IdleFacts DEF BufInv, TypeOK, BufType
  <2>11. CallShape'
    BY <2>1, IdleFacts DEF CallShape
  <2>12. WidthInv'
    BY <1>2, <2>1, <2>2 DEF BufInv, WidthInv
  <2>13. HeldInv'
    BY <2>1, <2>2, <2>3, <2>4 DEF BufInv, HeldInv
  <2>14. ArrivedInv'
    <3>1. Items(arrived') \subseteq owed' /\ Buffered' \subseteq Items(arrived')
      BY <1>2, <2>1, <2>2, <2>3, <2>8 DEF BufInv, ArrivedInv
    <3>2. ASSUME NEW a \in DOMAIN arrived', NEW b \in DOMAIN arrived', arrived'[a] = arrived'[b]
          PROVE  a = b
      <4> HIDE DEF h, n
      <4>1. \A c \in 1 .. n : arrived[c] # h
        BY <2>6, <2>9 DEF Items
      <4>2. \A c, d \in 1 .. n : arrived[c] = arrived[d] => c = d
        BY <2>6 DEF BufInv, ArrivedInv
      <4> QED BY <2>6, <2>7, <3>2, <4>1, <4>2
    <3> QED BY <3>1, <3>2 DEF ArrivedInv
  <2>15. OrderInv'
    <3>1. ASSUME NEW p \in Pools, NEW i \in DOMAIN blocks[p], NEW j \in DOMAIN blocks[p], i < j
          PROVE  \E a, b \in DOMAIN arrived' : /\ a < b
                                               /\ arrived'[a] = blocks[p][i]
                                               /\ arrived'[b] = blocks[p][j]
      <4>1. \/ blocks[p][j] = h
            \/ \E a, b \in DOMAIN arrived : /\ a < b
                                            /\ arrived[a] = blocks[p][i]
                                            /\ arrived[b] = blocks[p][j]
        BY <1>2, <2>3, <3>1 DEF BufInv, OrderInv
      <4> HIDE DEF h, n
      <4>2. CASE blocks[p][j] = h
        <5>1. /\ blocks[p][i] \in Buffered
              /\ byHash[blocks[p][i]] = [pool |-> p, idx |-> i]
              /\ byHash[blocks[p][j]] = [pool |-> p, idx |-> j]
          BY DEF BufInv, IndexExact
        <5>2. blocks[p][i] # h
          <6>1. DOMAIN blocks[p] \subseteq Nat
            BY DEF BufInv, TypeOK
          <6> QED BY <3>1, <4>2, <5>1, <6>1
        <5>3. blocks[p][i] \in Items(arrived)
          BY <1>2, <2>3, <5>1, <5>2 DEF BufInv, ArrivedInv
        <5>4. PICK a \in DOMAIN arrived : arrived[a] = blocks[p][i]
          BY <5>3 DEF Items
        <5>5. a \in 1 .. n + 1 /\ n + 1 \in 1 .. n + 1 /\ a < n + 1
          BY <2>6
        <5> QED BY <2>6, <2>7, <4>2, <5>4, <5>5
      <4>3. CASE blocks[p][j] # h
        BY <2>6, <2>7, <4>1, <4>3
      <4> QED BY <4>2, <4>3
    <3> QED BY <2>2, <3>1 DEF OrderInv
  <2> QED BY <2>2, <2>10, <2>11, <2>12, <2>13, <2>14, <2>15 DEF BufInv
<1> QED BY <1>1, <1>2

LEMMA DecidedStep ==
    ASSUME BufInv, CommitDecided
    PROVE  BufInv'
<1>1. CASE call' = Idle /\ arrived' = arrived
  <2>1. overdue' \in BOOLEAN
    BY DEF CommitDecided, BufInv, TypeOK
  <2> QED BY <1>1, <2>1, CallEnds DEF CommitDecided
<1>2. CASE call' = [call EXCEPT !.op = "free"] /\ arrived' = <<>>
  <2>1. /\ call' \in Calls
        /\ call'.op = "free"
        /\ call'.todo = {}
        /\ call'.skip = call.skip
        /\ call'.undo = call.undo
        /\ call.op = "commit"
        /\ UNCHANGED <<buf, maxBytes, disk, owed, refused, overdue>>
    BY <1>2 DEF CommitDecided, BufInv, TypeOK, Calls
  <2>2. BufType' /\ IndexExact' /\ Buffered' = Buffered /\ blocks' = blocks
    BY <2>1, SameBuffer
  <2>3. Items(<<>>) = {}
    BY DEF Items
  <2>4. Fresh = {} /\ Fresh' = {} /\ call.undo = <<>>
    <3>1. call.undo = <<>>
      BY <2>1 DEF BufInv, CallShape
    <3> QED BY <2>1, <2>3, <3>1 DEF Fresh
  <2>5. TypeOK'
    BY <1>2, <2>1, <2>2 DEF BufInv, TypeOK, BufType
  <2>6. Buffered \subseteq call.skip
    <3> SUFFICES ASSUME NEW g \in Buffered PROVE g \in call.skip
      OBVIOUS
    <3>1. /\ byHash[g].pool \in Pools
          /\ byHash[g].idx \in DOMAIN blocks[byHash[g].pool]
          /\ blocks[byHash[g].pool][byHash[g].idx] = g
      BY DEF BufInv, TypeOK, IndexExact, Buffered
    <3>2. g \in Items(blocks[byHash[g].pool])
      BY <3>1 DEF Items
    <3>3. call.todo = {}
      BY <1>2 DEF CommitDecided
    <3> QED BY <2>1, <3>1, <3>2, <3>3 DEF BufInv, CallShape
  <2>7. CallShape'
    BY <1>2, <2>1, <2>2, <2>4, <2>6 DEF CallShape
  <2>8. WidthInv'
    BY <2>1, <2>2 DEF BufInv, WidthInv
  <2>9. HeldInv'
    BY <2>1, <2>2, <2>4 DEF BufInv, HeldInv, Held
  <2>10. ArrivedInv'
    BY <1>2, <2>1, <2>3 DEF ArrivedInv
  <2>11. OrderInv'
    BY <2>1 DEF OrderInv
  <2> QED BY <2>2, <2>5, <2>7, <2>8, <2>9, <2>10, <2>11 DEF BufInv
<1> QED BY <1>1, <1>2 DEF CommitDecided

LEMMA RollbackStep ==
    ASSUME BufInv, NEW mark \in 0 .. Len(arrived), Rollback(mark)
    PROVE  BufInv'
<1> DEFINE n == Len(arrived)
           old == SubSeq(arrived, 1, mark)
           undone == SubSeq(arrived, mark + 1, n)
<1>1. /\ n \in Nat
      /\ mark \in 0 .. n
      /\ arrived \in Seq(Hashes)
      /\ DOMAIN arrived = 1 .. n
      /\ \A a, b \in 1 .. n : arrived[a] = arrived[b] => a = b
  BY DEF BufInv, TypeOK, ArrivedInv
<1>2. /\ old \in Seq(Hashes)
      /\ DOMAIN old = 1 .. mark
      /\ \A a \in 1 .. mark : old[a] = arrived[a]
      /\ undone \in Seq(Hashes)
      /\ DOMAIN undone = 1 .. n - mark
      /\ \A a \in 1 .. n - mark : undone[a] = arrived[mark + a]
  <2> HIDE DEF n
  <2> QED BY <1>1
<1>3. /\ call.op = "idle"
      /\ call' = [op |-> "undo", hash |-> NoHash, todo |-> {}, skip |-> {}, undo |-> undone]
      /\ arrived' = old
      /\ owed' = owed \ Items(undone)
      /\ UNCHANGED <<buf, maxBytes, disk, refused, overdue>>
  BY DEF Rollback, Idle
<1> HIDE DEF n, old, undone
<1>4. BufType' /\ IndexExact' /\ Buffered' = Buffered /\ blocks' = blocks
  BY <1>3, SameBuffer
<1>5. call' \in Calls
  BY <1>2, <1>3 DEF Calls
<1>6. TypeOK'
  BY <1>2, <1>3, <1>4, <1>5 DEF BufInv, TypeOK, BufType
<1>7. Fresh = {} /\ Fresh' = Items(undone)
  BY <1>3, FreshFacts DEF BufInv, Fresh
<1>8. Items(arrived) = Items(old) \cup Items(undone)
  <2>1. ASSUME NEW x \in Items(arrived) PROVE x \in Items(old) \cup Items(undone)
    <3>1. PICK a \in 1 .. n : arrived[a] = x
      BY <1>1 DEF Items
    <3>2. CASE a <= mark
      BY <1>1, <1>2, <3>1, <3>2 DEF Items
    <3>3. CASE a > mark
      <4>1. a - mark \in 1 .. n - mark /\ mark + (a - mark) = a
        BY <1>1, <3>3
      <4> QED BY <1>2, <3>1, <4>1 DEF Items
    <3> QED BY <1>1, <3>2, <3>3
  <2>2. ASSUME NEW x \in Items(old) PROVE x \in Items(arrived)
    <3>1. PICK a \in 1 .. mark : old[a] = x
      BY <1>2 DEF Items
    <3>2. a \in 1 .. n
      BY <1>1
    <3> QED BY <1>1, <1>2, <3>1, <3>2 DEF Items
  <2>3. ASSUME NEW x \in Items(undone) PROVE x \in Items(arrived)
    <3>1. PICK a \in 1 .. n - mark : undone[a] = x
      BY <1>2 DEF Items
    <3>2. mark + a \in 1 .. n
      BY <1>1
    <3> QED BY <1>1, <1>2, <3>1, <3>2 DEF Items
  <2> QED BY <2>1, <2>2, <2>3
<1>9. Items(old) \cap Items(undone) = {}
  <2> SUFFICES ASSUME NEW a \in 1 .. mark, NEW b \in 1 .. n - mark PROVE old[a] # undone[b]
    BY <1>2 DEF Items
  <2>1. a \in 1 .. n /\ mark + b \in 1 .. n /\ a # mark + b
    BY <1>1
  <2> QED BY <1>1, <1>2, <2>1
<1>10. CallShape'
  <2>1. ASSUME NEW a \in DOMAIN undone, NEW b \in DOMAIN undone, undone[a] = undone[b]
        PROVE  a = b
    <3>1. /\ a \in Nat /\ b \in Nat
          /\ mark + a \in 1 .. n
          /\ mark + b \in 1 .. n
          /\ arrived[mark + a] = arrived[mark + b]
      BY <1>1, <1>2, <2>1
    <3>2. mark + a = mark + b
      BY <1>1, <3>1
    <3> QED BY <1>1, <3>1, <3>2
  <2>2. call'.op = "undo" /\ call'.todo = {} /\ call'.skip = {} /\ call'.undo = undone
    BY <1>3
  <2> QED BY <2>1, <2>2 DEF CallShape
<1>11. WidthInv'
  BY <1>3, <1>4 DEF BufInv, WidthInv
<1>12. HeldInv'
  <2>1. Held' = Held
    BY <1>3, <1>4 DEF Held
  <2> QED BY <1>3, <1>4, <1>7, <2>1 DEF BufInv, HeldInv
<1>13. ArrivedInv'
  <2>1. \A a, b \in DOMAIN old : old[a] = old[b] => a = b
    <3>1. 1 .. mark \subseteq 1 .. n
      BY <1>1
    <3> QED BY <1>1, <1>2, <3>1
  <2>2. Items(old) \subseteq owed \ Items(undone)
    BY <1>8, <1>9 DEF BufInv, ArrivedInv
  <2>3. Buffered \subseteq Items(old) \cup Items(undone)
    BY <1>3, <1>7, <1>8 DEF BufInv, ArrivedInv
  <2> QED BY <1>3, <1>4, <1>7, <2>1, <2>2, <2>3 DEF ArrivedInv
<1>14. OrderInv'
  <2>1. ASSUME NEW p \in Pools, NEW i \in DOMAIN blocks[p], NEW j \in DOMAIN blocks[p], i < j
        PROVE  \/ blocks[p][j] \in Items(undone)
               \/ \E a, b \in DOMAIN old : /\ a < b
                                           /\ old[a] = blocks[p][i]
                                           /\ old[b] = blocks[p][j]
    <3>1. PICK a \in 1 .. n, b \in 1 .. n : /\ a < b
                                            /\ arrived[a] = blocks[p][i]
                                            /\ arrived[b] = blocks[p][j]
      BY <1>1, <1>3, <1>7, <2>1 DEF BufInv, OrderInv
    <3>2. CASE b > mark
      <4>1. b - mark \in 1 .. n - mark /\ mark + (b - mark) = b
        BY <1>1, <3>2
      <4> QED BY <1>2, <3>1, <4>1 DEF Items
    <3>3. CASE b <= mark
      <4>1. a \in 1 .. mark /\ b \in 1 .. mark
        BY <1>1, <3>1, <3>3
      <4> QED BY <1>2, <3>1, <4>1
    <3> QED BY <1>1, <3>2, <3>3
  <2> QED BY <1>3, <1>4, <1>7, <2>1 DEF OrderInv
<1> QED BY <1>4, <1>6, <1>10, <1>11, <1>12, <1>13, <1>14 DEF BufInv

\* Dropping a fresh array leaves the others in order: nothing that arrived lies
\* behind a fresh one, so what swap_remove moves is fresh itself or was next.
LEMMA DropKeepsOrder ==
    ASSUME BufInv, call.op # "free", NEW h \in Buffered, h \in Fresh, DropBuffered(h)
    PROVE  \A p \in Pools : \A i, j \in DOMAIN blocks'[p] : i < j =>
               \/ blocks'[p][j] \in Fresh \ {h}
               \/ \E a, b \in DOMAIN arrived : /\ a < b
                                               /\ arrived[a] = blocks'[p][i]
                                               /\ arrived[b] = blocks'[p][j]
<1> SUFFICES ASSUME NEW p \in Pools, NEW i \in DOMAIN blocks'[p], NEW j \in DOMAIN blocks'[p], i < j
             PROVE  \/ blocks'[p][j] \in Fresh \ {h}
                    \/ \E a, b \in DOMAIN arrived : /\ a < b
                                                    /\ arrived[a] = blocks'[p][i]
                                                    /\ arrived[b] = blocks'[p][j]
  OBVIOUS
<1>1. BufType
  BY TypeSplit DEF BufInv
<1>2. PICK k \in DOMAIN blocks[p], l \in DOMAIN blocks[p] :
          /\ k < l
          /\ blocks[p][k] = blocks'[p][i] \/ blocks[p][k] = h
          /\ blocks[p][l] = blocks'[p][j]
  BY <1>1, Dropped DEF BufInv
<1>3. blocks'[p][j] # h
  <2>1. IndexExact' /\ Buffered' = Buffered \ {h}
    BY <1>1, Dropped DEF BufInv
  <2>2. blocks'[p][j] \in Buffered'
    BY <2>1 DEF IndexExact
  <2> QED BY <2>1, <2>2
<1>4. \/ blocks[p][l] \in Fresh
      \/ \E a, b \in DOMAIN arrived : /\ a < b
                                      /\ arrived[a] = blocks[p][k]
                                      /\ arrived[b] = blocks[p][l]
  BY <1>2 DEF BufInv, OrderInv
<1>5. CASE blocks[p][l] \in Fresh
  BY <1>2, <1>3, <1>5
<1>6. ASSUME NEW a \in DOMAIN arrived, NEW b \in DOMAIN arrived,
             a < b, arrived[a] = blocks[p][k], arrived[b] = blocks[p][l]
      PROVE  arrived[a] = blocks'[p][i] /\ arrived[b] = blocks'[p][j]
  <2>1. arrived[a] \in owed
    BY DEF BufInv, ArrivedInv, Items
  <2>2. arrived[a] # h
    BY <2>1 DEF BufInv, HeldInv
  <2> QED BY <1>2, <1>6, <2>2
<1> QED BY <1>4, <1>5, <1>6

LEMMA PushFailsStep ==
    ASSUME BufInv, PushFails
    PROVE  BufInv'
<1> DEFINE h == call.hash
<1>1. PICK torn \in SUBSET Hashes :
          /\ BlockFails(torn)
          /\ IF h \in Buffered
             THEN /\ DropBuffered(h)
                  /\ disk' = disk \cup torn
                  /\ refused' = refused
             ELSE /\ UNCHANGED buf
                  /\ \/ disk' = (disk \cup torn) \ {h} /\ refused' = refused
                     \/ disk' = disk \cup torn /\ refused' = refused \cup {h}
  BY DEF PushFails
<1>2. torn = {}
  BY <1>1, NothingTorn
<1>3. /\ call.op = "push"
      /\ call' = Idle
      /\ UNCHANGED <<maxBytes, arrived, owed, overdue>>
  BY DEF PushFails
<1>4. Fresh = {h} /\ Fresh' = {}
  <2>1. Items(<<>>) = {}
    BY DEF Items
  <2> QED BY <1>3, <2>1, FreshFacts, IdleFacts DEF BufInv, Fresh
<1>5. h \in Held /\ h \notin owed /\ h \in Hashes
  BY <1>3, <1>4 DEF BufInv, CallShape, Held, HeldInv, TypeOK, Buffered
<1>6. CallShape'
  BY <1>3, IdleFacts DEF CallShape
<1> HIDE DEF h
<1>7. BufType
  BY TypeSplit DEF BufInv
<1>8. CASE h \in Buffered
  <2>1. DropBuffered(h) /\ disk' = disk /\ refused' = refused
    BY <1>1, <1>2, <1>8
  <2>2. /\ BufType'
        /\ IndexExact'
        /\ Buffered' = Buffered \ {h}
        /\ \A p \in Pools : Len(blocks'[p]) <= Len(blocks[p])
        /\ Len(blocks'[PoolOf[h]]) < Len(blocks[PoolOf[h]])
    BY <1>7, <1>8, <2>1, Dropped DEF BufInv
  <2>3. TypeOK'
    BY <1>3, <2>1, <2>2, IdleFacts DEF BufInv, TypeOK, BufType
  <2>4. WidthInv'
    <3>1. ASSUME NEW p \in Pools
          PROVE  Len(blocks'[p]) < ChunkCols[p]
      <4>1. /\ Len(blocks[p]) \in Nat
            /\ Len(blocks'[p]) \in Nat
            /\ ChunkCols[p] \in Nat \ {0}
        <5>1. blocks[p] \in Seq(Hashes) /\ blocks'[p] \in Seq(Hashes)
          BY <1>7, <2>2 DEF BufType
        <5>2. ChunkCols[p] \in Nat \ {0}
          BY BufferConstants
        <5> QED BY <5>1, <5>2
      <4>2. CASE Len(blocks[p]) < ChunkCols[p]
        BY <2>2, <4>1, <4>2
      <4>3. CASE ~(Len(blocks[p]) < ChunkCols[p])
        <5>1. Len(blocks[p]) = ChunkCols[p] /\ p \in call.todo
          BY <4>1, <4>3 DEF BufInv, WidthInv
        <5>2. p = PoolOf[h]
          BY <1>3, <5>1 DEF BufInv, CallShape, h
        <5> QED BY <2>2, <4>1, <5>1, <5>2
      <4> QED BY <4>2, <4>3
    <3> QED BY <3>1 DEF WidthInv
  <2>5. HeldInv'
    <3>1. h \notin disk
      BY <1>8 DEF BufInv, HeldInv
    <3>2. Held' = Held \ {h} /\ disk' \cap Buffered' = {}
      BY <2>1, <2>2, <3>1 DEF Held, BufInv, HeldInv
    <3> QED BY <1>3, <1>4, <1>5, <2>1, <3>2 DEF BufInv, HeldInv
  <2>6. ArrivedInv'
    BY <1>3, <1>4, <2>2 DEF BufInv, ArrivedInv
  <2>7. OrderInv'
    BY <1>3, <1>4, <1>8, <2>1, DropKeepsOrder DEF OrderInv
  <2> QED BY <1>6, <2>2, <2>3, <2>4, <2>5, <2>6, <2>7 DEF BufInv
<1>9. CASE h \notin Buffered
  <2>1. /\ UNCHANGED buf
        /\ \/ disk' = disk \ {h} /\ refused' = refused
           \/ disk' = disk /\ refused' = refused \cup {h}
    BY <1>1, <1>2, <1>9
  <2>2. BufType' /\ IndexExact' /\ Buffered' = Buffered /\ blocks' = blocks
    BY <2>1, SameBuffer
  <2>3. TypeOK'
    BY <1>3, <1>5, <2>1, <2>2, IdleFacts DEF BufInv, TypeOK, BufType
  <2>4. WidthInv'
    <3>1. call.todo = {}
      BY <1>3, <1>9 DEF BufInv, CallShape, h
    <3> QED BY <2>2, <3>1 DEF BufInv, WidthInv
  <2>5. HeldInv'
    <3>1. \/ Held' = Held \ {h} /\ refused' = refused
          \/ Held' = Held /\ refused' = refused \cup {h}
      BY <1>9, <2>1, <2>2 DEF Held
    <3>2. disk' \cap Buffered' = {}
      BY <2>1, <2>2 DEF BufInv, HeldInv
    <3> QED BY <1>3, <1>4, <1>5, <3>1, <3>2 DEF BufInv, HeldInv
  <2>6. ArrivedInv'
    BY <1>3, <1>4, <1>9, <2>2 DEF BufInv, ArrivedInv
  <2>7. OrderInv'
    <3>1. ASSUME NEW p \in Pools, NEW j \in DOMAIN blocks[p] PROVE blocks[p][j] \notin Fresh
      BY <1>4, <1>9 DEF BufInv, IndexExact
    <3> QED BY <1>3, <2>2, <3>1 DEF BufInv, OrderInv
  <2> QED BY <1>6, <2>2, <2>3, <2>4, <2>5, <2>6, <2>7 DEF BufInv
<1> QED BY <1>8, <1>9

\* One array dropped from wherever it is.
LEMMA DropFacts ==
    ASSUME BufInv, NEW h \in Hashes, Drop(h)
    PROVE  /\ BufType'
           /\ IndexExact'
           /\ Buffered' = Buffered \ {h}
           /\ disk' \subseteq disk
           /\ refused' \subseteq Hashes
           /\ \A p \in Pools : Len(blocks'[p]) <= Len(blocks[p])
           /\ disk' \cap Buffered' = {}
           /\ \/ Held' = Held \ {h} /\ refused' = refused
              \/ Held' = Held /\ refused' = refused \cup {h}
           /\ h \notin Buffered => blocks' = blocks
<1>1. BufType
  BY TypeSplit DEF BufInv
<1>2. CASE h \in Buffered
  <2>1. DropBuffered(h) /\ disk' = disk /\ refused' = refused
    BY <1>2 DEF Drop
  <2>2. /\ BufType'
        /\ IndexExact'
        /\ Buffered' = Buffered \ {h}
        /\ \A p \in Pools : Len(blocks'[p]) <= Len(blocks[p])
    BY <1>1, <1>2, <2>1, Dropped DEF BufInv
  <2>3. h \notin disk
    BY <1>2 DEF BufInv, HeldInv
  <2>4. Held' = Held \ {h} /\ disk' \cap Buffered' = {}
    BY <2>1, <2>2, <2>3 DEF Held, BufInv, HeldInv
  <2> QED BY <1>2, <2>1, <2>2, <2>4 DEF BufInv, TypeOK
<1>3. CASE h \notin Buffered
  <2>1. /\ UNCHANGED buf
        /\ \/ disk' = disk \ {h} /\ refused' = refused
           \/ disk' = disk /\ refused' = refused \cup {h}
    BY <1>3 DEF Drop
  <2>2. BufType' /\ IndexExact' /\ Buffered' = Buffered /\ blocks' = blocks
    BY <2>1, SameBuffer
  <2>3. \A p \in Pools : Len(blocks'[p]) <= Len(blocks[p])
    <3>1. \A p \in Pools : Len(blocks[p]) \in Nat
      BY <1>1 DEF BufType
    <3> QED BY <2>2, <3>1
  <2>4. disk' \cap Buffered' = {}
    BY <2>1, <2>2 DEF BufInv, HeldInv
  <2>5. \/ Held' = Held \ {h} /\ refused' = refused
        \/ Held' = Held /\ refused' = refused \cup {h}
    BY <1>3, <2>1, <2>2 DEF Held
  <2> QED BY <1>3, <2>1, <2>2, <2>3, <2>4, <2>5 DEF BufInv, TypeOK
<1> QED BY <1>2, <1>3

LEMMA FreeStep ==
    ASSUME BufInv, FreeNext
    PROVE  BufInv'
<1>1. call.op = "free" /\ arrived = <<>> /\ arrived' = arrived
  BY DEF FreeNext, BufInv, CallShape
<1>2. Items(<<>>) = {}
  BY DEF Items
<1>3. Fresh = {} /\ call.undo = <<>> /\ call.todo = {}
  BY <1>1, FreshFacts DEF BufInv, CallShape
<1>4. CASE call.skip = {}
  <2>1. call' = Idle /\ UNCHANGED <<buf, disk, owed, refused, maxBytes, arrived, overdue>>
    BY <1>4 DEF FreeNext
  <2>2. BufType' /\ IndexExact' /\ Buffered' = Buffered /\ blocks' = blocks
    BY <2>1, SameBuffer
  <2>3. TypeOK'
    BY <2>1, <2>2, IdleFacts DEF BufInv, TypeOK, BufType
  <2>4. CallShape'
    BY <2>1, IdleFacts DEF CallShape
  <2>5. WidthInv'
    BY <1>1, <2>2 DEF BufInv, WidthInv
  <2>6. Fresh' = {}
    BY <1>2, <2>1, IdleFacts DEF Fresh
  <2>7. HeldInv'
    BY <1>3, <2>1, <2>2, <2>6 DEF BufInv, HeldInv, Held
  <2>8. Buffered = {}
    BY <1>1, <1>4 DEF BufInv, CallShape
  <2>9. ArrivedInv'
    BY <1>1, <1>2, <2>2, <2>8 DEF ArrivedInv
  <2>10. OrderInv'
    <3>1. \A p \in Pools : DOMAIN blocks[p] = {}
      BY <2>8 DEF BufInv, IndexExact
    <3> QED BY <2>2, <3>1 DEF OrderInv
  <2> QED BY <2>2, <2>3, <2>4, <2>5, <2>7, <2>9, <2>10 DEF BufInv
<1>5. CASE call.skip # {}
  <2>1. PICK h \in call.skip : /\ Drop(h)
                               /\ owed' = owed \ {h}
                               /\ call' = [call EXCEPT !.skip = call.skip \ {h}]
    BY <1>5 DEF FreeNext
  <2>2. h \in Hashes
    BY DEF BufInv, TypeOK, Calls
  <2>3. /\ call' \in Calls
        /\ call'.op = "free"
        /\ call'.todo = {}
        /\ call'.skip = call.skip \ {h}
        /\ call'.undo = <<>>
    BY <1>1, <1>3, <2>1 DEF BufInv, TypeOK, Calls
  <2>4. UNCHANGED <<maxBytes, overdue>>
    BY DEF FreeNext
  <2>5. /\ BufType'
        /\ IndexExact'
        /\ Buffered' = Buffered \ {h}
        /\ disk' \subseteq disk
        /\ refused' \subseteq Hashes
        /\ \A p \in Pools : Len(blocks'[p]) <= Len(blocks[p])
        /\ disk' \cap Buffered' = {}
        /\ \/ Held' = Held \ {h} /\ refused' = refused
           \/ Held' = Held /\ refused' = refused \cup {h}
    BY <2>1, <2>2, DropFacts
  <2>6. TypeOK'
    BY <1>1, <2>1, <2>3, <2>4, <2>5 DEF BufInv, TypeOK, BufType
  <2>7. CallShape'
    <3>1. Buffered' \subseteq call'.skip
      BY <1>1, <2>3, <2>5 DEF BufInv, CallShape
    <3> QED BY <1>1, <2>3, <3>1 DEF CallShape
  <2>8. WidthInv'
    <3>1. ASSUME NEW p \in Pools PROVE Len(blocks'[p]) < ChunkCols[p]
      <4>1. /\ Len(blocks[p]) \in Nat
            /\ Len(blocks'[p]) \in Nat
            /\ ChunkCols[p] \in Nat \ {0}
        BY <2>5, BufferConstants DEF BufInv, TypeOK, BufType
      <4>2. Len(blocks[p]) < ChunkCols[p]
        BY <1>1 DEF BufInv, WidthInv
      <4> QED BY <2>5, <4>1, <4>2
    <3> QED BY <3>1 DEF WidthInv
  <2>9. Fresh' = {}
    BY <1>2, <2>3 DEF Fresh
  <2>10. HeldInv'
    BY <1>3, <2>1, <2>5, <2>9 DEF BufInv, HeldInv
  <2>11. ArrivedInv'
    BY <1>1, <1>2, <2>3 DEF ArrivedInv
  <2>12. OrderInv'
    BY <2>3 DEF OrderInv
  <2> QED BY <2>5, <2>6, <2>7, <2>8, <2>10, <2>11, <2>12 DEF BufInv
<1> QED BY <1>4, <1>5

LEMMA UndoStep ==
    ASSUME BufInv, UndoNext
    PROVE  BufInv'
<1>1. /\ call.op = "undo"
      /\ UNCHANGED <<maxBytes, arrived, owed, overdue>>
  BY DEF UndoNext
<1>2. Fresh = Items(call.undo) /\ call.undo \in Seq(Hashes) /\ call.todo = {} /\ call.skip = {}
  BY <1>1, FreshFacts DEF BufInv, CallShape, TypeOK, Calls
<1>3. Items(<<>>) = {}
  BY DEF Items
<1>4. CASE call.undo = <<>>
  <2>1. call' = Idle /\ UNCHANGED <<buf, disk, refused>>
    BY <1>4 DEF UndoNext
  <2>2. BufType' /\ IndexExact' /\ Buffered' = Buffered /\ blocks' = blocks
    BY <2>1, SameBuffer
  <2>3. TypeOK'
    BY <1>1, <2>1, <2>2, IdleFacts DEF BufInv, TypeOK, BufType
  <2>4. CallShape'
    BY <2>1, IdleFacts DEF CallShape
  <2>5. WidthInv'
    BY <1>1, <2>2 DEF BufInv, WidthInv
  <2>6. Fresh = {} /\ Fresh' = {}
    BY <1>2, <1>3, <1>4, <2>1, IdleFacts DEF Fresh
  <2>7. HeldInv'
    BY <1>1, <2>1, <2>2, <2>6 DEF BufInv, HeldInv, Held
  <2>8. ArrivedInv'
    BY <1>1, <2>2, <2>6 DEF BufInv, ArrivedInv
  <2>9. OrderInv'
    BY <1>1, <2>2, <2>6 DEF BufInv, OrderInv
  <2> QED BY <2>2, <2>3, <2>4, <2>5, <2>7, <2>8, <2>9 DEF BufInv
<1>5. CASE call.undo # <<>>
  <2> DEFINE u == call.undo
             h == Head(u)
             rest == Tail(u)
             n == Len(u)
  <2>1. Drop(h) /\ call' = [call EXCEPT !.undo = rest]
    BY <1>5 DEF UndoNext
  <2>2. /\ n \in Nat \ {0}
        /\ DOMAIN u = 1 .. n
        /\ h = u[1]
        /\ h \in Hashes
        /\ rest \in Seq(Hashes)
        /\ DOMAIN rest = 1 .. n - 1
        /\ \A a \in 1 .. n - 1 : rest[a] = u[a + 1]
        /\ \A a, b \in 1 .. n : u[a] = u[b] => a = b
    <3>1. \A a, b \in DOMAIN u : u[a] = u[b] => a = b
      BY DEF BufInv, CallShape
    <3>2. u \in Seq(Hashes) /\ u # <<>>
      BY <1>2, <1>5
    <3> HIDE DEF u
    <3> QED BY <3>1, <3>2
  <2>3. /\ call' \in Calls
        /\ call'.op = "undo"
        /\ call'.todo = {}
        /\ call'.skip = {}
        /\ call'.undo = rest
    <3> HIDE DEF rest
    <3> QED BY <1>1, <1>2, <2>1, <2>2 DEF BufInv, TypeOK, Calls
  <2> HIDE DEF u, h, rest, n
  <2>4. Items(u) = Items(rest) \cup {h} /\ h \notin Items(rest)
    <3>1. ASSUME NEW x \in Items(u) PROVE x \in Items(rest) \cup {h}
      <4>1. PICK a \in 1 .. n : u[a] = x
        BY <2>2 DEF Items
      <4>2. CASE a # 1
        <5>1. a - 1 \in 1 .. n - 1 /\ (a - 1) + 1 = a
          BY <2>2, <4>2
        <5>2. a - 1 \in DOMAIN rest /\ rest[a - 1] = x
          BY <2>2, <4>1, <5>1
        <5> QED BY <5>2 DEF Items
      <4> QED BY <2>2, <4>1, <4>2
    <3>2. ASSUME NEW x \in Items(rest) PROVE x \in Items(u) /\ x # h
      <4>1. PICK a \in 1 .. n - 1 : rest[a] = x
        BY <2>2 DEF Items
      <4>2. a + 1 \in 1 .. n /\ 1 \in 1 .. n /\ a + 1 # 1
        BY <2>2
      <4>3. x = u[a + 1]
        BY <2>2, <4>1
      <4> QED BY <2>2, <4>2, <4>3 DEF Items
    <3>3. h \in Items(u)
      BY <2>2 DEF Items
    <3> QED BY <3>1, <3>2, <3>3
  <2>5. Fresh = Items(u) /\ Fresh' = Items(rest) /\ h \in Fresh /\ Fresh' = Fresh \ {h}
    BY <1>2, <2>3, <2>4 DEF Fresh, u
  <2>6. /\ BufType'
        /\ IndexExact'
        /\ Buffered' = Buffered \ {h}
        /\ disk' \subseteq disk
        /\ refused' \subseteq Hashes
        /\ \A p \in Pools : Len(blocks'[p]) <= Len(blocks[p])
        /\ disk' \cap Buffered' = {}
        /\ \/ Held' = Held \ {h} /\ refused' = refused
           \/ Held' = Held /\ refused' = refused \cup {h}
        /\ h \notin Buffered => blocks' = blocks
    BY <2>1, <2>2, DropFacts
  <2>7. TypeOK'
    BY <1>1, <2>3, <2>6 DEF BufInv, TypeOK, BufType
  <2>8. CallShape'
    <3>1. ASSUME NEW a \in DOMAIN rest, NEW b \in DOMAIN rest, rest[a] = rest[b]
          PROVE  a = b
      <4>1. a + 1 \in 1 .. n /\ b + 1 \in 1 .. n /\ u[a + 1] = u[b + 1] /\ a \in Nat /\ b \in Nat
        BY <2>2, <3>1
      <4>2. a + 1 = b + 1
        BY <2>2, <4>1
      <4> QED BY <4>1, <4>2
    <3> QED BY <2>3, <3>1 DEF CallShape
  <2>9. WidthInv'
    <3>1. ASSUME NEW p \in Pools PROVE Len(blocks'[p]) < ChunkCols[p]
      <4>1. /\ Len(blocks[p]) \in Nat
            /\ Len(blocks'[p]) \in Nat
            /\ ChunkCols[p] \in Nat \ {0}
        BY <2>6, BufferConstants DEF BufInv, TypeOK, BufType
      <4>2. Len(blocks[p]) < ChunkCols[p]
        BY <1>1 DEF BufInv, WidthInv
      <4> QED BY <2>6, <4>1, <4>2
    <3> QED BY <3>1 DEF WidthInv
  <2>10. HeldInv'
    <3>1. h \notin owed
      BY <2>5 DEF BufInv, HeldInv
    <3> QED BY <1>1, <2>5, <2>6, <3>1 DEF BufInv, HeldInv
  <2>11. ArrivedInv'
    BY <1>1, <2>5, <2>6 DEF BufInv, ArrivedInv
  <2>12. OrderInv'
    <3>1. CASE h \in Buffered
      <4>1. DropBuffered(h)
        BY <2>1, <3>1 DEF Drop
      <4> QED BY <1>1, <2>5, <3>1, <4>1, DropKeepsOrder DEF OrderInv
    <3>2. CASE h \notin Buffered
      <4>1. \A p \in Pools : \A j \in DOMAIN blocks[p] : blocks[p][j] # h
        BY <3>2 DEF BufInv, IndexExact
      <4> QED BY <1>1, <2>5, <2>6, <3>2, <4>1 DEF BufInv, OrderInv
    <3> QED BY <3>1, <3>2
  <2> QED BY <2>6, <2>7, <2>8, <2>9, <2>10, <2>11, <2>12 DEF BufInv
<1> QED BY <1>4, <1>5

-----------------------------------------------------------------------------
(* The theorems.                                                           *)

\* BufInv holds initially and every step of the buffer keeps it, whatever fails.
THEOREM BufferInvariant == Spec => []BufInv
<1>1. Init => BufInv
  <2> SUFFICES ASSUME Init PROVE BufInv
    OBVIOUS
  <2>1. /\ \A p \in Pools : blocks[p] = <<>>
        /\ Buffered = {}
        /\ Items(<<>>) = {}
        /\ \A p \in Pools : DOMAIN blocks[p] = {}
        /\ \A p \in Pools : Len(blocks[p]) = 0
    <3>1. \A p \in Pools : blocks[p] = <<>>
      BY DEF Init
    <3>2. Buffered = {}
      BY DEF Init, Buffered
    <3>3. DOMAIN <<>> = {} /\ Len(<<>>) = 0
      OBVIOUS
    <3>4. Items(<<>>) = {}
      BY DEF Items
    <3> QED BY <3>1, <3>2, <3>3, <3>4
  <2>2. TypeOK
    <3>1. blocks \in [Pools -> Seq(Hashes)] /\ blockBytes \in [Pools -> Nat]
      BY DEF Init
    <3>2. DOMAIN byHash = {}
      BY DEF Init
    <3>3. arrived \in Seq(Hashes) /\ call \in Calls
      BY IdleFacts DEF Init
    <3> QED BY <3>1, <3>2, <3>3 DEF Init, TypeOK
  <2>3. IndexExact
    BY <2>1 DEF IndexExact
  <2>4. CallShape
    BY IdleFacts DEF Init, CallShape
  <2>5. WidthInv
    <3>1. \A p \in Pools : ChunkCols[p] \in Nat \ {0}
      BY BufferConstants
    <3> QED BY <2>1, <3>1 DEF WidthInv
  <2>6. Fresh = {}
    BY <2>1, IdleFacts DEF Init, Fresh
  <2>7. HeldInv
    BY <2>1, <2>6 DEF Init, HeldInv, Held
  <2>8. ArrivedInv
    BY <2>1 DEF Init, ArrivedInv
  <2>9. OrderInv
    BY <2>1 DEF OrderInv
  <2> QED BY <2>2, <2>3, <2>4, <2>5, <2>7, <2>8, <2>9 DEF BufInv
<1>2. BufInv /\ [Next]_vars => BufInv'
  <2> SUFFICES ASSUME BufInv, [Next]_vars PROVE BufInv'
    OBVIOUS
  <2>1. CASE \E h \in Hashes : Push(h)
    BY <2>1, PushStep
  <2>2. CASE \E b \in Budgets : SetMaxBytes(b)
    BY <2>2, BudgetStep
  <2>3. CASE \E hs \in SUBSET Hashes : WriteHolding(hs)
    BY <2>3, HoldingStep
  <2>4. CASE \E garbage \in SUBSET Held : Commit(garbage)
    BY <2>4, CommitStep
  <2>5. CASE \E mark \in 0 .. Len(arrived) : Rollback(mark)
    BY <2>5, RollbackStep
  <2>6. CASE WriteNext
    BY <2>6, WriteStep
  <2>7. CASE PushFails
    BY <2>7, PushFailsStep
  <2>8. CASE CallFails
    BY <2>8, CallFailsStep
  <2>9. CASE Return
    BY <2>9, ReturnStep
  <2>10. CASE CommitDecided
    BY <2>10, DecidedStep
  <2>11. CASE FreeNext
    BY <2>11, FreeStep
  <2>12. CASE UndoNext
    BY <2>12, UndoStep
  <2>13. CASE UNCHANGED vars
    BY <2>13 DEF vars, BufInv, TypeOK, IndexExact, CallShape, WidthInv, HeldInv, ArrivedInv,
                 OrderInv, Fresh, Held, Buffered
  <2> QED BY <2>1, <2>2, <2>3, <2>4, <2>5, <2>6, <2>7, <2>8, <2>9, <2>10, <2>11, <2>12, <2>13
          DEF Next
<1> QED BY <1>1, <1>2, PTL DEF Spec

\* by_hash and the blocks never disagree, so a lookup or a removal by hash
\* reaches the array it names.
THEOREM IndexStaysExact == Spec => []IndexExact
<1>1. BufInv => IndexExact
  BY DEF BufInv
<1> QED BY <1>1, BufferInvariant, PTL

\* Between calls the store holds what its calls reported and nothing else, but
\* for removals the backend refused: a failed push leaves no trace, and no
\* failure loses an accepted array.
THEOREM NothingLostOrLeftOver == Spec => []HeldAsReported
<1>1. BufInv => HeldAsReported
  <2> SUFFICES ASSUME BufInv, call.op = "idle"
               PROVE  owed \subseteq Held /\ Held \ owed \subseteq refused
    BY DEF HeldAsReported
  <2>1. Fresh = {}
    BY FreshFacts DEF BufInv
  <2> QED BY <2>1 DEF BufInv, HeldInv
<1> QED BY <1>1, BufferInvariant, PTL

\* Between calls every block lists its arrays in the order they arrived, after
\* any number of rollbacks and skipped writes.
THEOREM ColumnsStayInOrder == Spec => []ColumnsInArrivalOrder
<1>1. BufInv => ColumnsInArrivalOrder
  <2> SUFFICES ASSUME BufInv, call.op = "idle"
               PROVE  ColumnsInArrivalOrder
    BY DEF ColumnsInArrivalOrder
  <2>1. Fresh = {}
    BY FreshFacts DEF BufInv
  <2> QED BY <2>1 DEF BufInv, OrderInv, ColumnsInArrivalOrder
<1> QED BY <1>1, BufferInvariant, PTL

\* No block between calls is as wide as a chunk, so a buffered block is written
\* as one dataset.
THEOREM OneDatasetPerBlock == Spec => []BlocksFitOneChunk
<1>1. BufInv => BlocksFitOneChunk
  BY DEF BufInv, WidthInv, BlocksFitOneChunk
<1> QED BY <1>1, BufferInvariant, PTL

-----------------------------------------------------------------------------
(* The buffer implements StoredArrays.                                     *)

\* What the promise sees of a call.
LEMMA CallSeen ==
    ASSUME CallShape
    PROVE  /\ call.op \notin {"free", "undo"} => Doomed = {}
           /\ call.op = "free" => Doomed = call.skip
           /\ call.op = "undo" => Doomed = Items(call.undo)
           /\ call.op # "push" => Unreported = {}
           /\ call.op = "push" => Unreported = {call.hash}
<1>1. Items(<<>>) = {}
  BY DEF Items
<1> QED BY <1>1 DEF CallShape, Doomed, Unreported

\* The same for the call a step leaves behind.
LEMMA NextCallSeen ==
    ASSUME call'.op # "undo" => call'.undo = <<>>
    PROVE  /\ call'.op \notin {"free", "undo"} => Doomed' = {}
           /\ call'.op = "free" => Doomed' = call'.skip
           /\ call'.op = "undo" => Doomed' = Items(call'.undo)
           /\ call'.op # "push" => Unreported' = {}
           /\ call'.op = "push" => Unreported' = {call'.hash}
<1>1. Items(<<>>) = {}
  BY DEF Items
<1> QED BY <1>1 DEF Doomed, Unreported

\* A step that keeps what is held, what is being put and taken back, the list
\* and the record of refusals is invisible.
LEMMA Invisible ==
    ASSUME Held' = Held, Doomed' = Doomed, Unreported' = Unreported,
           UNCHANGED <<arrived, refused>>
    PROVE  UNCHANGED Promise!vars
BY DEF Promise!vars

\* An array dropped from wherever it is, as the promise takes it back.
LEMMA DropSeen ==
    ASSUME BufInv, NEW h \in Hashes, Drop(h), h \in Doomed, Doomed' = Doomed \ {h},
           Unreported = {}, Unreported' = {}, arrived' = arrived
    PROVE  Promise!Drop(h)
<1> DEFINE kept == Held \ (Doomed \cup Unreported)
<1>1. \/ Held' = Held \ {h} /\ refused' = refused
      \/ /\ Held' = Held /\ refused' = refused \cup {h}
         /\ RemoveFaults /\ h \in Held
  <2>1. CASE h \in Buffered
    <3>1. DropBuffered(h) /\ disk' = disk /\ refused' = refused
      BY <2>1 DEF Drop
    <3>2. Buffered' = Buffered \ {h}
      BY <2>1, <3>1, Dropped, TypeSplit DEF BufInv
    <3>3. h \notin disk
      BY <2>1 DEF BufInv, HeldInv
    <3> QED BY <3>1, <3>2, <3>3 DEF Held
  <2>2. CASE h \notin Buffered
    <3>1. /\ UNCHANGED buf
          /\ \/ disk' = disk \ {h} /\ refused' = refused
             \/ /\ RemoveFaults /\ h \in disk /\ disk' = disk
                /\ refused' = refused \cup {h}
      BY <2>2 DEF Drop
    <3>2. Buffered' = Buffered
      BY <3>1, SameBuffer
    <3> QED BY <2>2, <3>1, <3>2 DEF Held
  <2> QED BY <2>1, <2>2
<1>2. \/ kept' = kept /\ refused' = refused
      \/ /\ RemoveFaults
         /\ kept' = kept \cup {h}
         /\ refused' = refused \cup {h}
  BY <1>1
<1>3. Promise!TakeBack(h)
  BY <1>2 DEF Promise!TakeBack
<1> QED BY <1>3 DEF Promise!Drop

\* WriteBuffer::push puts its array; nothing is reported yet.
LEMMA PushMaps ==
    ASSUME BufInv, NEW h \in Hashes, Push(h)
    PROVE  Promise!Put(h)
<1>1. call.op = "idle" /\ h \notin Held /\ UNCHANGED <<disk, arrived, refused>>
  BY DEF Push
<1>2. Doomed = {} /\ Unreported = {}
  BY <1>1, CallSeen DEF BufInv
<1>3. call'.op = "push" /\ call'.hash = h /\ call'.undo = <<>>
  BY DEF Push, Idle
<1>4. Doomed' = {} /\ Unreported' = {h}
  BY <1>3, NextCallSeen
<1>5. Buffered' = Buffered \cup {h}
  BY DEF Push, Buffered
<1>6. Held' = Held \cup {h}
  BY <1>1, <1>5 DEF Held
<1> QED BY <1>1, <1>2, <1>4, <1>6 DEF Promise!Put, Promise!Quiet

\* A call that only says what it will do.
LEMMA StartMaps ==
    ASSUME BufInv, call.op = "idle", UNCHANGED <<buf, disk, arrived, refused>>,
           call'.op \in {"budget", "write", "commit"}, call'.undo = <<>>
    PROVE  UNCHANGED Promise!vars
<1>1. Doomed = {} /\ Unreported = {}
  BY CallSeen DEF BufInv
<1>2. Doomed' = {} /\ Unreported' = {}
  BY NextCallSeen
<1>3. Held' = Held
  BY SameBuffer DEF Held
<1> QED BY <1>1, <1>2, <1>3, Invisible

\* A rollback takes the arrays since the mark off the list at once, and one by
\* one out of the store.
LEMMA RollbackMaps ==
    ASSUME BufInv, NEW mark \in 0 .. Len(arrived), Rollback(mark)
    PROVE  Promise!Rollback(mark)
<1> DEFINE cut == SubSeq(arrived, mark + 1, Len(arrived))
<1>1. /\ call.op = "idle" /\ UNCHANGED <<buf, disk, refused>>
      /\ arrived' = SubSeq(arrived, 1, mark)
      /\ call'.op = "undo" /\ call'.undo = cut
  BY DEF Rollback, Idle
<1> HIDE DEF cut
<1>2. Doomed = {} /\ Unreported = {}
  BY <1>1, CallSeen DEF BufInv
<1>3. Doomed' = Items(cut) /\ Unreported' = {}
  BY <1>1, NextCallSeen
<1>4. Held' = Held
  BY <1>1, SameBuffer DEF Held
<1>5. Promise!Elements(cut) = Items(cut)
  BY DEF Promise!Elements, Items
<1>6. Promise!Elements(SubSeq(arrived, mark + 1, Len(arrived))) = Doomed'
  BY <1>3, <1>5 DEF cut
<1> QED BY <1>1, <1>2, <1>3, <1>4, <1>6 DEF Promise!Rollback, Promise!Quiet

\* Writing a block moves its arrays below the buffer and is invisible.
LEMMA WriteMaps ==
    ASSUME BufInv, WriteNext
    PROVE  /\ UNCHANGED Promise!vars
           /\ Held' = Held /\ call'.op = call.op /\ call'.skip = call.skip
<1>1. PICK p \in DueNow \cup EvictNow :
          /\ WriteBlock(p, call.skip)
          /\ call' = [call EXCEPT !.todo = call.todo \ {p}]
          /\ UNCHANGED <<maxBytes, arrived, owed, overdue>>
  BY DEF WriteNext
<1>2. p \in Pools
  BY <1>1 DEF DueNow, EvictNow, BufInv, TypeOK, Calls
<1> DEFINE gone == Items(blocks[p]) \ call.skip
<1>3. /\ call'.op = call.op /\ call'.hash = call.hash /\ call'.skip = call.skip
      /\ call'.undo = call.undo
  BY <1>1 DEF BufInv, TypeOK, Calls
<1>4. Buffered' = Buffered \ gone /\ disk' = disk \cup gone /\ refused' = refused
  BY <1>1, <1>2, Written, TypeSplit DEF BufInv
<1>5. gone \subseteq Buffered
  <2>1. \A i \in DOMAIN blocks[p] : blocks[p][i] \in Buffered
    BY <1>2 DEF BufInv, IndexExact
  <2> QED BY <2>1 DEF Items
<1>6. Held' = Held
  BY <1>4, <1>5 DEF Held
<1>7. Doomed' = Doomed /\ Unreported' = Unreported
  BY <1>3 DEF Doomed, Unreported
<1> QED BY <1>1, <1>3, <1>4, <1>6, <1>7, Invisible

\* A push that fails is a put refused.
LEMMA PushFailsMaps ==
    ASSUME BufInv, PushFails
    PROVE  call.hash \in Hashes /\ Promise!Refuse(call.hash)
<1> DEFINE h == call.hash
           kept == Held \ (Doomed \cup Unreported)
<1>1. PICK torn \in SUBSET Hashes :
          /\ BlockFails(torn)
          /\ IF h \in Buffered
             THEN /\ DropBuffered(h)
                  /\ disk' = disk \cup torn
                  /\ refused' = refused
             ELSE /\ UNCHANGED buf
                  /\ \/ disk' = (disk \cup torn) \ {h} /\ refused' = refused
                     \/ /\ RemoveFaults
                        /\ disk' = disk \cup torn /\ refused' = refused \cup {h}
  BY DEF PushFails
<1>2. torn = {}
  BY <1>1, NothingTorn
<1>3. call.op = "push" /\ call' = Idle /\ arrived' = arrived
  BY DEF PushFails
<1>4. Doomed = {} /\ Unreported = {h} /\ Doomed' = {} /\ Unreported' = {}
  BY <1>3, CallSeen, NextCallSeen, IdleFacts DEF BufInv
<1>5. h \in Held /\ h \in Hashes
  BY <1>3 DEF BufInv, CallShape, Held, TypeOK, Buffered
<1> HIDE DEF h
<1>6. \/ Held' = Held \ {h} /\ refused' = refused
      \/ Held' = Held /\ refused' = refused \cup {h} /\ RemoveFaults
  <2>1. CASE h \in Buffered
    <3>1. DropBuffered(h) /\ disk' = disk /\ refused' = refused
      BY <1>1, <1>2, <2>1
    <3>2. Buffered' = Buffered \ {h}
      BY <2>1, <3>1, Dropped, TypeSplit DEF BufInv
    <3>3. h \notin disk
      BY <2>1 DEF BufInv, HeldInv
    <3> QED BY <3>1, <3>2, <3>3 DEF Held
  <2>2. CASE h \notin Buffered
    <3>1. /\ UNCHANGED buf
          /\ \/ disk' = disk \ {h} /\ refused' = refused
             \/ RemoveFaults /\ disk' = disk /\ refused' = refused \cup {h}
      BY <1>1, <1>2, <2>2
    <3>2. Buffered' = Buffered
      BY <3>1, SameBuffer
    <3> QED BY <2>2, <3>1, <3>2 DEF Held
  <2> QED BY <2>1, <2>2
<1>7. \/ kept' = kept /\ refused' = refused
      \/ /\ RemoveFaults
         /\ kept' = kept \cup {h}
         /\ refused' = refused \cup {h}
  BY <1>4, <1>5, <1>6
<1>8. Promise!TakeBack(h)
  BY <1>7 DEF Promise!TakeBack
<1>9. Promise!Refuse(h)
  BY <1>3, <1>4, <1>8 DEF Promise!Refuse
<1> QED BY <1>5, <1>9 DEF h

\* A budget, an early write or a commit whose block fails leaves everything as
\* it was.
LEMMA CallFailsMaps ==
    ASSUME BufInv, CallFails
    PROVE  UNCHANGED Promise!vars
<1>1. PICK torn \in SUBSET Hashes : BlockFails(torn) /\ disk' = disk \cup torn
  BY DEF CallFails
<1>2. torn = {}
  BY <1>1, NothingTorn
<1>3. /\ call.op \in {"budget", "write", "commit"} /\ call' = Idle
      /\ UNCHANGED <<buf, arrived, refused>>
  BY DEF CallFails
<1>4. Doomed = {} /\ Unreported = {} /\ Doomed' = {} /\ Unreported' = {}
  BY <1>3, CallSeen, NextCallSeen, IdleFacts DEF BufInv
<1>5. Held' = Held
  BY <1>1, <1>2, <1>3, SameBuffer DEF Held
<1> QED BY <1>3, <1>4, <1>5, Invisible

\* A push that returns is a put accepted; the other calls return unseen.
LEMMA ReturnMaps ==
    ASSUME BufInv, Return
    PROVE  \/ UNCHANGED Promise!vars
           \/ call.hash \in Hashes /\ Promise!Accept(call.hash)
<1>1. /\ call.op \in {"push", "budget", "write"} /\ call' = Idle
      /\ UNCHANGED <<buf, disk, refused>>
  BY DEF Return
<1>2. Held' = Held /\ Doomed = {} /\ Doomed' = {} /\ Unreported' = {}
  BY <1>1, SameBuffer, CallSeen, NextCallSeen, IdleFacts DEF BufInv, Held
<1>3. CASE call.op = "push"
  <2>1. arrived' = Append(arrived, call.hash)
    BY <1>3 DEF Return
  <2>2. Unreported = {call.hash}
    BY <1>3, CallSeen DEF BufInv
  <2>3. call.hash \in Held /\ call.hash \in Hashes
    BY <1>3 DEF BufInv, CallShape, Held, TypeOK, Buffered
  <2>4. Held' \ (Doomed' \cup Unreported') = (Held \ (Doomed \cup Unreported)) \cup {call.hash}
    BY <1>2, <2>2, <2>3
  <2> QED BY <1>1, <1>2, <2>1, <2>2, <2>3, <2>4 DEF Promise!Accept
<1>4. CASE call.op # "push"
  <2>1. arrived' = arrived
    BY <1>4 DEF Return
  <2>2. Unreported = {}
    BY <1>4, CallSeen DEF BufInv
  <2> QED BY <1>1, <1>2, <2>1, <2>2, Invisible
<1> QED BY <1>3, <1>4

\* The RELEASE of a commit takes, and its garbage is to go; or it fails, unseen.
LEMMA DecidedMaps ==
    ASSUME BufInv, GarbageHeld, CommitDecided
    PROVE  \/ UNCHANGED Promise!vars
           \/ \E garbage \in SUBSET (Held \ (Doomed \cup Unreported)) : Promise!Commit(garbage)
<1>1. call.op = "commit" /\ UNCHANGED <<buf, disk, refused>>
  BY DEF CommitDecided
<1>2. Held' = Held /\ Doomed = {} /\ Unreported = {} /\ call.undo = <<>>
  BY <1>1, SameBuffer, CallSeen DEF BufInv, Held, CallShape
<1>3. CASE call' = [call EXCEPT !.op = "free"] /\ arrived' = <<>>
  <2>1. call'.op = "free" /\ call'.skip = call.skip /\ call'.undo = <<>>
    BY <1>2, <1>3 DEF BufInv, TypeOK, Calls
  <2>2. Doomed' = call.skip /\ Unreported' = {}
    BY <2>1, NextCallSeen
  <2>3. call.skip \in SUBSET (Held \ (Doomed \cup Unreported))
    BY <1>1, <1>2 DEF GarbageHeld
  <2>4. Promise!Commit(call.skip)
    BY <1>1, <1>2, <1>3, <2>2 DEF Promise!Commit, Promise!Quiet
  <2> QED BY <2>3, <2>4
<1>4. CASE call' = Idle /\ arrived' = arrived
  <2>1. Doomed' = {} /\ Unreported' = {}
    BY <1>4, NextCallSeen, IdleFacts
  <2> QED BY <1>1, <1>2, <1>4, <2>1, Invisible
<1> QED BY <1>3, <1>4 DEF CommitDecided

\* The frees of a commit, one array after the other.
LEMMA FreeMaps ==
    ASSUME BufInv, FreeNext
    PROVE  UNCHANGED Promise!vars \/ \E h \in Hashes : Promise!Drop(h)
<1>1. call.op = "free" /\ arrived' = arrived
  BY DEF FreeNext
<1>2. Doomed = call.skip /\ Unreported = {} /\ call.undo = <<>>
  BY <1>1, CallSeen DEF BufInv, CallShape
<1>3. CASE call.skip = {}
  <2>1. call' = Idle /\ UNCHANGED <<buf, disk, refused>>
    BY <1>3 DEF FreeNext
  <2>2. Held' = Held /\ Doomed' = {} /\ Unreported' = {}
    BY <2>1, SameBuffer, NextCallSeen, IdleFacts DEF Held
  <2> QED BY <1>1, <1>2, <1>3, <2>1, <2>2, Invisible
<1>4. CASE call.skip # {}
  <2>1. PICK h \in call.skip : Drop(h) /\ call' = [call EXCEPT !.skip = call.skip \ {h}]
    BY <1>4 DEF FreeNext
  <2>2. h \in Hashes
    BY DEF BufInv, TypeOK, Calls
  <2>3. call'.op = "free" /\ call'.skip = call.skip \ {h} /\ call'.undo = <<>>
    BY <1>1, <1>2, <2>1 DEF BufInv, TypeOK, Calls
  <2>4. Doomed' = call.skip \ {h} /\ Unreported' = {}
    BY <2>3, NextCallSeen
  <2> QED BY <1>1, <1>2, <2>1, <2>2, <2>4, DropSeen
<1> QED BY <1>3, <1>4

\* A rollback's removals, one array after the other, each listed once.
LEMMA UndoMaps ==
    ASSUME BufInv, UndoNext
    PROVE  UNCHANGED Promise!vars \/ \E h \in Hashes : Promise!Drop(h)
<1>1. call.op = "undo" /\ arrived' = arrived
  BY DEF UndoNext
<1>2. Doomed = Items(call.undo) /\ Unreported = {} /\ call.undo \in Seq(Hashes)
  BY <1>1, CallSeen DEF BufInv, TypeOK, Calls
<1>3. CASE call.undo = <<>>
  <2>1. call' = Idle /\ UNCHANGED <<buf, disk, refused>>
    BY <1>3 DEF UndoNext
  <2>2. Held' = Held /\ Doomed' = {} /\ Unreported' = {}
    BY <2>1, SameBuffer, NextCallSeen, IdleFacts DEF Held
  <2>3. Doomed = {}
    BY <1>2, <1>3 DEF Items
  <2> QED BY <1>1, <1>2, <2>1, <2>2, <2>3, Invisible
<1>4. CASE call.undo # <<>>
  <2> DEFINE u == call.undo
             h == Head(u)
             rest == Tail(u)
             n == Len(u)
  <2>1. Drop(h) /\ call' = [call EXCEPT !.undo = rest]
    BY <1>4 DEF UndoNext
  <2>2. /\ n \in Nat \ {0} /\ DOMAIN u = 1 .. n
        /\ h = u[1] /\ h \in Hashes
        /\ DOMAIN rest = 1 .. n - 1
        /\ \A a \in 1 .. n - 1 : rest[a] = u[a + 1]
        /\ \A a, b \in 1 .. n : u[a] = u[b] => a = b
    <3>1. \A a, b \in DOMAIN u : u[a] = u[b] => a = b
      BY DEF BufInv, CallShape
    <3>2. u \in Seq(Hashes) /\ u # <<>>
      BY <1>2, <1>4
    <3> HIDE DEF u
    <3> QED BY <3>1, <3>2
  <2>3. call'.op = "undo" /\ call'.undo = rest
    <3> HIDE DEF rest
    <3> QED BY <1>1, <2>1 DEF BufInv, TypeOK, Calls
  <2>4. Doomed = Items(u)
    BY <1>2
  <2> HIDE DEF u, h, rest, n
  <2>5. Items(rest) = Items(u) \ {h} /\ h \in Items(u)
    <3>1. ASSUME NEW x \in Items(u) PROVE x \in Items(rest) \cup {h}
      <4>1. PICK a \in 1 .. n : u[a] = x
        BY <2>2 DEF Items
      <4>2. CASE a # 1
        <5>1. a - 1 \in 1 .. n - 1 /\ (a - 1) + 1 = a
          BY <2>2, <4>2
        <5>2. a - 1 \in DOMAIN rest /\ rest[a - 1] = x
          BY <2>2, <4>1, <5>1
        <5> QED BY <5>2 DEF Items
      <4> QED BY <2>2, <4>1, <4>2
    <3>2. ASSUME NEW x \in Items(rest) PROVE x \in Items(u) /\ x # h
      <4>1. PICK a \in 1 .. n - 1 : rest[a] = x
        BY <2>2 DEF Items
      <4>2. a + 1 \in 1 .. n /\ 1 \in 1 .. n /\ a + 1 # 1
        BY <2>2
      <4>3. x = u[a + 1]
        BY <2>2, <4>1
      <4> QED BY <2>2, <4>2, <4>3 DEF Items
    <3>3. h \in Items(u)
      BY <2>2 DEF Items
    <3> QED BY <3>1, <3>2, <3>3
  <2>6. Doomed' = Items(rest) /\ Unreported' = {}
    BY <2>3, NextCallSeen
  <2> QED BY <1>1, <1>2, <2>1, <2>2, <2>4, <2>5, <2>6, DropSeen
<1> QED BY <1>3, <1>4

\* The garbage a commit has decided on stays held until its RELEASE.
LEMMA GarbageStays ==
    ASSUME BufInv, GarbageHeld, [Next]_vars
    PROVE  GarbageHeld'
<1>1. ASSUME call'.op # "commit" PROVE GarbageHeld'
  BY <1>1 DEF GarbageHeld
<1>2. CASE \E h \in Hashes : Push(h)
  BY <1>1, <1>2 DEF Push, Idle
<1>3. CASE \E b \in Budgets : SetMaxBytes(b)
  BY <1>1, <1>3 DEF SetMaxBytes, Idle
<1>4. CASE \E hs \in SUBSET Hashes : WriteHolding(hs)
  BY <1>1, <1>4 DEF WriteHolding, Idle
<1>5. CASE \E garbage \in SUBSET Held : Commit(garbage)
  <2>1. PICK garbage \in SUBSET Held : Commit(garbage)
    BY <1>5
  <2>2. UNCHANGED <<buf, disk>> /\ call'.skip = garbage
    BY <2>1 DEF Commit, Idle
  <2>3. Held' = Held
    BY <2>2, SameBuffer DEF Held
  <2> QED BY <2>2, <2>3 DEF GarbageHeld
<1>6. CASE \E mark \in 0 .. Len(arrived) : Rollback(mark)
  BY <1>1, <1>6 DEF Rollback, Idle
<1>7. CASE WriteNext
  BY <1>7, WriteMaps DEF GarbageHeld
<1>8. CASE PushFails \/ CallFails \/ Return
  BY <1>1, <1>8, IdleFacts DEF PushFails, CallFails, Return
<1>9. CASE CommitDecided
  <2>1. call \in Calls
    BY DEF BufInv, TypeOK
  <2> QED BY <1>1, <1>9, <2>1, IdleFacts DEF CommitDecided, Calls
<1>10. CASE FreeNext \/ UndoNext
  <2>1. call \in Calls
    BY DEF BufInv, TypeOK
  <2> QED BY <1>1, <1>10, <2>1, IdleFacts DEF FreeNext, UndoNext, Calls
<1>11. CASE UNCHANGED vars
  BY <1>11 DEF vars, GarbageHeld, Held, Buffered
<1> QED BY <1>2, <1>3, <1>4, <1>5, <1>6, <1>7, <1>8, <1>9, <1>10, <1>11 DEF Next

\* Every step of the buffer is a step of the promise, or is invisible to it.
LEMMA NextMaps ==
    ASSUME BufInv, GarbageHeld, [Next]_vars
    PROVE  [Promise!Next]_Promise!vars
<1>1. CASE \E h \in Hashes : Push(h)
  BY <1>1, PushMaps DEF Promise!Next
<1>2. CASE \E b \in Budgets : SetMaxBytes(b)
  BY <1>2, StartMaps DEF SetMaxBytes, Idle
<1>3. CASE \E hs \in SUBSET Hashes : WriteHolding(hs)
  BY <1>3, StartMaps DEF WriteHolding, Idle
<1>4. CASE \E garbage \in SUBSET Held : Commit(garbage)
  BY <1>4, StartMaps DEF Commit, Idle
<1>5. CASE \E mark \in 0 .. Len(arrived) : Rollback(mark)
  BY <1>5, RollbackMaps DEF Promise!Next
<1>6. CASE WriteNext
  BY <1>6, WriteMaps
<1>7. CASE PushFails
  BY <1>7, PushFailsMaps DEF Promise!Next
<1>8. CASE CallFails
  BY <1>8, CallFailsMaps
<1>9. CASE Return
  BY <1>9, ReturnMaps DEF Promise!Next
<1>10. CASE CommitDecided
  BY <1>10, DecidedMaps DEF Promise!Next
<1>11. CASE FreeNext
  BY <1>11, FreeMaps DEF Promise!Next
<1>12. CASE UndoNext
  BY <1>12, UndoMaps DEF Promise!Next
<1>13. CASE UNCHANGED vars
  <2>1. Held' = Held /\ Doomed' = Doomed /\ Unreported' = Unreported
    BY <1>13 DEF vars, Held, Buffered, Doomed, Unreported
  <2> QED BY <1>13, <2>1, Invisible DEF vars
<1> QED BY <1>1, <1>2, <1>3, <1>4, <1>5, <1>6, <1>7, <1>8, <1>9, <1>10, <1>11, <1>12, <1>13
        DEF Next

\* The initial states are states the promise may start in.
LEMMA InitMaps == Init => Promise!Init
<1> SUFFICES ASSUME Init PROVE Promise!Init
  OBVIOUS
<1>1. Items(<<>>) = {} /\ Buffered = {}
  BY DEF Items, Init, Buffered
<1>2. Doomed = {} /\ Unreported = {}
  BY <1>1, IdleFacts DEF Init, Doomed, Unreported
<1>3. Held \ (Doomed \cup Unreported) \in SUBSET Hashes
  BY <1>1, <1>2 DEF Init, Held
<1> QED BY <1>2, <1>3 DEF Init, Promise!Init

\* The write buffer and the backend below it implement the promise: blocks,
\* evictions, early writes, swap_removes and failures that are put back never
\* show in the set of arrays the store holds or in the order it lists them.
THEOREM BufferRefines == Spec => ImplementsPromise
<1>1. Init => GarbageHeld
  BY IdleFacts DEF Init, GarbageHeld
<1>2. BufInv /\ GarbageHeld /\ [Next]_vars => GarbageHeld'
  BY GarbageStays
<1>3. BufInv /\ GarbageHeld /\ [Next]_vars => [Promise!Next]_Promise!vars
  BY NextMaps
<1>4. Init => Promise!Init
  BY InitMaps
<1>5. Spec => []BufInv
  BY BufferInvariant
<1> QED BY <1>1, <1>2, <1>3, <1>4, <1>5, PTL DEF Spec, ImplementsPromise, Promise!Spec

-----------------------------------------------------------------------------
(* Induction on the subsets of Pools.                                      *)

\* A set of naturals that is not empty has a least element.
LEMMA LeastNatural ==
    ASSUME NEW T, T \subseteq Nat, T # {}
    PROVE  \E x \in T : \A y \in T : x <= y
<1>1. PICK R : /\ IsWellFoundedOn(R, Nat)
               /\ \A x \in Nat, y \in Nat : y < x => <<y, x>> \in R
  <2> DEFINE R == OpToRel(<, Nat)
  <2>1. IsWellFoundedOn(R, Nat)
    BY NatLessThanWellFounded
  <2>2. \A x \in Nat, y \in Nat : y < x => <<y, x>> \in R
    BY DEF OpToRel
  <2> HIDE DEF R
  <2> QED BY <2>1, <2>2, Zenon
<1>2. \E x \in T : \A y \in T : ~(<<y, x>> \in R)
  BY <1>1, WFMin, Zenon
<1>3. PICK x \in T : \A y \in T : ~(<<y, x>> \in R)
  BY <1>2
<1>4. \A y \in T : ~(y < x)
  BY <1>1, <1>3
<1> QED BY <1>4

\* The pool the recursion takes from a set of pools.
First(S) == CHOOSE q \in S : TRUE

\* Taking it away leaves a set with one pool less.
LEMMA FirstTaken ==
    ASSUME NEW S \in SUBSET Pools, S # {}
    PROVE  /\ First(S) \in S /\ First(S) \in Pools
           /\ S \ {First(S)} \in SUBSET Pools
           /\ Cardinality(S) \in Nat /\ Cardinality(S \ {First(S)}) \in Nat
           /\ Cardinality(S \ {First(S)}) = Cardinality(S) - 1
<1>1. First(S) \in S
  BY DEF First
<1>2. IsFiniteSet(S)
  BY PoolsAreFinite, FS_Subset
<1>3. IsFiniteSet(S \ {First(S)}) /\ Cardinality(S \ {First(S)}) = Cardinality(S) - 1
  BY <1>1, <1>2, FS_RemoveElement
<1> QED BY <1>1, <1>2, <1>3, FS_CardinalityType

\* A set of sets of pools that has the empty one, and every set whose rest it has, has
\* them all.
LEMMA PoolInduction ==
    ASSUME NEW G, {} \in G,
           \A S \in SUBSET Pools : S # {} /\ S \ {First(S)} \in G => S \in G
    PROVE  SUBSET Pools \subseteq G
<1> SUFFICES ASSUME NEW S0 \in SUBSET Pools, S0 \notin G
             PROVE  FALSE
  OBVIOUS
<1> DEFINE Bad == {S \in SUBSET Pools : S \notin G}
           Sizes == {Cardinality(S) : S \in Bad}
<1>1. \A S \in Bad : S # {}
  OBVIOUS
<1>2. \A S \in Bad : Cardinality(S) \in Nat
  BY <1>1, FirstTaken
<1>3. PICK n \in Sizes : \A m \in Sizes : n <= m
  <2>1. Sizes \subseteq Nat
    BY <1>2
  <2>2. S0 \in Bad
    OBVIOUS
  <2>3. Sizes # {}
    BY <2>2
  <2> HIDE DEF Sizes
  <2> QED BY <2>1, <2>3, LeastNatural
<1>4. PICK S \in Bad : n = Cardinality(S)
  BY <1>3
<1>5. S \ {First(S)} \in Bad
  BY <1>1, <1>4, FirstTaken
<1>6. n <= Cardinality(S \ {First(S)})
  BY <1>3, <1>5
<1>7. Cardinality(S \ {First(S)}) = n - 1 /\ n \in Nat
  BY <1>1, <1>4, FirstTaken
<1> QED BY <1>6, <1>7

-----------------------------------------------------------------------------
(* The sum of the blocks' bytes.                                           *)

Weight(b, p) == Len(b[p]) * ColBytes[p]

Body(b, f, S) == IF S = {} THEN 0 ELSE Weight(b, First(S)) + f[S \ {First(S)}]

\* Total, of any blocks.
Sum(b) == CHOOSE f : f = [S \in SUBSET Pools |-> Body(b, f, S)]

LEMMA TotalIsSum == Total = Sum(blocks) /\ Total' = Sum(blocks')
  BY DEF Total, Sum, Body, Weight, First

\* The recursion defines a function: one that obeys it on the sets of up to n pools
\* extends to those of n + 1.
LEMMA SumUnfolds ==
    ASSUME NEW b
    PROVE  Sum(b) = [S \in SUBSET Pools |-> Body(b, Sum(b), S)]
<1> DEFINE Sub(n) == {S \in SUBSET Pools : Cardinality(S) <= n}
           Obeys(f, n) == f = [S \in Sub(n) |-> Body(b, f, S)]
           Bad == {n \in Nat : ~\E f : Obeys(f, n)}
<1>1. \E f : Obeys(f, 0)
  <2> DEFINE f == [S \in Sub(0) |-> 0]
  <2>1. \A S \in Sub(0) : S = {}
    <3> SUFFICES ASSUME NEW S \in Sub(0), S # {} PROVE FALSE
      OBVIOUS
    <3>1. Cardinality(S) <= 0 /\ S \in SUBSET Pools
      OBVIOUS
    <3>2. Cardinality(S) \in Nat /\ Cardinality(S) - 1 \in Nat
      BY <3>1, FirstTaken
    <3> QED BY <3>1, <3>2
  <2>2. \A S \in Sub(0) : 0 = Body(b, f, S)
    BY <2>1 DEF Body
  <2>3. [S \in Sub(0) |-> 0] = [S \in Sub(0) |-> Body(b, f, S)]
    <3> HIDE DEF f, Sub
    <3> QED BY <2>2
  <2> QED BY <2>3
<1>2. ASSUME NEW n \in Nat, \E f : Obeys(f, n)
      PROVE  \E f : Obeys(f, n + 1)
  <2> PICK f : Obeys(f, n)
    BY <1>2
  <2> DEFINE g == [S \in Sub(n + 1) |-> Body(b, f, S)]
  <2>1. \A S \in Sub(n) : S \in Sub(n + 1)
    <3> SUFFICES ASSUME NEW S \in Sub(n) PROVE Cardinality(S) <= n + 1
      OBVIOUS
    <3>1. Cardinality(S) \in Nat
      BY FS_Subset, FS_CardinalityType, PoolsAreFinite
    <3> QED BY <3>1
  <2>2. \A S \in Sub(n) : g[S] = f[S]
    BY <2>1
  <2>3. ASSUME NEW S \in Sub(n + 1), S # {}
        PROVE  S \ {First(S)} \in Sub(n)
    BY <2>3, FirstTaken
  <2> HIDE DEF g
  <2>4. \A S \in Sub(n + 1) : Body(b, f, S) = Body(b, g, S)
    BY <2>2, <2>3 DEF Body
  <2> QED BY <2>4 DEF g
<1> HIDE DEF Obeys
<1>3. Bad = {}
  <2> SUFFICES ASSUME Bad # {} PROVE FALSE
    OBVIOUS
  <2>1. PICK n \in Bad : \A m \in Bad : n <= m
    BY LeastNatural
  <2>2. n # 0
    BY <1>1, <2>1
  <2>3. n - 1 \in Nat /\ n - 1 \notin Bad /\ (n - 1) + 1 = n
    BY <2>1, <2>2
  <2>4. \E f : Obeys(f, n - 1)
    BY <2>3
  <2>5. \E f : Obeys(f, (n - 1) + 1)
    BY <1>2, <2>3, <2>4
  <2> QED BY <2>1, <2>3, <2>5
<1>4. Cardinality(Pools) \in Nat /\ Sub(Cardinality(Pools)) = SUBSET Pools
  BY PoolsAreFinite, FS_Subset, FS_CardinalityType
<1>5. \E f : f = [S \in SUBSET Pools |-> Body(b, f, S)]
  <2>1. \E f : Obeys(f, Cardinality(Pools))
    BY <1>3, <1>4
  <2> QED BY <1>4, <2>1 DEF Obeys
<1> QED BY <1>5 DEF Sum

\* The sum of the empty set, and of one with a pool in it.
LEMMA SumSteps ==
    ASSUME NEW b
    PROVE  /\ Sum(b)[{}] = 0
           /\ \A S \in SUBSET Pools : S # {} =>
                 Sum(b)[S] = Weight(b, First(S)) + Sum(b)[S \ {First(S)}]
<1>1. \A S \in SUBSET Pools : Sum(b)[S] = Body(b, Sum(b), S)
  BY SumUnfolds
<1> QED BY <1>1 DEF Body

\* Blocks of arrays have sizes.
LEMMA WeightIsNat ==
    ASSUME NEW b \in [Pools -> Seq(Hashes)], NEW p \in Pools
    PROVE  Weight(b, p) \in Nat
<1>1. Len(b[p]) \in Nat /\ ColBytes[p] \in Nat
  BY BufferConstants
<1> QED BY <1>1 DEF Weight

\* A sum is a number, no less than any of its terms.
LEMMA SumIsNat ==
    ASSUME NEW b \in [Pools -> Seq(Hashes)]
    PROVE  /\ \A S \in SUBSET Pools : Sum(b)[S] \in Nat
           /\ \A p \in Pools : Weight(b, p) <= Sum(b)[Pools]
<1> DEFINE G == {S \in SUBSET Pools : /\ Sum(b)[S] \in Nat
                                      /\ \A p \in S : Weight(b, p) <= Sum(b)[S]}
<1>1. {} \in G
  BY SumSteps
<1>2. ASSUME NEW S \in SUBSET Pools, S # {}, S \ {First(S)} \in G
      PROVE  S \in G
  <2> DEFINE q == First(S)
             R == S \ {q}
  <2>1. q \in S /\ q \in Pools /\ R \in SUBSET Pools
    BY <1>2, FirstTaken
  <2>2. Sum(b)[S] = Weight(b, q) + Sum(b)[R]
    BY <1>2, SumSteps
  <2>3. Weight(b, q) \in Nat /\ Sum(b)[R] \in Nat
    BY <1>2, <2>1, WeightIsNat
  <2>4. \A p \in S : p = q \/ (p \in R /\ Weight(b, p) \in Nat /\ Weight(b, p) <= Sum(b)[R])
    BY <1>2, <2>1, WeightIsNat
  <2> HIDE DEF q, R
  <2> QED BY <2>2, <2>3, <2>4
<1> HIDE DEF G
<1>3. SUBSET Pools \subseteq G
  BY <1>1, <1>2, PoolInduction
<1> QED BY <1>3 DEF G

\* Blocks that differ in one pool have sums that differ by that pool's sizes.
LEMMA SumChanges ==
    ASSUME NEW b \in [Pools -> Seq(Hashes)], NEW c \in [Pools -> Seq(Hashes)],
           NEW p \in Pools, \A q \in Pools : q # p => c[q] = b[q]
    PROVE  Sum(c)[Pools] + Weight(b, p) = Sum(b)[Pools] + Weight(c, p)
<1> DEFINE G == {S \in SUBSET Pools :
                   IF p \in S THEN Sum(c)[S] + Weight(b, p) = Sum(b)[S] + Weight(c, p)
                   ELSE Sum(c)[S] = Sum(b)[S]}
<1>1. {} \in G
  BY SumSteps
<1>2. ASSUME NEW S \in SUBSET Pools, S # {}, S \ {First(S)} \in G
      PROVE  S \in G
  <2> DEFINE q == First(S)
             R == S \ {q}
  <2>1. q \in S /\ q \in Pools /\ R \in SUBSET Pools
    BY <1>2, FirstTaken
  <2>2. Sum(b)[S] = Weight(b, q) + Sum(b)[R] /\ Sum(c)[S] = Weight(c, q) + Sum(c)[R]
    BY <1>2, SumSteps
  <2>3. /\ Weight(b, q) \in Nat /\ Sum(b)[R] \in Nat /\ Weight(b, p) \in Nat
        /\ Weight(c, q) \in Nat /\ Sum(c)[R] \in Nat /\ Weight(c, p) \in Nat
        /\ Sum(b)[S] \in Nat /\ Sum(c)[S] \in Nat
    BY <2>1, WeightIsNat, SumIsNat
  <2>4. q # p => Weight(c, q) = Weight(b, q)
    BY <2>1 DEF Weight
  <2>5. CASE q = p
    <3>1. Sum(c)[R] = Sum(b)[R]
      BY <1>2, <2>5
    <3> QED BY <2>1, <2>2, <2>3, <2>5, <3>1
  <2>6. CASE q # p /\ p \in S
    <3>1. Sum(c)[R] + Weight(b, p) = Sum(b)[R] + Weight(c, p)
      BY <1>2, <2>6
    <3> HIDE DEF q, R
    <3>2. Sum(c)[S] + Weight(b, p) = Sum(b)[S] + Weight(c, p)
      <4>1. Weight(c, q) = Weight(b, q)
        BY <2>4, <2>6
      <4>2. Sum(b)[S] = Weight(b, q) + Sum(b)[R] /\ Sum(c)[S] = Weight(b, q) + Sum(c)[R]
        BY <2>2, <4>1
      <4>3. PICK x \in Nat, y \in Nat, u \in Nat, v \in Nat, w \in Nat :
                  /\ x = Sum(b)[R] /\ y = Sum(c)[R] /\ u = Weight(b, p) /\ v = Weight(c, p)
                  /\ w = Weight(b, q)
        BY <2>3
      <4>4. y + u = x + v
        BY <3>1, <4>3
      <4>5. (w + y) + u = (w + x) + v
        BY <4>4
      <4> QED BY <4>2, <4>3, <4>5
    <3> QED BY <2>6, <3>2
  <2>7. CASE p \notin S
    <3>1. q # p
      BY <2>1, <2>7
    <3>2. Sum(c)[R] = Sum(b)[R]
      BY <1>2, <2>7
    <3> QED BY <2>2, <2>4, <2>7, <3>1, <3>2
  <2> QED BY <2>5, <2>6, <2>7
<1> HIDE DEF G
<1>3. SUBSET Pools \subseteq G
  BY <1>1, <1>2, PoolInduction
<1> QED BY <1>3 DEF G

\* An empty buffer weighs nothing.
LEMMA SumOfNothing ==
    ASSUME NEW b, \A p \in Pools : b[p] = <<>>
    PROVE  Sum(b)[Pools] = 0
<1> DEFINE G == {S \in SUBSET Pools : Sum(b)[S] = 0}
<1>1. {} \in G
  BY SumSteps
<1>2. ASSUME NEW S \in SUBSET Pools, S # {}, S \ {First(S)} \in G
      PROVE  S \in G
  <2>1. First(S) \in Pools
    BY <1>2, FirstTaken
  <2>2. Len(b[First(S)]) = 0 /\ ColBytes[First(S)] \in Nat
    BY <2>1, BufferConstants
  <2>3. Weight(b, First(S)) = 0
    BY <2>2 DEF Weight
  <2> QED BY <1>2, <2>3, SumSteps
<1> HIDE DEF G
<1>3. SUBSET Pools \subseteq G
  BY <1>1, <1>2, PoolInduction
<1> QED BY <1>3 DEF G

-----------------------------------------------------------------------------
(* The counts stay exact.                                                  *)

\* What the counts say of the blocks.
LEMMA CountsRead ==
    ASSUME BufType, BytesExact
    PROVE  /\ \A p \in Pools : /\ blockBytes[p] = Weight(blocks, p)
                               /\ Len(blocks[p]) \in Nat /\ ColBytes[p] \in Nat
                               /\ blockBytes[p] \in Nat
                               /\ blockBytes[p] <= bytes
           /\ bytes \in Nat /\ bytes = Sum(blocks)[Pools]
           /\ (\A p \in Pools : blocks[p] = <<>>) => bytes = 0
<1>1. blocks \in [Pools -> Seq(Hashes)] /\ blockBytes \in [Pools -> Nat] /\ bytes \in Nat
  BY DEF BufType
<1>2. bytes = Sum(blocks)[Pools]
  BY TotalIsSum DEF BytesExact
<1>3. \A p \in Pools : blockBytes[p] = Weight(blocks, p)
  BY DEF BytesExact, Weight
<1>4. \A p \in Pools : Len(blocks[p]) \in Nat /\ ColBytes[p] \in Nat
  BY <1>1, BufferConstants
<1>5. \A p \in Pools : Weight(blocks, p) <= Sum(blocks)[Pools]
  BY <1>1, SumIsNat
<1>6. (\A p \in Pools : blocks[p] = <<>>) => Sum(blocks)[Pools] = 0
  BY SumOfNothing
<1> QED BY <1>1, <1>2, <1>3, <1>4, <1>5, <1>6

\* One block changes, and both counts with it.
LEMMA Reweighed ==
    ASSUME BufType, BytesExact, BufType', NEW p \in Pools, NEW s,
           blocks' = [blocks EXCEPT ![p] = s],
           blockBytes' = [blockBytes EXCEPT ![p] = Len(s) * ColBytes[p]],
           bytes' + blockBytes[p] = bytes + Len(s) * ColBytes[p]
    PROVE  BytesExact'
<1>1. blocks \in [Pools -> Seq(Hashes)] /\ blocks' \in [Pools -> Seq(Hashes)]
  BY DEF BufType
<1>2. \A q \in Pools : q # p => blocks'[q] = blocks[q]
  BY <1>1
<1>3. blocks'[p] = s
  BY <1>1
<1>4. Sum(blocks')[Pools] + Weight(blocks, p) = Sum(blocks)[Pools] + Weight(blocks', p)
  BY <1>1, <1>2, SumChanges
<1>5. Weight(blocks', p) = Len(s) * ColBytes[p] /\ Weight(blocks', p) \in Nat
  BY <1>1, <1>3, WeightIsNat DEF Weight
<1>6. Sum(blocks')[Pools] \in Nat
  BY <1>1, SumIsNat
<1>7. PICK x \in Nat, y \in Nat, u \in Nat, v \in Nat, z \in Nat :
         /\ x = Sum(blocks')[Pools] /\ y = Weight(blocks, p) /\ u = bytes
         /\ v = Weight(blocks', p) /\ z = bytes'
  BY <1>5, <1>6, CountsRead DEF BufType
<1>8. x + y = u + v
  BY <1>4, <1>7, CountsRead
<1>9. z + y = u + v
  BY <1>5, <1>7, CountsRead
<1>10. bytes' = Sum(blocks')[Pools]
  BY <1>7, <1>8, <1>9
<1>11. \A q \in Pools : blockBytes'[q] = Len(blocks'[q]) * ColBytes[q]
  <2> SUFFICES ASSUME NEW q \in Pools PROVE blockBytes'[q] = Len(blocks'[q]) * ColBytes[q]
    OBVIOUS
  <2>1. CASE q = p
    BY <1>3, <2>1 DEF BufType
  <2>2. CASE q # p
    BY <1>2, <2>2 DEF BufType, BytesExact
  <2> QED BY <2>1, <2>2
<1> QED BY <1>10, <1>11, TotalIsSum DEF BytesExact

\* Multiplication, for the sizes of blocks.
LEMMA Products ==
    ASSUME NEW c \in Nat
    PROVE  /\ \A n \in Nat : (n + 1) * c = n * c + c /\ n * c \in Nat
           /\ \A m \in Nat, n \in Nat : m <= n => m * c <= n * c
<1>1. \A n \in Nat : (n + 1) * c = n * c + c /\ n * c \in Nat
  OBVIOUS
<1>2. ASSUME NEW m \in Nat, NEW n \in Nat, m <= n
      PROVE  m * c <= n * c
  <2>1. PICK d \in Nat : n = m + d
    <3>1. n - m \in Nat /\ n = m + (n - m)
      BY <1>2
    <3> QED BY <3>1
  <2>2. n * c = m * c + d * c /\ d * c \in Nat /\ m * c \in Nat
    BY <2>1
  <2> QED BY <2>2
<1> QED BY <1>1, <1>2

\* Dropping an array takes its own bytes away, which both counts have.
LEMMA DropWeighs ==
    ASSUME BufType, IndexExact, BytesExact, NEW h \in Buffered, DropBuffered(h)
    PROVE  BytesExact' /\ bytes' + ColBytes[PoolOf[h]] = bytes
<1> DEFINE p == byHash[h].pool
           n == Len(blocks[p])
           c == ColBytes[p]
           s == SwapRemove(blocks[p], byHash[h].idx)
<1>1. p \in Pools /\ p = PoolOf[h] /\ n \in Nat /\ n >= 1 /\ c \in Nat
  <2>1. p \in Pools /\ p = PoolOf[h] /\ byHash[h].idx \in DOMAIN blocks[p]
    BY DEF BufType, IndexExact, Buffered
  <2>2. blocks[p] \in Seq(Hashes)
    BY <2>1 DEF BufType
  <2> HIDE DEF p
  <2> QED BY <2>1, <2>2, BufferConstants
<1>2. /\ blocks' = [blocks EXCEPT ![p] = s]
      /\ blockBytes' = [blockBytes EXCEPT ![p] = Less(blockBytes[p], c)]
      /\ bytes' = Less(bytes, c)
  BY DEF DropBuffered
<1>3. BufType'
  BY Dropped
<1>4. Len(s) = n - 1
  BY <1>1 DEF SwapRemove
<1>5. n * c = (n - 1) * c + c /\ (n - 1) * c \in Nat
  <2>1. n - 1 \in Nat /\ (n - 1) + 1 = n
    BY <1>1
  <2> QED BY <1>1, <2>1, Products
<1>6. blockBytes[p] = n * c /\ blockBytes[p] <= bytes /\ bytes \in Nat
  BY <1>1, CountsRead DEF Weight
<1> HIDE DEF p, n, s, c
<1>7. c <= blockBytes[p] /\ blockBytes[p] \in Nat
  BY <1>1, <1>5, <1>6
<1>8. Less(blockBytes[p], c) = Len(s) * c /\ Len(s) * c + c = blockBytes[p]
  BY <1>1, <1>4, <1>5, <1>6, <1>7 DEF Less
<1>9. bytes' + c = bytes /\ bytes' \in Nat
  BY <1>1, <1>2, <1>6, <1>7 DEF Less
<1>10. bytes' + blockBytes[p] = bytes + Len(s) * c
  <2>1. PICK k \in Nat : k = Len(s) * c
    BY <1>4, <1>5
  <2>2. k + c = blockBytes[p]
    BY <1>8, <2>1
  <2>3. bytes' + blockBytes[p] = bytes + k
    BY <1>1, <1>7, <1>9, <2>2
  <2> QED BY <2>1, <2>3
<1>11. BytesExact'
  BY <1>1, <1>2, <1>3, <1>8, <1>10, Reweighed DEF c
<1> QED BY <1>1, <1>9, <1>11 DEF c

\* Writing a block takes away what it wrote.
LEMMA WriteWeighs ==
    ASSUME BufType, IndexExact, BytesExact, NEW p \in Pools, NEW skip, WriteBlock(p, skip)
    PROVE  /\ BytesExact'
           /\ bytes' <= bytes
           /\ skip = {} => bytes' + blockBytes[p] = bytes
<1> DEFINE c == ColBytes[p]
<1>1. PICK s : /\ blocks' = [blocks EXCEPT ![p] = s]
               /\ blockBytes' = [blockBytes EXCEPT ![p] = Len(s) * ColBytes[p]]
               /\ bytes' = Recount(p, Len(s) * ColBytes[p])
  BY DEF WriteBlock
<1>2. BufType' /\ Len(blocks'[p]) <= Len(blocks[p]) /\ (skip = {} => Len(blocks'[p]) = 0)
  BY Written
<1>3. blocks'[p] = s /\ Len(s) \in Nat
  <2>1. blocks'[p] = s
    BY <1>1 DEF BufType
  <2>2. blocks'[p] \in Seq(Hashes)
    BY <1>2 DEF BufType
  <2> QED BY <2>1, <2>2
<1>4. /\ blockBytes[p] = Len(blocks[p]) * c /\ blockBytes[p] <= bytes /\ bytes \in Nat
      /\ Len(blocks[p]) \in Nat /\ c \in Nat /\ blockBytes[p] \in Nat
  BY CountsRead DEF Weight
<1> HIDE DEF c
<1>5. Len(s) * c \in Nat /\ Len(s) * c <= blockBytes[p]
  BY <1>2, <1>3, <1>4, Products
<1>6. bytes' = (bytes - blockBytes[p]) + Len(s) * c
  BY <1>1, <1>4 DEF Recount, Less, c
<1>7. bytes' + blockBytes[p] = bytes + Len(s) * c /\ bytes' <= bytes
  BY <1>4, <1>5, <1>6
<1>8. BytesExact'
  BY <1>1, <1>2, <1>7, Reweighed DEF c
<1>9. skip = {} => Len(s) * c = 0
  BY <1>2, <1>3, <1>4
<1> QED BY <1>4, <1>7, <1>8, <1>9

\* A push adds its array's bytes.
LEMMA PushWeighs ==
    ASSUME BufInv, BytesExact, NEW h \in Hashes, Push(h)
    PROVE  BytesExact' /\ bytes' = bytes + ColBytes[PoolOf[h]]
<1> DEFINE p == PoolOf[h]
           c == ColBytes[p]
           s == Append(blocks[p], h)
<1>1. BufType /\ BufType'
  BY PushStep DEF BufInv, TypeOK, BufType
<1>2. p \in Pools /\ blocks[p] \in Seq(Hashes)
  BY <1>1, BufferConstants DEF BufType
<1>3. /\ blocks' = [blocks EXCEPT ![p] = s]
      /\ blockBytes' = [blockBytes EXCEPT ![p] = blockBytes[p] + c]
      /\ bytes' = bytes + c
  BY DEF Push
<1>4. Len(s) = Len(blocks[p]) + 1
  BY <1>2
<1>5. /\ blockBytes[p] = Len(blocks[p]) * c /\ bytes \in Nat
      /\ Len(blocks[p]) \in Nat /\ c \in Nat /\ blockBytes[p] \in Nat
  BY <1>1, <1>2, CountsRead DEF Weight
<1> HIDE DEF p, c, s
<1>6. Len(s) * c = blockBytes[p] + c
  BY <1>4, <1>5, Products
<1>7. bytes' + blockBytes[p] = bytes + Len(s) * c
  <2>1. bytes \in Nat /\ blockBytes[p] \in Nat /\ c \in Nat
    BY <1>5
  <2>2. (bytes + c) + blockBytes[p] = bytes + (blockBytes[p] + c)
    BY <2>1
  <2> QED BY <1>3, <1>6, <2>2
<1>8. BytesExact'
  BY <1>1, <1>2, <1>3, <1>6, <1>7, Reweighed DEF c
<1> QED BY <1>3, <1>8 DEF c, p

-----------------------------------------------------------------------------
(* The budget.                                                             *)

\* A buffer that stays as it was is counted as it was.
LEMMA SameCounts ==
    ASSUME BytesExact, UNCHANGED buf
    PROVE  BytesExact' /\ bytes' = bytes /\ Buffered' = Buffered
<1>1. blocks' = blocks /\ blockBytes' = blockBytes /\ bytes' = bytes /\ byHash' = byHash
  BY DEF buf
<1>2. Total' = Total
  BY <1>1, TotalIsSum
<1> QED BY <1>1, <1>2 DEF BytesExact, Buffered

\* A push or a new budget is done when nothing is left to evict: the buffer is inside
\* its budget, or holds nothing and weighs nothing.
LEMMA NothingLeftToEvict ==
    ASSUME BufType, BytesExact, maxBytes \in Nat, call.op \in {"push", "budget"},
           call.todo = {}, EvictNow = {}
    PROVE  bytes <= maxBytes
<1> SUFFICES ASSUME bytes > maxBytes PROVE FALSE
  BY CountsRead
<1> DEFINE E == {p \in Pools : blocks[p] # <<>>}
           Spare == {bytes - blockBytes[p] : p \in E}
<1>1. E = {}
  <2> SUFFICES ASSUME E # {} PROVE FALSE
    OBVIOUS
  <2>1. \A p \in Pools : blockBytes[p] \in Nat /\ blockBytes[p] <= bytes /\ bytes \in Nat
    BY CountsRead
  <2>2. Spare \subseteq Nat /\ Spare # {}
    BY <2>1
  <2>3. PICK n \in Spare : \A m \in Spare : n <= m
    <3> HIDE DEF Spare
    <3> QED BY <2>2, LeastNatural
  <2>4. PICK p \in E : n = bytes - blockBytes[p]
    BY <2>3
  <2>5. \A q \in E : bytes - blockBytes[p] <= bytes - blockBytes[q]
    BY <2>3, <2>4
  <2>6. \A q \in E : blockBytes[q] <= blockBytes[p]
    BY <2>1, <2>5
  <2>7. p \in EvictNow
    BY <2>4, <2>6 DEF EvictNow
  <2> QED BY <2>7
<1>2. \A p \in Pools : blocks[p] = <<>>
  BY <1>1
<1>3. bytes = 0
  BY <1>2, CountsRead
<1> QED BY <1>3

\* Every step keeps the counts exact and the budget as far as it is kept.
LEMMA BudgetInvStep ==
    ASSUME BufInv, BudgetInv, Next
    PROVE  BudgetInv'
<1>1. BufType /\ IndexExact /\ CallShape /\ BytesExact /\ SpareInv
  BY TypeSplit DEF BufInv, BudgetInv
<1>2. /\ bytes \in Nat /\ maxBytes \in Nat /\ overdue \in BOOLEAN
      /\ \A h \in Hashes : PoolOf[h] \in Pools /\ ColBytes[PoolOf[h]] \in Nat
  BY BufferConstants DEF BufInv, TypeOK
<1>3. ASSUME NEW h \in Hashes, Push(h)
      PROVE  BudgetInv'
  <2>1. BytesExact' /\ bytes' = bytes + ColBytes[PoolOf[h]]
    BY <1>1, <1>3, PushWeighs
  <2>2. /\ call.op = "idle" /\ call'.op = "push" /\ call'.hash = h /\ h \in Buffered'
        /\ maxBytes' = maxBytes /\ overdue' = overdue
    BY <1>3 DEF Push, Buffered, Idle
  <2>3. SpareInv'
    BY <1>1, <1>2, <2>1, <2>2 DEF SpareInv
  <2> QED BY <2>1, <2>3 DEF BudgetInv
<1>4. ASSUME NEW b \in Budgets, SetMaxBytes(b)
      PROVE  BudgetInv'
  <2>1. UNCHANGED buf /\ call'.op = "budget"
    BY <1>4 DEF SetMaxBytes, Idle
  <2> QED BY <1>1, <2>1, SameCounts DEF BudgetInv, SpareInv
<1>5. ASSUME UNCHANGED buf, maxBytes' = maxBytes, overdue' = overdue,
             call'.op \notin {"push", "budget"}, call.op \notin {"push", "budget"}
      PROVE  BudgetInv'
  BY <1>1, <1>5, SameCounts DEF BudgetInv, SpareInv
<1>6. CASE \/ \E hs \in SUBSET Hashes : WriteHolding(hs)
           \/ \E garbage \in SUBSET Held : Commit(garbage)
           \/ \E mark \in 0 .. Len(arrived) : Rollback(mark)
           \/ CommitDecided
  <2>1. /\ UNCHANGED buf /\ maxBytes' = maxBytes /\ overdue' = overdue
        /\ call.op \in {"idle", "commit"}
    BY <1>6 DEF WriteHolding, Commit, Rollback, CommitDecided
  <2>2. call'.op \in {"idle", "write", "commit", "undo", "free"}
    <3>1. call \in Calls
      BY DEF BufInv, TypeOK
    <3> QED BY <1>6, <3>1, IdleFacts DEF WriteHolding, Commit, Rollback, CommitDecided, Idle, Calls
  <2> QED BY <1>5, <2>1, <2>2
<1>7. CASE WriteNext
  <2>1. PICK p \in DueNow \cup EvictNow :
           WriteBlock(p, call.skip) /\ call' = [call EXCEPT !.todo = @ \ {p}]
    BY <1>7 DEF WriteNext
  <2>2. p \in Pools
    BY DEF DueNow, EvictNow, BufInv, TypeOK, Calls
  <2>3. /\ BytesExact' /\ bytes' <= bytes
        /\ call.skip = {} => bytes' + blockBytes[p] = bytes
    BY <1>1, <2>1, <2>2, WriteWeighs
  <2>4. /\ call'.op = call.op /\ call'.hash = call.hash
        /\ maxBytes' = maxBytes /\ overdue' = overdue /\ bytes' \in Nat
    BY <1>7, <2>1, WriteStep DEF WriteNext, BufInv, TypeOK, Calls
  <2>5. ASSUME call.op = "push", ~overdue
        PROVE  bytes' <= maxBytes' + IF call.hash \in Buffered' THEN ColBytes[PoolOf[call.hash]] ELSE 0
    <3>1. call.skip = {} /\ call.hash \in Hashes
      BY <1>1, <2>5 DEF CallShape, BufInv, HeldInv, Held, TypeOK, Buffered
    <3>2. bytes' + blockBytes[p] = bytes /\ blockBytes[p] \in Nat
      BY <1>1, <2>2, <2>3, <3>1, CountsRead
    <3>3. CASE call.hash \in Buffered'
      <4>1. Buffered' \subseteq Buffered
        BY <1>1, <2>1, <2>2, Written
      <4> QED BY <1>1, <1>2, <2>3, <2>4, <2>5, <3>1, <3>3, <4>1 DEF SpareInv
    <3>4. CASE call.hash \in Buffered /\ call.hash \notin Buffered'
      <4>1. call.hash \in Items(blocks[p])
        BY <1>1, <2>1, <2>2, <3>4, Written
      <4>2. p = PoolOf[call.hash] /\ Len(blocks[p]) >= 1
        <5>1. PICK i \in DOMAIN blocks[p] : blocks[p][i] = call.hash
          BY <4>1 DEF Items
        <5>2. byHash[call.hash].pool = p /\ byHash[call.hash].pool = PoolOf[call.hash]
          <6>1. byHash[call.hash] = [pool |-> p, idx |-> i]
            BY <1>1, <2>2, <5>1 DEF IndexExact
          <6>2. byHash[call.hash].pool = PoolOf[call.hash]
            BY <1>1, <3>4 DEF IndexExact
          <6> QED BY <6>1, <6>2
        <5>3. blocks[p] \in Seq(Hashes)
          BY <1>1, <2>2 DEF BufType
        <5>4. Len(blocks[p]) >= 1
          BY <5>1, <5>3
        <5> QED BY <5>2, <5>4
      <4>3. ColBytes[p] <= blockBytes[p] /\ ColBytes[p] \in Nat
        <5>1. /\ blockBytes[p] = Len(blocks[p]) * ColBytes[p]
              /\ Len(blocks[p]) \in Nat /\ ColBytes[p] \in Nat
          BY <1>1, <2>2, CountsRead DEF Weight
        <5>2. 1 * ColBytes[p] <= Len(blocks[p]) * ColBytes[p]
          BY <4>2, <5>1, Products
        <5>3. 1 * ColBytes[p] = ColBytes[p]
          BY <5>1
        <5> QED BY <5>1, <5>2, <5>3
      <4>4. bytes <= maxBytes + ColBytes[p]
        BY <1>1, <2>5, <3>4, <4>2 DEF SpareInv
      <4> QED BY <1>2, <2>4, <3>2, <3>4, <4>3, <4>4
    <3>5. CASE call.hash \notin Buffered /\ call.hash \notin Buffered'
      BY <1>1, <1>2, <2>3, <2>4, <2>5, <3>5 DEF SpareInv
    <3> QED BY <3>3, <3>4, <3>5
  <2>6. ASSUME call.op \notin {"push", "budget"}, ~overdue
        PROVE  bytes' <= maxBytes'
    BY <1>1, <1>2, <2>3, <2>4, <2>6 DEF SpareInv
  <2>7. SpareInv'
    BY <2>4, <2>5, <2>6 DEF SpareInv
  <2> QED BY <2>3, <2>7 DEF BudgetInv
<1>8. CASE PushFails
  <2>1. call.op = "push" /\ call' = Idle /\ maxBytes' = maxBytes /\ overdue' = overdue
    BY <1>8 DEF PushFails
  <2>2. IF call.hash \in Buffered THEN DropBuffered(call.hash) ELSE UNCHANGED buf
    BY <1>8 DEF PushFails
  <2>3. CASE call.hash \in Buffered
    <3>1. BytesExact' /\ bytes' + ColBytes[PoolOf[call.hash]] = bytes
      BY <1>1, <2>2, <2>3, DropWeighs
    <3>2. BufType' /\ call.hash \in Hashes
      BY <1>1, <2>2, <2>3, Dropped DEF Buffered, BufType
    <3>3. overdue \/ bytes' <= maxBytes
      BY <1>1, <1>2, <2>1, <2>3, <3>1, <3>2 DEF SpareInv, BufType
    <3> QED BY <2>1, <3>1, <3>3, IdleFacts DEF BudgetInv, SpareInv
  <2>4. CASE call.hash \notin Buffered
    BY <1>1, <1>2, <2>1, <2>2, <2>4, SameCounts, IdleFacts DEF BudgetInv, SpareInv
  <2> QED BY <2>3, <2>4
<1>9. CASE CallFails
  <2>1. /\ UNCHANGED buf /\ maxBytes' = maxBytes /\ call' = Idle
        /\ call.op \in {"budget", "write", "commit"}
        /\ overdue' = (overdue \/ call.op = "budget")
    BY <1>9 DEF CallFails
  <2> QED BY <1>1, <1>2, <2>1, SameCounts, IdleFacts DEF BudgetInv, SpareInv
<1>10. CASE Return
  <2>1. /\ UNCHANGED buf /\ maxBytes' = maxBytes /\ call' = Idle /\ call.todo = {}
        /\ call.op \in {"push", "budget", "write"} /\ EvictNow = {}
        /\ overdue' = IF call.op = "write" THEN overdue ELSE FALSE
    BY <1>10 DEF Return
  <2>2. CASE call.op = "write"
    BY <1>1, <2>1, <2>2, SameCounts, IdleFacts DEF BudgetInv, SpareInv
  <2>3. CASE call.op # "write"
    <3>1. bytes <= maxBytes
      BY <1>1, <1>2, <2>1, <2>3, NothingLeftToEvict
    <3> QED BY <1>1, <2>1, <3>1, SameCounts, IdleFacts DEF BudgetInv, SpareInv
  <2> QED BY <2>2, <2>3
<1>11. ASSUME NEW h \in Hashes, Drop(h), maxBytes' = maxBytes, overdue' = overdue,
              call'.op = call.op, call.op \in {"free", "undo"}
       PROVE  BudgetInv'
  <2>1. CASE h \in Buffered
    <3>1. BytesExact' /\ bytes' + ColBytes[PoolOf[h]] = bytes
      BY <1>1, <1>11, <2>1, DropWeighs DEF Drop
    <3>2. BufType'
      BY <1>1, <1>11, <2>1, Dropped DEF Drop
    <3>3. overdue \/ bytes' <= maxBytes
      BY <1>1, <1>2, <1>11, <3>1, <3>2 DEF SpareInv, BufType
    <3> QED BY <1>11, <3>1, <3>3 DEF BudgetInv, SpareInv
  <2>2. CASE h \notin Buffered
    BY <1>5, <1>11, <2>2 DEF Drop
  <2> QED BY <2>1, <2>2
<1>12. CASE FreeNext
  <2>1. call \in Calls /\ call.op = "free" /\ maxBytes' = maxBytes /\ overdue' = overdue
    BY <1>12 DEF FreeNext, BufInv, TypeOK
  <2>2. CASE call.skip = {}
    BY <1>5, <1>12, <2>1, <2>2, IdleFacts DEF FreeNext
  <2>3. CASE call.skip # {}
    <3>1. PICK h \in call.skip : Drop(h) /\ call' = [call EXCEPT !.skip = @ \ {h}]
      BY <1>12, <2>3 DEF FreeNext
    <3>2. h \in Hashes /\ call'.op = call.op
      BY <2>1, <3>1 DEF Calls
    <3> QED BY <1>11, <2>1, <3>1, <3>2
  <2> QED BY <2>2, <2>3
<1>13. CASE UndoNext
  <2>1. call \in Calls /\ call.op = "undo" /\ maxBytes' = maxBytes /\ overdue' = overdue
    BY <1>13 DEF UndoNext, BufInv, TypeOK
  <2>2. CASE call.undo = <<>>
    BY <1>5, <1>13, <2>1, <2>2, IdleFacts DEF UndoNext
  <2>3. CASE call.undo # <<>>
    <3>1. Drop(Head(call.undo)) /\ call' = [call EXCEPT !.undo = Tail(@)]
      BY <1>13, <2>3 DEF UndoNext
    <3>2. Head(call.undo) \in Hashes /\ call'.op = call.op
      <4>1. call.undo \in Seq(Hashes)
        BY <2>1 DEF Calls
      <4> QED BY <2>1, <2>3, <3>1, <4>1 DEF Calls
    <3> QED BY <1>11, <2>1, <3>1, <3>2
  <2> QED BY <2>2, <2>3
<1> QED BY <1>3, <1>4, <1>6, <1>7, <1>8, <1>9, <1>10, <1>12, <1>13 DEF Next

\* As many columns as fit a budget are no more than the budget has room for.
LEMMA FitsWidth ==
    ASSUME NEW n \in Nat, NEW c \in Nat \ {0}, NEW m \in Nat, n * c <= m
    PROVE  n <= m \div c
<1> DEFINE q == m \div c
<1>1. q \in Nat /\ m = q * c + (m % c) /\ m % c \in Nat /\ m % c < c
  OBVIOUS
<1> SUFFICES ASSUME q + 1 <= n PROVE FALSE
  BY <1>1
<1> HIDE DEF q
<1>2. (q + 1) * c <= n * c /\ (q + 1) * c = q * c + c
  BY <1>1, Products
<1>3. PICK x \in Nat, y \in Nat, r \in Nat : x = q * c /\ y = n * c /\ r = m % c
  BY <1>1
<1>4. m = x + r /\ r < c /\ x + c <= y /\ y <= m
  BY <1>1, <1>2, <1>3
<1> QED BY <1>3, <1>4

\* Inside its byte budget, a block of columns that have bytes is inside its width.
LEMMA WithinWidth ==
    ASSUME BufInv, BytesExact, bytes <= maxBytes, NEW p \in Pools, ColBytes[p] # 0,
           Len(blocks[p]) < ChunkCols[p]
    PROVE  Len(blocks[p]) <= WidthCap(p)
<1> DEFINE n == Len(blocks[p])
           c == ColBytes[p]
<1>1. BufType /\ maxBytes \in Nat \ {0}
  BY TypeSplit, BufferConstants DEF BufInv
<1>2. /\ n \in Nat /\ c \in Nat \ {0} /\ ChunkCols[p] \in Nat
      /\ blockBytes[p] = n * c /\ blockBytes[p] \in Nat /\ blockBytes[p] <= bytes /\ bytes \in Nat
  BY <1>1, CountsRead, BufferConstants DEF Weight
<1>3. n * c <= maxBytes
  BY <1>1, <1>2
<1>4. n <= maxBytes \div c
  BY <1>1, <1>2, <1>3, FitsWidth
<1>5. maxBytes \div c \in Nat
  BY <1>1, <1>2
<1>6. AtLeastOne(c) = c
  BY <1>2 DEF AtLeastOne
<1> HIDE DEF n
<1>7. n <= AtLeastOne(maxBytes \div AtLeastOne(c))
  BY <1>2, <1>4, <1>5, <1>6 DEF AtLeastOne
<1>8. n <= ChunkCols[p]
  BY <1>2 DEF n
<1> QED BY <1>7, <1>8 DEF WidthCap, Lower, n

\* BudgetInv holds with BufInv in every state.
LEMMA BudgetInvariant == Spec => [](BufInv /\ BudgetInv)
<1>1. Init => BudgetInv
  <2> SUFFICES ASSUME Init PROVE BudgetInv
    OBVIOUS
  <2>1. \A p \in Pools : blocks[p] = <<>> /\ blockBytes[p] = 0
    BY DEF Init
  <2>2. bytes = 0 /\ maxBytes \in Nat /\ call.op = "idle"
    BY BufferConstants, IdleFacts DEF Init
  <2>3. Total[Pools] = 0
    BY <2>1, SumOfNothing, TotalIsSum
  <2>4. \A p \in Pools : Len(blocks[p]) = 0 /\ ColBytes[p] \in Nat
    BY <2>1, BufferConstants
  <2>5. BytesExact
    BY <2>1, <2>2, <2>3, <2>4 DEF BytesExact
  <2> QED BY <2>2, <2>5 DEF BudgetInv, SpareInv
<1>2. BufInv /\ BudgetInv /\ [Next]_vars => BudgetInv'
  <2> SUFFICES ASSUME BufInv, BudgetInv, [Next]_vars PROVE BudgetInv'
    OBVIOUS
  <2>1. CASE Next
    BY <2>1, BudgetInvStep
  <2>2. CASE UNCHANGED vars
    <3>1. UNCHANGED buf /\ maxBytes' = maxBytes /\ overdue' = overdue /\ call' = call
      BY <2>2 DEF vars, buf
    <3> QED BY <3>1, SameCounts DEF BudgetInv, SpareInv
  <2> QED BY <2>1, <2>2
<1> QED BY <1>1, <1>2, BufferInvariant, PTL DEF Spec

\* The byte counts are exact in every state, and between calls the buffer is inside its
\* budget and its blocks inside their widths, unless lowering the budget has failed
\* (BudgetKept): evict_over_budget never stops too early.
THEOREM BudgetAlwaysKept == Spec => []BudgetKept
<1>1. BufInv /\ BudgetInv => BudgetKept
  <2> SUFFICES ASSUME BufInv, BudgetInv PROVE BudgetKept
    OBVIOUS
  <2>1. BytesExact /\ SpareInv
    BY DEF BudgetInv
  <2>2. BlocksFitOneChunk
    BY DEF BufInv, WidthInv, BlocksFitOneChunk
  <2>3. ASSUME call.op = "idle", ~overdue
        PROVE  /\ bytes <= maxBytes
               /\ \A p \in Pools : Len(blocks[p]) <= WidthCap(p) \/ ColBytes[p] = 0
    <3>1. bytes <= maxBytes
      BY <2>1, <2>3 DEF SpareInv
    <3>2. \A p \in Pools : Len(blocks[p]) < ChunkCols[p]
      BY <2>2, <2>3 DEF BlocksFitOneChunk
    <3> QED BY <2>1, <3>1, <3>2, WithinWidth
  <2> QED BY <2>1, <2>2, <2>3 DEF BudgetKept, WithinBounds
<1> QED BY <1>1, BudgetInvariant, PTL

=============================================================================
