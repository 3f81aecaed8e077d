--------------------------- MODULE StoreTxnProofs ---------------------------
(***************************************************************************)
(* Proofs about StoreTxn, for every set of owners, arrays, axes, pools and *)
(* requests, and every nesting depth.                                      *)
(***************************************************************************)
EXTENDS StoreTxn, TLAPS

-----------------------------------------------------------------------------
(* The list of writes, and what a mark cuts off it.                        *)

\* A list nothing was put in holds nothing.
LEMMA SinceEmpty ==
    ASSUME NEW m \in Nat
    PROVE  Since(<<>>, m) = {}
BY DEF Since

\* A later cut takes less.
LEMMA SinceMonotone ==
    ASSUME NEW w, NEW m \in Nat, NEW n \in Nat, m <= n,
           NEW S, w \in Seq(S)
    PROVE  Since(w, n) \subseteq Since(w, m)
BY DEF Since

\* Nothing lies past the end of the list.
LEMMA SinceEnd ==
    ASSUME NEW S, NEW w \in Seq(S)
    PROVE  Since(w, Len(w)) = {}
BY DEF Since

\* A call that appends its writes adds exactly them to every cut.
LEMMA SinceAppend ==
    ASSUME NEW S, NEW w \in Seq(S), NEW x \in S, NEW m \in Nat, m <= Len(w)
    PROVE  Since(Append(w, x), m) = Since(w, m) \cup x
<1> DEFINE v == Append(w, x)
<1>1. /\ DOMAIN v = 1 .. (Len(w) + 1)
      /\ DOMAIN w = 1 .. Len(w)
      /\ v[Len(w) + 1] = x
      /\ \A k \in 1 .. Len(w) : v[k] = w[k]
      /\ Len(w) \in Nat
    OBVIOUS
<1>2. Since(v, m) \subseteq Since(w, m) \cup x
    BY <1>1 DEF Since
<1>3. Since(w, m) \subseteq Since(v, m)
    BY <1>1 DEF Since
<1>4. x \subseteq Since(v, m)
    BY <1>1 DEF Since
<1> QED
    BY <1>2, <1>3, <1>4

\* The first n entries of a sequence.
LEMMA Prefix ==
    ASSUME NEW S, NEW w \in Seq(S), NEW n \in Nat, n <= Len(w)
    PROVE  /\ SubSeq(w, 1, n) \in Seq(S)
           /\ Len(SubSeq(w, 1, n)) = n
           /\ DOMAIN SubSeq(w, 1, n) = 1 .. n
           /\ 1 .. n \subseteq DOMAIN w
           /\ \A i \in 1 .. n : SubSeq(w, 1, n)[i] = w[i]
           /\ n >= 1 => SubSeq(w, 1, n) # <<>>
OBVIOUS

\* Splitting a list at n loses nothing and moves nothing across the cut.
LEMMA SinceSplit ==
    ASSUME NEW S, NEW w \in Seq(S), NEW n \in Nat, n <= Len(w), NEW m \in Nat
    PROVE  /\ Since(SubSeq(w, 1, n), m) \subseteq Since(w, m)
           /\ Since(w, m) \subseteq Since(SubSeq(w, 1, n), m) \cup Since(w, n)
<1> DEFINE v == SubSeq(w, 1, n)
<1>1. /\ DOMAIN v = 1 .. n
      /\ DOMAIN w = 1 .. Len(w)
      /\ \A k \in 1 .. n : v[k] = w[k]
      /\ Len(w) \in Nat
    OBVIOUS
<1>2. Since(v, m) \subseteq Since(w, m)
    BY <1>1 DEF Since
<1>3. Since(w, m) \subseteq Since(v, m) \cup Since(w, n)
    BY <1>1 DEF Since
<1> QED
    BY <1>2, <1>3

-----------------------------------------------------------------------------
(* What rows name.                                                         *)

\* Rows name arrays, axes and feature sets of the model.
LEMMA NamedObjects ==
    ASSUME NEW R \in SUBSET Rows
    PROVE  /\ ArraysOf(R) \subseteq Arrays
           /\ AxesOf(R) \subseteq Axes
           /\ FSetsOf(R) \subseteq FeatureSets
           /\ Named(R) \subseteq Objects
BY DEF Rows, ArraysOf, AxesOf, FSetsOf, Named, Objects

\* Fewer rows name less.
LEMMA NamedMonotone ==
    ASSUME NEW R, NEW Q, R \subseteq Q
    PROVE  Named(R) \subseteq Named(Q)
BY DEF ArraysOf, AxesOf, Named

\* What a union names.
LEMMA NamedUnion ==
    ASSUME NEW R, NEW Q
    PROVE  Named(R \cup Q) = Named(R) \cup Named(Q)
BY DEF ArraysOf, AxesOf, Named

\* The rows of a batch are rows, and name what its requests name.
LEMMA BatchRows ==
    ASSUME NEW batch \in Batches
    PROVE  /\ RowsOf(batch) \in SUBSET Rows
           /\ ArraysOf(batch) \subseteq Arrays
           /\ AxesOf(batch) \subseteq Axes
           /\ FSetsOf(batch) \subseteq FeatureSets
           /\ Named(RowsOf(batch)) = ArraysOf(batch) \cup AxesOf(batch)
<1>1. batch \subseteq Requests
    BY TxnConstants
<1>2. \A q \in batch :
         /\ q.owner \in Owners /\ q.name \in Names /\ q.fs \in FeatureSets
         /\ q.arr \in Arrays /\ q.axis \in Axes \cup {NoAxis}
         /\ RowOf(q).arr = q.arr /\ RowOf(q).axis = q.axis
         /\ RowOf(q) \in Rows
    BY <1>1 DEF Requests, Rows, RowOf
<1>3. RowsOf(batch) \in SUBSET Rows
    BY <1>2 DEF RowsOf
<1>4. /\ ArraysOf(batch) \subseteq Arrays
      /\ AxesOf(batch) \subseteq Axes
      /\ FSetsOf(batch) \subseteq FeatureSets
    BY <1>2 DEF ArraysOf, AxesOf, FSetsOf
<1>5. ArraysOf(RowsOf(batch)) = ArraysOf(batch)
    BY <1>2 DEF ArraysOf, RowsOf
<1>6. AxesOf(RowsOf(batch)) = AxesOf(batch)
    BY <1>2 DEF AxesOf, RowsOf
<1> QED
    BY <1>3, <1>4, <1>5, <1>6 DEF Named

\* The removals that may fail are some of those attempted.
LEMMA StuckSubset ==
    ASSUME NEW objs, NEW stuck \in Stuck(objs)
    PROVE  stuck \subseteq objs /\ (~IOFaults => stuck = {})
BY DEF Stuck

-----------------------------------------------------------------------------
(* The transaction invariant: initially, and one lemma per operation.      *)

LEMMA InitInv == Init => TxnInv
<1> SUFFICES ASSUME Init PROVE TxnInv
    OBVIOUS
<1>1. /\ saved = <<>> /\ marks = <<>> /\ written = <<>> /\ heldAt = <<>>
      /\ cat.rows = {} /\ cat \in Catalogs
      /\ buffer = {} /\ file = {} /\ synced = {} /\ cache = {}
    BY DEF Init, Catalogs
<1>2. TypeOK
    BY <1>1 DEF TypeOK, Init
<1>3. Named(cat.rows) = {} /\ AllWritten = {} /\ Buffered = {}
    BY <1>1, SinceEmpty DEF Named, ArraysOf, AxesOf, AllWritten, WrittenSince, Buffered
<1>4. MarksOrdered /\ RollbackFindsItsData
    BY <1>1 DEF MarksOrdered, RollbackFindsItsData, InTxn
<1>5. Committed = cat
    BY <1>1 DEF Committed
<1> QED
    BY <1>1, <1>2, <1>3, <1>4, <1>5
    DEF TxnInv, NoDanglingRow, CommittedUntouched, BufferBelongsToTxn, BufferedOnce,
        CachedAxesStored, UnflushedIsListed

\* Facts every step starts from.
LEMMA Facts ==
    ASSUME TxnInv
    PROVE  /\ cat \in Catalogs /\ cat.rows \in SUBSET Rows
           /\ saved \in Seq(Catalogs)
           /\ \A i \in DOMAIN saved : saved[i] \in Catalogs
           /\ Committed \in Catalogs
           /\ marks \in Seq(Nat) /\ written \in Seq(SUBSET Objects)
           /\ Buffered \subseteq Arrays
           /\ Held \subseteq Objects
           /\ ~InTxn => /\ saved = <<>> /\ written = <<>> /\ buffer = {}
                        /\ AllWritten = {} /\ Buffered = {} /\ cache = {}
<1>1. /\ cat \in Catalogs /\ saved \in Seq(Catalogs)
      /\ marks \in Seq(Nat) /\ written \in Seq(SUBSET Objects)
      /\ buffer \subseteq Arrays \X Pools /\ file \subseteq Objects
    BY DEF TxnInv, TypeOK
<1>2. cat.rows \in SUBSET Rows
    BY <1>1 DEF Catalogs
<1>3. \A i \in DOMAIN saved : saved[i] \in Catalogs
    BY <1>1
<1>4. Committed \in Catalogs
    BY <1>1, <1>3 DEF Committed
<1>5. Buffered \subseteq Arrays
    BY <1>1 DEF Buffered
<1>6. Held \subseteq Objects
    BY <1>1, <1>5 DEF Held, Objects
<1>7. ~InTxn => saved = <<>> /\ written = <<>> /\ buffer = {}
  <2>1. saved # <<>> => Len(saved) = Len(marks)
      BY DEF TxnInv, TypeOK
  <2>2. marks = <<>> => saved = <<>>
      BY <1>1, <2>1
  <2>3. ~InTxn => written = <<>> /\ buffer = {}
      BY DEF TxnInv, MarksOrdered, BufferBelongsToTxn
  <2> QED
      BY <2>2, <2>3 DEF InTxn
<1>8. ~InTxn => AllWritten = {} /\ Buffered = {} /\ cache = {}
    BY <1>7, SinceEmpty DEF AllWritten, WrittenSince, Buffered, TxnInv, CachedAxesStored
<1> QED
    BY <1>1, <1>2, <1>3, <1>4, <1>5, <1>6, <1>7, <1>8

\* begin_transaction: the new level finds what the connection sees.
LEMMA BeginInv == ASSUME TxnInv, Begin PROVE TxnInv'
<1> USE Facts
<1>1. /\ UNCHANGED <<cat, written, pendingFree, cache, buffer, file, synced, attempts>>
      /\ saved' = Append(saved, cat)
      /\ marks' = Append(marks, Len(written))
      /\ heldAt' = Append(heldAt, Held)
      /\ Len(saved) = Len(marks) /\ Len(heldAt) = Len(marks)
    BY DEF Begin, TxnInv, TypeOK, Alive, ForcedBack, InTxn
<1>2. TypeOK'
    BY <1>1 DEF TxnInv, TypeOK
<1>3. /\ Held' = Held /\ AllWritten' = AllWritten /\ Buffered' = Buffered
      /\ \A m : WrittenSince(m)' = WrittenSince(m)
    BY <1>1 DEF Held, AllWritten, WrittenSince, Buffered
<1>4. Committed' = Committed
    BY <1>1 DEF Committed
<1>5. MarksOrdered'
  <2>1. marks' # <<>> /\ Len(marks') = Len(marks) + 1
      BY <1>1
  <2>2. marks'[1] = 0
      BY <1>1 DEF TxnInv, MarksOrdered, InTxn
  <2>3. \A i \in DOMAIN marks : marks'[i] = marks[i] /\ marks[i] <= Len(written)
      BY <1>1 DEF TxnInv, MarksOrdered
  <2>4. marks'[Len(marks) + 1] = Len(written)
      BY <1>1
  <2>5. DOMAIN marks' = DOMAIN marks \cup {Len(marks) + 1} /\ Len(written) \in Nat
      BY <1>1
  <2>6. \A i \in DOMAIN marks' :
            /\ marks'[i] <= Len(written')
            /\ \A j \in DOMAIN marks' : i <= j => marks'[i] <= marks'[j]
    <3> SUFFICES ASSUME NEW i \in DOMAIN marks', NEW j \in DOMAIN marks', i <= j
                 PROVE  marks'[i] <= Len(written) /\ marks'[i] <= marks'[j]
        BY <1>1
    <3>1. CASE j \in DOMAIN marks
        BY <3>1, <2>3, <2>5 DEF TxnInv, MarksOrdered
    <3>2. CASE j = Len(marks) + 1
        BY <3>2, <2>3, <2>4, <2>5
    <3> QED
        BY <3>1, <3>2, <2>5
  <2> QED
      BY <2>1, <2>2, <2>6 DEF MarksOrdered, InTxn
<1>6. RollbackFindsItsData'
  <2> SUFFICES ASSUME NEW i \in DOMAIN saved'
               PROVE  Named(saved'[i].rows) \subseteq Held \ WrittenSince(marks'[i])
      BY <1>3 DEF RollbackFindsItsData
  <2>1. CASE i \in DOMAIN saved
    <3>1. saved'[i] = saved[i] /\ marks'[i] = marks[i]
        BY <1>1, <2>1
    <3> QED
        BY <2>1, <3>1 DEF TxnInv, RollbackFindsItsData
  <2>2. CASE i = Len(saved) + 1
    <3>1. saved'[i] = cat /\ marks'[i] = Len(written)
        BY <1>1, <2>2
    <3>2. WrittenSince(Len(written)) = {}
        BY SinceEnd DEF WrittenSince
    <3> QED
        BY <3>1, <3>2 DEF TxnInv, NoDanglingRow
  <2> QED
      BY <1>1, <2>1, <2>2
<1> QED
    BY <1>1, <1>2, <1>3, <1>4, <1>5, <1>6
    DEF TxnInv, NoDanglingRow, CommittedUntouched, BufferBelongsToTxn, BufferedOnce,
        CachedAxesStored, UnflushedIsListed, InTxn

\* A step that leaves no transaction open owes only this: the rows it leaves
\* are backed by the file, and the file by its last flush.
LEMMA ClosedInv ==
    ASSUME marks' = <<>>, written' = <<>>, saved' = <<>>, heldAt' = <<>>,
           cat' \in Catalogs, pendingFree' \subseteq Objects, cache' = {},
           attempts' \in Nat, buffer' = {}, file' \subseteq Objects, synced' \subseteq Objects,
           Named(cat'.rows) \subseteq file', ~IOFaults => file' \subseteq synced'
    PROVE  TxnInv'
<1>1. TypeOK'
    BY DEF TypeOK
<1>2. AllWritten' = {} /\ Buffered' = {} /\ Held' = file'
    BY SinceEmpty DEF AllWritten, WrittenSince, Buffered, Held
<1>3. MarksOrdered' /\ RollbackFindsItsData'
    BY DEF MarksOrdered, RollbackFindsItsData, InTxn
<1>4. Committed' = cat'
    BY DEF Committed
<1> QED
    BY <1>1, <1>2, <1>3, <1>4
    DEF TxnInv, NoDanglingRow, CommittedUntouched, BufferBelongsToTxn, BufferedOnce,
        CachedAxesStored, UnflushedIsListed

\* A step inside a transaction that keeps its levels, takes nothing out of the
\* store, and puts in only `x`, which was not there and which it records.  The
\* catalog moves freely while its savepoints stand; if SQLite drops them all it
\* returns to the outermost.
LEMMA OpenInv ==
    ASSUME TxnInv, InTxn, UNCHANGED <<marks, heldAt>>,
           NEW x \in SUBSET Objects,
           written' = IF x = {} THEN written ELSE Append(written, x),
           x \cap Held = {}, Held \subseteq Held',
           \/ UNCHANGED saved /\ (saved # <<>> \/ cat' = cat)
           \/ saved # <<>> /\ saved' = <<>> /\ cat' = saved[1],
           cat' \in Catalogs, pendingFree' \subseteq Objects,
           cache' \subseteq FeatureSets \cup Axes, cache' \cap Axes \subseteq file',
           attempts' \in Nat, buffer' \subseteq Arrays \X Pools,
           file' \subseteq Objects, synced' \subseteq Objects,
           UNCHANGED saved => Named(cat'.rows) \subseteq Held',
           Buffered' \subseteq Buffered \cup x, (~IOFaults => Buffered' \cap file' = {}), BufferedOnce',
           ~IOFaults => file' \ synced' \subseteq AllWritten \cup x
    PROVE  TxnInv'
<1>0. /\ saved \in Seq(Catalogs) /\ \A i \in DOMAIN saved : saved[i] \in Catalogs
      /\ marks \in Seq(Nat) /\ written \in Seq(SUBSET Objects)
    BY Facts
<1>1. written' \in Seq(SUBSET Objects) /\ Len(written) <= Len(written')
    BY <1>0
<1>2. TypeOK'
  <2>1. saved' \in Seq(Catalogs) /\ (saved' # <<>> => Len(saved') = Len(marks))
    <3>1. saved # <<>> => Len(saved) = Len(marks)
        BY DEF TxnInv, TypeOK
    <3>2. CASE saved' = saved
        BY <1>0, <3>1, <3>2
    <3>3. CASE saved' = <<>>
        BY <3>3
    <3> QED
        BY <3>2, <3>3
  <2>2. marks' \in Seq(Nat) /\ heldAt' \in Seq(SUBSET Objects) /\ Len(heldAt') = Len(marks')
      BY DEF TxnInv, TypeOK
  <2> QED
      BY <1>1, <2>1, <2>2 DEF TypeOK
<1>3. \A i \in DOMAIN marks : marks[i] \in Nat /\ marks[i] <= Len(written)
    BY <1>0 DEF TxnInv, MarksOrdered
<1>4. MarksOrdered'
    BY <1>0, <1>1, <1>3 DEF TxnInv, MarksOrdered, InTxn
<1>5. \A m \in Nat : m <= Len(written) => WrittenSince(m)' = WrittenSince(m) \cup x
  <2> SUFFICES ASSUME NEW m \in Nat, m <= Len(written)
               PROVE  Since(written', m) = Since(written, m) \cup x
      BY DEF WrittenSince
  <2>1. CASE x = {}
      BY <2>1
  <2>2. CASE x # {}
    <3> DEFINE T == SUBSET Objects
    <3>1. written' = Append(written, x) /\ written \in Seq(T) /\ x \in T
        BY <1>0, <2>2
    <3> HIDE DEF T
    <3>2. Since(Append(written, x), m) = Since(written, m) \cup x
        BY <3>1, SinceAppend
    <3> QED
        BY <3>1, <3>2
  <2> QED
      BY <2>1, <2>2
<1>6. AllWritten' = AllWritten \cup x
    BY <1>0, <1>5 DEF AllWritten
<1>7. RollbackFindsItsData'
  <2> SUFFICES ASSUME NEW i \in DOMAIN saved'
               PROVE  Named(saved'[i].rows) \subseteq Held' \ WrittenSince(marks[i])'
      BY DEF RollbackFindsItsData
  <2>1. saved' = saved /\ i \in DOMAIN marks
    <3>1. saved' # <<>>
        OBVIOUS
    <3>2. saved' = saved
        BY <3>1
    <3>3. Len(saved) = Len(marks)
        BY <3>1, <3>2 DEF TxnInv, TypeOK
    <3> QED
        BY <1>0, <3>2, <3>3
  <2>2. Named(saved[i].rows) \subseteq Held \ WrittenSince(marks[i])
      BY <2>1 DEF TxnInv, RollbackFindsItsData
  <2>3. WrittenSince(marks[i])' = WrittenSince(marks[i]) \cup x
      BY <1>3, <1>5, <2>1
  <2> QED
      BY <2>1, <2>2, <2>3
<1>8. Committed' = Committed
    BY DEF Committed
<1>9. CommittedUntouched'
    BY <1>6, <1>8 DEF TxnInv, CommittedUntouched
<1>10. NoDanglingRow'
  <2>1. CASE UNCHANGED saved
      BY <2>1 DEF NoDanglingRow
  <2>2. CASE saved # <<>> /\ saved' = <<>> /\ cat' = saved[1]
    <3>1. 1 \in DOMAIN saved
        BY <1>0, <2>2
    <3>2. Named(saved[1].rows) \subseteq Held
        BY <3>1 DEF TxnInv, RollbackFindsItsData
    <3> QED
        BY <2>2, <3>2 DEF NoDanglingRow
  <2> QED
      BY <2>1, <2>2
<1>11. BufferBelongsToTxn'
    BY <1>6 DEF TxnInv, BufferBelongsToTxn, InTxn
<1>12. UnflushedIsListed' /\ CachedAxesStored'
    BY <1>6 DEF UnflushedIsListed, CachedAxesStored, InTxn
<1> QED
    BY <1>2, <1>4, <1>7, <1>9, <1>10, <1>11, <1>12 DEF TxnInv

\* commit_transaction of an inner level.
LEMMA CommitInnerInv == ASSUME TxnInv, CommitInner PROVE TxnInv'
<1> DEFINE n == Len(marks) - 1
<1>1. /\ UNCHANGED <<cat, written, pendingFree, cache, buffer, file, synced, attempts>>
      /\ Len(saved) = Len(marks) /\ Len(heldAt) = Len(marks)
      /\ n \in Nat /\ n >= 1 /\ Len(marks) = n + 1
      /\ saved' = SubSeq(saved, 1, n)
      /\ marks' = SubSeq(marks, 1, n)
      /\ heldAt' = SubSeq(heldAt, 1, n)
    BY Facts DEF CommitInner, TxnInv, TypeOK, Alive, ForcedBack, InTxn
<1>2. saved \in Seq(Catalogs) /\ marks \in Seq(Nat) /\ heldAt \in Seq(SUBSET Objects)
    BY DEF TxnInv, TypeOK
<1> HIDE DEF n
<1>31. n <= Len(saved) /\ n <= Len(marks) /\ n <= Len(heldAt)
    BY <1>1
<1>32. /\ saved' \in Seq(Catalogs) /\ Len(saved') = n /\ saved' # <<>>
       /\ DOMAIN saved' = 1 .. n
       /\ \A i \in 1 .. n : saved'[i] = saved[i] /\ i \in DOMAIN saved
    BY ZenonT(30), <1>1, <1>2, <1>31, Prefix
<1>33. /\ marks' \in Seq(Nat) /\ Len(marks') = n /\ marks' # <<>>
       /\ DOMAIN marks' = 1 .. n
       /\ \A i \in 1 .. n : marks'[i] = marks[i] /\ i \in DOMAIN marks
    <2>1. marks \in Seq(Nat) /\ n \in Nat /\ n >= 1 /\ n <= Len(marks)
        BY <1>1, <1>2, <1>31
    <2>2. marks' \in Seq(Nat) /\ Len(marks') = n /\ DOMAIN marks' = 1 .. n
        BY <1>1, <2>1
    <2>3. \A i \in 1 .. n : marks'[i] = marks[i] /\ i \in DOMAIN marks
        BY <1>1, <2>1
    <2> QED
        BY <2>1, <2>2, <2>3
<1>34. heldAt' \in Seq(SUBSET Objects) /\ Len(heldAt') = n
    BY <1>1, <1>2, <1>31, Prefix
<1>3. 1 \in 1 .. n
    BY <1>1
<1>4. TypeOK'
    BY <1>1, <1>32, <1>33, <1>34 DEF TxnInv, TypeOK
<1>5. /\ Held' = Held /\ AllWritten' = AllWritten /\ Buffered' = Buffered
      /\ \A m : WrittenSince(m)' = WrittenSince(m)
    BY <1>1 DEF Held, AllWritten, WrittenSince, Buffered
<1>6. Committed' = Committed
    BY <1>1, <1>3, <1>32 DEF Committed
<1>7. MarksOrdered'
  <2>1. InTxn
      BY <1>1, <1>2 DEF InTxn
  <2>2. marks[1] = 0
      BY <2>1 DEF TxnInv, MarksOrdered
  <2>3. \A i, j \in 1 .. n :
            /\ marks[i] <= Len(written)
            /\ i <= j => marks[i] <= marks[j]
      BY <1>33 DEF TxnInv, MarksOrdered
  <2> QED
      BY <1>1, <1>3, <1>33, <2>2, <2>3 DEF MarksOrdered, InTxn
<1>8. RollbackFindsItsData'
    BY <1>32, <1>33, <1>5 DEF TxnInv, RollbackFindsItsData
<1> QED
    BY <1>1, <1>33, <1>4, <1>5, <1>6, <1>7, <1>8
    DEF TxnInv, NoDanglingRow, CommittedUntouched, BufferBelongsToTxn, BufferedOnce,
        CachedAxesStored, UnflushedIsListed, InTxn

\* commit_transaction of the outermost level: what it writes out and flushes
\* before the release is exactly what the rows it publishes still lack.
LEMMA CommitOutermostInv == ASSUME TxnInv, CommitOutermost PROVE TxnInv'
<1> DEFINE garbage == CommitGarbage
           out     == IF written = <<>> THEN {} ELSE CommitWrites
           onFile  == file \cup {e[1] : e \in out}
<1>1. PICK stuck \in Stuck(garbage) : RemoveWrites(buffer \ out, onFile, garbage, stuck)
    BY DEF CommitOutermost
<1>2. /\ saved' = <<>> /\ marks' = <<>> /\ written' = <<>> /\ heldAt' = <<>>
      /\ pendingFree' = {} /\ cache' = {} /\ cat' = cat /\ attempts' = attempts
      /\ synced' = IF written = <<>> THEN synced ELSE onFile
    BY DEF CommitOutermost, ResetTxn
<1>3. /\ cat \in Catalogs /\ attempts \in Nat /\ file \subseteq Objects
      /\ synced \subseteq Objects /\ buffer \subseteq Arrays \X Pools
    BY DEF TxnInv, TypeOK
<1>4. garbage \cap Named(cat.rows) = {}
    BY DEF CommitGarbage, Unreferenced
<1>5. Named(cat.rows) \subseteq file \cup Buffered
    BY DEF TxnInv, NoDanglingRow, Held
<1>6. written = <<>> => buffer = {} /\ (~IOFaults => file \subseteq synced)
  <2>1. written = <<>> => AllWritten = {}
      BY SinceEmpty DEF AllWritten, WrittenSince
  <2>2. written = <<>> => Buffered = {}
      BY <2>1 DEF TxnInv, BufferBelongsToTxn
  <2> QED
      BY <2>1, <2>2 DEF TxnInv, UnflushedIsListed, Buffered
<1>7. buffer' = {}
    BY <1>1, <1>6 DEF RemoveWrites, CommitWrites
<1>8. onFile \subseteq Objects
    BY <1>3 DEF Objects, CommitWrites
<1>9. file' \subseteq onFile /\ onFile \ garbage \subseteq file'
    BY <1>1 DEF RemoveWrites
<1>10. Named(cat.rows) \subseteq onFile
    BY <1>4, <1>5, <1>6 DEF Buffered, CommitWrites
<1>11. Named(cat'.rows) \subseteq file'
    BY <1>2, <1>4, <1>9, <1>10
<1>12. ~IOFaults => file' \subseteq synced'
    BY <1>2, <1>6, <1>9
<1>13. synced' \subseteq Objects /\ file' \subseteq Objects
    BY <1>2, <1>3, <1>8, <1>9
<1> HIDE DEF garbage, out, onFile
<1> QED
    BY <1>2, <1>3, <1>7, <1>11, <1>12, <1>13, ClosedInv

\* Freeing, now or at the outermost commit, what no row refers to any more.
LEMMA FreeInv ==
    ASSUME TxnInv, Alive, NEW G \in SUBSET Objects, FreeOrDefer(G),
           cat' \in Catalogs, Named(cat'.rows) \subseteq Named(cat.rows),
           G \cap Named(cat'.rows) = {}, cache' \in {cache, {}},
           UNCHANGED <<saved, marks, written, synced, heldAt, attempts>>
    PROVE  TxnInv'
<1>1. /\ attempts \in Nat /\ file \subseteq Objects /\ synced \subseteq Objects
      /\ pendingFree \subseteq Objects /\ buffer \subseteq Arrays \X Pools
      /\ Len(heldAt) = Len(marks) /\ heldAt \in Seq(SUBSET Objects)
      /\ cache' \subseteq FeatureSets \cup Axes /\ cache' \cap Axes \subseteq file
    BY DEF TxnInv, TypeOK, CachedAxesStored
<1>2. CASE InTxn
  <2>1. /\ pendingFree' = pendingFree \cup G
        /\ UNCHANGED <<buffer, file>>
      BY <1>2 DEF FreeOrDefer
  <2>2. Held' = Held /\ Buffered' = Buffered
      BY <2>1 DEF Held, Buffered
  <2>3. Named(cat'.rows) \subseteq Held
      BY DEF TxnInv, NoDanglingRow
  <2>4. (~IOFaults => Buffered \cap file = {}) /\ BufferedOnce'
      BY <2>1 DEF TxnInv, BufferBelongsToTxn, BufferedOnce
  <2>5. ~IOFaults => file \ synced \subseteq AllWritten
      BY DEF TxnInv, UnflushedIsListed
  <2>6. saved # <<>>
      BY <1>2 DEF Alive, ForcedBack
  <2> QED
      BY <1>1, <1>2, <2>1, <2>2, <2>3, <2>4, <2>5, <2>6, OpenInv
<1>3. CASE ~InTxn
  <2>1. PICK stuck \in Stuck(G) : RemoveWrites(buffer, file, G, stuck)
      BY <1>3 DEF FreeOrDefer
  <2>2. pendingFree' = pendingFree
      BY <1>3 DEF FreeOrDefer
  <2>3. /\ buffer = {} /\ saved = <<>> /\ written = <<>> /\ Buffered = {}
        /\ AllWritten = {} /\ cache' = {}
      BY <1>3, Facts
  <2>4. marks = <<>>
      BY <1>3 DEF InTxn
  <2>5. heldAt = <<>>
      BY <1>1, <2>4
  <2>6. buffer' = {} /\ file' \subseteq file /\ file \ G \subseteq file'
      BY <2>1, <2>3 DEF RemoveWrites
  <2>7. Named(cat.rows) \subseteq file
      BY <2>3 DEF TxnInv, NoDanglingRow, Held
  <2>8. ~IOFaults => file \subseteq synced
      BY <2>3 DEF TxnInv, UnflushedIsListed
  <2> QED
      BY <1>1, <2>2, <2>3, <2>4, <2>5, <2>6, <2>7, <2>8, ClosedInv
<1> QED
    BY <1>2, <1>3

\* remove_by_ids and its kin.
LEMMA RemoveInv ==
    ASSUME TxnInv, NEW S \in SUBSET cat.rows, Remove(S)
    PROVE  TxnInv'
<1> DEFINE G == ArraysOf(S) \ ArraysOf(cat.rows \ S)
<1>1. cat \in Catalogs /\ cat.rows \in SUBSET Rows /\ cache \subseteq FeatureSets \cup Axes
    BY Facts DEF TxnInv, TypeOK
<1>2. cat' \in Catalogs /\ cat'.rows = cat.rows \ S
    BY <1>1 DEF Remove, Catalogs
<1>3. Named(cat'.rows) \subseteq Named(cat.rows)
    BY <1>2, NamedMonotone
<1>4. G \in SUBSET Objects /\ G \subseteq Arrays
    BY <1>1, NamedObjects DEF Objects
<1>5. AxesOf(cat'.rows) \subseteq Axes
    BY <1>1, <1>2, NamedObjects
<1>6. G \cap Named(cat'.rows) = {}
    BY <1>2, <1>4, <1>5, TxnConstants DEF Named
<1>7. /\ Alive /\ FreeOrDefer(G) /\ cache' = cache
      /\ UNCHANGED <<saved, marks, written, synced, heldAt, attempts>>
    BY DEF Remove
<1> QED
    BY <1>1, <1>2, <1>3, <1>4, <1>6, <1>7, FreeInv

\* clear_time_series.
LEMMA ClearInv ==
    ASSUME TxnInv, NEW S \in SUBSET cat.rows, NEW all \in BOOLEAN, Clear(S, all)
    PROVE  TxnInv'
<1>1. cat \in Catalogs /\ cat.rows \in SUBSET Rows /\ file \subseteq Objects
    BY Facts DEF TxnInv, TypeOK
<1>2. cat' \in Catalogs /\ cat'.rows = cat.rows \ S
    BY <1>1 DEF Clear, Catalogs
<1>3. Named(cat'.rows) \subseteq Named(cat.rows)
    BY <1>2, NamedMonotone
<1>4. PICK swept \in {TRUE, FALSE} :
          FreeOrDefer((ArraysOf(S) \ ArraysOf(cat'.rows))
                         \cup IF swept THEN (file \cap Axes) \ AxesOf(cat'.rows) ELSE {})
    BY DEF Clear
<1> DEFINE G == (ArraysOf(S) \ ArraysOf(cat'.rows))
                  \cup IF swept THEN (file \cap Axes) \ AxesOf(cat'.rows) ELSE {}
<1>5. ArraysOf(S) \subseteq Arrays
    BY <1>1, NamedObjects
<1>6. AxesOf(cat'.rows) \subseteq Axes /\ ArraysOf(cat'.rows) \subseteq Arrays
    BY <1>1, <1>2, NamedObjects
<1>7. G \in SUBSET Objects /\ G \cap Named(cat'.rows) = {}
    BY <1>5, <1>6, TxnConstants DEF Named, Objects
<1>8. /\ Alive /\ FreeOrDefer(G) /\ cache' = {}
      /\ UNCHANGED <<saved, marks, written, synced, heldAt, attempts>>
    BY <1>4 DEF Clear
<1> HIDE DEF G
<1> QED
    BY <1>2, <1>3, <1>7, <1>8, FreeInv

\* Writing buffered blocks out moves their arrays and loses none.
LEMMA SpillMoves ==
    ASSUME TxnInv, NEW out \in SUBSET buffer, NEW extra \in SUBSET Objects,
           ~IOFaults => extra = {},
           buffer' = buffer \ out,
           file' = file \cup {e[1] : e \in out} \cup extra
    PROVE  /\ Held' = Held \cup extra
           /\ Buffered' \subseteq Buffered
           /\ (~IOFaults => Buffered' \cap file' = {})
           /\ BufferedOnce'
           /\ buffer' \subseteq Arrays \X Pools
           /\ file' \subseteq Objects
           /\ file' \subseteq file \cup Buffered \cup extra
<1>1. /\ buffer \subseteq Arrays \X Pools /\ file \subseteq Objects
      /\ (~IOFaults => Buffered \cap file = {})
      /\ \A e, f \in buffer : e[1] = f[1] => e = f
    BY DEF TxnInv, TypeOK, BufferBelongsToTxn, BufferedOnce
<1>2. /\ Buffered = {e[1] : e \in buffer} /\ Buffered' = {e[1] : e \in buffer'}
      /\ Held = file \cup Buffered /\ Held' = file' \cup Buffered'
    BY DEF Buffered, Held
<1>3. Buffered' \subseteq Buffered /\ Held' = Held \cup extra
    BY <1>2
<1>4. (~IOFaults => Buffered' \cap file' = {})
    BY <1>1, <1>2
<1>5. BufferedOnce'
    BY <1>1 DEF BufferedOnce
<1>6. buffer' \subseteq Arrays \X Pools /\ file' \subseteq Objects
    BY <1>1 DEF Objects
<1>7. file' \subseteq file \cup Buffered \cup extra
    BY <1>2
<1> QED
    BY <1>3, <1>4, <1>5, <1>6, <1>7

\* A step that only writes blocks out, whether or not it then flushes, and
\* whether or not SQLite gives the transaction up meanwhile.
LEMMA SpillInv ==
    ASSUME TxnInv, InTxn, NEW out \in SUBSET buffer,
           NEW extra \in SUBSET Objects, ~IOFaults => extra = {},
           buffer' = buffer \ out, file' = file \cup {e[1] : e \in out} \cup extra,
           synced' = synced \/ synced' = file',
           UNCHANGED <<marks, written, heldAt>>,
           pendingFree' \subseteq Objects, cache' \in {cache, {}},
           attempts' \in Nat, cat' \in Catalogs,
           \/ UNCHANGED saved /\ cat' = cat
           \/ UNCHANGED saved /\ saved # <<>> /\ cat'.rows = cat.rows
           \/ saved # <<>> /\ saved' = <<>> /\ cat' = saved[1]
    PROVE  TxnInv'
<1>1. /\ Held' = Held \cup extra /\ Buffered' \subseteq Buffered
      /\ (~IOFaults => Buffered' \cap file' = {}) /\ BufferedOnce'
      /\ buffer' \subseteq Arrays \X Pools /\ file' \subseteq Objects
      /\ file' \subseteq file \cup Buffered \cup extra
    BY SpillMoves
<1>2. synced' \subseteq Objects
    BY <1>1 DEF TxnInv, TypeOK
<1>3. ~IOFaults => file' \ synced' \subseteq AllWritten
    BY <1>1 DEF TxnInv, UnflushedIsListed, BufferBelongsToTxn
<1>4. UNCHANGED saved => Named(cat'.rows) \subseteq Held'
  <2>1. Named(cat.rows) \subseteq Held
      BY DEF TxnInv, NoDanglingRow
  <2>2. UNCHANGED saved => cat'.rows = cat.rows
      OBVIOUS
  <2> QED
      BY <1>1, <2>1, <2>2
<1>5. cache' \subseteq FeatureSets \cup Axes /\ cache' \cap Axes \subseteq file'
    BY DEF TxnInv, TypeOK, CachedAxesStored
<1> DEFINE none == {}
<1>6. /\ none \in SUBSET Objects /\ none \cap Held = {}
      /\ written' = IF none = {} THEN written ELSE Append(written, none)
      /\ Buffered' \subseteq Buffered \cup none
      /\ ~IOFaults => file' \ synced' \subseteq AllWritten \cup none
    BY <1>1, <1>3
<1>7. /\ Held \subseteq Held'
      /\ \/ UNCHANGED saved /\ (saved # <<>> \/ cat' = cat)
         \/ saved # <<>> /\ saved' = <<>> /\ cat' = saved[1]
    BY <1>1
<1> QED
    BY <1>1, <1>2, <1>4, <1>5, <1>6, <1>7, OpenInv

\* A commit that fails before its release.
LEMMA CommitFailsInv == ASSUME TxnInv, CommitFails PROVE TxnInv'
<1>1. InTxn /\ saved # <<>>
  <2>1. Len(marks) = 1 /\ Alive
      BY DEF CommitFails
  <2> QED
      BY <2>1 DEF InTxn, Alive, ForcedBack
<1>2. /\ UNCHANGED <<marks, written, heldAt, pendingFree, cache>>
      /\ pendingFree \subseteq Objects /\ cache \subseteq FeatureSets \cup Axes
      /\ attempts' \in Nat /\ cat \in Catalogs
    BY DEF CommitFails, txn, TxnInv, TypeOK
<1>3. PICK out \in SUBSET buffer, torn \in SUBSET Objects :
          /\ buffer' = buffer \ out
          /\ file' = file \cup {e[1] : e \in out} \cup torn
          /\ synced' = synced \/ synced' = file'
          /\ ~IOFaults => torn = {}
  <2>1. CASE \E P \in SUBSET Pools :
                LET o == {e \in CommitWrites : e[2] \in P}
                IN  /\ buffer' = buffer \ o
                    /\ \E torn \in Stuck({e[1] : e \in CommitWrites \ o}) :
                           file' = file \cup {e[1] : e \in o} \cup torn
                    /\ UNCHANGED synced
    <3>1. PICK P \in SUBSET Pools :
              LET o == {e \in CommitWrites : e[2] \in P}
              IN  /\ buffer' = buffer \ o
                  /\ \E torn \in Stuck({e[1] : e \in CommitWrites \ o}) :
                         file' = file \cup {e[1] : e \in o} \cup torn
                  /\ UNCHANGED synced
        BY <2>1
    <3> DEFINE o == {e \in CommitWrites : e[2] \in P}
               left == {e[1] : e \in CommitWrites \ o}
    <3>2. PICK torn \in Stuck(left) : file' = file \cup {e[1] : e \in o} \cup torn
        BY <3>1
    <3>3. o \in SUBSET buffer /\ left \subseteq Objects
        BY DEF CommitWrites, TxnInv, TypeOK, Objects
    <3>4. torn \subseteq left /\ (~IOFaults => torn = {})
        BY <3>2, StuckSubset
    <3>5. buffer' = buffer \ o /\ synced' = synced
        BY <3>1
    <3> HIDE DEF o, left
    <3> QED
        BY <3>2, <3>3, <3>4, <3>5
  <2>2. CASE /\ buffer' = buffer \ CommitWrites
             /\ file' = file \cup {e[1] : e \in CommitWrites}
             /\ synced' = file'
    <3> DEFINE none == {}
    <3>1. /\ CommitWrites \in SUBSET buffer /\ none \in SUBSET Objects
          /\ file' = file \cup {e[1] : e \in CommitWrites} \cup none
        BY <2>2 DEF CommitWrites
    <3> QED
        BY <2>2, <3>1
  <2> QED
      BY <2>1, <2>2 DEF CommitFails
<1>4. \/ UNCHANGED saved /\ cat' = cat
      \/ saved # <<>> /\ saved' = <<>> /\ cat' = saved[1]
    BY DEF CommitFails, CatalogUnwinds
<1>5. cat' \in Catalogs
    BY <1>1, <1>2, <1>4, Facts
<1> QED
    BY <1>1, <1>2, <1>3, <1>4, <1>5, SpillInv

\* A catalog call that fails inside a transaction.
LEMMA CatalogCallFailsInv == ASSUME TxnInv, CatalogCallFails PROVE TxnInv'
<1>1. /\ InTxn /\ saved # <<>>
    BY DEF CatalogCallFails, Alive, ForcedBack
<1>2. /\ UNCHANGED <<marks, written, heldAt, pendingFree, buffer, file, synced>>
      /\ pendingFree \subseteq Objects /\ cache' \in {cache, {}}
      /\ attempts' \in Nat /\ cat \in Catalogs
    BY DEF CatalogCallFails, TxnInv, TypeOK
<1>3. \/ UNCHANGED saved /\ cat' = cat
      \/ saved # <<>> /\ saved' = <<>> /\ cat' = saved[1]
    BY DEF CatalogCallFails, CatalogUnwinds
<1>4. cat' \in Catalogs
    BY <1>1, <1>2, <1>3, Facts
<1> DEFINE none == {}
<1>5. /\ none \in SUBSET Objects /\ none \in SUBSET buffer
      /\ buffer' = buffer \ none
      /\ file' = file \cup {e[1] : e \in none} \cup none
    BY <1>2
<1> QED
    BY <1>1, <1>2, <1>3, <1>4, <1>5, SpillInv

\* A step that changes nothing but the catalog, to rows the store can back.
LEMMA CatalogOnlyInv ==
    ASSUME TxnInv, Alive,
           UNCHANGED <<saved, marks, written, pendingFree, cache, heldAt, buffer, file, synced>>,
           attempts' = attempts, cat' \in Catalogs, Named(cat'.rows) \subseteq Held
    PROVE  TxnInv'
<1>1. /\ attempts \in Nat /\ pendingFree \subseteq Objects
      /\ cache \subseteq FeatureSets \cup Axes /\ cache \cap Axes \subseteq file
      /\ file \subseteq Objects /\ synced \subseteq Objects /\ buffer \subseteq Arrays \X Pools
      /\ Len(heldAt) = Len(marks) /\ heldAt \in Seq(SUBSET Objects)
    BY DEF TxnInv, TypeOK, CachedAxesStored
<1>2. Held' = Held /\ Buffered' = Buffered
    BY DEF Held, Buffered
<1>3. /\ ~IOFaults => Buffered \cap file = {}
      /\ BufferedOnce'
      /\ ~IOFaults => file \ synced \subseteq AllWritten
    BY DEF TxnInv, BufferBelongsToTxn, BufferedOnce, UnflushedIsListed
<1>4. CASE InTxn
  <2>1. saved # <<>>
      BY <1>4 DEF Alive, ForcedBack
  <2> DEFINE none == {}
  <2>2. /\ none \in SUBSET Objects /\ none \cap Held = {}
        /\ written' = IF none = {} THEN written ELSE Append(written, none)
      OBVIOUS
  <2>3. /\ UNCHANGED <<marks, heldAt, saved>> /\ Held \subseteq Held'
        /\ pendingFree' \subseteq Objects /\ cache' \subseteq FeatureSets \cup Axes
        /\ cache' \cap Axes \subseteq file' /\ attempts' \in Nat
        /\ buffer' \subseteq Arrays \X Pools
        /\ file' \subseteq Objects /\ synced' \subseteq Objects
        /\ Named(cat'.rows) \subseteq Held' /\ Buffered' \subseteq Buffered \cup none
        /\ ~IOFaults => Buffered' \cap file' = {}
        /\ BufferedOnce'
        /\ ~IOFaults => file' \ synced' \subseteq AllWritten \cup none
      BY <1>1, <1>2, <1>3
  <2> QED
      BY <1>4, <2>1, <2>2, <2>3, OpenInv
<1>5. CASE ~InTxn
  <2>1. /\ buffer = {} /\ saved = <<>> /\ written = <<>> /\ Buffered = {}
        /\ AllWritten = {} /\ cache = {}
      BY <1>5, Facts
  <2>2. marks = <<>>
      BY <1>5 DEF InTxn
  <2>3. heldAt = <<>>
      BY <1>1, <2>2
  <2>4. Named(cat'.rows) \subseteq file
      BY <2>1 DEF Held
  <2>5. ~IOFaults => file \subseteq synced
      BY <1>3, <2>1
  <2> QED
      BY <1>1, <2>1, <2>2, <2>3, <2>4, <2>5, ClosedInv
<1> QED
    BY <1>4, <1>5

\* copy_time_series: the new row names what the old one does.
LEMMA CopyInv ==
    ASSUME TxnInv, NEW r \in cat.rows, NEW owner \in Owners, Copy(r, owner)
    PROVE  TxnInv'
<1> DEFINE c == [r EXCEPT !.owner = owner]
<1>1. /\ UNCHANGED <<saved, marks, written, pendingFree, cache, heldAt, buffer, file, synced>>
      /\ attempts' = attempts
      /\ cat' = [cat EXCEPT !.rows = @ \cup {c}]
      /\ Alive
    BY DEF Copy, txn
<1>2. cat \in Catalogs /\ cat.rows \in SUBSET Rows
    BY Facts
<1>3. c \in Rows /\ c.arr = r.arr /\ c.axis = r.axis
    BY <1>2 DEF Rows
<1>4. cat' \in Catalogs /\ cat'.rows = cat.rows \cup {c}
    BY <1>1, <1>2, <1>3 DEF Catalogs
<1>5. Named({c}) \subseteq Named(cat.rows)
    BY <1>3 DEF Named, ArraysOf, AxesOf
<1>6. Named(cat.rows \cup {c}) = Named(cat.rows) \cup Named({c})
    BY NamedUnion
<1>7. Named(cat'.rows) \subseteq Held
    BY <1>4, <1>5, <1>6 DEF TxnInv, NoDanglingRow
<1> HIDE DEF c
<1> QED
    BY <1>1, <1>4, <1>7, CatalogOnlyInv

\* import_association_rows checks that the store holds what its rows name.
LEMMA ImportInv ==
    ASSUME TxnInv, NEW batch \in Batches, Import(batch)
    PROVE  TxnInv'
<1>1. /\ UNCHANGED <<saved, marks, written, pendingFree, cache, heldAt, buffer, file, synced>>
      /\ attempts' = attempts /\ Alive
      /\ ArraysOf(batch) \subseteq Held /\ AxesOf(batch) \subseteq file
      /\ cat' = [rows |-> cat.rows \cup RowsOf(batch),
                 fsets |-> cat.fsets \cup FSetsOf(batch)]
    BY DEF Import, txn
<1>2. cat \in Catalogs
    BY Facts
<1>3. /\ RowsOf(batch) \in SUBSET Rows /\ FSetsOf(batch) \subseteq FeatureSets
      /\ Named(RowsOf(batch)) = ArraysOf(batch) \cup AxesOf(batch)
    BY BatchRows
<1>4. cat' \in Catalogs /\ cat'.rows = cat.rows \cup RowsOf(batch)
    BY <1>1, <1>2, <1>3 DEF Catalogs
<1>5. Named(cat'.rows) = Named(cat.rows) \cup Named(RowsOf(batch))
    BY <1>4, NamedUnion
<1>6. Named(cat.rows) \subseteq Held /\ file \subseteq Held
    BY DEF TxnInv, NoDanglingRow, Held
<1>7. Named(cat'.rows) \subseteq Held
    BY <1>1, <1>3, <1>5, <1>6
<1> QED
    BY <1>1, <1>4, <1>7, CatalogOnlyInv

\* locate_array, a smaller byte budget, or a flush that fails half way.
LEMMA WriteBlocksInv ==
    ASSUME TxnInv, NEW P \in SUBSET Pools, WriteBlocks(P)
    PROVE  TxnInv'
<1> DEFINE out == {e \in buffer : e[2] \in P}
<1>1. /\ buffer # {} /\ out \in SUBSET buffer /\ buffer' = buffer \ out
      /\ UNCHANGED <<cat, saved, marks, written, pendingFree, cache, heldAt, synced, attempts>>
    BY DEF WriteBlocks, txn
<1>2. PICK torn \in Stuck(Buffered) : file' = file \cup {e[1] : e \in out} \cup torn
    BY DEF WriteBlocks
<1>3. torn \in SUBSET Objects /\ (~IOFaults => torn = {})
    BY <1>2, StuckSubset, Facts DEF Objects
<1>4. InTxn
    BY <1>1, Facts
<1>5. /\ pendingFree' \subseteq Objects /\ attempts' \in Nat /\ cat' \in Catalogs
    BY <1>1 DEF TxnInv, TypeOK
<1> HIDE DEF out
<1> QED
    BY <1>1, <1>2, <1>3, <1>4, <1>5, SpillInv

\* Store::flush.
LEMMA FlushInv == ASSUME TxnInv, Flush PROVE TxnInv'
<1>1. /\ buffer' = {} /\ file' = Held /\ synced' = file'
      /\ UNCHANGED <<cat, saved, marks, written, pendingFree, cache, heldAt, attempts>>
    BY DEF Flush, txn
<1>2. /\ pendingFree \subseteq Objects /\ attempts \in Nat /\ cat \in Catalogs
      /\ Len(heldAt) = Len(marks) /\ heldAt \in Seq(SUBSET Objects)
    BY DEF TxnInv, TypeOK
<1>3. CASE InTxn
  <2> DEFINE out == buffer
             none == {}
  <2>1. /\ out \in SUBSET buffer /\ buffer' = buffer \ out
        /\ file' = file \cup {e[1] : e \in out} \cup none
        /\ none \in SUBSET Objects
      BY <1>1 DEF Held, Buffered
  <2> HIDE DEF out
  <2> QED
      BY <1>1, <1>2, <1>3, <2>1, SpillInv
<1>4. CASE ~InTxn
  <2>1. /\ saved = <<>> /\ written = <<>> /\ marks = <<>> /\ cache = {}
      BY <1>4, Facts DEF InTxn
  <2>2. heldAt = <<>>
      BY <1>2, <2>1
  <2>3. Held \subseteq Objects /\ Named(cat.rows) \subseteq Held
      BY Facts DEF TxnInv, NoDanglingRow
  <2> QED
      BY <1>1, <1>2, <2>1, <2>2, <2>3, ClosedInv
<1> QED
    BY <1>3, <1>4

\* What an add stages is new to the store and is all its rows still lacked.
LEMMA StagedIsNew ==
    ASSUME TxnInv, NEW batch \in Batches
    PROVE  /\ Staged(batch) \in SUBSET Objects
           /\ Staged(batch) \cap Held = {}
           /\ StagedAxes(batch) \subseteq Axes
           /\ StagedArrays(batch) \subseteq Arrays
           /\ StagedArrays(batch) \cap Held = {}
           /\ Named(RowsOf(batch)) \subseteq Held \cup Staged(batch)
           /\ AxesOf(batch) \subseteq file \cup StagedAxes(batch)
<1>1. /\ ArraysOf(batch) \subseteq Arrays /\ AxesOf(batch) \subseteq Axes
      /\ Named(RowsOf(batch)) = ArraysOf(batch) \cup AxesOf(batch)
    BY BatchRows
<1>2. Buffered \subseteq Arrays /\ cache \cap Axes \subseteq file
    BY Facts DEF TxnInv, CachedAxesStored
<1>3. StagedAxes(batch) = (AxesOf(batch) \ cache) \ file
    BY DEF StagedAxes
<1>4. StagedArrays(batch) = ArraysOf(batch) \ Held
    BY DEF StagedArrays
<1>5. StagedAxes(batch) \cap Held = {}
    BY <1>1, <1>2, <1>3, TxnConstants DEF Held
<1>6. AxesOf(batch) \subseteq file \cup StagedAxes(batch)
    BY <1>1, <1>2, <1>3
<1> QED
    BY <1>1, <1>3, <1>4, <1>5, <1>6 DEF Staged, Objects, Held

\* The catalog after an add.
LEMMA InternedCatalog ==
    ASSUME TxnInv, NEW batch \in Batches, cat' = Interned(cat, batch)
    PROVE  /\ cat' \in Catalogs
           /\ Named(cat'.rows) = Named(cat.rows) \cup Named(RowsOf(batch))
<1>1. RowsOf(batch) \in SUBSET Rows /\ FSetsOf(batch) \subseteq FeatureSets
    BY BatchRows
<1>2. cat \in Catalogs
    BY DEF TxnInv, TypeOK
<1>3. cat' \in Catalogs /\ cat'.rows = cat.rows \cup RowsOf(batch)
    BY <1>1, <1>2 DEF Interned, Catalogs
<1> QED
    BY <1>3, NamedUnion

\* An add inside a transaction.
LEMMA AddInTxnInv ==
    ASSUME TxnInv, NEW batch \in Batches, AddInTxn(batch)
    PROVE  TxnInv'
<1> DEFINE x == Staged(batch)
           arrs == StagedArrays(batch)
<1>1. PICK pick \in Placements(batch) :
          LET pushed == {<<a, pick[a].pool>> :
                            a \in {b \in arrs : pick[b].pool # Standalone}}
              direct == {a \in arrs : pick[a].pool = Standalone}
          IN  \E out \in Spills(buffer, pushed) :
                  /\ buffer' = (buffer \cup pushed) \ out
                  /\ file' = file \cup StagedAxes(batch) \cup direct
                                  \cup {e[1] : e \in out}
    BY DEF AddInTxn
<1> DEFINE pushed == {<<a, pick[a].pool>> :
                         a \in {b \in arrs : pick[b].pool # Standalone}}
           direct == {a \in arrs : pick[a].pool = Standalone}
<1>2. PICK out \in SUBSET (buffer \cup pushed) :
          /\ buffer' = (buffer \cup pushed) \ out
          /\ file' = file \cup StagedAxes(batch) \cup direct \cup {e[1] : e \in out}
    BY <1>1 DEF Spills
<1>3. /\ x \in SUBSET Objects /\ x \cap Held = {}
      /\ StagedAxes(batch) \subseteq Axes /\ arrs \subseteq Arrays /\ arrs \cap Held = {}
      /\ Named(RowsOf(batch)) \subseteq Held \cup x
      /\ AxesOf(batch) \subseteq file \cup StagedAxes(batch)
      /\ x = StagedAxes(batch) \cup arrs
    BY StagedIsNew DEF Staged
<1>4. /\ cat' \in Catalogs
      /\ Named(cat'.rows) = Named(cat.rows) \cup Named(RowsOf(batch))
  <2>1. cat' = Interned(cat, batch)
      BY DEF AddInTxn
  <2> QED
      BY <2>1, InternedCatalog
<1>5. /\ InTxn /\ saved # <<>>
      /\ UNCHANGED <<saved, marks, pendingFree, synced, heldAt, attempts>>
      /\ written' = IF x = {} THEN written ELSE Append(written, x)
      /\ cache' = cache \cup AxesOf(batch) \cup FSetsOf(batch)
    BY DEF AddInTxn, Alive, ForcedBack, Record
<1>6. /\ buffer \subseteq Arrays \X Pools /\ file \subseteq Objects /\ synced \subseteq Objects
      /\ pendingFree \subseteq Objects /\ attempts \in Nat
      /\ cache \subseteq FeatureSets \cup Axes /\ cache \cap Axes \subseteq file
      /\ (~IOFaults => Buffered \cap file = {}) /\ Buffered \subseteq Arrays
      /\ \A e, f \in buffer : e[1] = f[1] => e = f
      /\ Named(cat.rows) \subseteq Held
      /\ Held = file \cup Buffered /\ Buffered = {e[1] : e \in buffer}
    BY Facts DEF TxnInv, TypeOK, CachedAxesStored, BufferBelongsToTxn, BufferedOnce,
       NoDanglingRow, Held, Buffered
<1>7. \A a \in arrs : pick[a] \in batch /\ pick[a].pool \in Pools \cup {Standalone}
  <2>1. batch \subseteq Requests
      BY TxnConstants
  <2>2. \A a \in arrs : pick[a] \in batch
      BY <1>1 DEF Placements
  <2> QED
      BY <2>1, <2>2 DEF Requests
<1>8. pushed \subseteq Arrays \X Pools
    BY <1>3, <1>7
<1>9. {e[1] : e \in pushed} = arrs \ direct
  <2>1. \A e \in pushed : e[1] \in arrs \ direct
      OBVIOUS
  <2>2. \A a \in arrs \ direct : <<a, pick[a].pool>> \in pushed /\ <<a, pick[a].pool>>[1] = a
      OBVIOUS
  <2> HIDE DEF pushed, direct, arrs
  <2> QED
      BY <2>1, <2>2
<1>10. \A e, f \in buffer \cup pushed : e[1] = f[1] => e = f
  <2>1. \A e, f \in pushed : e[1] = f[1] => e = f
      OBVIOUS
  <2>2. \A e \in pushed, f \in buffer : e[1] # f[1]
      BY <1>3, <1>6
  <2> QED
      BY <1>6, <2>1, <2>2
<1>11. direct \subseteq arrs
    OBVIOUS
<1> HIDE DEF x, arrs, pushed, direct
<1>12. Held' = Held \cup x
  <2>1. Held' = file' \cup {e[1] : e \in buffer'}
      BY DEF Held, Buffered
  <2>2. {e[1] : e \in buffer'} \cup {e[1] : e \in out} = Buffered \cup (arrs \ direct)
      BY <1>2, <1>6, <1>9
  <2> QED
      BY <1>2, <1>3, <1>6, <1>11, <2>1, <2>2
<1>13. Buffered' = {e[1] : e \in buffer'} /\ Buffered' \subseteq Buffered \cup (arrs \ direct)
    BY <1>2, <1>6, <1>9 DEF Buffered
<1>14. (~IOFaults => Buffered' \cap file' = {})
  <2>1. Buffered' \cap {e[1] : e \in out} = {}
      BY <1>2, <1>10, <1>13
  <2>2. ~IOFaults => Buffered' \cap file = {}
      BY <1>3, <1>6, <1>13
  <2>3. Buffered' \cap StagedAxes(batch) = {}
      BY <1>3, <1>6, <1>13, TxnConstants
  <2>4. Buffered' \cap direct = {}
      BY <1>3, <1>6, <1>11, <1>13
  <2> QED
      BY <1>2, <2>1, <2>2, <2>3, <2>4
<1>15. BufferedOnce'
    BY <1>2, <1>10 DEF BufferedOnce
<1>16. buffer' \subseteq Arrays \X Pools /\ file' \subseteq Objects
  <2>1. {e[1] : e \in out} \subseteq Arrays
      BY <1>2, <1>6, <1>8
  <2> QED
      BY <1>2, <1>3, <1>6, <1>8, <1>11, <2>1 DEF Objects
<1>17. cache' \subseteq FeatureSets \cup Axes /\ cache' \cap Axes \subseteq file'
  <2>1. FSetsOf(batch) \subseteq FeatureSets /\ AxesOf(batch) \subseteq Axes
      BY BatchRows
  <2>2. FeatureSets \cap Axes = {}
      BY TxnConstants
  <2> QED
      BY <1>2, <1>3, <1>5, <1>6, <2>1, <2>2
<1>18. ~IOFaults => file' \ synced' \subseteq AllWritten \cup x
  <2>1. ~IOFaults => file \ synced \subseteq AllWritten
      BY DEF TxnInv, UnflushedIsListed
  <2>2. {e[1] : e \in out} \subseteq Buffered \cup arrs
      BY <1>2, <1>6, <1>9
  <2>3. Buffered \subseteq AllWritten
      BY DEF TxnInv, BufferBelongsToTxn
  <2> QED
      BY <1>2, <1>3, <1>5, <1>11, <2>1, <2>2, <2>3
<1>19. Named(cat'.rows) \subseteq Held' /\ Buffered' \subseteq Buffered \cup x
    BY <1>3, <1>4, <1>6, <1>12, <1>13
<1> QED
    BY <1>3, <1>4, <1>5, <1>6, <1>12, <1>14, <1>15, <1>16, <1>17, <1>18, <1>19, OpenInv

\* An add that fails inside a transaction.
LEMMA AddFailsInTxnInv ==
    ASSUME TxnInv, NEW batch \in Batches, AddFailsInTxn(batch)
    PROVE  TxnInv'
<1>1. PICK out \in SUBSET buffer, stuck \in Stuck(Staged(batch) \cup Buffered) :
          /\ buffer' = buffer \ out
          /\ file' = file \cup {e[1] : e \in out} \cup stuck
    BY DEF AddFailsInTxn, Spills
<1>2. stuck \in SUBSET Objects /\ (~IOFaults => stuck = {})
  <2>1. Staged(batch) \subseteq Objects /\ Buffered \subseteq Objects
      BY StagedIsNew, Facts DEF Objects
  <2> QED
      BY <1>1, <2>1, StuckSubset
<1>3. /\ InTxn /\ saved # <<>> /\ cache' = {}
      /\ UNCHANGED <<marks, written, pendingFree, synced, heldAt>>
    BY DEF AddFailsInTxn, Alive, ForcedBack
<1>4. pendingFree' \subseteq Objects /\ attempts' \in Nat /\ cat \in Catalogs
    BY DEF AddFailsInTxn, TxnInv, TypeOK
<1>5. /\ cat' \in Catalogs
      /\ \/ UNCHANGED saved /\ cat' = cat
         \/ UNCHANGED saved /\ saved # <<>> /\ cat'.rows = cat.rows
         \/ saved # <<>> /\ saved' = <<>> /\ cat' = saved[1]
  <2>1. CASE CatalogUnwinds
    <3>1. saved # <<>> => saved[1] \in Catalogs
        BY Facts
    <3> QED
        BY <1>4, <2>1, <3>1 DEF CatalogUnwinds
  <2>2. CASE /\ cat' = [cat EXCEPT !.fsets = @ \cup FSetsOf(batch)]
             /\ UNCHANGED saved
    <3>1. FSetsOf(batch) \subseteq FeatureSets
        BY BatchRows
    <3> QED
        BY <1>3, <1>4, <2>2, <3>1 DEF Catalogs
  <2> QED
      BY <2>1, <2>2 DEF AddFailsInTxn
<1> QED
    BY <1>1, <1>2, <1>3, <1>4, <1>5, SpillInv

\* What holds while no transaction is open.
LEMMA ClosedFacts ==
    ASSUME TxnInv, ~InTxn
    PROVE  /\ marks = <<>> /\ written = <<>> /\ saved = <<>> /\ heldAt = <<>>
           /\ cache = {} /\ buffer = {} /\ Held = file
           /\ cat \in Catalogs /\ cat.rows \in SUBSET Rows
           /\ pendingFree \subseteq Objects /\ attempts \in Nat
           /\ file \subseteq Objects /\ synced \subseteq Objects
           /\ Named(cat.rows) \subseteq file
           /\ ~IOFaults => file \subseteq synced
<1>1. /\ saved = <<>> /\ written = <<>> /\ buffer = {} /\ AllWritten = {}
      /\ Buffered = {} /\ cache = {} /\ marks = <<>> /\ cat.rows \in SUBSET Rows
    BY Facts DEF InTxn
<1>2. /\ cat \in Catalogs /\ pendingFree \subseteq Objects /\ attempts \in Nat
      /\ file \subseteq Objects /\ synced \subseteq Objects
      /\ heldAt \in Seq(SUBSET Objects) /\ Len(heldAt) = Len(marks)
    BY DEF TxnInv, TypeOK
<1>3. heldAt = <<>>
    BY <1>1, <1>2
<1>4. Held = file
    BY <1>1 DEF Held
<1>5. Named(cat.rows) \subseteq file /\ (~IOFaults => file \subseteq synced)
    BY <1>1, <1>4 DEF TxnInv, NoDanglingRow, UnflushedIsListed
<1> QED
    BY <1>1, <1>2, <1>3, <1>4, <1>5

\* An add outside a transaction: its bytes are flushed before its rows commit.
LEMMA AddOutsideInv ==
    ASSUME TxnInv, NEW batch \in Batches, AddOutside(batch)
    PROVE  TxnInv'
<1> DEFINE x == Staged(batch)
<1>1. /\ ~InTxn /\ file' = file \cup x
      /\ synced' = IF x = {} THEN synced ELSE file'
      /\ cat' = Interned(cat, batch)
      /\ UNCHANGED <<saved, marks, written, pendingFree, cache, heldAt, buffer, attempts>>
    BY DEF AddOutside, txn
<1>2. /\ x \in SUBSET Objects /\ Named(RowsOf(batch)) \subseteq Held \cup x
    BY StagedIsNew
<1>3. /\ cat' \in Catalogs
      /\ Named(cat'.rows) = Named(cat.rows) \cup Named(RowsOf(batch))
    BY <1>1, InternedCatalog
<1> HIDE DEF x
<1> QED
    BY <1>1, <1>2, <1>3, ClosedFacts, ClosedInv

LEMMA AddFailsOutsideInv ==
    ASSUME TxnInv, NEW batch \in Batches, AddFailsOutside(batch)
    PROVE  TxnInv'
<1> DEFINE x == Staged(batch)
<1>1. PICK stuck \in Stuck(x) : file' = file \cup stuck
    BY DEF AddFailsOutside
<1>2. /\ ~InTxn
      /\ synced' = synced \/ synced' = file \cup x
      /\ UNCHANGED <<cat, saved, marks, written, pendingFree, cache, heldAt, buffer>>
      /\ attempts' = attempts + 1
    BY DEF AddFailsOutside, txn
<1>3. x \in SUBSET Objects /\ stuck \subseteq x /\ (~IOFaults => stuck = {})
    BY <1>1, StuckSubset, StagedIsNew
<1> HIDE DEF x
<1> QED
    BY <1>1, <1>2, <1>3, ClosedFacts, ClosedInv

\* compact keeps what the rows name and nothing else.
LEMMA CompactInv == ASSUME TxnInv, Compact PROVE TxnInv'
<1>1. /\ ~InTxn /\ cat' = [cat EXCEPT !.fsets = FSetsOf(cat.rows)]
      /\ file' = Named(cat.rows) /\ synced' = file'
      /\ UNCHANGED <<saved, marks, written, pendingFree, cache, heldAt, buffer, attempts>>
    BY DEF Compact, txn
<1>2. FSetsOf(cat.rows) \subseteq FeatureSets /\ Named(cat.rows) \subseteq Objects
    BY <1>1, ClosedFacts, NamedObjects
<1>3. cat' \in Catalogs /\ cat'.rows = cat.rows
    BY <1>1, <1>2, ClosedFacts DEF Catalogs
<1> QED
    BY <1>1, <1>2, <1>3, ClosedFacts, ClosedInv

LEMMA CompactFailsInv == ASSUME TxnInv, CompactFails PROVE TxnInv'
<1>1. PICK swept \in SUBSET ((file \cap Axes) \ AxesOf(cat.rows)) : file' = file \ swept
    BY DEF CompactFails
<1>2. /\ ~InTxn /\ cat' = [cat EXCEPT !.fsets = FSetsOf(cat.rows)]
      /\ synced' = file /\ attempts' = attempts + 1
      /\ UNCHANGED <<saved, marks, written, pendingFree, cache, heldAt, buffer>>
    BY DEF CompactFails, txn
<1>3. FSetsOf(cat.rows) \subseteq FeatureSets /\ ArraysOf(cat.rows) \subseteq Arrays
    BY <1>2, ClosedFacts, NamedObjects
<1>4. cat' \in Catalogs /\ cat'.rows = cat.rows
    BY <1>2, <1>3, ClosedFacts DEF Catalogs
<1>5. swept \cap Named(cat.rows) = {}
    BY <1>3, TxnConstants DEF Named
<1> QED
    BY <1>1, <1>2, <1>4, <1>5, ClosedFacts, ClosedInv

\* The committed rows have their bytes in the file, and flushed unless a
\* removal once failed.
LEMMA CommittedStored ==
    ASSUME TxnInv
    PROVE  /\ Named(Committed.rows) \subseteq file
           /\ ~IOFaults => Named(Committed.rows) \subseteq synced
<1>1. Named(Committed.rows) \subseteq Held \ AllWritten
    BY DEF TxnInv, CommittedUntouched
<1>2. Buffered \subseteq AllWritten
    BY DEF TxnInv, BufferBelongsToTxn
<1>3. Named(Committed.rows) \subseteq file
    BY <1>1, <1>2 DEF Held
<1>4. ~IOFaults => file \ synced \subseteq AllWritten
    BY DEF TxnInv, UnflushedIsListed
<1> QED
    BY <1>1, <1>3, <1>4

\* A crash, where removals do not fail.
LEMMA CrashInv == ASSUME TxnInv, ~IOFaults, Crash PROVE TxnInv'
<1>1. /\ cat' = Committed /\ saved' = <<>> /\ buffer' = {}
      /\ file' \in SUBSET (file \cup synced) /\ file \cap synced \subseteq file'
      /\ synced' = file' /\ attempts' = attempts
      /\ marks' = <<>> /\ written' = <<>> /\ pendingFree' = {} /\ cache' = {} /\ heldAt' = <<>>
    BY DEF Crash, ResetTxn
<1>2. Committed \in Catalogs
    BY Facts
<1>3. file \subseteq Objects /\ synced \subseteq Objects /\ attempts \in Nat
    BY DEF TxnInv, TypeOK
<1> QED
    BY <1>1, <1>2, <1>3, CommittedStored, ClosedInv

LEMMA ReopenInv == ASSUME TxnInv, Reopen PROVE TxnInv'
<1>1. /\ cat' = Committed /\ saved' = <<>> /\ buffer' = {}
      /\ file' = file /\ synced' = file /\ attempts' = attempts
      /\ marks' = <<>> /\ written' = <<>> /\ pendingFree' = {} /\ cache' = {} /\ heldAt' = <<>>
    BY DEF Reopen, ResetTxn
<1>2. Committed \in Catalogs
    BY Facts
<1>3. file \subseteq Objects /\ attempts \in Nat
    BY DEF TxnInv, TypeOK
<1> QED
    BY <1>1, <1>2, <1>3, CommittedStored, ClosedInv

\* What unwinding takes out of the store lies in the unwound span and spares
\* what rows outside it name.
LEMMA UnwindFacts ==
    ASSUME TxnInv, NEW W, NEW R, Unwind(W, R), Named(R) \cap W = {}
    PROVE  /\ buffer' \subseteq buffer
           /\ Buffered' = Buffered \ W
           /\ file' \subseteq file
           /\ file \ W \subseteq file'
           /\ Held \ W \subseteq Held'
           /\ ~IOFaults => file' \cap W = {}
<1> DEFINE objs == (W \cap Buffered) \cup Unreferenced(W \ Buffered, R)
<1>1. objs = W
    BY DEF Unreferenced
<1>2. PICK stuck \in Stuck(W) : RemoveWrites(buffer, file, objs, stuck)
    BY DEF Unwind
<1>3. /\ buffer' = {e \in buffer : e[1] \notin W}
      /\ file' = file \ ((W \ Buffered) \ stuck)
    BY <1>1, <1>2 DEF RemoveWrites, Buffered
<1>4. ~IOFaults => stuck = {}
    BY <1>2, StuckSubset
<1>5. Buffered' = Buffered \ W
    BY <1>3 DEF Buffered
<1>6. Held \ W \subseteq Held'
    BY <1>3, <1>5 DEF Held
<1>7. (~IOFaults => Buffered \cap file = {})
    BY DEF TxnInv, BufferBelongsToTxn
<1> QED
    BY <1>3, <1>4, <1>5, <1>6, <1>7

\* A rollback of everything: the outermost level, or a transaction SQLite has
\* already given up.
LEMMA UnwindAllInv ==
    ASSUME TxnInv, Unwind(AllWritten, Committed.rows), cat' = Committed, saved' = <<>>,
           ResetTxn, UNCHANGED <<synced, attempts>>
    PROVE  TxnInv'
<1>1. Named(Committed.rows) \subseteq Held \ AllWritten
    BY DEF TxnInv, CommittedUntouched
<1>2. /\ Buffered' = Buffered \ AllWritten /\ file' \subseteq file
      /\ file \ AllWritten \subseteq file'
      /\ ~IOFaults => file' \cap AllWritten = {}
    BY <1>1, UnwindFacts
<1>3. Buffered \subseteq AllWritten /\ (~IOFaults => file \ synced \subseteq AllWritten)
    BY DEF TxnInv, BufferBelongsToTxn, UnflushedIsListed
<1>4. Buffered' = {}
    BY <1>2, <1>3
<1>5. buffer' = {}
    BY <1>4 DEF Buffered
<1>6. Named(Committed.rows) \subseteq file'
    BY <1>1, <1>2, CommittedStored
<1>7. ~IOFaults => file' \subseteq synced'
    BY <1>2, <1>3
<1>8. Committed \in Catalogs
    BY Facts
<1>9. file \subseteq Objects /\ synced \subseteq Objects /\ attempts \in Nat
    BY DEF TxnInv, TypeOK
<1> QED
    BY <1>2, <1>5, <1>6, <1>7, <1>8, <1>9, ClosedInv DEF ResetTxn

LEMMA RollbackForcedInv == ASSUME TxnInv, RollbackForced PROVE TxnInv'
<1>1. Committed = cat
    BY DEF RollbackForced, ForcedBack, Committed
<1> QED
    BY <1>1, UnwindAllInv DEF RollbackForced, ForcedBack

\* The rollback of an inner level: the enclosing levels keep their marks, their
\* writes and the bytes their savepoints lean on.
LEMMA RollbackInnerInv ==
    ASSUME TxnInv, Rollback, Len(marks) # 1
    PROVE  TxnInv'
<1> DEFINE L == Len(marks)
           n == marks[L]
           W == WrittenSince(n)
           T == SUBSET Objects
<1>1. /\ marks \in Seq(Nat) /\ written \in Seq(T) /\ saved \in Seq(Catalogs)
      /\ heldAt \in Seq(T) /\ Len(heldAt) = L
      /\ pendingFree \subseteq Objects /\ buffer \subseteq Arrays \X Pools
      /\ file \subseteq Objects /\ synced \subseteq Objects /\ attempts \in Nat
    BY DEF TxnInv, TypeOK
<1>2. /\ marks # <<>> /\ saved # <<>> /\ Len(saved) = L
    BY DEF Rollback, InTxn, Alive, ForcedBack, TxnInv, TypeOK
<1>3. /\ L \in Nat /\ L >= 2 /\ L \in DOMAIN marks /\ n \in Nat
      /\ L - 1 \in Nat /\ L - 1 >= 1 /\ L - 1 <= L
      /\ DOMAIN marks = 1 .. L /\ DOMAIN saved = 1 .. L
    BY <1>1, <1>2
<1>4. /\ Unwind(W, saved[L].rows)
      /\ marks' = SubSeq(marks, 1, L - 1)
      /\ written' = SubSeq(written, 1, n)
      /\ heldAt' = SubSeq(heldAt, 1, L - 1)
      /\ cache' = {}
      /\ UNCHANGED <<pendingFree, synced, attempts>>
      /\ \/ /\ cat' = saved[L]
            /\ saved' = SubSeq(saved, 1, L - 1)
         \/ /\ cat' = saved[1]
            /\ saved' = <<>>
    BY DEF Rollback
<1>5. /\ marks[1] = 0 /\ n <= Len(written)
      /\ \A i \in 1 .. L : marks[i] \in Nat /\ marks[i] <= n
      /\ \A i, j \in 1 .. L : i <= j => marks[i] <= marks[j]
  <2>1. marks[1] = 0 /\ n <= Len(written)
      BY <1>2, <1>3 DEF TxnInv, MarksOrdered, InTxn
  <2>2. \A i, j \in 1 .. L : i <= j => marks[i] <= marks[j]
      BY <1>3 DEF TxnInv, MarksOrdered
  <2>3. \A i \in 1 .. L : marks[i] \in Nat /\ i <= L
      BY <1>1, <1>3
  <2> HIDE DEF L
  <2> QED
      BY <1>3, <2>1, <2>2, <2>3 DEF n
<1>6. \A i \in 1 .. L : Named(saved[i].rows) \subseteq Held \ WrittenSince(marks[i])
    BY <1>3 DEF TxnInv, RollbackFindsItsData
<1> HIDE DEF L, n, T
<1>7. /\ \A m \in Nat : Since(written', m) \subseteq WrittenSince(m)
      /\ \A m \in Nat : WrittenSince(m) \subseteq Since(written', m) \cup W
    BY <1>1, <1>3, <1>4, <1>5, SinceSplit DEF WrittenSince
<1>8. \A m \in Nat : m <= n => W \subseteq WrittenSince(m)
    BY <1>1, <1>3, SinceMonotone DEF WrittenSince
<1>9. \A i \in 1 .. L : Named(saved[i].rows) \cap W = {}
    BY <1>5, <1>6, <1>8
<1>10. /\ buffer' \subseteq buffer /\ Buffered' = Buffered \ W /\ file' \subseteq file
       /\ file \ W \subseteq file' /\ Held \ W \subseteq Held'
       /\ ~IOFaults => file' \cap W = {}
  <2>1. Named(saved[L].rows) \cap W = {}
      BY <1>3, <1>9
  <2> HIDE DEF W
  <2> QED
      BY <1>4, <2>1, UnwindFacts
<1> HIDE DEF W
<1>11. \A i \in 1 .. L : Named(saved[i].rows) \subseteq Held' \ Since(written', marks[i])
  <2> SUFFICES ASSUME NEW i \in 1 .. L
               PROVE  Named(saved[i].rows) \subseteq Held' \ Since(written', marks[i])
      OBVIOUS
  <2>1. Named(saved[i].rows) \subseteq Held \ WrittenSince(marks[i])
      BY <1>6
  <2>2. Since(written', marks[i]) \subseteq WrittenSince(marks[i])
      BY <1>5, <1>7
  <2>3. Named(saved[i].rows) \cap W = {}
      BY <1>9
  <2> QED
      BY <1>10, <2>1, <2>2, <2>3
<1>12. /\ marks' \in Seq(Nat) /\ Len(marks') = L - 1 /\ DOMAIN marks' = 1 .. (L - 1)
       /\ marks' # <<>>
       /\ \A i \in 1 .. (L - 1) : marks'[i] = marks[i]
  <2> DEFINE N == Nat
             k == L - 1
  <2>1. L = Len(marks) /\ marks \in Seq(N) /\ k \in Nat /\ k <= Len(marks) /\ k >= 1
      BY <1>1, <1>3 DEF L
  <2>2. marks' = SubSeq(marks, 1, k)
      BY <1>4
  <2> HIDE DEF N, k
  <2>3. /\ marks' \in Seq(N) /\ Len(marks') = k /\ DOMAIN marks' = 1 .. k
        /\ marks' # <<>> /\ \A i \in 1 .. k : marks'[i] = marks[i]
      BY <2>1, <2>2, Prefix
  <2> QED
      BY <2>3 DEF N, k
<1>13. heldAt' \in Seq(T) /\ Len(heldAt') = L - 1
    BY <1>1, <1>3, <1>4, Prefix
<1>14. written' \in Seq(T) /\ Len(written') = n
    BY <1>1, <1>3, <1>4, <1>5, Prefix
<1>15. /\ saved' \in Seq(Catalogs)
       /\ saved' # <<>> => /\ Len(saved') = L - 1 /\ DOMAIN saved' = 1 .. (L - 1)
                           /\ \A i \in 1 .. (L - 1) : saved'[i] = saved[i]
  <2>1. CASE saved' = <<>>
      BY <2>1
  <2>2. CASE saved' = SubSeq(saved, 1, L - 1)
      BY <1>1, <1>2, <1>3, <2>2, Prefix
  <2> QED
      BY <1>4, <2>1, <2>2
<1>16. /\ cat' \in {saved[1], saved[L]} /\ cat' \in Catalogs
       /\ saved' = <<>> => cat' = saved[1]
  <2>1. saved[1] \in Catalogs /\ saved[L] \in Catalogs
      BY <1>1, <1>3
  <2>2. CASE saved' = <<>> /\ cat' = saved[1]
      BY <2>1, <2>2
  <2>3. CASE saved' = SubSeq(saved, 1, L - 1) /\ cat' = saved[L]
    <3>1. Len(saved') = L - 1
        BY <1>1, <1>2, <1>3, <2>3
    <3>2. saved' # <<>>
        BY <1>3, <3>1
    <3> QED
        BY <2>1, <2>3, <3>2
  <2> QED
      BY <1>4, <2>2, <2>3
<1>17. TypeOK'
    BY <1>1, <1>4, <1>10, <1>12, <1>13, <1>14, <1>15, <1>16 DEF TypeOK, T
<1>18. MarksOrdered'
  <2>1. \A i \in 1 .. (L - 1) : i \in 1 .. L
      BY <1>3
  <2>2. 1 \in 1 .. (L - 1)
      BY <1>3
  <2>3. marks'[1] = 0
      BY <1>5, <1>12, <2>2
  <2>4. \A i \in 1 .. (L - 1) :
            /\ marks'[i] <= n
            /\ \A j \in 1 .. (L - 1) : i <= j => marks'[i] <= marks'[j]
      BY <1>5, <1>12, <2>1
  <2> QED
      BY <1>12, <1>14, <2>3, <2>4 DEF MarksOrdered, InTxn
<1>19. RollbackFindsItsData'
  <2> SUFFICES ASSUME NEW i \in DOMAIN saved'
               PROVE  Named(saved'[i].rows) \subseteq Held' \ Since(written', marks'[i])
      BY DEF RollbackFindsItsData, WrittenSince
  <2>1. saved' # <<>>
      OBVIOUS
  <2>2. i \in 1 .. (L - 1) /\ i \in 1 .. L
      BY <1>3, <1>15, <2>1
  <2>3. saved'[i] = saved[i] /\ marks'[i] = marks[i]
      BY <1>12, <1>15, <2>1, <2>2
  <2> QED
      BY <1>11, <2>2, <2>3
<1>20. 1 \in 1 .. L /\ L \in 1 .. L /\ 1 \in 1 .. (L - 1)
    BY <1>3
<1>21. Committed' = saved[1]
    BY <1>15, <1>16, <1>20 DEF Committed
<1>22. CommittedUntouched'
  <2>1. Named(saved[1].rows) \subseteq Held' \ Since(written', 0)
      BY <1>5, <1>11, <1>20
  <2> QED
      BY <1>21, <2>1 DEF CommittedUntouched, AllWritten, WrittenSince
<1>23. NoDanglingRow'
    BY <1>11, <1>16, <1>20 DEF NoDanglingRow
<1>24. AllWritten \subseteq AllWritten' \cup W
    BY <1>7 DEF AllWritten, WrittenSince
<1>25. BufferBelongsToTxn'
  <2>1. Buffered \subseteq AllWritten /\ (~IOFaults => Buffered \cap file = {})
      BY DEF TxnInv, BufferBelongsToTxn
  <2> QED
      BY <1>10, <1>12, <1>24, <2>1 DEF BufferBelongsToTxn, InTxn
<1>26. BufferedOnce'
    BY <1>10 DEF TxnInv, BufferedOnce
<1>27. CachedAxesStored' /\ UnflushedIsListed'
    BY <1>4, <1>10, <1>24 DEF TxnInv, CachedAxesStored, UnflushedIsListed
<1> QED
    BY <1>17, <1>18, <1>19, <1>22, <1>23, <1>25, <1>26, <1>27 DEF TxnInv

\* rollback_transaction of a live transaction.
LEMMA RollbackInv == ASSUME TxnInv, Rollback PROVE TxnInv'
<1>1. CASE Len(marks) = 1
  <2>1. InTxn /\ saved # <<>> /\ marks[1] = 0
      BY DEF Rollback, Alive, ForcedBack, TxnInv, MarksOrdered
  <2>2. Committed = saved[1]
      BY <2>1 DEF Committed
  <2>3. /\ Unwind(AllWritten, Committed.rows) /\ cat' = Committed /\ saved' = <<>>
        /\ ResetTxn /\ UNCHANGED <<synced, attempts>>
      BY <1>1, <2>1, <2>2 DEF Rollback, AllWritten
  <2> QED
      BY <2>3, UnwindAllInv
<1>2. CASE Len(marks) # 1
    BY <1>2, RollbackInnerInv
<1> QED
    BY <1>1, <1>2

-----------------------------------------------------------------------------
(* Every step, and the theorems.                                           *)

\* A step that changes nothing.
LEMMA StutterInv == ASSUME TxnInv, UNCHANGED vars PROVE TxnInv'
BY DEF vars, TxnInv, TypeOK, MarksOrdered, NoDanglingRow, RollbackFindsItsData,
       CommittedUntouched, BufferBelongsToTxn, BufferedOnce, CachedAxesStored,
       UnflushedIsListed, Committed, Held, Buffered, AllWritten, WrittenSince, InTxn

\* Every operation preserves the transaction invariant.  A crash does so when no
\* removal or reference count failed earlier: only then is every byte a
\* committed row names known to be flushed.
LEMMA NextInv ==
    ASSUME ~(IOFaults /\ Crashes), TxnInv, [Next]_vars
    PROVE  TxnInv'
<1>1. CASE Begin
    BY <1>1, BeginInv
<1>2. CASE CommitInner
    BY <1>2, CommitInnerInv
<1>3. CASE CommitOutermost
    BY <1>3, CommitOutermostInv
<1>4. CASE CommitFails
    BY <1>4, CommitFailsInv
<1>5. CASE Rollback
    BY <1>5, RollbackInv
<1>6. CASE RollbackForced
    BY <1>6, RollbackForcedInv
<1>7. ASSUME NEW batch \in Batches, AddInTxn(batch) PROVE TxnInv'
    BY <1>7, AddInTxnInv
<1>8. ASSUME NEW batch \in Batches, AddOutside(batch) PROVE TxnInv'
    BY <1>8, AddOutsideInv
<1>9. ASSUME NEW batch \in Batches, AddFailsInTxn(batch) PROVE TxnInv'
    BY <1>9, AddFailsInTxnInv
<1>10. ASSUME NEW batch \in Batches, AddFailsOutside(batch) PROVE TxnInv'
    BY <1>10, AddFailsOutsideInv
<1>11. ASSUME NEW S \in SUBSET cat.rows, Remove(S) PROVE TxnInv'
    BY <1>11, RemoveInv
<1>12. ASSUME NEW S \in SUBSET cat.rows, NEW all \in BOOLEAN, Clear(S, all) PROVE TxnInv'
    BY <1>12, ClearInv
<1>13. CASE CatalogCallFails
    BY <1>13, CatalogCallFailsInv
<1>14. ASSUME NEW r \in cat.rows, NEW o \in Owners, Copy(r, o) PROVE TxnInv'
    BY <1>14, CopyInv
<1>15. ASSUME NEW P \in SUBSET Pools, WriteBlocks(P) PROVE TxnInv'
    BY <1>15, WriteBlocksInv
<1>16. CASE Flush
    BY <1>16, FlushInv
<1>17. CASE Compact
    BY <1>17, CompactInv
<1>18. CASE CompactFails
    BY <1>18, CompactFailsInv
<1>19. CASE Crash
    BY <1>19, CrashInv DEF Crash
<1>20. CASE Reopen
    BY <1>20, ReopenInv
<1>21. CASE UNCHANGED vars
    BY <1>21, StutterInv
<1>22. ASSUME NEW batch \in Batches, Import(batch) PROVE TxnInv'
    BY <1>22, ImportInv
<1>23. \A o \in Owners : {r \in cat.rows : r.owner = o} \in SUBSET cat.rows
    OBVIOUS
<1>24. cat.rows \in SUBSET cat.rows /\ TRUE \in BOOLEAN /\ FALSE \in BOOLEAN
    OBVIOUS
<1> QED
    BY <1>1, <1>2, <1>3, <1>4, <1>5, <1>6, <1>7, <1>8, <1>9, <1>10, <1>11, <1>12, <1>13,
       <1>14, <1>15, <1>16, <1>17, <1>18, <1>19, <1>20, <1>21, <1>22, <1>23, <1>24 DEF Next

\* The transaction invariant holds throughout: in a process whose removals may
\* fail, and across crashes where they do not.
THEOREM TxnInvariant ==
    ASSUME ~(IOFaults /\ Crashes)
    PROVE  Spec => []TxnInv
<1>1. Init => TxnInv
    BY InitInv
<1>2. TxnInv /\ [Next]_vars => TxnInv'
    BY NextInv
<1> QED
    BY <1>1, <1>2, PTL DEF Spec

\* Every variable keeps its type, and the savepoint stack its shape.
THEOREM TypeCorrect ==
    ASSUME ~(IOFaults /\ Crashes)
    PROVE  Spec => []TypeOK
<1>1. TxnInv => TypeOK
    BY DEF TxnInv
<1> QED
    BY <1>1, TxnInvariant, PTL

\* No operation of the store, succeeding or failing, leaves a row whose array or
\* time axis the store no longer holds.
THEOREM RowsKeepTheirBytes ==
    ASSUME ~(IOFaults /\ Crashes)
    PROVE  Spec => []NoDanglingRow
<1>1. TxnInv => NoDanglingRow
    BY DEF TxnInv
<1> QED
    BY <1>1, TxnInvariant, PTL

\* Every open level can be rolled back: the rows its savepoint restores still
\* have their bytes once the level's own writes are gone.
THEOREM EveryLevelReversible ==
    ASSUME ~(IOFaults /\ Crashes)
    PROVE  Spec => []RollbackFindsItsData
<1>1. TxnInv => RollbackFindsItsData
    BY DEF TxnInv
<1> QED
    BY <1>1, TxnInvariant, PTL

\* The write buffer holds only what the open transaction recorded as written.
THEOREM BufferIsTransactional ==
    ASSUME ~(IOFaults /\ Crashes)
    PROVE  Spec => []BufferBelongsToTxn
<1>1. TxnInv => BufferBelongsToTxn
    BY DEF TxnInv
<1> QED
    BY <1>1, TxnInvariant, PTL

\* Where removals do not fail, a committed row's bytes are in the file and
\* flushed in every state, so a crash in any state keeps them.
THEOREM CommittedRowsAreDurable ==
    ASSUME ~IOFaults
    PROVE  Spec => []CommittedSurvivesCrash
<1>1. TxnInv => CommittedSurvivesCrash
    BY CommittedStored DEF CommittedSurvivesCrash
<1> QED
    BY <1>1, TxnInvariant, PTL

\* A step that keeps the savepoints, or lets SQLite drop them all, commits
\* nothing.
LEMMA CommittedKept ==
    ASSUME \/ UNCHANGED saved /\ (saved # <<>> \/ cat' = cat)
           \/ saved # <<>> /\ saved' = <<>> /\ cat' = saved[1]
    PROVE  Committed' = Committed
BY DEF Committed

\* Popping a level that is not the last leaves the outermost savepoint alone.
LEMMA OutermostKept ==
    ASSUME TxnInv, saved # <<>>, Len(marks) > 1,
           saved' = SubSeq(saved, 1, Len(saved) - 1)
    PROVE  Committed' = Committed
<1>1. saved \in Seq(Catalogs) /\ Len(saved) = Len(marks) /\ marks \in Seq(Nat)
    BY DEF TxnInv, TypeOK
<1> DEFINE k == Len(saved) - 1
<1>2. k \in Nat /\ k <= Len(saved) /\ k >= 1 /\ 1 \in 1 .. k
    BY <1>1
<1> HIDE DEF k
<1>3. saved' # <<>> /\ saved'[1] = saved[1]
  <2>1. saved' = SubSeq(saved, 1, k)
      BY DEF k
  <2>2. saved \in Seq(Catalogs)
      BY <1>1
  <2>3. /\ SubSeq(saved, 1, k) # <<>>
        /\ \A i \in 1 .. k : SubSeq(saved, 1, k)[i] = saved[i]
      BY <1>2, <2>2, Prefix
  <2>4. SubSeq(saved, 1, k)[1] = saved[1]
      BY <1>2, <2>3, Zenon
  <2> QED
      BY <2>1, <2>3, <2>4, Zenon
<1> QED
    BY <1>3 DEF Committed

\* While a transaction stays open the committed catalog does not move.
THEOREM NothingLeaksOut ==
    ASSUME ~(IOFaults /\ Crashes)
    PROVE  Spec => AllOrNothing
<1>1. ASSUME TxnInv, Next, InTxn, InTxn' PROVE Committed' = Committed
  <2>1. Alive => saved # <<>>
      BY <1>1 DEF Alive, ForcedBack
  <2>2. CASE Begin
    <3>1. saved' = Append(saved, cat) /\ saved # <<>> /\ saved \in Seq(Catalogs)
        BY <1>1, <2>1, <2>2 DEF Begin, TxnInv, TypeOK
    <3>2. saved' # <<>> /\ saved'[1] = saved[1]
        BY <3>1
    <3> QED
        BY <3>1, <3>2 DEF Committed
  <2>3. CASE CommitInner
      BY <1>1, <2>1, <2>3, OutermostKept DEF CommitInner
  <2>4. CASE Rollback
    <3>1. CASE Len(marks) = 1
        BY <1>1, <2>4, <3>1 DEF Rollback, ResetTxn, InTxn
    <3>2. CASE Len(marks) # 1
      <4>1. marks \in Seq(Nat) /\ marks # <<>> /\ saved # <<>> /\ Len(saved) = Len(marks)
          BY <1>1, <2>1, <2>4 DEF Rollback, TxnInv, TypeOK, InTxn
      <4>2. Len(marks) > 1
          BY <3>2, <4>1
      <4>3. CASE saved' = SubSeq(saved, 1, Len(marks) - 1)
          BY <1>1, <4>1, <4>2, <4>3, OutermostKept
      <4>4. CASE saved' = <<>> /\ cat' = saved[1]
          BY <4>1, <4>4, CommittedKept
      <4> QED
          BY <2>4, <3>2, <4>3, <4>4 DEF Rollback
    <3> QED
        BY <3>1, <3>2
  <2>5. CASE CommitOutermost \/ RollbackForced \/ Crash \/ Reopen
      BY <1>1, <2>5 DEF CommitOutermost, RollbackForced, Crash, Reopen, ResetTxn, InTxn
  <2>6. CASE CommitFails \/ CatalogCallFails
      BY <2>1, <2>6, CommittedKept DEF CommitFails, CatalogCallFails, CatalogUnwinds
  <2>7. ASSUME NEW batch \in Batches,
               AddInTxn(batch) \/ AddOutside(batch) \/ AddFailsInTxn(batch) \/ AddFailsOutside(batch)
        PROVE  Committed' = Committed
    <3>1. CASE AddInTxn(batch)
        BY <2>1, <3>1, CommittedKept DEF AddInTxn
    <3>2. CASE AddFailsInTxn(batch)
        BY <2>1, <3>2, CommittedKept DEF AddFailsInTxn, CatalogUnwinds
    <3>3. CASE AddOutside(batch) \/ AddFailsOutside(batch)
        BY <1>1, <3>3 DEF AddOutside, AddFailsOutside
    <3> QED
        BY <2>7, <3>1, <3>2, <3>3
  <2>8. ASSUME NEW S, NEW all, Remove(S) \/ Clear(S, all) PROVE Committed' = Committed
      BY <2>1, <2>8, CommittedKept DEF Remove, Clear
  <2>9. ASSUME NEW r, NEW o, Copy(r, o) \/ Import(r) PROVE Committed' = Committed
      BY <2>1, <2>9, CommittedKept DEF Copy, Import
  <2>10. ASSUME NEW P, WriteBlocks(P) \/ Flush PROVE Committed' = Committed
      BY <2>10, CommittedKept DEF WriteBlocks, Flush
  <2>11. CASE Compact \/ CompactFails
      BY <1>1, <2>11 DEF Compact, CompactFails
  <2> QED
      BY <1>1, <2>2, <2>3, <2>4, <2>5, <2>6, <2>7, <2>8, <2>9, <2>10, <2>11 DEF Next
<1>2. TxnInv /\ [Next]_vars => [InTxn /\ InTxn' => Committed' = Committed]_vars
    BY <1>1
<1> QED
    BY <1>2, TxnInvariant, PTL DEF Spec, AllOrNothing

-----------------------------------------------------------------------------
(* A rollback is exact.                                                    *)

\* What a call records is added to every span that is still open.
LEMMA RecordedSince ==
    ASSUME TxnInv, NEW x \in SUBSET Objects,
           written' = IF x = {} THEN written ELSE Append(written, x)
    PROVE  \A m \in Nat : m <= Len(written) => WrittenSince(m)' = WrittenSince(m) \cup x
<1> SUFFICES ASSUME NEW m \in Nat, m <= Len(written)
             PROVE  Since(written', m) = Since(written, m) \cup x
    BY DEF WrittenSince
<1> DEFINE T == SUBSET Objects
<1>1. written \in Seq(T) /\ x \in T
    BY DEF TxnInv, TypeOK
<1> HIDE DEF T
<1>2. CASE x = {}
    BY <1>2
<1>3. CASE x # {}
  <2>1. Since(Append(written, x), m) = Since(written, m) \cup x
      BY <1>1, SinceAppend
  <2> QED
      BY <1>3, <2>1
<1> QED
    BY <1>2, <1>3

\* A step that keeps the open levels, and puts into the store only what it
\* records and was not there, moves nothing a level would find at its rollback.
LEMMA ExactKept ==
    ASSUME TxnInv, RollbackIsExact, UNCHANGED <<marks, heldAt>>,
           NEW x \in SUBSET Objects,
           written' = IF x = {} THEN written ELSE Append(written, x),
           x \cap Held = {}, Held' = Held \cup x
    PROVE  RollbackIsExact'
<1> SUFFICES ASSUME NEW i \in DOMAIN marks
             PROVE  Held' \ WrittenSince(marks[i])' = heldAt[i]
    BY DEF RollbackIsExact, WrittenSince
<1>1. marks[i] \in Nat /\ marks[i] <= Len(written)
    BY DEF TxnInv, TypeOK, MarksOrdered
<1>2. WrittenSince(marks[i])' = WrittenSince(marks[i]) \cup x
    BY <1>1, RecordedSince
<1>3. Held \ WrittenSince(marks[i]) = heldAt[i]
    BY DEF RollbackIsExact
<1> QED
    BY <1>2, <1>3

\* The same for a step that records nothing and keeps what the store holds.
LEMMA ExactUntouched ==
    ASSUME TxnInv, RollbackIsExact, UNCHANGED <<marks, heldAt, written>>, Held' = Held
    PROVE  RollbackIsExact'
BY DEF RollbackIsExact, WrittenSince

\* Outside a transaction there is no level to roll back.
LEMMA ExactClosed ==
    ASSUME marks' = <<>>
    PROVE  RollbackIsExact'
BY DEF RollbackIsExact

\* Writing whole blocks out, where nothing is torn, keeps what is held.
LEMMA SpillHolds ==
    ASSUME TxnInv, NEW out \in SUBSET buffer, buffer' = buffer \ out,
           file' = file \cup {e[1] : e \in out}
    PROVE  Held' = Held
BY DEF Held, Buffered

\* begin_transaction: nothing has been written since.
LEMMA BeginExact == ASSUME TxnInv, RollbackIsExact, Begin PROVE RollbackIsExact'
<1>1. /\ marks' = Append(marks, Len(written)) /\ heldAt' = Append(heldAt, Held)
      /\ written' = written /\ Held' = Held
    BY DEF Begin, Held, Buffered
<1>2. /\ marks \in Seq(Nat) /\ heldAt \in Seq(SUBSET Objects) /\ Len(heldAt) = Len(marks)
      /\ written \in Seq(SUBSET Objects)
    BY DEF TxnInv, TypeOK
<1> SUFFICES ASSUME NEW i \in DOMAIN marks'
             PROVE  Held \ Since(written, marks'[i]) = heldAt'[i]
    BY <1>1 DEF RollbackIsExact, WrittenSince
<1>3. CASE i \in DOMAIN marks
  <2>1. marks'[i] = marks[i] /\ heldAt'[i] = heldAt[i]
      BY <1>1, <1>2, <1>3
  <2> QED
      BY <1>3, <2>1 DEF RollbackIsExact, WrittenSince
<1>4. CASE i = Len(marks) + 1
  <2>1. marks'[i] = Len(written) /\ heldAt'[i] = Held
      BY <1>1, <1>2, <1>4
  <2> DEFINE T == SUBSET Objects
  <2>2. written \in Seq(T)
      BY <1>2
  <2> HIDE DEF T
  <2>3. Since(written, Len(written)) = {}
      BY <2>2, SinceEnd
  <2> QED
      BY <2>1, <2>3
<1> QED
    BY <1>1, <1>2, <1>3, <1>4

\* commit_transaction of an inner level: the enclosing levels are as they were.
LEMMA CommitInnerExact == ASSUME TxnInv, RollbackIsExact, CommitInner PROVE RollbackIsExact'
<1> DEFINE n == Len(marks) - 1
           T == SUBSET Objects
<1>1. /\ marks \in Seq(Nat) /\ heldAt \in Seq(T) /\ Len(heldAt) = Len(marks)
      /\ n \in Nat /\ n <= Len(marks) /\ n <= Len(heldAt)
      /\ written' = written /\ Held' = Held
    BY SMTT(30) DEF CommitInner, TxnInv, TypeOK, Held, Buffered
<1>2. marks' = SubSeq(marks, 1, n) /\ heldAt' = SubSeq(heldAt, 1, n)
    BY <1>1 DEF CommitInner
<1> HIDE DEF n, T
<1>3. /\ DOMAIN marks' = 1 .. n
      /\ \A i \in 1 .. n : i \in DOMAIN marks /\ marks'[i] = marks[i]
    BY <1>1, <1>2
<1>4. \A i \in 1 .. n : heldAt'[i] = heldAt[i]
    BY <1>1, <1>2, Prefix
<1> QED
    BY <1>1, <1>3, <1>4 DEF RollbackIsExact, WrittenSince

\* An add inside a transaction holds what it held and what it staged, wherever
\* its arrays were placed and whatever blocks it pushed out.
LEMMA AddHolds ==
    ASSUME TxnInv, NEW batch \in Batches, AddInTxn(batch)
    PROVE  Held' = Held \cup Staged(batch)
<1> DEFINE arrs == StagedArrays(batch)
<1>1. PICK pick \in Placements(batch) :
          LET pushed == {<<a, pick[a].pool>> :
                            a \in {b \in arrs : pick[b].pool # Standalone}}
              direct == {a \in arrs : pick[a].pool = Standalone}
          IN  \E out \in Spills(buffer, pushed) :
                  /\ buffer' = (buffer \cup pushed) \ out
                  /\ file' = file \cup StagedAxes(batch) \cup direct
                                  \cup {e[1] : e \in out}
    BY DEF AddInTxn
<1> DEFINE pushed == {<<a, pick[a].pool>> :
                         a \in {b \in arrs : pick[b].pool # Standalone}}
           direct == {a \in arrs : pick[a].pool = Standalone}
<1>2. PICK out \in SUBSET (buffer \cup pushed) :
          /\ buffer' = (buffer \cup pushed) \ out
          /\ file' = file \cup StagedAxes(batch) \cup direct \cup {e[1] : e \in out}
    BY <1>1 DEF Spills
<1>3. {e[1] : e \in pushed} = arrs \ direct /\ direct \subseteq arrs
  <2>1. \A e \in pushed : e[1] \in arrs \ direct
      OBVIOUS
  <2>2. \A a \in arrs \ direct : <<a, pick[a].pool>> \in pushed /\ <<a, pick[a].pool>>[1] = a
      OBVIOUS
  <2>3. direct \subseteq arrs
      OBVIOUS
  <2> HIDE DEF pushed, direct, arrs
  <2> QED
      BY <2>1, <2>2, <2>3
<1> HIDE DEF arrs, pushed, direct
<1>4. /\ Held = file \cup Buffered /\ Buffered = {e[1] : e \in buffer}
      /\ Held' = file' \cup {e[1] : e \in buffer'}
      /\ Staged(batch) = StagedAxes(batch) \cup arrs
    BY DEF Held, Buffered, Staged, arrs
<1>5. {e[1] : e \in buffer'} \cup {e[1] : e \in out} = Buffered \cup (arrs \ direct)
    BY <1>2, <1>3, <1>4
<1> QED
    BY <1>2, <1>3, <1>4, <1>5

LEMMA AddInTxnExact ==
    ASSUME TxnInv, RollbackIsExact, NEW batch \in Batches, AddInTxn(batch)
    PROVE  RollbackIsExact'
<1> DEFINE x == Staged(batch)
<1>1. x \in SUBSET Objects /\ x \cap Held = {} /\ Held' = Held \cup x
    BY StagedIsNew, AddHolds
<1>2. UNCHANGED <<marks, heldAt>> /\ written' = IF x = {} THEN written ELSE Append(written, x)
    BY DEF AddInTxn, Record
<1> HIDE DEF x
<1> QED
    BY <1>1, <1>2, ExactKept

\* The rollback of an inner level takes out of the store exactly the span it
\* unwinds, so the enclosing levels still find what they found.
LEMMA RollbackInnerExact ==
    ASSUME ~IOFaults, TxnInv, RollbackIsExact, Rollback, Len(marks) # 1
    PROVE  RollbackIsExact'
<1> DEFINE L == Len(marks)
           n == marks[L]
           W == WrittenSince(n)
           T == SUBSET Objects
<1>1. /\ marks \in Seq(Nat) /\ written \in Seq(T) /\ heldAt \in Seq(T) /\ Len(heldAt) = L
      /\ saved \in Seq(Catalogs)
    BY DEF TxnInv, TypeOK
<1>2. marks # <<>> /\ saved # <<>> /\ Len(saved) = L
    BY DEF Rollback, InTxn, Alive, ForcedBack, TxnInv, TypeOK
<1>3. /\ L \in Nat /\ L \in DOMAIN marks /\ L \in DOMAIN saved /\ n \in Nat
      /\ L - 1 \in Nat /\ L - 1 <= L
      /\ DOMAIN marks = 1 .. L
    BY <1>1, <1>2
<1>4. /\ Unwind(W, saved[L].rows)
      /\ marks' = SubSeq(marks, 1, L - 1)
      /\ written' = SubSeq(written, 1, n)
      /\ heldAt' = SubSeq(heldAt, 1, L - 1)
    BY DEF Rollback
<1>5. /\ n <= Len(written)
      /\ \A i \in 1 .. L : marks[i] \in Nat /\ marks[i] <= n
  <2>1. n <= Len(written)
      BY <1>3 DEF TxnInv, MarksOrdered
  <2>2. \A i, j \in 1 .. L : i <= j => marks[i] <= marks[j]
      BY <1>3 DEF TxnInv, MarksOrdered
  <2>3. \A i \in 1 .. L : marks[i] \in Nat /\ i <= L
      BY <1>1, <1>3
  <2> HIDE DEF L
  <2> QED
      BY <1>3, <2>1, <2>2, <2>3 DEF n
<1>6. Named(saved[L].rows) \cap W = {}
    BY <1>3 DEF TxnInv, RollbackFindsItsData
<1> HIDE DEF L, n, T
<1>7. /\ \A m \in Nat : Since(written', m) \subseteq WrittenSince(m)
      /\ \A m \in Nat : WrittenSince(m) \subseteq Since(written', m) \cup W
    BY <1>1, <1>3, <1>4, <1>5, SinceSplit DEF WrittenSince
<1>8. \A m \in Nat : m <= n => W \subseteq WrittenSince(m)
    BY <1>1, <1>3, SinceMonotone DEF WrittenSince
<1> HIDE DEF W
<1>9. Held' = Held \ W
  <2>1. /\ Buffered' = Buffered \ W /\ file' \subseteq file /\ file \ W \subseteq file'
        /\ file' \cap W = {}
      BY <1>4, <1>6, UnwindFacts
  <2> QED
      BY <2>1 DEF Held
<1>10. /\ DOMAIN marks' = 1 .. (L - 1)
       /\ \A i \in 1 .. (L - 1) : marks'[i] = marks[i] /\ i \in 1 .. L
    BY <1>1, <1>3, <1>4 DEF L
<1>11. \A i \in 1 .. (L - 1) : heldAt'[i] = heldAt[i]
    BY <1>1, <1>3, <1>4, Prefix
<1> SUFFICES ASSUME NEW i \in 1 .. (L - 1)
             PROVE  Held' \ Since(written', marks[i]) = heldAt[i]
    BY <1>10, <1>11 DEF RollbackIsExact, WrittenSince
<1>12. i \in DOMAIN marks /\ marks[i] \in Nat /\ marks[i] <= n
    BY <1>3, <1>5, <1>10
<1>13. WrittenSince(marks[i]) = Since(written', marks[i]) \cup W
    BY <1>7, <1>8, <1>12
<1>14. Held \ WrittenSince(marks[i]) = heldAt[i]
    BY <1>12 DEF RollbackIsExact
<1> QED
    BY <1>9, <1>13, <1>14

\* Every operation keeps rollbacks exact, where no removal fails.
LEMMA NextExact ==
    ASSUME ~IOFaults, TxnInv, RollbackIsExact, [Next]_vars
    PROVE  RollbackIsExact'
<1> DEFINE none == {}
<1>1. CASE Begin
    BY <1>1, BeginExact
<1>2. CASE CommitInner
    BY <1>2, CommitInnerExact
<1>3. CASE CommitOutermost \/ RollbackForced \/ Crash \/ Reopen
    BY <1>3, ExactClosed DEF CommitOutermost, RollbackForced, Crash, Reopen, ResetTxn
<1>4. CASE CommitFails
  <2>1. UNCHANGED <<marks, heldAt, written>>
      BY <1>4 DEF CommitFails, txn
  <2>2. CASE \E P \in SUBSET Pools :
                LET o == {e \in CommitWrites : e[2] \in P}
                IN  /\ buffer' = buffer \ o
                    /\ \E torn \in Stuck({e[1] : e \in CommitWrites \ o}) :
                           file' = file \cup {e[1] : e \in o} \cup torn
                    /\ UNCHANGED synced
    <3>1. PICK P \in SUBSET Pools :
              LET o == {e \in CommitWrites : e[2] \in P}
              IN  /\ buffer' = buffer \ o
                  /\ \E torn \in Stuck({e[1] : e \in CommitWrites \ o}) :
                         file' = file \cup {e[1] : e \in o} \cup torn
        BY <2>2
    <3> DEFINE o == {e \in CommitWrites : e[2] \in P}
    <3>2. o \in SUBSET buffer /\ buffer' = buffer \ o
        BY <3>1 DEF CommitWrites
    <3>3. file' = file \cup {e[1] : e \in o}
        BY <3>1 DEF Stuck
    <3> HIDE DEF o
    <3> QED
        BY <2>1, <3>2, <3>3, SpillHolds, ExactUntouched
  <2>3. CASE /\ buffer' = buffer \ CommitWrites
             /\ file' = file \cup {e[1] : e \in CommitWrites}
    <3>1. CommitWrites \in SUBSET buffer
        BY DEF CommitWrites
    <3> QED
        BY <2>1, <2>3, <3>1, SpillHolds, ExactUntouched
  <2> QED
      BY <1>4, <2>2, <2>3 DEF CommitFails
<1>5. CASE Rollback
  <2>1. CASE Len(marks) = 1
      BY <1>5, <2>1, ExactClosed DEF Rollback, ResetTxn
  <2> QED
      BY <1>5, <2>1, RollbackInnerExact
<1>6. ASSUME NEW batch \in Batches, AddInTxn(batch) PROVE RollbackIsExact'
    BY <1>6, AddInTxnExact
<1>7. ASSUME NEW batch \in Batches, AddOutside(batch) \/ AddFailsOutside(batch)
      PROVE  RollbackIsExact'
    BY <1>7, ExactClosed DEF AddOutside, AddFailsOutside, InTxn, txn
<1>8. ASSUME NEW batch \in Batches, AddFailsInTxn(batch) PROVE RollbackIsExact'
  <2>1. PICK out \in SUBSET buffer : buffer' = buffer \ out /\ file' = file \cup {e[1] : e \in out}
      BY <1>8 DEF AddFailsInTxn, Spills, Stuck
  <2>2. UNCHANGED <<marks, heldAt, written>>
      BY <1>8 DEF AddFailsInTxn
  <2> QED
      BY <2>1, <2>2, SpillHolds, ExactUntouched
<1>9. ASSUME NEW G, FreeOrDefer(G), UNCHANGED <<marks, heldAt, written>> PROVE RollbackIsExact'
  <2>1. CASE InTxn
    <3>1. Held' = Held
        BY <1>9, <2>1 DEF FreeOrDefer, Held, Buffered
    <3> QED
        BY <1>9, <3>1, ExactUntouched
  <2>2. CASE ~InTxn
      BY <1>9, <2>2, ExactClosed DEF InTxn
  <2> QED
      BY <2>1, <2>2
<1>10. ASSUME NEW S, Remove(S) PROVE RollbackIsExact'
    BY <1>9, <1>10 DEF Remove
<1>11. ASSUME NEW S, NEW all, Clear(S, all) PROVE RollbackIsExact'
  <2>1. \E G : FreeOrDefer(G)
      BY <1>11 DEF Clear
  <2>2. UNCHANGED <<marks, heldAt, written>>
      BY <1>11 DEF Clear
  <2> QED
      BY <1>9, <2>1, <2>2
<1>12. ASSUME NEW r, NEW o, CatalogCallFails \/ Copy(r, o) \/ Import(r)
       PROVE  RollbackIsExact'
  <2>1. UNCHANGED <<marks, heldAt, written, buffer, file>>
      BY <1>12 DEF CatalogCallFails, Copy, Import, txn
  <2>2. Held' = Held
      BY <2>1 DEF Held, Buffered
  <2> QED
      BY <2>1, <2>2, ExactUntouched
<1>13. ASSUME NEW P \in SUBSET Pools, WriteBlocks(P) PROVE RollbackIsExact'
  <2> DEFINE o == {e \in buffer : e[2] \in P}
  <2>1. /\ o \in SUBSET buffer /\ buffer' = buffer \ o
        /\ UNCHANGED <<marks, heldAt, written>>
      BY <1>13 DEF WriteBlocks, txn
  <2>2. file' = file \cup {e[1] : e \in o}
      BY <1>13 DEF WriteBlocks, Stuck
  <2> HIDE DEF o
  <2> QED
      BY <2>1, <2>2, SpillHolds, ExactUntouched
<1>14. CASE Flush
  <2>1. Held' = Held /\ UNCHANGED <<marks, heldAt, written>>
      BY <1>14 DEF Flush, Held, Buffered, txn
  <2> QED
      BY <2>1, ExactUntouched
<1>15. CASE Compact \/ CompactFails
    BY <1>15, ExactClosed DEF Compact, CompactFails, InTxn, txn
<1>16. CASE UNCHANGED vars
  <2>1. Held' = Held /\ UNCHANGED <<marks, heldAt, written>>
      BY <1>16 DEF vars, Held, Buffered
  <2> QED
      BY <2>1, ExactUntouched
<1> QED
    BY <1>1, <1>2, <1>3, <1>4, <1>5, <1>6, <1>7, <1>8, <1>10, <1>11, <1>12, <1>13,
       <1>14, <1>15, <1>16 DEF Next

\* Where no removal fails, rolling back to any open level leaves exactly what
\* the store held when that level began.
THEOREM RollbacksAreExact ==
    ASSUME ~IOFaults
    PROVE  Spec => []RollbackIsExact
<1>1. Init => RollbackIsExact
    BY DEF Init, RollbackIsExact
<1>2. TxnInv /\ RollbackIsExact /\ [Next]_vars => RollbackIsExact'
    BY NextExact
<1>3. Spec => []TxnInv
    BY TxnInvariant
<1> QED
    BY <1>1, <1>2, <1>3, PTL DEF Spec

-----------------------------------------------------------------------------
(* Feature sets and the shared-set cache.                                  *)

\* The feature sets of a union.
LEMMA FSetsUnion ==
    ASSUME NEW R, NEW Q
    PROVE  FSetsOf(R \cup Q) = FSetsOf(R) \cup FSetsOf(Q)
BY DEF FSetsOf

\* The rows of a batch have the feature sets its requests name.
LEMMA FSetsOfBatch ==
    ASSUME NEW batch \in Batches
    PROVE  FSetsOf(RowsOf(batch)) = FSetsOf(batch)
<1>1. \A q \in batch : RowOf(q).fs = q.fs
    BY DEF RowOf
<1> QED
    BY <1>1 DEF FSetsOf, RowsOf

\* A step that keeps the savepoints and the cache's promise.
LEMMA SetsKept ==
    ASSUME SetsInv, UNCHANGED saved, FSetsOf(cat'.rows) \subseteq cat'.fsets,
           Alive' => cache' \cap FeatureSets \subseteq cat'.fsets
    PROVE  SetsInv'
BY DEF SetsInv

\* A catalog statement that fails: the catalog stays, or SQLite takes it back to
\* the outermost savepoint and the transaction is no longer alive.
LEMMA UnwoundSets ==
    ASSUME TxnInv, SetsInv, InTxn, Alive, UNCHANGED marks, CatalogUnwinds, cache' \in {cache, {}}
    PROVE  SetsInv'
<1>1. CASE UNCHANGED <<cat, saved>>
    BY <1>1, SetsKept DEF SetsInv, Alive, ForcedBack, InTxn
<1>2. CASE saved # <<>> /\ cat' = saved[1] /\ saved' = <<>>
  <2>1. 1 \in DOMAIN saved
      BY <1>2 DEF TxnInv, TypeOK
  <2>2. ~Alive'
      BY <1>2 DEF Alive, ForcedBack, InTxn
  <2> QED
      BY <1>2, <2>1, <2>2 DEF SetsInv
<1> QED
    BY <1>1, <1>2 DEF CatalogUnwinds

\* A step that ends the transaction, or has none, on a catalog whose rows have
\* their feature sets.
LEMMA ClosedSets ==
    ASSUME saved' = <<>>, cache' = {}, FSetsOf(cat'.rows) \subseteq cat'.fsets
    PROVE  SetsInv'
BY DEF SetsInv

\* The committed catalog's rows have their feature sets.
LEMMA CommittedSets ==
    ASSUME TxnInv, SetsInv
    PROVE  FSetsOf(Committed.rows) \subseteq Committed.fsets
BY DEF SetsInv, Committed, TxnInv, TypeOK

\* An add trusts the cache for the feature sets it does not intern.
LEMMA InternedSets ==
    ASSUME TxnInv, SetsInv, Alive, NEW batch \in Batches, cat' = Interned(cat, batch)
    PROVE  /\ FSetsOf(cat'.rows) \subseteq cat'.fsets
           /\ FSetsOf(batch) \subseteq cat'.fsets
           /\ cat.fsets \subseteq cat'.fsets
<1>1. /\ cat'.rows = cat.rows \cup RowsOf(batch)
      /\ cat'.fsets = cat.fsets \cup (FSetsOf(batch) \ cache)
    BY DEF Interned
<1>2. FSetsOf(batch) \subseteq FeatureSets
    BY BatchRows
<1>3. FSetsOf(batch) \subseteq cat'.fsets
    BY <1>1, <1>2 DEF SetsInv
<1> QED
    BY <1>1, <1>3, FSetsUnion, FSetsOfBatch DEF SetsInv

\* Every operation keeps the cache and the feature sets in step.
LEMMA NextSets ==
    ASSUME TxnInv, SetsInv, [Next]_vars
    PROVE  SetsInv'
<1>0. /\ saved \in Seq(Catalogs) /\ marks \in Seq(Nat)
      /\ cat \in Catalogs
      /\ saved # <<>> => Len(saved) = Len(marks)
    BY DEF TxnInv, TypeOK
<1>1. CASE Begin
  <2>1. /\ saved' = Append(saved, cat) /\ UNCHANGED <<cat, cache>> /\ Alive
      BY <1>1 DEF Begin
  <2>2. /\ cache \cap FeatureSets \subseteq cat.fsets
        /\ FSetsOf(cat.rows) \subseteq cat.fsets
        /\ \A i \in DOMAIN saved : FSetsOf(saved[i].rows) \subseteq saved[i].fsets
      BY <2>1 DEF SetsInv
  <2>3. \A i \in DOMAIN saved' : saved'[i] = cat \/ (i \in DOMAIN saved /\ saved'[i] = saved[i])
      BY <1>0, <2>1
  <2> QED
      BY <2>1, <2>2, <2>3 DEF SetsInv
<1>2. CASE CommitInner
  <2> DEFINE k == Len(saved) - 1
  <2>1. /\ saved' = SubSeq(saved, 1, k) /\ UNCHANGED <<cat, cache>> /\ Alive
      BY <1>2 DEF CommitInner
  <2>2. k \in Nat /\ k <= Len(saved)
      BY <1>0, <1>2 DEF CommitInner, Alive, ForcedBack, InTxn
  <2> HIDE DEF k
  <2>3. \A i \in DOMAIN saved' : i \in DOMAIN saved /\ saved'[i] = saved[i]
      BY <1>0, <2>1, <2>2, Prefix
  <2> QED
      BY <2>1, <2>3 DEF SetsInv
<1>3. CASE CommitOutermost
    BY <1>3, ClosedSets DEF CommitOutermost, ResetTxn, SetsInv
<1>4. CASE CommitFails
  <2>1. InTxn /\ Alive /\ UNCHANGED <<marks, cache>> /\ CatalogUnwinds
      BY <1>4 DEF CommitFails, InTxn, txn
  <2> QED
      BY <2>1, UnwoundSets
<1>5. CASE Rollback
  <2>1. InTxn /\ saved # <<>> /\ Len(saved) = Len(marks) /\ Len(marks) \in DOMAIN saved
        /\ 1 \in DOMAIN saved
      BY <1>0, <1>5 DEF Rollback, Alive, ForcedBack, InTxn
  <2>2. FSetsOf(saved[Len(marks)].rows) \subseteq saved[Len(marks)].fsets
      BY <2>1 DEF SetsInv
  <2>3. FSetsOf(saved[1].rows) \subseteq saved[1].fsets
      BY <2>1 DEF SetsInv
  <2>4. CASE saved' = <<>>
      BY <1>5, <2>2, <2>3, <2>4, ClosedSets DEF Rollback, ResetTxn
  <2>5. CASE saved' = SubSeq(saved, 1, Len(marks) - 1) /\ cat' = saved[Len(marks)] /\ cache' = {}
    <3> DEFINE k == Len(marks) - 1
    <3>1. saved' = SubSeq(saved, 1, k) /\ k \in Nat /\ k <= Len(saved)
        BY <1>0, <2>1, <2>5
    <3> HIDE DEF k
    <3>2. \A i \in DOMAIN saved' : i \in DOMAIN saved /\ saved'[i] = saved[i]
        BY <1>0, <3>1, Prefix
    <3> QED
        BY <2>2, <2>5, <3>2 DEF SetsInv
  <2> QED
      BY <1>5, <2>4, <2>5 DEF Rollback
<1>6. CASE RollbackForced
    BY <1>6, ClosedSets DEF RollbackForced, ForcedBack, ResetTxn, SetsInv
<1>7. ASSUME NEW batch \in Batches, AddInTxn(batch) PROVE SetsInv'
  <2>1. /\ Alive /\ cat' = Interned(cat, batch) /\ UNCHANGED saved
        /\ cache' = cache \cup AxesOf(batch) \cup FSetsOf(batch)
      BY <1>7 DEF AddInTxn
  <2>2. /\ FSetsOf(cat'.rows) \subseteq cat'.fsets
        /\ FSetsOf(batch) \subseteq cat'.fsets
        /\ cat.fsets \subseteq cat'.fsets
      BY <2>1, InternedSets
  <2>3. AxesOf(batch) \cap FeatureSets = {}
      BY BatchRows, TxnConstants
  <2>4. cache \cap FeatureSets \subseteq cat.fsets
      BY <2>1 DEF SetsInv
  <2> QED
      BY <2>1, <2>2, <2>3, <2>4, SetsKept
<1>8. ASSUME NEW batch \in Batches, AddOutside(batch) PROVE SetsInv'
  <2>1. ~InTxn /\ cat' = Interned(cat, batch) /\ UNCHANGED <<saved, cache>>
      BY <1>8 DEF AddOutside, txn
  <2>2. Alive /\ saved = <<>> /\ cache = {}
      BY <2>1, ClosedFacts DEF Alive, ForcedBack
  <2> QED
      BY <2>1, <2>2, InternedSets, ClosedSets
<1>9. ASSUME NEW batch \in Batches, AddFailsInTxn(batch) PROVE SetsInv'
  <2>1. InTxn /\ Alive /\ UNCHANGED marks /\ cache' = {}
      BY <1>9 DEF AddFailsInTxn
  <2>2. CASE CatalogUnwinds
      BY <2>1, <2>2, UnwoundSets
  <2>3. CASE cat' = [cat EXCEPT !.fsets = @ \cup FSetsOf(batch)] /\ UNCHANGED saved
    <3>1. cat'.rows = cat.rows /\ cat.fsets \subseteq cat'.fsets
        BY <1>0, <2>3 DEF Catalogs
    <3> QED
        BY <2>1, <2>3, <3>1, SetsKept DEF SetsInv
  <2> QED
      BY <1>9, <2>2, <2>3 DEF AddFailsInTxn
<1>10. ASSUME NEW S, Remove(S) PROVE SetsInv'
  <2>1. /\ Alive /\ UNCHANGED <<saved, cache>>
        /\ cat'.rows = cat.rows \ S /\ cat'.fsets = cat.fsets
      BY <1>0, <1>10 DEF Remove, Catalogs
  <2>2. FSetsOf(cat'.rows) \subseteq FSetsOf(cat.rows)
      BY <2>1 DEF FSetsOf
  <2> QED
      BY <2>1, <2>2, SetsKept DEF SetsInv
<1>11. ASSUME NEW S, Clear(S, FALSE) PROVE SetsInv'
  <2>1. /\ UNCHANGED saved /\ cache' = {}
        /\ cat'.rows = cat.rows \ S /\ cat'.fsets = cat.fsets
      BY <1>11 DEF Clear
  <2>2. FSetsOf(cat'.rows) \subseteq FSetsOf(cat.rows)
      BY <2>1 DEF FSetsOf
  <2> QED
      BY <2>1, <2>2, SetsKept DEF SetsInv
<1>12. CASE Clear(cat.rows, TRUE)
  <2>1. /\ UNCHANGED saved /\ cache' = {} /\ cat'.rows = {}
      BY <1>12 DEF Clear
  <2>2. FSetsOf(cat'.rows) = {}
      BY <2>1 DEF FSetsOf
  <2> QED
      BY <2>1, <2>2, SetsKept
<1>13. CASE CatalogCallFails
    BY <1>13, UnwoundSets DEF CatalogCallFails
<1>14. ASSUME NEW r \in cat.rows, NEW o \in Owners, Copy(r, o) PROVE SetsInv'
  <2> DEFINE c == [r EXCEPT !.owner = o]
  <2>1. /\ Alive /\ UNCHANGED <<saved, cache>>
        /\ cat'.rows = cat.rows \cup {c} /\ cat'.fsets = cat.fsets
      BY <1>0, <1>14 DEF Copy, txn, Catalogs
  <2>2. c.fs = r.fs
      BY <1>0 DEF Catalogs, Rows
  <2> HIDE DEF c
  <2>3. FSetsOf(cat'.rows) \subseteq FSetsOf(cat.rows)
      BY <2>1, <2>2 DEF FSetsOf
  <2> QED
      BY <2>1, <2>3, SetsKept DEF SetsInv
<1>15. ASSUME NEW batch \in Batches, Import(batch) PROVE SetsInv'
  <2>1. /\ Alive /\ UNCHANGED <<saved, cache>>
        /\ cat'.rows = cat.rows \cup RowsOf(batch)
        /\ cat'.fsets = cat.fsets \cup FSetsOf(batch)
      BY <1>15 DEF Import, txn
  <2>2. FSetsOf(cat'.rows) = FSetsOf(cat.rows) \cup FSetsOf(batch)
      BY <2>1, FSetsUnion, FSetsOfBatch
  <2> QED
      BY <2>1, <2>2, SetsKept DEF SetsInv
<1>16. ASSUME NEW P, WriteBlocks(P) \/ Flush \/ UNCHANGED vars PROVE SetsInv'
  <2>1. UNCHANGED <<cat, saved, marks, cache>>
      BY <1>16 DEF WriteBlocks, Flush, vars, txn
  <2> QED
      BY <2>1 DEF SetsInv, Alive, ForcedBack, InTxn
<1>17. CASE Compact \/ CompactFails
  <2>1. ~InTxn /\ UNCHANGED <<saved, cache>> /\ cat'.rows = cat.rows /\ cat'.fsets = FSetsOf(cat.rows)
      BY <1>0, <1>17 DEF Compact, CompactFails, txn, Catalogs
  <2> QED
      BY <2>1, ClosedFacts, ClosedSets
<1>18. CASE Crash \/ Reopen
    BY <1>18, CommittedSets, ClosedSets DEF Crash, Reopen, ResetTxn
<1>19. ASSUME NEW batch \in Batches, AddFailsOutside(batch) PROVE SetsInv'
  <2>1. UNCHANGED <<cat, saved, marks, cache>>
      BY <1>19 DEF AddFailsOutside, txn
  <2> QED
      BY <2>1 DEF SetsInv, Alive, ForcedBack, InTxn
<1> QED
    BY <1>1, <1>2, <1>3, <1>4, <1>5, <1>6, <1>7, <1>8, <1>9, <1>10, <1>11, <1>12, <1>13,
       <1>14, <1>15, <1>16, <1>17, <1>18, <1>19 DEF Next

\* Whatever commits, fails, is rolled back or cleared, a feature set or a time
\* axis the shared-set cache remembers is there, and every row has its feature
\* set.
THEOREM CacheTellsTheTruth ==
    ASSUME ~(IOFaults /\ Crashes)
    PROVE  Spec => []SharedSetsPresent
<1>1. Init => SetsInv
    BY DEF Init, SetsInv, FSetsOf
<1>2. TxnInv /\ SetsInv /\ [Next]_vars => SetsInv'
    BY NextSets
<1>3. TxnInv /\ SetsInv => SharedSetsPresent
    BY DEF TxnInv, TypeOK, CachedAxesStored, SetsInv, SharedSetsPresent
<1>4. Spec => []TxnInv
    BY TxnInvariant
<1> QED
    BY <1>1, <1>2, <1>3, <1>4, PTL DEF Spec

=============================================================================
