----------------------------- MODULE ReadProofs -----------------------------
(***************************************************************************)
(* What a reader, a bulk read and the grid arithmetic answer.              *)
(*                                                                         *)
(* A reader and a bulk read answer from the arrays the store holds, for    *)
(* any worlds of rows, any moments and any block width.  A bulk read's     *)
(* answer is put together in the caller's order, wherever its arrays are   *)
(* (InOrder and Place are inverse).  A reader keeps the columns it was     *)
(* built with (StaticShape, ForecastShape) and a sound block in each cache *)
(* (CacheSound); so a read leaves all of it at one instant, or nothing.    *)
(*                                                                         *)
(* The grid arithmetic is exact over any calendar.  A month's start is     *)
(* defined by recursion; that it is where the months before it end follows *)
(* from there being a first month where it would not be (LeastNatural).    *)
(* From it an instant has one month and one day (MonthFound), and the      *)
(* points of a grid rise and stop (Points), which is all that the floor,   *)
(* the ceiling, the count and the inference of a period need.              *)
(*                                                                         *)
(* A derived view counts only windows that lie inside its series and whose *)
(* dates are the rows' (Planned), the search for a range's first and last  *)
(* window keeps them between its bounds (Searching), and the array it      *)
(* answers holds the rows of exactly those windows (ViewsAreRead).         *)
(*                                                                         *)
(* A read by time takes the rows that the place of its bounds on the grid  *)
(* or in the vector of instants says it takes (SingleReads,                *)
(* NonSequentialReads, PersistentReads, WindowsSelected); a forecast's     *)
(* array keeps the place of every value when its windows are cut out,      *)
(* because products of dimensions keep the order of places (Gathers,       *)
(* BlockIs); and a window becomes a range that selects as many rows as it  *)
(* named (SteppedWindow, IrregularWindows).                                *)
(***************************************************************************)
EXTENDS Readers, TimeReads, FiniteSetTheorems, FunctionTheorems, SequenceTheorems,
        WellFoundedInduction, TLAPS

-----------------------------------------------------------------------------
(* Bulk reads, in the caller's order.                                      *)

\* The numbers of a set up to one of them grow with it.
LEMMA PlaceGrows ==
    ASSUME NEW S \in SUBSET Int, IsFiniteSet(S), NEW x \in S
    PROVE  /\ Place(S, x) \in 1 .. Cardinality(S)
           /\ Cardinality(S) \in Nat
           /\ \A y \in S : y < x => Place(S, y) < Place(S, x)
<1> DEFINE Up(z) == {y \in S : y <= z}
<1>1. \A z \in S : IsFiniteSet(Up(z)) /\ Cardinality(Up(z)) \in Nat
                   /\ Cardinality(Up(z)) <= Cardinality(S)
  <2> TAKE z \in S
  <2>1. Up(z) \in SUBSET S
    OBVIOUS
  <2> HIDE DEF Up
  <2> QED BY <2>1, FS_Subset, FS_CardinalityType
<1>2. Cardinality(S) \in Nat
  BY FS_CardinalityType
<1>3. Cardinality(Up(x)) # 0
  <2>1. x \in Up(x)
    OBVIOUS
  <2> HIDE DEF Up
  <2> QED BY <1>1, <2>1, FS_EmptySet
<1>4. ASSUME NEW y \in S, y < x PROVE Cardinality(Up(y)) < Cardinality(Up(x))
  <2>1. Up(y) \in SUBSET Up(x) /\ x \in Up(x) /\ x \notin Up(y)
    <3>1. x \in Int /\ y \in Int /\ ~(x <= y) /\ x <= x
      BY <1>4
    <3>2. ASSUME NEW z \in S, z <= y PROVE z <= x
      BY <1>4, <3>1, <3>2
    <3> QED BY <3>1, <3>2
  <2>2. Cardinality(Up(y)) <= Cardinality(Up(x)) /\ Cardinality(Up(y)) # Cardinality(Up(x))
    <3> HIDE DEF Up
    <3> QED BY <1>1, <2>1, FS_Subset
  <2> HIDE DEF Up
  <2> QED BY <1>1, <2>2
<1>5. \A z : Place(S, z) = Cardinality(Up(z))
  BY DEF Place
<1> HIDE DEF Up
<1> QED BY <1>1, <1>2, <1>3, <1>4, <1>5

\* The places of a finite set are 1, 2, ... in increasing order, each taken once.
LEMMA Ordered ==
    ASSUME NEW S \in SUBSET Int, IsFiniteSet(S)
    PROVE  /\ Cardinality(S) \in Nat
           /\ InOrder(S) \in [1 .. Cardinality(S) -> S]
           /\ \A j \in 1 .. Cardinality(S) : Place(S, InOrder(S)[j]) = j
           /\ \A x \in S : Place(S, x) \in 1 .. Cardinality(S) /\ InOrder(S)[Place(S, x)] = x
           /\ \A i, j \in 1 .. Cardinality(S) : i < j => InOrder(S)[i] < InOrder(S)[j]
<1> DEFINE n == Cardinality(S)
           at == [x \in S |-> Place(S, x)]
<1>1. n \in Nat
  BY FS_CardinalityType
<1>2. \A x \in S : Place(S, x) \in 1 .. n
  BY PlaceGrows
<1>3. \A x, y \in S : Place(S, x) = Place(S, y) => x = y
  <2> SUFFICES ASSUME NEW x \in S, NEW y \in S, Place(S, x) = Place(S, y), x # y PROVE FALSE
    OBVIOUS
  <2>1. x < y \/ y < x
    OBVIOUS
  <2>2. Place(S, x) < Place(S, y) \/ Place(S, y) < Place(S, x)
    BY <2>1, PlaceGrows
  <2> QED BY <1>1, <1>2, <2>2
<1>4. at \in Surjection(S, 1 .. n)
  <2>1. at \in Injection(S, 1 .. n)
    BY <1>2, <1>3 DEF Injection, IsInjective
  <2>2. IsFiniteSet(1 .. n) /\ Cardinality(1 .. n) = n
    <3>1. Cardinality(1 .. n) = IF 1 > n THEN 0 ELSE n - 1 + 1
      BY <1>1, FS_Interval
    <3> QED BY <1>1, <3>1, FS_Interval
  <2> HIDE DEF at
  <2> QED BY <2>1, <2>2, FS_Injection
<1>5. \A j \in 1 .. n : \E x \in S : Place(S, x) = j
  BY <1>4 DEF Surjection
<1>6. \A j \in 1 .. n : InOrder(S)[j] \in S /\ Place(S, InOrder(S)[j]) = j
  BY <1>5 DEF InOrder
<1>7. InOrder(S) \in [1 .. n -> S]
  BY <1>6 DEF InOrder
<1>8. \A x \in S : InOrder(S)[Place(S, x)] = x
  BY <1>2, <1>3, <1>6
<1>9. ASSUME NEW i \in 1 .. n, NEW j \in 1 .. n, i < j PROVE InOrder(S)[i] < InOrder(S)[j]
  <2> DEFINE a == InOrder(S)[i]
             b == InOrder(S)[j]
  <2>1. a \in S /\ b \in S /\ Place(S, a) = i /\ Place(S, b) = j
    BY <1>6
  <2> HIDE DEF a, b
  <2>2. ~(b < a)
    BY <1>1, <1>9, <2>1, PlaceGrows
  <2>3. a # b
    BY <1>1, <1>9, <2>1
  <2>4. a < b
    <3>1. a \in Int /\ b \in Int
      BY <2>1
    <3> QED BY <2>2, <2>3, <3>1
  <2> QED BY <2>4 DEF a, b
<1> QED BY <1>1, <1>2, <1>6, <1>7, <1>8, <1>9

-----------------------------------------------------------------------------
(* Bulk reads. *)

\* How long a sequence is.
LEMMA LengthOf ==
    ASSUME NEW n \in Nat, NEW s, s = [i \in 1 .. n |-> s[i]]
    PROVE  s \in Seq({s[i] : i \in 1 .. n}) /\ Len(s) = n
OBVIOUS

\* Positions of a sequence can be put in order.
LEMMA Positions ==
    ASSUME NEW n \in Nat, NEW S \in SUBSET (1 .. n)
    PROVE  S \in SUBSET Int /\ IsFiniteSet(S)
<1>1. IsFiniteSet(1 .. n) /\ S \subseteq Int
  BY FS_Interval
<1>2. IsFiniteSet(S)
  BY <1>1, FS_Subset, Zenon
<1> QED BY <1>1, <1>2

\* The buffered columns and those of the file come out in the caller's order.
LEMMA InterleavedInOrder ==
    ASSUME NEW n \in Nat, NEW hashes, DOMAIN hashes = 1 .. n,
           NEW column, column = [i \in 1 .. n |-> column[i]]
    PROVE  Interleaved(hashes, column) = column
<1> DEFINE inFile   == {i \in DOMAIN hashes : hashes[i] \notin buffer}
           order    == InOrder(inFile)
           fromFile == [j \in DOMAIN order |-> column[order[j]]]
<1>1. inFile \in SUBSET Int /\ IsFiniteSet(inFile)
  <2>1. inFile \in SUBSET (1 .. n)
    OBVIOUS
  <2> HIDE DEF inFile
  <2> QED BY <2>1, Positions
<1>2. \A i \in inFile : Place(inFile, i) \in DOMAIN order /\ order[Place(inFile, i)] = i
  <2> HIDE DEF inFile
  <2> QED BY <1>1, Ordered
<1>3. \A i \in inFile : fromFile[Place(inFile, i)] = column[i]
  <2> HIDE DEF inFile, order
  <2> QED BY <1>2
<1>4. \A i \in 1 .. n : (IF hashes[i] \in buffer THEN column[i] ELSE fromFile[Place(inFile, i)]) = column[i]
  BY <1>3
<1>5. Interleaved(hashes, column)
        = [i \in 1 .. n |-> IF hashes[i] \in buffer THEN column[i] ELSE fromFile[Place(inFile, i)]]
  BY DEF Interleaved
<1> HIDE DEF inFile, order, fromFile
<1> QED BY <1>4, <1>5

\* read_arrays answers with the arrays of its rows, in their order.
LEMMA ArraysInOrder ==
    ASSUME NEW n \in Nat, NEW rows, DOMAIN rows = 1 .. n
    PROVE  read_arrays(rows, TRUE)
             = IF \E i \in 1 .. n : ~holds_array(rows[i].hash) THEN Failed
               ELSE [ok |-> TRUE, arrays |-> [i \in 1 .. n |-> ArrayOf(rows[i]).cells]]
<1> DEFINE hashes == [i \in DOMAIN rows |-> rows[i].hash]
           column == [i \in DOMAIN hashes |-> ArrayOf(rows[i]).cells]
<1>1. DOMAIN hashes = 1 .. n /\ \A i \in 1 .. n : hashes[i] = rows[i].hash
  OBVIOUS
<1>2. column = [i \in 1 .. n |-> ArrayOf(rows[i]).cells] /\ column = [i \in 1 .. n |-> column[i]]
  BY <1>1
<1>3. read_arrays(rows, TRUE) = IF \E i \in DOMAIN hashes : ~holds_array(hashes[i]) THEN Failed
                                ELSE [ok |-> TRUE, arrays |-> Interleaved(hashes, column)]
  BY DEF read_arrays
<1> HIDE DEF hashes, column
<1>4. Interleaved(hashes, column) = column
  BY <1>1, <1>2, InterleavedInOrder
<1> QED BY <1>1, <1>2, <1>3, <1>4

\* Whole series read in bulk are the series read one by one.
LEMMA WholeReads ==
    ASSUME NEW n \in Nat, NEW rows, rows = [i \in 1 .. n |-> rows[i]]
    PROVE  bulk_read_metas(rows) = All([i \in 1 .. n |-> Materialized(rows[i], NoRange)])
<1> DEFINE packed == {i \in DOMAIN rows : "shape" \notin DOMAIN rows[i].series}
           order  == InOrder(packed)
           part   == [j \in DOMAIN order |-> rows[order[j]]]
           got    == read_arrays(part, TRUE)
           one(i) == IF i \notin packed THEN Materialized(rows[i], NoRange)
                     ELSE [ok |-> TRUE, series |-> rows[i].series, cells |-> got.arrays[Place(packed, i)]]
           m      == Cardinality(packed)
<1>1. packed \in SUBSET (1 .. n) /\ packed \in SUBSET Int /\ IsFiniteSet(packed)
  <2>1. packed \in SUBSET (1 .. n)
    OBVIOUS
  <2> HIDE DEF packed
  <2> QED BY <2>1, Positions
<1>2. /\ m \in Nat /\ DOMAIN order = 1 .. m
      /\ \A j \in 1 .. m : order[j] \in packed
      /\ \A i \in packed : Place(packed, i) \in 1 .. m /\ order[Place(packed, i)] = i
  <2> HIDE DEF packed
  <2> QED BY <1>1, Ordered
<1>3. DOMAIN part = 1 .. m /\ \A i \in packed : part[Place(packed, i)] = rows[i]
  <2> HIDE DEF packed, order
  <2> QED BY <1>2
<1>4. got = IF \E j \in 1 .. m : ~holds_array(part[j].hash) THEN Failed
            ELSE [ok |-> TRUE, arrays |-> [j \in 1 .. m |-> ArrayOf(part[j]).cells]]
  <2>1. m \in Nat /\ DOMAIN part = 1 .. m
    BY <1>2, <1>3
  <2> HIDE DEF part, m, packed, order
  <2> QED BY <2>1, ArraysInOrder, Zenon
<1>5. (\E j \in 1 .. m : ~holds_array(part[j].hash)) <=> \E i \in packed : ~holds_array(rows[i].hash)
  <2>1. \A j \in 1 .. m : order[j] \in packed /\ part[j] = rows[order[j]]
    <3> HIDE DEF packed, order, m
    <3> QED BY <1>2
  <2> HIDE DEF packed, part, m
  <2> QED BY <1>2, <1>3, <2>1, Zenon
<1>6. bulk_read_metas(rows) = IF ~got.ok THEN Failed ELSE All([i \in 1 .. n |-> one(i)])
  BY Zenon DEF bulk_read_metas
<1>7. \A i \in 1 .. n : Materialized(rows[i], NoRange)
        = IF ~holds_array(rows[i].hash) THEN Failed
          ELSE [ok |-> TRUE, series |-> rows[i].series, cells |-> ArrayOf(rows[i]).cells]
  BY DEF Materialized
<1>8. CASE \E i \in packed : ~holds_array(rows[i].hash)
  <2>1. got = Failed
    BY <1>4, <1>5, <1>8, Zenon
  <2>2. bulk_read_metas(rows) = Failed
    <3> HIDE DEF got, one
    <3>1. ~got.ok
      BY <2>1 DEF Failed
    <3> QED BY <1>6, <3>1
  <2>3. \E i \in 1 .. n : Materialized(rows[i], NoRange) = Failed
    BY <1>1, <1>7, <1>8
  <2> QED BY <2>2, <2>3 DEF All, Failed
<1>9. CASE ~\E i \in packed : ~holds_array(rows[i].hash)
  <2>1. got = [ok |-> TRUE, arrays |-> [j \in 1 .. m |-> ArrayOf(part[j]).cells]]
    BY <1>4, <1>5, <1>9, Zenon
  <2>2. got.ok /\ \A i \in packed : got.arrays[Place(packed, i)] = ArrayOf(rows[i]).cells
    <3> HIDE DEF packed, got, part, m
    <3> QED BY <1>2, <1>3, <2>1, Zenon
  <2>3. \A i \in 1 .. n : one(i) = Materialized(rows[i], NoRange)
    <3> TAKE i \in 1 .. n
    <3>1. CASE i \notin packed
      BY <3>1
    <3>2. CASE i \in packed
      <4>1. one(i) = [ok |-> TRUE, series |-> rows[i].series, cells |-> ArrayOf(rows[i]).cells]
        <5> HIDE DEF packed, got
        <5> QED BY <2>2, <3>2
      <4> HIDE DEF one, packed
      <4> QED BY <1>7, <1>9, <3>2, <4>1
    <3> QED BY <3>1, <3>2, Zenon
  <2> HIDE DEF one, got
  <2> QED BY <1>6, <2>2, <2>3, Zenon
<1> QED BY <1>8, <1>9

\* What a behaviour's rows are, and that the catalog only ever holds them.
RowsKnown ==
    /\ world \in Worlds
    /\ catalog \subseteq world
    /\ saved = <<>> \/ (saved = <<saved[1]>> /\ saved[1] \subseteq world)

TheRow(id) == CHOOSE r \in RowsWithId(id) : TRUE

\* How the series of a bulk read spell their instants.
Spellings(ids) == {RowOf(ids[i]).series.zoneless : i \in DOMAIN ids}

\* What a single read of an id answers.
ByWindow(id, w) == IF RowsWithId(id) = {} THEN Failed ELSE ReadThrough(TheRow(id), w)
ByRange(id, r)  == IF RowsWithId(id) = {} THEN Failed ELSE Materialized(TheRow(id), r)

\* rows_for_ids finds every id's row, or one of the ids names none.
LEMMA RowsOfIds ==
    ASSUME NEW n \in Nat, NEW ids, ids = [i \in 1 .. n |-> ids[i]]
    PROVE  \/ /\ \E i \in 1 .. n : RowsWithId(ids[i]) = {}
              /\ rows_for_ids(ids) = <<>> /\ ids # <<>>
           \/ /\ \A i \in 1 .. n : RowsWithId(ids[i]) # {}
              /\ rows_for_ids(ids) = [i \in 1 .. n |-> TheRow(ids[i])]
              /\ rows_for_ids(ids) = <<>> => ids = <<>>
<1>1. CASE \E i \in 1 .. n : RowsWithId(ids[i]) = {}
  <2>1. rows_for_ids(ids) = <<>>
    BY <1>1 DEF rows_for_ids
  <2>2. ids # <<>>
    BY <1>1
  <2> QED BY <1>1, <2>1, <2>2
<1>2. CASE \A i \in 1 .. n : RowsWithId(ids[i]) # {}
  <2>1. rows_for_ids(ids) = [i \in 1 .. n |-> TheRow(ids[i])]
    BY <1>2 DEF rows_for_ids, TheRow
  <2>2. rows_for_ids(ids) = <<>> => 1 .. n = {}
    BY <2>1
  <2>3. 1 .. n = {} => ids = <<>>
    <3>1. 1 .. n = {} => n = 0
      OBVIOUS
    <3> QED BY <3>1
  <2> QED BY <1>2, <2>1, <2>2, <2>3
<1> QED BY <1>1, <1>2

\* An id names one row, of the catalog as of the world it is part of.
LEMMA OneRowPerId ==
    ASSUME RowsKnown, NEW id, RowsWithId(id) # {}
    PROVE  /\ TheRow(id) = RowOf(id)
           /\ TheRow(id) \in catalog /\ TheRow(id).id = id
           /\ TheRow(id).series.zoneless \in BOOLEAN
<1>1. TheRow(id) \in catalog /\ TheRow(id).id = id
  BY DEF TheRow, RowsWithId
<1>2. TheRow(id) \in world
  BY <1>1 DEF RowsKnown
<1>3. RowOf(id) \in world /\ RowOf(id).id = id
  BY <1>1, <1>2 DEF RowOf
<1>4. TheRow(id) = RowOf(id) /\ TheRow(id).series.zoneless \in BOOLEAN
  BY <1>1, <1>2, <1>3, WorldsAssumption DEF RowsKnown
<1> QED BY <1>1, <1>4

\* A set of two.
LEMMA TwoElements ==
    ASSUME NEW a, NEW b, a # b
    PROVE  IsFiniteSet({a, b}) /\ Cardinality({a, b}) = 2
<1>1. IsFiniteSet({a}) /\ Cardinality({a}) = 1
  BY FS_Singleton
<1>2. {a, b} = {a} \cup {b} /\ b \notin {a}
  OBVIOUS
<1>3. IsFiniteSet({a} \cup {b}) /\ Cardinality({a} \cup {b}) = Cardinality({a}) + 1
  BY <1>1, <1>2, FS_AddElement
<1> QED BY <1>1, <1>2, <1>3

\* Rows that mix the two spellings have both of them.
LEMMA MixedHasBoth ==
    ASSUME RowsKnown, NEW n \in Nat, NEW ids, ids = [i \in 1 .. n |-> ids[i]],
           \A i \in 1 .. n : RowsWithId(ids[i]) # {},
           NEW rows, rows = [i \in 1 .. n |-> TheRow(ids[i])], Mixed(rows)
    PROVE  Cardinality(Spellings(ids)) = 2
<1> DEFINE Z    == {RowOf(ids[i]).series.zoneless : i \in DOMAIN ids}
<1>0. \A i \in 1 .. n : /\ rows[i] = RowOf(ids[i])
                        /\ RowOf(ids[i]).series.zoneless \in BOOLEAN
  BY OneRowPerId
<1>1. {r.series.zoneless : r \in {rows[i] : i \in DOMAIN rows}} = Z
  <2>1. DOMAIN rows = 1 .. n /\ DOMAIN ids = 1 .. n
    OBVIOUS
  <2> QED BY <1>0, <2>1
<1>2. Cardinality(Z) > 1
  BY <1>1 DEF Mixed, reject_mixed_zoning
<1>3. Z \subseteq {TRUE, FALSE}
  <2>1. DOMAIN ids = 1 .. n
    OBVIOUS
  <2> QED BY <1>0, <2>1, Zenon
<1>4. IsFiniteSet({TRUE, FALSE}) /\ Cardinality({TRUE, FALSE}) = 2
  <2>1. TRUE # FALSE
    OBVIOUS
  <2> QED BY <2>1, TwoElements, Zenon
<1> HIDE DEF Z
<1>5. Cardinality(Z) <= 2 /\ Cardinality(Z) \in Nat
  <2>1. IsFiniteSet(Z) /\ Cardinality(Z) <= Cardinality({TRUE, FALSE})
    BY <1>3, <1>4, FS_Subset, Zenon
  <2> QED BY <1>4, <2>1, FS_CardinalityType
<1> QED BY <1>2, <1>5 DEF Z, Spellings

\* Reads that all answer are answered, in order; otherwise one of them fails.
LEMMA AllAnswers ==
    ASSUME NEW reads
    PROVE  \/ /\ All(reads) = [ok |-> TRUE, read |-> reads]
              /\ \A i \in DOMAIN reads : reads[i].ok
           \/ All(reads) = Failed /\ \E i \in DOMAIN reads : ~reads[i].ok
BY DEF All

\* The single reads of n ids.
WindowReads(n, ids, w)    == [i \in 1 .. n |-> ByWindow(ids[i], w)]
RangeReads(n, ids, range) == [i \in 1 .. n |-> ByRange(ids[i], range)]

\* read_by_ids is the single reads of its ids.
LEMMA IdsReadInOrder ==
    ASSUME RowsKnown, NEW n \in Nat, NEW ids, ids = [i \in 1 .. n |-> ids[i]], NEW w
    PROVE  \/ read_by_ids(ids, w) = [ok |-> TRUE, read |-> WindowReads(n, ids, w)]
           \/ /\ read_by_ids(ids, w) = Failed
              /\ \/ \E i \in 1 .. n : ~ByWindow(ids[i], w).ok
                 \/ /\ w.start # NoStart
                    /\ Cardinality(Spellings(ids)) = 2
<1> DEFINE rows  == [i \in 1 .. n |-> TheRow(ids[i])]
           reads == WindowReads(n, ids, w)
<1> USE DEF WindowReads
<1>1. CASE /\ \E i \in 1 .. n : RowsWithId(ids[i]) = {}
           /\ rows_for_ids(ids) = <<>> /\ ids # <<>>
  <2>1. read_by_ids(ids, w) = Failed
    BY <1>1 DEF read_by_ids
  <2>2. \E i \in 1 .. n : ByWindow(ids[i], w) = Failed
    BY <1>1 DEF ByWindow
  <2> QED BY <2>1, <2>2 DEF Failed
<1>2. CASE /\ \A i \in 1 .. n : RowsWithId(ids[i]) # {}
           /\ rows_for_ids(ids) = rows
           /\ rows_for_ids(ids) = <<>> => ids = <<>>
  <2>1. \A i \in 1 .. n : ByWindow(ids[i], w) = ReadThrough(rows[i], w)
    BY <1>2 DEF ByWindow
  <2>2. CASE IsFull(w)
    <3>1. read_by_ids(ids, w) = bulk_read_metas(rows)
      BY <1>2, <2>2 DEF read_by_ids
    <3>2. bulk_read_metas(rows) = All([i \in 1 .. n |-> Materialized(rows[i], NoRange)])
      <4>1. rows = [i \in 1 .. n |-> rows[i]]
        OBVIOUS
      <4> HIDE DEF rows
      <4> QED BY <4>1, WholeReads
    <3>3. \A i \in 1 .. n : ReadThrough(rows[i], w) = Materialized(rows[i], NoRange)
      BY <2>2 DEF ReadThrough
    <3>4. read_by_ids(ids, w) = All(reads)
      <4> HIDE DEF rows
      <4> QED BY <2>1, <3>1, <3>2, <3>3
    <3>5. DOMAIN reads = 1 .. n
      OBVIOUS
    <3>6. \/ All(reads) = [ok |-> TRUE, read |-> reads]
          \/ All(reads) = Failed /\ \E i \in 1 .. n : ~reads[i].ok
      <4> HIDE DEF reads
      <4> QED BY <3>5, AllAnswers
    <3> QED BY <3>4, <3>6
  <2>3. CASE ~IsFull(w) /\ w.start # NoStart /\ Mixed(rows)
    <3>1. read_by_ids(ids, w) = Failed
      BY <1>2, <2>3 DEF read_by_ids
    <3>2. Cardinality(Spellings(ids)) = 2
      <4>1. rows = [i \in 1 .. n |-> TheRow(ids[i])]
        OBVIOUS
      <4>2. Mixed(rows) /\ \A i \in 1 .. n : RowsWithId(ids[i]) # {}
        BY <1>2, <2>3
      <4> HIDE DEF rows
      <4> QED BY <4>1, <4>2, MixedHasBoth, Zenon
    <3> QED BY <2>3, <3>1, <3>2
  <2>4. CASE ~IsFull(w) /\ ~(w.start # NoStart /\ Mixed(rows))
    <3>1. read_by_ids(ids, w) = All([i \in DOMAIN rows |-> ReadThrough(rows[i], w)])
      <4> HIDE DEF rows
      <4> QED BY <1>2, <2>4 DEF read_by_ids
    <3>2. [i \in DOMAIN rows |-> ReadThrough(rows[i], w)] = reads
      <4>1. DOMAIN rows = 1 .. n
        OBVIOUS
      <4> HIDE DEF rows
      <4> QED BY <2>1, <4>1
    <3>3. read_by_ids(ids, w) = All(reads)
      BY <3>1, <3>2
    <3>5. DOMAIN reads = 1 .. n
      OBVIOUS
    <3>6. \/ All(reads) = [ok |-> TRUE, read |-> reads]
          \/ All(reads) = Failed /\ \E i \in 1 .. n : ~reads[i].ok
      <4> HIDE DEF reads
      <4> QED BY <3>5, AllAnswers
    <3> QED BY <3>3, <3>6
  <2> QED BY <2>2, <2>3, <2>4
<1> QED BY <1>1, <1>2, RowsOfIds

\* read_by_ids_range likewise; a range is always a bound.
LEMMA RangesReadInOrder ==
    ASSUME RowsKnown, NEW n \in Nat, NEW ids, ids = [i \in 1 .. n |-> ids[i]], NEW range
    PROVE  \/ read_by_ids_range(ids, range) = [ok |-> TRUE, read |-> RangeReads(n, ids, range)]
           \/ /\ read_by_ids_range(ids, range) = Failed
              /\ \/ \E i \in 1 .. n : ~ByRange(ids[i], range).ok
                 \/ Cardinality(Spellings(ids)) = 2
<1> DEFINE rows  == [i \in 1 .. n |-> TheRow(ids[i])]
           reads == RangeReads(n, ids, range)
<1> USE DEF RangeReads
<1>1. CASE /\ \E i \in 1 .. n : RowsWithId(ids[i]) = {}
           /\ rows_for_ids(ids) = <<>> /\ ids # <<>>
  <2>1. read_by_ids_range(ids, range) = Failed
    BY <1>1 DEF read_by_ids_range
  <2>2. \E i \in 1 .. n : ByRange(ids[i], range) = Failed
    BY <1>1 DEF ByRange
  <2> QED BY <2>1, <2>2 DEF Failed
<1>2. CASE /\ \A i \in 1 .. n : RowsWithId(ids[i]) # {}
           /\ rows_for_ids(ids) = rows
           /\ rows_for_ids(ids) = <<>> => ids = <<>>
  <2>1. \A i \in 1 .. n : ByRange(ids[i], range) = Materialized(rows[i], range)
    BY <1>2 DEF ByRange
  <2>2. CASE Mixed(rows)
    <3>1. read_by_ids_range(ids, range) = Failed
      BY <1>2, <2>2 DEF read_by_ids_range
    <3>2. Cardinality(Spellings(ids)) = 2
      <4>1. rows = [i \in 1 .. n |-> TheRow(ids[i])]
        OBVIOUS
      <4>2. Mixed(rows) /\ \A i \in 1 .. n : RowsWithId(ids[i]) # {}
        BY <1>2, <2>2
      <4> HIDE DEF rows
      <4> QED BY <4>1, <4>2, MixedHasBoth, Zenon
    <3> QED BY <3>1, <3>2
  <2>3. CASE ~Mixed(rows)
    <3>1. read_by_ids_range(ids, range) = All([i \in DOMAIN rows |-> Materialized(rows[i], range)])
      <4> HIDE DEF rows
      <4> QED BY <1>2, <2>3 DEF read_by_ids_range
    <3>2. [i \in DOMAIN rows |-> Materialized(rows[i], range)] = reads
      <4>1. DOMAIN rows = 1 .. n
        OBVIOUS
      <4> HIDE DEF rows
      <4> QED BY <2>1, <4>1
    <3>3. read_by_ids_range(ids, range) = All(reads)
      BY <3>1, <3>2
    <3>5. DOMAIN reads = 1 .. n
      OBVIOUS
    <3>6. \/ All(reads) = [ok |-> TRUE, read |-> reads]
          \/ All(reads) = Failed /\ \E i \in 1 .. n : ~reads[i].ok
      <4> HIDE DEF reads
      <4> QED BY <3>5, AllAnswers
    <3> QED BY <3>3, <3>6
  <2> QED BY <2>2, <2>3
<1> QED BY <1>1, <1>2, RowsOfIds

\* What a reader or a bulk read answered, against what the store holds now.
Answered(l) ==
  LET one(id) == IF l.kind = "ids" THEN ByWindow(id, l.window) ELSE ByRange(id, l.range)
      bounded == IF l.kind = "ids" THEN l.window.start # NoStart ELSE TRUE
  IN l.kind \in {"ids", "range"} =>
       IF l.got.ok THEN l.got.read = [i \in DOMAIN l.ids |-> one(l.ids[i])]
       ELSE \/ \E i \in DOMAIN l.ids : ~one(l.ids[i]).ok
            \/ bounded /\ Cardinality(Spellings(l.ids)) = 2

\* It is BulkReadsInOrder of the last read.
LEMMA AnsweredIsInOrder == Answered(last) => BulkReadsInOrder
<1> USE DEF Spellings
<1> SUFFICES ASSUME Answered(last) PROVE BulkReadsInOrder
  OBVIOUS
<1>1. CASE last.kind = "ids"
  <2> DEFINE one(id) == IF RowsWithId(id) = {} THEN Failed
                        ELSE ReadThrough(CHOOSE r \in RowsWithId(id) : TRUE, last.window)
  <2>1. \A id : ByWindow(id, last.window) = one(id)
    BY DEF ByWindow, TheRow
  <2> HIDE DEF one
  <2>2. IF last.got.ok THEN last.got.read = [i \in DOMAIN last.ids |-> one(last.ids[i])]
        ELSE \/ \E i \in DOMAIN last.ids : ~one(last.ids[i]).ok
             \/ /\ last.window.start # NoStart
                /\ Cardinality({RowOf(last.ids[i]).series.zoneless : i \in DOMAIN last.ids}) = 2
    BY <1>1, <2>1 DEF Answered
  <2> QED BY <1>1, <2>2 DEF BulkReadsInOrder, one
<1>2. CASE last.kind = "range"
  <2> DEFINE one(id) == IF RowsWithId(id) = {} THEN Failed
                        ELSE Materialized(CHOOSE r \in RowsWithId(id) : TRUE, last.range)
  <2>1. \A id : ByRange(id, last.range) = one(id)
    BY DEF ByRange, TheRow
  <2> HIDE DEF one
  <2>2. IF last.got.ok THEN last.got.read = [i \in DOMAIN last.ids |-> one(last.ids[i])]
        ELSE \/ \E i \in DOMAIN last.ids : ~one(last.ids[i]).ok
             \/ Cardinality({RowOf(last.ids[i]).series.zoneless : i \in DOMAIN last.ids}) = 2
    BY <1>2, <2>1 DEF Answered
  <2> QED BY <1>2, <2>2 DEF BulkReadsInOrder, one
<1> QED BY <1>1, <1>2 DEF BulkReadsInOrder

\* While the store stands still so do the single reads.
LEMMA ReadsStandStill ==
    ASSUME UNCHANGED <<world, catalog, file, buffer>>, NEW l
    PROVE  Answered(l)' <=> Answered(l)
<1>1. \A id : RowsWithId(id)' = RowsWithId(id) /\ TheRow(id)' = TheRow(id) /\ RowOf(id)' = RowOf(id)
        /\ Spellings(id)' = Spellings(id)
  BY DEF RowsWithId, TheRow, RowOf, Spellings
<1>2. \A row, range : Materialized(row, range)' = Materialized(row, range)
  BY DEF Materialized, holds_array
<1>3. \A row, w : ReadThrough(row, w)' = ReadThrough(row, w)
  BY <1>2 DEF ReadThrough
<1>4. \A id, w : ByWindow(id, w)' = ByWindow(id, w)
  BY <1>1, <1>3 DEF ByWindow
<1>5. \A id, r : ByRange(id, r)' = ByRange(id, r)
  BY <1>1, <1>2 DEF ByRange
<1> QED BY <1>1, <1>4, <1>5 DEF Answered

\* The steps that change the store, or only what the caller holds.
Changes == (\E row \in world : AddRow(row) \/ RemoveRow(row)) \/ Begin \/ Commit \/ Rollback

\* A behaviour starts with known rows and only adds, removes and restores them.
LEMMA RowsStayKnown ==
    /\ Init => RowsKnown
    /\ RowsKnown /\ [Next]_vars => RowsKnown'
<1>1. Init => RowsKnown
  BY DEF Init, RowsKnown
<1>2. ASSUME RowsKnown, UNCHANGED store PROVE RowsKnown'
  BY <1>2 DEF RowsKnown, store
<1>3. ASSUME RowsKnown, Changes PROVE RowsKnown'
  <2>1. ASSUME NEW row \in world, AddRow(row) \/ RemoveRow(row) PROVE RowsKnown'
    BY <1>3, <2>1 DEF AddRow, RemoveRow, RowsKnown
  <2>2. CASE Begin
    <3>1. catalog' = catalog /\ world' = world /\ saved' = <<catalog>>
      BY <2>2 DEF Begin
    <3>2. saved'[1] = catalog
      BY <3>1
    <3> QED BY <1>3, <3>1, <3>2 DEF RowsKnown
  <2>3. CASE Commit
    BY <1>3, <2>3 DEF Commit, RowsKnown
  <2>4. CASE Rollback
    BY <1>3, <2>4 DEF Rollback, RowsKnown
  <2> QED BY <1>3, <2>1, <2>2, <2>3, <2>4 DEF Changes
<1>4. Next => Changes \/ UNCHANGED store
  <2>1. BuildStatic \/ BuildForecast => UNCHANGED store
    BY DEF BuildStatic, BuildForecast, Build
  <2>2. StaticRead \/ ForecastRead => UNCHANGED store
    BY DEF StaticRead, ForecastRead
  <2>3. BulkRead => UNCHANGED store
    BY DEF BulkRead, store
  <2> QED BY <2>1, <2>2, <2>3 DEF Next, Changes
<1>5. UNCHANGED vars => UNCHANGED store
  BY DEF vars, store
<1> QED BY <1>1, <1>2, <1>3, <1>4, <1>5

\* What a bulk read leaves behind is an answer in order.
LEMMA BulkReadAnswers == ASSUME RowsKnown, BulkRead PROVE Answered(last')
<1>1. PICK ids \in Ids :
        \/ \E w \in BulkWindows :
             last' = [kind |-> "ids", ids |-> ids, window |-> w, got |-> read_by_ids(ids, w)]
        \/ \E r \in BulkRanges :
             last' = [kind |-> "range", ids |-> ids, range |-> r, got |-> read_by_ids_range(ids, r)]
  BY DEF BulkRead
<1>2. PICK n \in Nat : ids = [i \in 1 .. n |-> ids[i]]
  BY DEF Ids
<1>3. ASSUME NEW w, last' = [kind |-> "ids", ids |-> ids, window |-> w, got |-> read_by_ids(ids, w)]
      PROVE  Answered(last')
  <2> DEFINE reads == WindowReads(n, ids, w)
  <2>1. DOMAIN ids = 1 .. n
    BY <1>2
  <2>2. CASE read_by_ids(ids, w) = [ok |-> TRUE, read |-> reads]
    <3>1. /\ last'.kind = "ids" /\ last'.ids = ids /\ last'.window = w
          /\ last'.got.ok = TRUE /\ last'.got.read = reads
      <4> HIDE DEF reads
      <4> QED BY <1>3, <2>2
    <3> QED BY <2>1, <3>1 DEF Answered, WindowReads
  <2>3. CASE read_by_ids(ids, w) = Failed
    <3>1. /\ last'.kind = "ids" /\ last'.ids = ids /\ last'.window = w
          /\ last'.got.ok = FALSE
      BY <1>3, <2>3 DEF Failed
    <3>3. \/ \E i \in 1 .. n : ~ByWindow(ids[i], w).ok
          \/ w.start # NoStart /\ Cardinality(Spellings(ids)) = 2
      BY <1>2, <2>3, IdsReadInOrder DEF Failed
    <3> QED BY <2>1, <3>1, <3>3 DEF Answered
  <2>4. \/ read_by_ids(ids, w) = [ok |-> TRUE, read |-> reads]
        \/ read_by_ids(ids, w) = Failed
    BY <1>2, IdsReadInOrder
  <2> QED BY <2>2, <2>3, <2>4
<1>4. ASSUME NEW r, last' = [kind |-> "range", ids |-> ids, range |-> r, got |-> read_by_ids_range(ids, r)]
      PROVE  Answered(last')
  <2> DEFINE reads == RangeReads(n, ids, r)
  <2>1. DOMAIN ids = 1 .. n
    BY <1>2
  <2>2. CASE read_by_ids_range(ids, r) = [ok |-> TRUE, read |-> reads]
    <3>1. /\ last'.kind = "range" /\ last'.ids = ids /\ last'.range = r
          /\ last'.got.ok = TRUE /\ last'.got.read = reads
      <4> HIDE DEF reads
      <4> QED BY <1>4, <2>2
    <3> QED BY <2>1, <3>1 DEF Answered, RangeReads
  <2>3. CASE read_by_ids_range(ids, r) = Failed
    <3>1. /\ last'.kind = "range" /\ last'.ids = ids /\ last'.range = r
          /\ last'.got.ok = FALSE
      BY <1>4, <2>3 DEF Failed
    <3>2. \/ \E i \in 1 .. n : ~ByRange(ids[i], r).ok
          \/ Cardinality(Spellings(ids)) = 2
      BY <1>2, <2>3, RangesReadInOrder DEF Failed
    <3> QED BY <2>1, <3>1, <3>2 DEF Answered
  <2>4. \/ read_by_ids_range(ids, r) = [ok |-> TRUE, read |-> reads]
        \/ read_by_ids_range(ids, r) = Failed
    BY <1>2, RangesReadInOrder
  <2> QED BY <2>2, <2>3, <2>4
<1> QED BY <1>1, <1>3, <1>4

\* BulkReadsInOrder holds: a bulk read is the single reads of its ids, in the caller's
\* order and with repeats, wherever the arrays are, whatever the worlds and bounds.
THEOREM BulkReadsKeepOrder == Spec => []BulkReadsInOrder
<1> DEFINE BulkInv == RowsKnown /\ Answered(last)
<1>1. Init => BulkInv
  <2>1. Init => last.kind = "none"
    BY DEF Init, NoRead
  <2> QED BY <2>1, RowsStayKnown DEF Answered
<1>2. ASSUME BulkInv, [Next]_vars PROVE BulkInv'
  <2>1. RowsKnown'
    BY <1>2, RowsStayKnown
  <2>2. CASE UNCHANGED vars
    <3>1. UNCHANGED <<world, catalog, file, buffer>> /\ last' = last
      BY <2>2 DEF vars
    <3> QED BY <1>2, <2>1, <3>1, ReadsStandStill
  <2>3. CASE BulkRead
    <3>1. UNCHANGED <<world, catalog, file, buffer>>
      BY <2>3 DEF BulkRead
    <3>2. Answered(last')
      BY <1>2, <2>3, BulkReadAnswers
    <3> QED BY <2>1, <3>1, <3>2, ReadsStandStill
  <2>4. CASE last'.kind \notin {"ids", "range"}
    BY <2>1, <2>4 DEF Answered
  <2>5. Next => BulkRead \/ last'.kind \notin {"ids", "range"}
    <3>1. Changes \/ BuildStatic \/ BuildForecast => last'.kind = "none"
      BY DEF Changes, AddRow, RemoveRow, Begin, Commit, Rollback, BuildStatic, BuildForecast, Build, NoRead
    <3>2. StaticRead => last'.kind = "static"
      BY DEF StaticRead
    <3>3. ForecastRead => last'.kind = "forecast"
      BY DEF ForecastRead
    <3> QED BY <3>1, <3>2, <3>3 DEF Next, Changes
  <2> QED BY <1>2, <2>2, <2>3, <2>4, <2>5
<1>3. BulkInv => BulkReadsInOrder
  BY AnsweredIsInOrder
<1> HIDE DEF BulkInv
<1> QED BY <1>1, <1>2, <1>3, PTL DEF Spec

-----------------------------------------------------------------------------
(* Reads of a static reader. *)

GroupShape(G) ==
    /\ G = [ids |-> G.ids, hashes |-> G.hashes, companions |-> G.companions,
            values |-> G.values, filled |-> G.filled]
    /\ \E n \in Nat : DOMAIN G.ids = 1 .. n /\ DOMAIN G.hashes = 1 .. n

StaticShape(rd) ==
    /\ rd = [kind |-> "static", timeline |-> rd.timeline, groups |-> rd.groups]
    /\ \E m \in Nat : rd.groups = [g \in 1 .. m |-> rd.groups[g]]
    /\ \A g \in DOMAIN rd.groups : GroupShape(rd.groups[g])

\* A reader keeps its columns; only what the groups hold changes.
SameColumns(a, b) ==
    /\ a.timeline = b.timeline
    /\ DOMAIN a.groups = DOMAIN b.groups
    /\ \A g \in DOMAIN a.groups :
          /\ a.groups[g].ids = b.groups[g].ids
          /\ a.groups[g].hashes = b.groups[g].hashes
          /\ a.groups[g].companions = b.groups[g].companions

\* What a group holds after a read at an instant.
Cells(timeline, G, at) ==
    [i \in DOMAIN G.ids |-> Value(G.hashes[i], ColumnRows(timeline, G, at)[i] + 1)]

RowsOf(timeline, G, at, g, io) == read_rows_into(G.hashes, ColumnRows(timeline, G, at), g \in io)

Held(hashes) == \A i \in DOMAIN hashes : holds_array(hashes[i])

Filled(G, v)         == [G EXCEPT !.values = v, !.filled = TRUE]
Emptied(G)           == [G EXCEPT !.filled = FALSE]
WithGroups(rd, gs)   == [rd EXCEPT !.groups = gs]

\* A group filled is a group of the same columns.
LEMMA FilledGroup ==
    ASSUME NEW G, GroupShape(G), NEW v
    PROVE  /\ GroupShape(Filled(G, v))
           /\ Filled(G, v).ids = G.ids /\ Filled(G, v).hashes = G.hashes
           /\ Filled(G, v).companions = G.companions
           /\ Filled(G, v).values = v /\ Filled(G, v).filled = TRUE
<1> DEFINE a == G.ids
           b == G.hashes
           c == G.companions
           d == G.values
           e == G.filled
           H == Filled(G, v)
<1>1. G = [ids |-> a, hashes |-> b, companions |-> c, values |-> d, filled |-> e]
  BY DEF GroupShape
<1>2. PICK n \in Nat : DOMAIN a = 1 .. n /\ DOMAIN b = 1 .. n
  BY DEF GroupShape
<1>3. H = [G EXCEPT !.values = v, !.filled = TRUE]
  BY DEF Filled
<1> HIDE DEF a, b, c, d, e, H
<1>4. H = [ids |-> a, hashes |-> b, companions |-> c, values |-> v, filled |-> TRUE]
  BY <1>1, <1>3
<1>5. H.ids = a /\ H.hashes = b /\ H.companions = c /\ H.values = v /\ H.filled = TRUE
  BY <1>4
<1>6. GroupShape(H)
  BY <1>2, <1>4, <1>5 DEF GroupShape
<1>7. G.ids = a /\ G.hashes = b /\ G.companions = c
  BY <1>1
<1> QED BY <1>5, <1>6, <1>7 DEF H

\* So is one emptied.
LEMMA EmptiedGroup ==
    ASSUME NEW G, GroupShape(G)
    PROVE  /\ GroupShape(Emptied(G))
           /\ Emptied(G).ids = G.ids /\ Emptied(G).hashes = G.hashes
           /\ Emptied(G).companions = G.companions
           /\ Emptied(G).values = G.values /\ Emptied(G).filled = FALSE
<1> DEFINE a == G.ids
           b == G.hashes
           c == G.companions
           d == G.values
           e == G.filled
           H == Emptied(G)
<1>1. G = [ids |-> a, hashes |-> b, companions |-> c, values |-> d, filled |-> e]
  BY DEF GroupShape
<1>2. PICK n \in Nat : DOMAIN a = 1 .. n /\ DOMAIN b = 1 .. n
  BY DEF GroupShape
<1>3. H = [G EXCEPT !.filled = FALSE]
  BY DEF Emptied
<1> HIDE DEF a, b, c, d, e, H
<1>4. H = [ids |-> a, hashes |-> b, companions |-> c, values |-> d, filled |-> FALSE]
  BY <1>1, <1>3
<1>5. H.ids = a /\ H.hashes = b /\ H.companions = c /\ H.values = d /\ H.filled = FALSE
  BY <1>4
<1>6. GroupShape(H)
  BY <1>2, <1>4, <1>5 DEF GroupShape
<1>7. G.ids = a /\ G.hashes = b /\ G.companions = c /\ G.values = d
  BY <1>1
<1> QED BY <1>5, <1>6, <1>7 DEF H

\* One row of each column of a group, or an error if an array is not there.
LEMMA RowsRead ==
    ASSUME NEW timeline, NEW G, GroupShape(G), NEW at, NEW g, NEW io
    PROVE  \/ RowsOf(timeline, G, at, g, io).ok = FALSE
           \/ /\ RowsOf(timeline, G, at, g, io).ok = TRUE
              /\ Held(G.hashes) /\ RowsOf(timeline, G, at, g, io).values = Cells(timeline, G, at)
<1> DEFINE rows   == ColumnRows(timeline, G, at)
           column == [i \in DOMAIN G.hashes |-> Value(G.hashes[i], rows[i] + 1)]
           got    == RowsOf(timeline, G, at, g, io)
<1>1. CASE ~(g \in io) \/ \E i \in DOMAIN G.hashes : ~holds_array(G.hashes[i])
  BY <1>1 DEF RowsOf, read_rows_into, Failed
<1>2. CASE g \in io /\ ~\E i \in DOMAIN G.hashes : ~holds_array(G.hashes[i])
  <2>1. PICK n \in Nat : DOMAIN G.ids = 1 .. n /\ DOMAIN G.hashes = 1 .. n
    BY DEF GroupShape
  <2>2. column = [i \in 1 .. n |-> column[i]]
    BY <2>1
  <2>3. Interleaved(G.hashes, column) = column
    <3> HIDE DEF column
    <3> QED BY <2>1, <2>2, InterleavedInOrder
  <2>4. got = [ok |-> TRUE, values |-> Interleaved(G.hashes, column)]
    BY <1>2 DEF RowsOf, read_rows_into
  <2>5. Cells(timeline, G, at) = column
    BY <2>1 DEF Cells
  <2>6. got.ok = TRUE /\ got.values = Cells(timeline, G, at)
    <3> HIDE DEF column, got
    <3> QED BY <2>3, <2>4, <2>5
  <2> QED BY <1>2, <2>6 DEF Held
<1> QED BY <1>1, <1>2

\* Groups put back into a reader.
LEMMA Regrouped ==
    ASSUME NEW rd, StaticShape(rd), NEW gs,
           gs = [g \in DOMAIN rd.groups |-> gs[g]],
           \A g \in DOMAIN rd.groups :
             /\ GroupShape(gs[g])
             /\ gs[g].ids = rd.groups[g].ids /\ gs[g].hashes = rd.groups[g].hashes
             /\ gs[g].companions = rd.groups[g].companions
    PROVE  LET r == WithGroups(rd, gs) IN
           StaticShape(r) /\ SameColumns(r, rd) /\ r.groups = gs
<1> DEFINE t == rd.timeline
           old == rd.groups
           r == WithGroups(rd, gs)
<1>1. rd = [kind |-> "static", timeline |-> t, groups |-> old]
  BY DEF StaticShape
<1>2. r = [kind |-> "static", timeline |-> t, groups |-> gs]
  <2> HIDE DEF t, old
  <2> QED BY <1>1 DEF WithGroups
<1>3. DOMAIN gs = DOMAIN rd.groups
  OBVIOUS
<1> HIDE DEF r
<1>4. r.timeline = t /\ r.groups = gs
  BY <1>2
<1> QED BY <1>2, <1>3, <1>4 DEF StaticShape, SameColumns, r

\* read_at: either every group is filled from the rows of the instant, or the read fails.
LEMMA ReadAt ==
    ASSUME NEW rd, StaticShape(rd), NEW at, NEW io
    PROVE  LET r == read_at(rd, at, io) IN
           /\ StaticShape(r.reader) /\ SameColumns(r.reader, rd)
           /\ \/ r.ok = FALSE
              \/ /\ r.ok = TRUE
                 /\ \A g \in DOMAIN rd.groups :
                      /\ NoStep \notin Range(ColumnRows(rd.timeline, rd.groups[g], at))
                      /\ Held(rd.groups[g].hashes)
                      /\ r.reader.groups[g].filled = TRUE
                      /\ r.reader.groups[g].values = Cells(rd.timeline, rd.groups[g], at)
<1> DEFINE rows(g) == ColumnRows(rd.timeline, rd.groups[g], at)
           lost    == \E g \in DOMAIN rd.groups : NoStep \in Range(rows(g))
           got(g) == read_rows_into(rd.groups[g].hashes, rows(g), g \in io)
           bad     == {g \in DOMAIN rd.groups : ~got(g).ok}
           upto    == IF bad = {} THEN Len(rd.groups) + 1 ELSE Min(bad)
           shared(g) == rd.timeline.kind # "persistent" /\ \A i \in DOMAIN rd.groups[g].companions :
                                                            rd.groups[g].companions[i] = 0
           filledIn(g) == IF g < upto THEN [rd.groups[g] EXCEPT !.values = got(g).values, !.filled = TRUE]
                          ELSE IF g = upto /\ shared(g) THEN [rd.groups[g] EXCEPT !.filled = FALSE]
                          ELSE rd.groups[g]
           gs == [g \in DOMAIN rd.groups |-> filledIn(g)]
           r  == read_at(rd, at, io)
<1>1. r = IF lost THEN [ok |-> FALSE, reader |-> rd]
          ELSE [ok |-> bad = {}, reader |-> WithGroups(rd, gs)]
  BY DEF read_at, WithGroups
<1>2. PICK m \in Nat : rd.groups = [g \in 1 .. m |-> rd.groups[g]]
  BY DEF StaticShape
<1>3. Len(rd.groups) = m /\ DOMAIN rd.groups = 1 .. m
  BY <1>2, LengthOf
<1>4. \A g \in DOMAIN rd.groups :
        /\ GroupShape(filledIn(g))
        /\ filledIn(g).ids = rd.groups[g].ids /\ filledIn(g).hashes = rd.groups[g].hashes
        /\ filledIn(g).companions = rd.groups[g].companions
  <2> TAKE g \in DOMAIN rd.groups
  <2>1. GroupShape(rd.groups[g])
    BY Zenon DEF StaticShape
  <2>2. CASE g < upto
    <3>1. filledIn(g) = Filled(rd.groups[g], got(g).values)
      BY <2>2 DEF Filled
    <3> DEFINE G == rd.groups[g]
               v == got(g).values
               F == filledIn(g)
    <3>2. F = Filled(G, v) /\ GroupShape(G)
      BY <2>1, <3>1
    <3> HIDE DEF G, v, F
    <3>3. /\ GroupShape(F) /\ F.ids = G.ids /\ F.hashes = G.hashes /\ F.companions = G.companions
      BY <3>2, FilledGroup
    <3> QED BY <3>3 DEF G, F
  <2>3. CASE ~(g < upto) /\ g = upto /\ shared(g)
    <3>1. filledIn(g) = Emptied(rd.groups[g])
      BY <2>3, Zenon DEF Emptied
    <3> HIDE DEF filledIn, got
    <3> QED BY <2>1, <3>1, EmptiedGroup
  <2>4. CASE ~(g < upto) /\ ~(g = upto /\ shared(g))
    <3>1. filledIn(g) = rd.groups[g]
      BY <2>4
    <3> HIDE DEF filledIn, got
    <3> QED BY <2>1, <3>1
  <2> QED BY <2>2, <2>3, <2>4, Zenon
<1>5. /\ StaticShape(WithGroups(rd, gs)) /\ SameColumns(WithGroups(rd, gs), rd)
      /\ WithGroups(rd, gs).groups = gs
  <2>1. gs = [g \in DOMAIN rd.groups |-> gs[g]] /\ \A g \in DOMAIN rd.groups : gs[g] = filledIn(g)
    BY Zenon
  <2> HIDE DEF gs, filledIn
  <2> QED BY <1>4, <2>1, Regrouped
<1>6. CASE lost
  <2>1. r.ok = FALSE /\ r.reader = rd
    <3> HIDE DEF lost, bad, gs, r
    <3> QED BY <1>1, <1>6
  <2>2. SameColumns(rd, rd)
    BY DEF SameColumns
  <2> QED BY <2>1, <2>2
<1>7. CASE ~lost /\ bad # {}
  <2>1. r.ok = FALSE /\ r.reader = WithGroups(rd, gs)
    <3> HIDE DEF lost, bad, gs, r
    <3> QED BY <1>1, <1>7
  <2> HIDE DEF gs
  <2> QED BY <1>5, <2>1
<1>8. CASE ~lost /\ bad = {}
  <2>1. r.ok = TRUE /\ r.reader = WithGroups(rd, gs)
    <3> HIDE DEF lost, bad, gs, r
    <3> QED BY <1>1, <1>8
  <2>2. ASSUME NEW g \in DOMAIN rd.groups
        PROVE  /\ NoStep \notin Range(rows(g)) /\ Held(rd.groups[g].hashes)
               /\ gs[g].filled = TRUE /\ gs[g].values = Cells(rd.timeline, rd.groups[g], at)
    <3>1. NoStep \notin Range(rows(g))
      BY <1>8
    <3>2. got(g).ok
      BY <1>8
    <3>3. GroupShape(rd.groups[g])
      BY DEF StaticShape
    <3>4. Held(rd.groups[g].hashes) /\ got(g).values = Cells(rd.timeline, rd.groups[g], at)
      <4>1. got(g) = RowsOf(rd.timeline, rd.groups[g], at, g, io)
        BY DEF RowsOf
      <4> DEFINE rd_g == rd.groups[g]
      <4>2. GroupShape(rd_g) /\ RowsOf(rd.timeline, rd_g, at, g, io).ok # FALSE
        BY <3>2, <3>3, <4>1
      <4> HIDE DEF rd_g
      <4>3. Held(rd_g.hashes) /\ RowsOf(rd.timeline, rd_g, at, g, io).values = Cells(rd.timeline, rd_g, at)
        <5>1. GroupShape(rd_g)
          BY <4>2
        <5> HIDE DEF r, gs, filledIn, shared, upto, bad, got, lost, rows
        <5> DEFINE t == rd.timeline
        <5> HIDE DEF t
        <5>2. \/ RowsOf(t, rd_g, at, g, io).ok = FALSE
              \/ /\ RowsOf(t, rd_g, at, g, io).ok = TRUE
                 /\ Held(rd_g.hashes) /\ RowsOf(t, rd_g, at, g, io).values = Cells(t, rd_g, at)
          BY <5>1, RowsRead
        <5> QED BY <4>2, <5>2 DEF t
      <4> QED BY <4>1, <4>3 DEF rd_g
    <3>5. g < upto
      <4>1. upto = m + 1
        <5> HIDE DEF bad
        <5> QED BY <1>3, <1>8
      <4> HIDE DEF upto
      <4> QED BY <1>3, <4>1
    <3>6. gs[g] = Filled(rd.groups[g], got(g).values)
      <4> HIDE DEF got, upto
      <4> QED BY <3>5 DEF Filled
    <3> HIDE DEF got, gs, rows
    <3>7. gs[g].filled = TRUE /\ gs[g].values = got(g).values
      <4> DEFINE G == rd.groups[g]
                 v == got(g).values
                 F == gs[g]
      <4>1. F = Filled(G, v) /\ GroupShape(G)
        BY <3>3, <3>6
      <4> HIDE DEF G, v, F
      <4>2. F.filled = TRUE /\ F.values = v
        BY <4>1, FilledGroup
      <4> QED BY <4>2 DEF v, F
    <3> QED BY <3>1, <3>4, <3>7
  <2>3. r.reader.groups = gs
    <3> HIDE DEF gs, r
    <3> QED BY <1>5, <2>1
  <2> HIDE DEF gs
  <2> QED BY <1>5, <2>1, <2>2, <2>3
<1> QED BY <1>6, <1>7, <1>8

\* Invalidated, a reader keeps its columns and none of its groups is filled.
LEMMA Invalidated ==
    ASSUME NEW rd, StaticShape(rd)
    PROVE  /\ StaticShape(invalidate_static(rd)) /\ SameColumns(invalidate_static(rd), rd)
           /\ \A g \in DOMAIN rd.groups : invalidate_static(rd).groups[g].filled = FALSE
<1> DEFINE gs == [g \in DOMAIN rd.groups |-> Emptied(rd.groups[g])]
<1>1. invalidate_static(rd) = WithGroups(rd, gs)
  BY DEF invalidate_static, WithGroups, Emptied
<1>2. \A g \in DOMAIN rd.groups : GroupShape(rd.groups[g])
  BY DEF StaticShape
<1>3. \A g \in DOMAIN rd.groups :
        /\ GroupShape(gs[g])
        /\ gs[g].ids = rd.groups[g].ids /\ gs[g].hashes = rd.groups[g].hashes
        /\ gs[g].companions = rd.groups[g].companions
        /\ gs[g].filled = FALSE
  <2> TAKE g \in DOMAIN rd.groups
  <2>1. gs[g] = Emptied(rd.groups[g]) /\ GroupShape(rd.groups[g])
    BY <1>2
  <2> DEFINE G == rd.groups[g]
             F == gs[g]
  <2>2. F = Emptied(G) /\ GroupShape(G)
    BY <2>1
  <2> HIDE DEF G, F
  <2>3. /\ GroupShape(F) /\ F.ids = G.ids /\ F.hashes = G.hashes /\ F.companions = G.companions
        /\ F.filled = FALSE
    BY <2>2, EmptiedGroup
  <2> QED BY <2>3 DEF G, F
<1>4. gs = [g \in DOMAIN rd.groups |-> gs[g]]
  OBVIOUS
<1> HIDE DEF gs
<1>5. /\ StaticShape(WithGroups(rd, gs)) /\ SameColumns(WithGroups(rd, gs), rd)
      /\ WithGroups(rd, gs).groups = gs
  BY <1>3, <1>4, Regrouped
<1> QED BY <1>1, <1>3, <1>5

\* A static reader after a read: every group holds the rows of the instant, or none holds
\* anything.
AllOrNothing(rd, at, ok) ==
    \A g \in DOMAIN rd.groups :
       /\ rd.groups[g].filled = ok
       /\ ok => /\ NoStep \notin Range(ColumnRows(rd.timeline, rd.groups[g], at))
                /\ rd.groups[g].values = Cells(rd.timeline, rd.groups[g], at)

GroupsHeld(rd) == \A g \in DOMAIN rd.groups : Held(rd.groups[g].hashes)

\* The rows a read asks for depend on a group's columns alone.
LEMMA SameCells ==
    ASSUME NEW timeline, NEW G, NEW H, G.ids = H.ids, G.hashes = H.hashes,
           G.companions = H.companions, NEW at
    PROVE  /\ ColumnRows(timeline, G, at) = ColumnRows(timeline, H, at)
           /\ Cells(timeline, G, at) = Cells(timeline, H, at)
<1>1. ColumnRows(timeline, G, at) = ColumnRows(timeline, H, at)
  BY DEF ColumnRows
<1> QED BY <1>1 DEF Cells

\* What a read answers and leaves behind.
StaticAnswer(rd, at, r) ==
    /\ StaticShape(r.reader) /\ SameColumns(r.reader, rd)
    /\ r.ok \in BOOLEAN /\ AllOrNothing(r.reader, at, r.ok)
    /\ r.ok => GroupsHeld(r.reader)

\* StaticReader::read_at: all of its groups or none of them.
LEMMA StaticReadAll ==
    ASSUME NEW rd, StaticShape(rd), NEW at, NEW io
    PROVE  StaticAnswer(rd, at, static_read(rd, at, io))
<1> DEFINE inner == read_at(rd, at, io)
           r == static_read(rd, at, io)
<1>1. r = IF inner.ok THEN inner ELSE [ok |-> FALSE, reader |-> invalidate_static(inner.reader)]
  BY DEF static_read, OrInvalidatedStatic
<1>2. /\ StaticShape(inner.reader) /\ SameColumns(inner.reader, rd)
      /\ \/ inner.ok = FALSE
         \/ /\ inner.ok = TRUE
            /\ \A g \in DOMAIN rd.groups :
                 /\ NoStep \notin Range(ColumnRows(rd.timeline, rd.groups[g], at))
                 /\ Held(rd.groups[g].hashes)
                 /\ inner.reader.groups[g].filled = TRUE
                 /\ inner.reader.groups[g].values = Cells(rd.timeline, rd.groups[g], at)
  BY ReadAt
<1> HIDE DEF inner
<1>3. ASSUME inner.ok = FALSE PROVE StaticAnswer(rd, at, r)
  <2> DEFINE e == invalidate_static(inner.reader)
  <2>1. r = [ok |-> FALSE, reader |-> e]
    <3> HIDE DEF r, e
    <3> QED BY <1>1, <1>3 DEF e
  <2>2. /\ StaticShape(e) /\ SameColumns(e, inner.reader)
        /\ \A g \in DOMAIN inner.reader.groups : e.groups[g].filled = FALSE
    BY <1>2, Invalidated
  <2> HIDE DEF e, r
  <2>3. r.ok = FALSE /\ r.reader = e
    BY <2>1
  <2>4. SameColumns(e, rd)
    BY <1>2, <2>2 DEF SameColumns
  <2>5. AllOrNothing(e, at, FALSE)
    BY <2>2 DEF AllOrNothing, SameColumns
  <2>6. AllOrNothing(r.reader, at, r.ok)
    BY <2>3, <2>5, Zenon
  <2>7. StaticShape(r.reader) /\ SameColumns(r.reader, rd) /\ r.ok \in BOOLEAN /\ ~r.ok
    BY <2>2, <2>3, <2>4
  <2> QED BY <2>6, <2>7, Zenon DEF StaticAnswer
<1>4. ASSUME inner.ok = TRUE PROVE StaticAnswer(rd, at, r)
  <2>1. r = inner
    <3> HIDE DEF r
    <3> QED BY <1>1, <1>4
  <2>2. AllOrNothing(inner.reader, at, TRUE) /\ GroupsHeld(inner.reader)
    <3> SUFFICES ASSUME NEW g \in DOMAIN inner.reader.groups
                 PROVE  /\ inner.reader.groups[g].filled = TRUE
                        /\ NoStep \notin Range(ColumnRows(inner.reader.timeline, inner.reader.groups[g], at))
                        /\ inner.reader.groups[g].values = Cells(inner.reader.timeline, inner.reader.groups[g], at)
                        /\ Held(inner.reader.groups[g].hashes)
      BY DEF AllOrNothing, GroupsHeld
    <3>1. /\ g \in DOMAIN rd.groups /\ inner.reader.timeline = rd.timeline
          /\ inner.reader.groups[g].ids = rd.groups[g].ids
          /\ inner.reader.groups[g].hashes = rd.groups[g].hashes
          /\ inner.reader.groups[g].companions = rd.groups[g].companions
      BY <1>2 DEF SameColumns
    <3>2. /\ NoStep \notin Range(ColumnRows(rd.timeline, rd.groups[g], at))
          /\ Held(rd.groups[g].hashes)
          /\ inner.reader.groups[g].filled = TRUE
          /\ inner.reader.groups[g].values = Cells(rd.timeline, rd.groups[g], at)
      BY <1>2, <1>4, <3>1
    <3>3. /\ ColumnRows(rd.timeline, inner.reader.groups[g], at) = ColumnRows(rd.timeline, rd.groups[g], at)
          /\ Cells(rd.timeline, inner.reader.groups[g], at) = Cells(rd.timeline, rd.groups[g], at)
      BY <3>1, SameCells
    <3> QED BY <3>1, <3>2, <3>3
  <2> HIDE DEF r
  <2>3. StaticShape(r.reader) /\ SameColumns(r.reader, rd) /\ r.ok = TRUE /\ r.ok \in BOOLEAN
    BY <1>2, <1>4, <2>1
  <2>4. AllOrNothing(r.reader, at, r.ok) /\ GroupsHeld(r.reader)
    BY <2>1, <2>2, <2>3, Zenon
  <2> QED BY <2>3, <2>4, Zenon DEF StaticAnswer
<1>5. StaticAnswer(rd, at, r)
  <2> HIDE DEF r
  <2> QED BY <1>2, <1>3, <1>4
<1> QED BY <1>5

\* The image of a finite set is finite.
LEMMA FiniteImage ==
    ASSUME NEW S, IsFiniteSet(S), NEW f, f = [x \in S |-> f[x]]
    PROVE  IsFiniteSet({f[x] : x \in S})
<1> DEFINE T == {f[x] : x \in S}
<1>1. f \in Surjection(S, T)
  BY DEF Surjection
<1> HIDE DEF T
<1>2. IsFiniteSet(T)
  BY <1>1, FS_Surjection
<1> QED BY <1>2 DEF T

\* Rows the catalog lists are finitely many, and sound.
LEMMA RowsAreFinite ==
    ASSUME RowsKnown, NEW R \in SUBSET catalog
    PROVE  /\ IsFiniteSet(R)
           /\ IsFiniteSet({r.key : r \in R}) /\ {r.key : r \in R} \in SUBSET Int
           /\ IsFiniteSet({r.id : r \in R}) /\ {r.id : r \in R} \in SUBSET Int
           /\ IsFiniteSet({r.element_type : r \in R}) /\ {r.element_type : r \in R} \in SUBSET Int
<1>1. world \in Worlds /\ R \in SUBSET world
  BY DEF RowsKnown
<1>2. IsFiniteSet(world) /\ \A r \in R : {r.id, r.key, r.element_type} \subseteq Int
  BY <1>1, WorldsAssumption
<1>3. IsFiniteSet(R)
  BY <1>1, <1>2, FS_Subset, Zenon
<1>4. IsFiniteSet({r.key : r \in R})
  <2> DEFINE f == [r \in R |-> r.key]
  <2>1. f = [r \in R |-> f[r]] /\ {f[r] : r \in R} = {r.key : r \in R}
    OBVIOUS
  <2> HIDE DEF f
  <2>2. IsFiniteSet({f[r] : r \in R})
    BY <1>3, <2>1, FiniteImage
  <2> QED BY <2>1, <2>2
<1>5. IsFiniteSet({r.id : r \in R})
  <2> DEFINE f == [r \in R |-> r.id]
  <2>1. f = [r \in R |-> f[r]] /\ {f[r] : r \in R} = {r.id : r \in R}
    OBVIOUS
  <2> HIDE DEF f
  <2>2. IsFiniteSet({f[r] : r \in R})
    BY <1>3, <2>1, FiniteImage
  <2> QED BY <2>1, <2>2
<1>6. IsFiniteSet({r.element_type : r \in R})
  <2> DEFINE f == [r \in R |-> r.element_type]
  <2>1. f = [r \in R |-> f[r]] /\ {f[r] : r \in R} = {r.element_type : r \in R}
    OBVIOUS
  <2> HIDE DEF f
  <2>2. IsFiniteSet({f[r] : r \in R})
    BY <1>3, <2>1, FiniteImage
  <2> QED BY <2>1, <2>2
<1> QED BY <1>2, <1>3, <1>4, <1>5, <1>6

\* A group has a column for each of its rows, each with an id and a hash.
LEMMA GroupBuilt ==
    ASSUME RowsKnown, NEW R \in SUBSET catalog, NEW companion
    PROVE  GroupShape(StaticGroup(R, companion))
<1> DEFINE S    == {r.key : r \in R}
           cols == InIdentityOrder(R)
           n    == Cardinality(S)
           a    == [i \in DOMAIN cols |-> cols[i].id]
           b    == [i \in DOMAIN cols |-> cols[i].hash]
           c    == [i \in DOMAIN cols |-> companion[cols[i]]]
           G    == StaticGroup(R, companion)
<1>1. n \in Nat /\ DOMAIN InOrder(S) = 1 .. n
  <2>1. IsFiniteSet(S) /\ S \in SUBSET Int
    BY RowsAreFinite
  <2> HIDE DEF S
  <2> QED BY <2>1, Ordered
<1>2. DOMAIN cols = 1 .. n
  BY <1>1 DEF InIdentityOrder
<1>3. G = [ids |-> a, hashes |-> b, companions |-> c, values |-> <<>>, filled |-> FALSE]
  BY DEF StaticGroup
<1>4. DOMAIN a = 1 .. n /\ DOMAIN b = 1 .. n
  BY <1>2
<1> HIDE DEF a, b, c, G
<1>5. G.ids = a /\ G.hashes = b /\ G.companions = c /\ G.values = <<>> /\ G.filled = FALSE
  BY <1>3
<1>6. GroupShape(G)
  <2> HIDE DEF n
  <2> QED BY <1>1, <1>3, <1>4, <1>5 DEF GroupShape
<1> QED BY <1>6 DEF G

\* A static reader that is built has groups of columns and nothing read.
LEMMA StaticBuilt ==
    ASSUME RowsKnown, NEW filter, NEW window, build_static_reader_over(filter, window) # NoReader
    PROVE  StaticShape(build_static_reader_over(filter, window))
<1> DEFINE R  == Matching(filter)
           rd == build_static_reader_over(filter, window)
<1>1. R \in SUBSET catalog
  BY DEF Matching
<1>2. PICK plan : rd = build_groups(R, plan)
  BY DEF build_static_reader_over
<1> DEFINE types == InOrder({r.element_type : r \in R})
           gs    == [g \in DOMAIN types |->
                       StaticGroup({r \in R : r.element_type = types[g]}, plan.companion)]
           t     == plan.timeline
           m     == Cardinality({r.element_type : r \in R})
<1>3. m \in Nat /\ DOMAIN types = 1 .. m
  <2> DEFINE S == {r.element_type : r \in R}
  <2>1. IsFiniteSet(S) /\ S \in SUBSET Int
    <3> HIDE DEF R
    <3> QED BY <1>1, RowsAreFinite
  <2> HIDE DEF S
  <2>2. Cardinality(S) \in Nat /\ DOMAIN InOrder(S) = 1 .. Cardinality(S)
    BY <2>1, Ordered
  <2> QED BY <2>2 DEF S
<1>4. \A g \in DOMAIN gs : GroupShape(gs[g])
  <2> TAKE g \in DOMAIN gs
  <2> DEFINE Q == {r \in R : r.element_type = types[g]}
  <2>1. gs[g] = StaticGroup(Q, plan.companion) /\ Q \in SUBSET catalog
    BY <1>1
  <2> HIDE DEF Q, gs
  <2> QED BY <2>1, GroupBuilt
<1>5. rd = [kind |-> "static", timeline |-> t, groups |-> gs]
  <2> HIDE DEF R
  <2> QED BY <1>2 DEF build_groups
<1>6. DOMAIN gs = 1 .. m /\ gs = [g \in DOMAIN gs |-> gs[g]]
  BY <1>3
<1> HIDE DEF rd, gs, t, m
<1>7. rd.timeline = t /\ rd.groups = gs
  BY <1>5
<1>8. StaticShape(rd)
  BY <1>3, <1>4, <1>5, <1>6, <1>7 DEF StaticShape
<1> QED BY <1>8 DEF rd

-----------------------------------------------------------------------------
(* Reads of a forecast reader. *)

SlotOf(h, a, r, n, span, block, buf, filled) ==
    [hash |-> h, array |-> a, read |-> r, count |-> n,
     cached |-> span, block |-> block, buf |-> buf, filled |-> filled]

SlotShape(s) == s = SlotOf(s.hash, s.array, s.read, s.count, s.cached, s.block, s.buf, s.filled)

SameSlot(s, t) == s.hash = t.hash /\ s.array = t.array /\ s.read = t.read /\ s.count = t.count

\* The block a slot keeps is the one its array has there.
BlockAt(s, span) == write_window_block(s.array, s.read.axis, span[1], span[2] - span[1])
CacheSound(s)    == s.cached = <<>> \/ s.block = BlockAt(s, s.cached)

\* A run of rows of one column.
RunOf(hash, start, n) == [s \in 1 .. n |-> Value(hash, start + s)]

\* What each kind of slot holds once a window is read, whatever it kept before.
WindowIn(s, window) ==
    IF s.read.kind = "dense"
    THEN gather_window(s, BlockAt(s, BlockOf(s, window)),
                       BlockOf(s, window)[2] - BlockOf(s, window)[1], window - BlockOf(s, window)[1])
    ELSE RunOf(s.hash, window * s.read.steps, s.read.horizon)

SlotRead(s, span, block, buf) ==
    [s EXCEPT !.cached = span, !.block = block, !.filled = TRUE, !.buf = buf]
SlotLost(s)       == [s EXCEPT !.filled = FALSE, !.cached = <<>>]
SlotDropped(s)    == [s EXCEPT !.cached = <<>>, !.filled = FALSE]
SlotGiven(s, buf) == [s EXCEPT !.buf = buf, !.filled = TRUE]
SlotUnfilled(s)   == [s EXCEPT !.filled = FALSE]
WithSlots(rd, ss) == [rd EXCEPT !.slots = ss]

\* The fields of a slot are what it was made of.
LEMMA SlotFields ==
    ASSUME NEW h, NEW a, NEW r, NEW n, NEW span, NEW block, NEW buf, NEW b,
           NEW s, s = SlotOf(h, a, r, n, span, block, buf, b)
    PROVE  /\ s.hash = h /\ s.array = a /\ s.read = r /\ s.count = n
           /\ s.cached = span /\ s.block = block /\ s.buf = buf /\ s.filled = b
           /\ SlotShape(s)
<1>1. /\ s.hash = h /\ s.array = a /\ s.read = r /\ s.count = n
      /\ s.cached = span /\ s.block = block /\ s.buf = buf
  BY DEF SlotOf
<1>2. s.filled = b
  BY Zenon DEF SlotOf
<1>3. SlotShape(s)
  BY <1>1, <1>2, Zenon DEF SlotShape
<1> QED BY <1>1, <1>2, <1>3

\* The five ways a read changes a slot.
LEMMA SlotChanges ==
    ASSUME NEW s, SlotShape(s), NEW span, NEW block, NEW buf
    PROVE  /\ SlotRead(s, span, block, buf) = SlotOf(s.hash, s.array, s.read, s.count, span, block, buf, TRUE)
           /\ SlotLost(s) = SlotOf(s.hash, s.array, s.read, s.count, <<>>, s.block, s.buf, FALSE)
           /\ SlotDropped(s) = SlotOf(s.hash, s.array, s.read, s.count, <<>>, s.block, s.buf, FALSE)
           /\ SlotGiven(s, buf) = SlotOf(s.hash, s.array, s.read, s.count, s.cached, s.block, buf, TRUE)
           /\ SlotUnfilled(s) = SlotOf(s.hash, s.array, s.read, s.count, s.cached, s.block, s.buf, FALSE)
<1> DEFINE h == s.hash
           a == s.array
           r == s.read
           n == s.count
           c == s.cached
           k == s.block
           u == s.buf
           f == s.filled
<1>1. s = [hash |-> h, array |-> a, read |-> r, count |-> n,
           cached |-> c, block |-> k, buf |-> u, filled |-> f]
  BY DEF SlotShape, SlotOf
<1> HIDE DEF h, a, r, n, c, k, u, f
<1>2. SlotRead(s, span, block, buf) = SlotOf(h, a, r, n, span, block, buf, TRUE)
  <2> DEFINE H == SlotRead(s, span, block, buf)
  <2>1. H = [s EXCEPT !.cached = span, !.block = block, !.filled = TRUE, !.buf = buf]
    BY DEF SlotRead
  <2> HIDE DEF H
  <2>2. H = [hash |-> h, array |-> a, read |-> r, count |-> n,
             cached |-> span, block |-> block, buf |-> buf, filled |-> TRUE]
    BY <1>1, <2>1
  <2> QED BY <2>2 DEF H, SlotOf
<1>3. SlotLost(s) = SlotOf(h, a, r, n, <<>>, k, u, FALSE)
  <2> DEFINE H == SlotLost(s)
  <2>1. H = [s EXCEPT !.filled = FALSE, !.cached = <<>>]
    BY DEF SlotLost
  <2> HIDE DEF H
  <2>2. H = [hash |-> h, array |-> a, read |-> r, count |-> n,
             cached |-> <<>>, block |-> k, buf |-> u, filled |-> FALSE]
    BY <1>1, <2>1
  <2> QED BY <2>2 DEF H, SlotOf
<1>4. SlotDropped(s) = SlotOf(h, a, r, n, <<>>, k, u, FALSE)
  <2> DEFINE H == SlotDropped(s)
  <2>1. H = [s EXCEPT !.cached = <<>>, !.filled = FALSE]
    BY DEF SlotDropped
  <2> HIDE DEF H
  <2>2. H = [hash |-> h, array |-> a, read |-> r, count |-> n,
             cached |-> <<>>, block |-> k, buf |-> u, filled |-> FALSE]
    BY <1>1, <2>1
  <2> QED BY <2>2 DEF H, SlotOf
<1>5. SlotGiven(s, buf) = SlotOf(h, a, r, n, c, k, buf, TRUE)
  <2> DEFINE H == SlotGiven(s, buf)
  <2>1. H = [s EXCEPT !.buf = buf, !.filled = TRUE]
    BY DEF SlotGiven
  <2> HIDE DEF H
  <2>2. H = [hash |-> h, array |-> a, read |-> r, count |-> n,
             cached |-> c, block |-> k, buf |-> buf, filled |-> TRUE]
    BY <1>1, <2>1
  <2> QED BY <2>2 DEF H, SlotOf
<1>6. SlotUnfilled(s) = SlotOf(h, a, r, n, c, k, u, FALSE)
  <2> DEFINE H == SlotUnfilled(s)
  <2>1. H = [s EXCEPT !.filled = FALSE]
    BY DEF SlotUnfilled
  <2> HIDE DEF H
  <2>2. H = [hash |-> h, array |-> a, read |-> r, count |-> n,
             cached |-> c, block |-> k, buf |-> u, filled |-> FALSE]
    BY <1>1, <2>1
  <2> QED BY <2>2 DEF H, SlotOf
<1> USE DEF h, a, r, n, c, k, u, f
<1> QED BY <1>2, <1>3, <1>4, <1>5, <1>6, Zenon

\* A slot made again over the same array.
Remade(t, s, buf, b) ==
    SlotShape(t) /\ SameSlot(t, s) /\ CacheSound(t) /\ t.buf = buf /\ t.filled = b

\* It keeps its block sound.
LEMMA StaysSound ==
    ASSUME NEW s, NEW span, NEW block, NEW buf, NEW b, span = <<>> \/ block = BlockAt(s, span)
    PROVE  Remade(SlotOf(s.hash, s.array, s.read, s.count, span, block, buf, b), s, buf, b)
<1> DEFINE t == SlotOf(s.hash, s.array, s.read, s.count, span, block, buf, b)
<1>0. t = SlotOf(s.hash, s.array, s.read, s.count, span, block, buf, b)
  OBVIOUS
<1> HIDE DEF t
<1>1. /\ t.hash = s.hash /\ t.array = s.array /\ t.read = s.read /\ t.count = s.count
      /\ t.cached = span /\ t.block = block /\ t.buf = buf /\ t.filled = b /\ SlotShape(t)
  BY <1>0, SlotFields
<1>2. BlockAt(t, span) = BlockAt(s, span)
  BY <1>1 DEF BlockAt
<1>3. CacheSound(t)
  BY <1>1, <1>2 DEF CacheSound
<1>4. Remade(t, s, buf, b)
  BY <1>1, <1>3 DEF Remade, SameSlot
<1> QED BY <1>4 DEF t

\* The five ways a read changes a slot keep it sound.
LEMMA SlotsStaySound ==
    ASSUME NEW s, SlotShape(s), NEW span, NEW block, NEW buf
    PROVE  /\ span = <<>> \/ block = BlockAt(s, span) => Remade(SlotRead(s, span, block, buf), s, buf, TRUE)
           /\ Remade(SlotLost(s), s, s.buf, FALSE)
           /\ Remade(SlotDropped(s), s, s.buf, FALSE)
           /\ CacheSound(s) => Remade(SlotGiven(s, buf), s, buf, TRUE)
           /\ CacheSound(s) => Remade(SlotUnfilled(s), s, s.buf, FALSE)
<1>1. ASSUME span = <<>> \/ block = BlockAt(s, span)
      PROVE  Remade(SlotRead(s, span, block, buf), s, buf, TRUE)
  <2>1. Remade(SlotOf(s.hash, s.array, s.read, s.count, span, block, buf, TRUE), s, buf, TRUE)
    BY <1>1, StaysSound
  <2>2. SlotRead(s, span, block, buf) = SlotOf(s.hash, s.array, s.read, s.count, span, block, buf, TRUE)
    BY SlotChanges, Zenon
  <2> QED BY <2>1, <2>2, Zenon
<1>2. Remade(SlotLost(s), s, s.buf, FALSE)
  BY StaysSound, SlotChanges, Zenon
<1>3. Remade(SlotDropped(s), s, s.buf, FALSE)
  BY StaysSound, SlotChanges, Zenon
<1>4. ASSUME CacheSound(s) PROVE Remade(SlotGiven(s, buf), s, buf, TRUE)
  <2>1. Remade(SlotOf(s.hash, s.array, s.read, s.count, s.cached, s.block, buf, TRUE), s, buf, TRUE)
    BY <1>4, StaysSound DEF CacheSound
  <2>2. SlotGiven(s, buf) = SlotOf(s.hash, s.array, s.read, s.count, s.cached, s.block, buf, TRUE)
    BY SlotChanges, Zenon
  <2> QED BY <2>1, <2>2, Zenon
<1>5. ASSUME CacheSound(s) PROVE Remade(SlotUnfilled(s), s, s.buf, FALSE)
  <2>1. Remade(SlotOf(s.hash, s.array, s.read, s.count, s.cached, s.block, s.buf, FALSE), s, s.buf, FALSE)
    BY <1>5, StaysSound DEF CacheSound
  <2>2. SlotUnfilled(s) = SlotOf(s.hash, s.array, s.read, s.count, s.cached, s.block, s.buf, FALSE)
    BY SlotChanges, Zenon
  <2> QED BY <2>1, <2>2, Zenon
<1> QED BY <1>1, <1>2, <1>3, <1>4, <1>5

SlotAnswer(s, window, a) ==
    /\ SlotShape(a.slot) /\ SameSlot(a.slot, s) /\ CacheSound(a.slot)
    /\ \/ a.ok = FALSE
       \/ /\ a.ok = TRUE /\ holds_array(s.hash)
          /\ a.slot.filled = TRUE /\ a.slot.buf = WindowIn(s, window)

DenseRead(s, window, k, io) == read_dense(s, window, k \in io)

\* A dense slot that is read holds its window, from a sound block, and its array is held.
LEMMA DenseReads ==
    ASSUME NEW s, SlotShape(s), CacheSound(s), s.read.kind = "dense", NEW window, NEW k, NEW io
    PROVE  SlotAnswer(s, window, DenseRead(s, window, k, io))
<1> DEFINE span  == BlockOf(s, window)
           block == IF s.cached = span THEN s.block ELSE BlockAt(s, span)
           buf   == gather_window(s, block, span[2] - span[1], window - span[1])
           a     == DenseRead(s, window, k, io)
<1>1. span # <<>>
  <2>1. DOMAIN span = 1 .. 2
    BY DEF BlockOf
  <2>2. DOMAIN <<>> # 1 .. 2
    OBVIOUS
  <2> HIDE DEF span
  <2> QED BY <2>1, <2>2
<1>2. block = BlockAt(s, span)
  <2> HIDE DEF span
  <2> QED BY <1>1 DEF CacheSound
<1>3. buf = WindowIn(s, window)
  <2>1. buf = gather_window(s, BlockAt(s, span), span[2] - span[1], window - span[1])
    <3> HIDE DEF block, span
    <3> QED BY <1>2
  <2> QED BY <2>1 DEF WindowIn
<1>4. \/ a = [ok |-> FALSE, slot |-> SlotDropped(s)]
      \/ a = [ok |-> FALSE, slot |-> SlotLost(s)]
      \/ a = [ok |-> TRUE, slot |-> SlotRead(s, span, block, buf)] /\ holds_array(s.hash)
  <2>1. CASE serves_from_cache(s, window) /\ ~holds_array(s.hash)
    BY <2>1 DEF DenseRead, read_dense, SlotDropped
  <2>2. CASE ~(serves_from_cache(s, window) /\ ~holds_array(s.hash))
    <3>1. a = read_window(s, window, k \in io)
      BY <2>2 DEF DenseRead, read_dense
    <3>2. CASE s.cached # span /\ ~(k \in io /\ holds_array(s.hash))
      BY <3>1, <3>2 DEF read_window, SlotLost
    <3>3. CASE ~(s.cached # span /\ ~(k \in io /\ holds_array(s.hash)))
      <4>1. holds_array(s.hash)
        BY <2>2, <3>3 DEF serves_from_cache
      <4>2. a = [ok |-> TRUE, slot |-> SlotRead(s, span, block, buf)]
        BY <3>1, <3>3 DEF read_window, SlotRead, BlockAt
      <4> QED BY <4>1, <4>2
    <3> QED BY <3>2, <3>3
  <2> QED BY <2>1, <2>2
<1> HIDE DEF a, span, block, buf
<1>5. CASE a = [ok |-> FALSE, slot |-> SlotDropped(s)]
  <2>1. Remade(SlotDropped(s), s, s.buf, FALSE)
    BY SlotsStaySound, Zenon
  <2>2. a.ok = FALSE /\ a.slot = SlotDropped(s)
    BY <1>5
  <2>3. SlotAnswer(s, window, a)
    BY <2>1, <2>2 DEF SlotAnswer, Remade
  <2> QED BY <2>3 DEF a
<1>6. CASE a = [ok |-> FALSE, slot |-> SlotLost(s)]
  <2>1. Remade(SlotLost(s), s, s.buf, FALSE)
    BY SlotsStaySound, Zenon
  <2>2. a.ok = FALSE /\ a.slot = SlotLost(s)
    BY <1>6
  <2>3. SlotAnswer(s, window, a)
    BY <2>1, <2>2 DEF SlotAnswer, Remade
  <2> QED BY <2>3 DEF a
<1>7. CASE a = [ok |-> TRUE, slot |-> SlotRead(s, span, block, buf)] /\ holds_array(s.hash)
  <2> DEFINE t == SlotRead(s, span, block, buf)
  <2>1. Remade(t, s, buf, TRUE)
    BY <1>2, SlotsStaySound, Zenon
  <2> HIDE DEF t
  <2>2. SlotShape(t) /\ SameSlot(t, s) /\ CacheSound(t) /\ t.buf = buf /\ t.filled = TRUE
    BY <2>1, Zenon DEF Remade
  <2>3. a.ok = TRUE /\ a.slot = t
    BY <1>7 DEF t
  <2>4. SlotAnswer(s, window, a)
    BY <1>3, <1>7, <2>2, <2>3 DEF SlotAnswer
  <2> QED BY <2>4 DEF a
<1> QED BY <1>4, <1>5, <1>6, <1>7

ForecastShape(rd) ==
    /\ rd = [kind |-> "forecast", first |-> rd.first, slots |-> rd.slots, entries |-> rd.entries]
    /\ \E m \in Nat : rd.slots = [k \in 1 .. m |-> rd.slots[k]]
    /\ \A k \in DOMAIN rd.slots : SlotShape(rd.slots[k]) /\ CacheSound(rd.slots[k])

SameSlots(a, b) ==
    /\ a.first = b.first /\ a.entries = b.entries /\ DOMAIN a.slots = DOMAIN b.slots
    /\ \A k \in DOMAIN a.slots : SameSlot(a.slots[k], b.slots[k])

WindowOf(rd, at) == index_on_grid(rd.first.initial, rd.first.interval, rd.first.count, at)

\* A forecast reader after a read: every slot holds the window of the instant, or none
\* holds anything.
ForecastAllOrNothing(rd, at, ok) ==
    \A k \in DOMAIN rd.slots :
       /\ rd.slots[k].filled = ok
       /\ ok => /\ WindowOf(rd, at) # NoStep
                /\ rd.slots[k].buf = WindowIn(rd.slots[k], WindowOf(rd, at))

SlotsHeld(rd) == \A k \in DOMAIN rd.slots : holds_array(rd.slots[k].hash)

\* What a slot holds at a window depends on its layout alone.
LEMMA SameWindow ==
    ASSUME NEW s, NEW t, SameSlot(t, s), NEW window
    PROVE  WindowIn(t, window) = WindowIn(s, window)
<1>1. BlockOf(t, window) = BlockOf(s, window)
  BY DEF BlockOf, SameSlot
<1>2. \A span : BlockAt(t, span) = BlockAt(s, span)
  BY DEF BlockAt, SameSlot
<1>3. \A block, n, w : gather_window(t, block, n, w) = gather_window(s, block, n, w)
  BY DEF gather_window, SameSlot
<1>4. t.read = s.read /\ t.hash = s.hash
  BY DEF SameSlot
<1> QED BY <1>1, <1>2, <1>3, <1>4 DEF WindowIn

\* Slots put back into a reader.
LEMMA Reslotted ==
    ASSUME NEW rd, ForecastShape(rd), NEW ss,
           ss = [k \in DOMAIN rd.slots |-> ss[k]],
           \A k \in DOMAIN rd.slots :
             SlotShape(ss[k]) /\ CacheSound(ss[k]) /\ SameSlot(ss[k], rd.slots[k])
    PROVE  /\ ForecastShape(WithSlots(rd, ss)) /\ SameSlots(WithSlots(rd, ss), rd)
           /\ WithSlots(rd, ss).slots = ss
<1> DEFINE f   == rd.first
           e   == rd.entries
           old == rd.slots
           r   == WithSlots(rd, ss)
<1>1. rd = [kind |-> "forecast", first |-> f, slots |-> old, entries |-> e]
  BY DEF ForecastShape
<1>2. r = [rd EXCEPT !.slots = ss]
  BY DEF WithSlots
<1>3. r = [kind |-> "forecast", first |-> f, slots |-> ss, entries |-> e]
  <2> HIDE DEF f, e, old, r
  <2> QED BY <1>1, <1>2
<1>4. DOMAIN ss = DOMAIN rd.slots
  OBVIOUS
<1> HIDE DEF r
<1>5. r.first = f /\ r.slots = ss /\ r.entries = e
  BY <1>3
<1>6. \E m \in Nat : ss = [k \in 1 .. m |-> ss[k]]
  <2>1. PICK m \in Nat : rd.slots = [k \in 1 .. m |-> rd.slots[k]]
    BY DEF ForecastShape
  <2>2. DOMAIN rd.slots = 1 .. m
    BY <2>1
  <2> QED BY <2>2
<1>7. ForecastShape(r)
  BY <1>3, <1>4, <1>5, <1>6 DEF ForecastShape
<1>8. SameSlots(r, rd)
  BY <1>4, <1>5 DEF SameSlots
<1> QED BY <1>5, <1>7, <1>8 DEF r

\* A run of rows of each column, or an error if an array is not there.
RangesOf(hashes, starts, lens, asked, io) == read_ranges_into(hashes, starts, lens, asked \subseteq io)

RunsAnswer(n, hashes, starts, lens, got) ==
    \/ got.ok = FALSE
    \/ /\ got.ok = TRUE /\ Held(hashes)
       /\ \A i \in 1 .. n : got.values[i] = RunOf(hashes[i], starts[i], lens[i])

\* A bulk read of runs answers each column's run of its own array, or fails.
LEMMA RangesRead ==
    ASSUME NEW n \in Nat, NEW hashes, DOMAIN hashes = 1 .. n, NEW starts, NEW lens, NEW asked, NEW io
    PROVE  RunsAnswer(n, hashes, starts, lens, RangesOf(hashes, starts, lens, asked, io))
<1> DEFINE column == [i \in DOMAIN hashes |-> [s \in 1 .. lens[i] |-> Value(hashes[i], starts[i] + s)]]
           got    == RangesOf(hashes, starts, lens, asked, io)
<1>1. CASE ~(asked \subseteq io) \/ \E i \in DOMAIN hashes : ~holds_array(hashes[i])
  BY <1>1 DEF RunsAnswer, RangesOf, read_ranges_into, Failed
<1>2. CASE asked \subseteq io /\ ~\E i \in DOMAIN hashes : ~holds_array(hashes[i])
  <2>1. column = [i \in 1 .. n |-> column[i]]
    OBVIOUS
  <2>2. Interleaved(hashes, column) = column
    <3> HIDE DEF column
    <3> QED BY <2>1, InterleavedInOrder
  <2>3. got = [ok |-> TRUE, values |-> Interleaved(hashes, column)]
    BY <1>2 DEF RangesOf, read_ranges_into
  <2>4. got.ok = TRUE /\ got.values = column
    <3> HIDE DEF column, got
    <3> QED BY <2>2, <2>3
  <2>5. \A i \in 1 .. n : column[i] = RunOf(hashes[i], starts[i], lens[i])
    BY DEF RunOf
  <2> HIDE DEF column, got
  <2>6. RunsAnswer(n, hashes, starts, lens, got)
    BY <1>2, <2>4, <2>5, Zenon DEF RunsAnswer, Held
  <2> QED BY <2>6 DEF got
<1> QED BY <1>1, <1>2

\* What a read answers and leaves behind.
ForecastAnswer(rd, at, r) ==
    /\ ForecastShape(r.reader) /\ SameSlots(r.reader, rd)
    /\ \/ r.ok = FALSE
       \/ r.ok = TRUE /\ ForecastAllOrNothing(r.reader, at, TRUE) /\ SlotsHeld(r.reader)

\* forecast_read_into: the dense slots, then the derived ones in one batch.
LEMMA ForecastReadInto ==
    ASSUME NEW rd, ForecastShape(rd), NEW at, NEW io
    PROVE  ForecastAnswer(rd, at, forecast_read_into(rd, at, io))
<1> DEFINE old     == rd.slots
           window  == WindowOf(rd, at)
           dense   == {k \in DOMAIN old : old[k].read.kind = "dense"}
           D       == DOMAIN old \ dense
           derived == InOrder(D)
           one(k)  == DenseRead(old[k], window, k, io)
           bad     == {k \in dense : ~one(k).ok}
           upto    == IF bad = {} THEN Len(old) ELSE Min(bad)
           after   == [k \in DOMAIN old |-> IF k \in dense /\ k <= upto THEN one(k).slot ELSE old[k]]
           hashes  == [i \in DOMAIN derived |-> old[derived[i]].hash]
           starts  == [i \in DOMAIN derived |-> window * old[derived[i]].read.steps]
           lens    == [i \in DOMAIN derived |-> old[derived[i]].read.horizon]
           batch   == RangesOf(hashes, starts, lens, Range(derived), io)
           final   == [k \in DOMAIN old |-> IF k \in dense THEN after[k]
                                            ELSE SlotGiven(after[k], batch.values[Place(D, k)])]
           failed  == bad # {} \/ (derived # <<>> /\ ~batch.ok)
           r       == forecast_read_into(rd, at, io)
<1>1. r = IF window = NoStep THEN [ok |-> FALSE, reader |-> rd]
          ELSE IF failed THEN [ok |-> FALSE, reader |-> WithSlots(rd, after)]
          ELSE [ok |-> TRUE, reader |-> WithSlots(rd, final)]
  BY Zenon DEF forecast_read_into, WindowOf, DenseRead, RangesOf, WithSlots, SlotGiven
<1>2. PICK m \in Nat : old = [k \in 1 .. m |-> old[k]]
  BY DEF ForecastShape
<1>3. Len(old) = m /\ DOMAIN old = 1 .. m
  <2> HIDE DEF old
  <2> QED BY <1>2, LengthOf
<1>4. \A k \in DOMAIN old : SlotShape(old[k]) /\ CacheSound(old[k])
  BY DEF ForecastShape
<1>5. \A k \in dense : SlotAnswer(old[k], window, one(k))
  <2> TAKE k \in dense
  <2>1. SlotShape(old[k]) /\ CacheSound(old[k]) /\ old[k].read.kind = "dense"
    BY <1>4
  <2> DEFINE s == old[k]
  <2> HIDE DEF s, window
  <2>2. SlotAnswer(s, window, DenseRead(s, window, k, io))
    BY <2>1, DenseReads DEF s
  <2> QED BY <2>2 DEF s
<1>6. D \in SUBSET (1 .. m) /\ IsFiniteSet(D) /\ D \in SUBSET Int
  <2>1. D \in SUBSET (1 .. m)
    BY <1>3
  <2> HIDE DEF D
  <2> QED BY <2>1, Positions
<1> DEFINE n == Cardinality(D)
<1>7. /\ n \in Nat /\ DOMAIN derived = 1 .. n
      /\ \A k \in D : Place(D, k) \in 1 .. n /\ derived[Place(D, k)] = k
  <2> HIDE DEF D
  <2> QED BY <1>6, Ordered
<1>8. \A k \in DOMAIN old : SlotShape(after[k]) /\ CacheSound(after[k]) /\ SameSlot(after[k], old[k])
  <2> TAKE k \in DOMAIN old
  <2>1. CASE k \in dense /\ k <= upto
    <3>1. after[k] = one(k).slot
      BY <2>1
    <3>2. SlotAnswer(old[k], window, one(k))
      BY <1>5, <2>1
    <3> HIDE DEF after, one, window, old
    <3> QED BY <3>1, <3>2 DEF SlotAnswer
  <2>2. CASE ~(k \in dense /\ k <= upto)
    <3>1. after[k] = old[k]
      BY <2>2
    <3> HIDE DEF after
    <3> QED BY <1>4, <3>1 DEF SameSlot
  <2> QED BY <2>1, <2>2
<1>9. CASE window = NoStep
  <2>1. r.ok = FALSE /\ r.reader = rd
    <3> HIDE DEF r, window, failed, after, final
    <3> QED BY <1>1, <1>9
  <2> HIDE DEF r
  <2>2. SameSlots(rd, rd)
    BY DEF SameSlots, SameSlot
  <2> QED BY <2>1, <2>2 DEF ForecastAnswer, r
<1>10. CASE window # NoStep /\ failed
  <2>1. r.ok = FALSE /\ r.reader = WithSlots(rd, after)
    <3> HIDE DEF r, window, failed, after, final
    <3> QED BY <1>1, <1>10
  <2>2. after = [k \in DOMAIN rd.slots |-> after[k]]
    OBVIOUS
  <2>3. ForecastShape(WithSlots(rd, after)) /\ SameSlots(WithSlots(rd, after), rd)
    <3> HIDE DEF after
    <3> QED BY <1>8, <2>2, Reslotted
  <2> HIDE DEF r, after
  <2> QED BY <2>1, <2>3 DEF ForecastAnswer, r
<1>11. CASE window # NoStep /\ ~failed
  <2>1. r.ok = TRUE /\ r.reader = WithSlots(rd, final)
    <3> HIDE DEF r, window, failed, after, final
    <3> QED BY <1>1, <1>11, Zenon
  <2>2. ASSUME NEW k \in DOMAIN old
        PROVE  /\ SlotShape(final[k]) /\ CacheSound(final[k]) /\ SameSlot(final[k], old[k])
               /\ holds_array(old[k].hash)
               /\ final[k].filled = TRUE /\ final[k].buf = WindowIn(old[k], window)
    <3>1. CASE k \in dense
      <4>1. upto = m /\ k <= m
        <5>1. bad = {}
          BY <1>11, Zenon
        <5> HIDE DEF bad, old
        <5> QED BY <1>3, <2>2, <5>1
      <4>2. final[k] = one(k).slot
        <5> HIDE DEF upto, one
        <5> QED BY <3>1, <4>1, Zenon
      <4>3. one(k).ok
        BY <1>11, <3>1, Zenon
      <4>4. SlotAnswer(old[k], window, one(k))
        BY <1>5, <3>1
      <4> HIDE DEF final, one, old, window
      <4> QED BY <4>2, <4>3, <4>4 DEF SlotAnswer
    <3>2. CASE k \in D
      <4> DEFINE p == Place(D, k)
                 v == batch.values[p]
                 s == old[k]
      <4>1. p \in 1 .. n /\ derived[p] = k
        BY <1>7, <3>2
      <4>2. derived # <<>>
        <5>1. DOMAIN derived # {}
          BY <1>7, <4>1
        <5>2. DOMAIN <<>> = {}
          OBVIOUS
        <5> HIDE DEF derived
        <5> QED BY <5>1, <5>2
      <4>3. batch.ok
        <5> HIDE DEF batch, derived, bad
        <5> QED BY <1>11, <4>2
      <4>4. DOMAIN hashes = 1 .. n
        BY <1>7
      <4>5. /\ Held(hashes)
            /\ batch.values[p] = RunOf(hashes[p], starts[p], lens[p])
        <5> DEFINE asked == Range(derived)
        <5>1. n \in Nat /\ DOMAIN hashes = 1 .. n /\ p \in 1 .. n
          BY <1>7, <4>1, <4>4
        <5> HIDE DEF asked, hashes, lens, starts, p, n
        <5> DEFINE got == RangesOf(hashes, starts, lens, asked, io)
        <5>2. RunsAnswer(n, hashes, starts, lens, got)
          BY <5>1, RangesRead
        <5>3. batch = got
          BY Zenon DEF asked
        <5> HIDE DEF batch, got
        <5> QED BY <4>3, <5>1, <5>2, <5>3 DEF RunsAnswer
      <4>6. hashes[p] = s.hash /\ starts[p] = window * s.read.steps /\ lens[p] = s.read.horizon
        BY <1>7, <4>1, Zenon
      <4>7. holds_array(s.hash)
        <5> HIDE DEF hashes, p, s
        <5> QED BY <4>1, <4>4, <4>5, <4>6, Zenon DEF Held
      <4>8. v = WindowIn(s, window)
        <5>1. s.read.kind # "dense"
          BY <3>2
        <5>2. v = RunOf(s.hash, window * s.read.steps, s.read.horizon)
          <6> HIDE DEF batch, hashes, starts, lens, window, s, p
          <6> QED BY <4>5, <4>6 DEF v
        <5> HIDE DEF v, s, window
        <5> QED BY <5>1, <5>2 DEF WindowIn
      <4>9. final[k] = SlotGiven(s, v)
        <5>1. k \notin dense /\ after[k] = s
          BY <3>2
        <5> HIDE DEF after, batch, s, dense
        <5> QED BY <5>1, <2>2
      <4>10. SlotShape(s) /\ CacheSound(s)
        BY <1>4
      <4> HIDE DEF v, s, final
      <4>11. Remade(SlotGiven(s, v), s, v, TRUE)
        BY <4>10, SlotsStaySound, Zenon
      <4>12. /\ SlotShape(final[k]) /\ CacheSound(final[k]) /\ SameSlot(final[k], s)
             /\ final[k].filled = TRUE /\ final[k].buf = v
        BY <4>9, <4>11, Zenon DEF Remade
      <4> QED BY <4>7, <4>8, <4>12 DEF s
    <3> QED BY <3>1, <3>2, Zenon
  <2>3. final = [k \in DOMAIN rd.slots |-> final[k]]
    BY Zenon
  <2> DEFINE inner == WithSlots(rd, final)
  <2>4. ForecastShape(inner) /\ SameSlots(inner, rd) /\ inner.slots = final
    <3>1. \A k \in DOMAIN rd.slots : SlotShape(final[k]) /\ CacheSound(final[k]) /\ SameSlot(final[k], rd.slots[k])
      <4> HIDE DEF final
      <4> QED BY <2>2, Zenon
    <3> HIDE DEF final
    <3> QED BY <2>3, <3>1, Reslotted
  <2>5. WindowOf(inner, at) = window
    <3> HIDE DEF inner
    <3> QED BY <2>4, Zenon DEF WindowOf, SameSlots
  <2>6. ForecastAllOrNothing(inner, at, TRUE) /\ SlotsHeld(inner)
    <3> HIDE DEF inner, final
    <3> SUFFICES ASSUME NEW k \in DOMAIN inner.slots
                 PROVE  /\ inner.slots[k].filled = TRUE /\ WindowOf(inner, at) # NoStep
                        /\ inner.slots[k].buf = WindowIn(inner.slots[k], WindowOf(inner, at))
                        /\ holds_array(inner.slots[k].hash)
      BY DEF ForecastAllOrNothing, SlotsHeld
    <3>1. k \in DOMAIN old
      BY <2>4 DEF SameSlots
    <3> DEFINE s == old[k]
               t == final[k]
    <3>2. /\ SameSlot(t, s) /\ holds_array(s.hash) /\ t.filled = TRUE /\ t.buf = WindowIn(s, window)
          /\ inner.slots[k] = t
      BY <2>2, <2>4, <3>1
    <3> HIDE DEF s, t, window
    <3>3. WindowIn(t, window) = WindowIn(s, window) /\ t.hash = s.hash
      BY <3>2, SameWindow DEF SameSlot
    <3> QED BY <1>11, <2>5, <3>2, <3>3, Zenon
  <2> HIDE DEF inner, r
  <2>7. r.reader = inner
    BY <2>1, Zenon DEF inner
  <2>8. ForecastAnswer(rd, at, r)
    BY <2>1, <2>4, <2>6, <2>7, Zenon DEF ForecastAnswer
  <2> QED BY <2>8 DEF r
<1> QED BY <1>9, <1>10, <1>11, Zenon

\* Invalidated, a forecast reader keeps its slots' layouts and none is filled.
LEMMA ForecastInvalidated ==
    ASSUME NEW rd, ForecastShape(rd)
    PROVE  /\ ForecastShape(invalidate_forecast(rd)) /\ SameSlots(invalidate_forecast(rd), rd)
           /\ \A k \in DOMAIN rd.slots : invalidate_forecast(rd).slots[k].filled = FALSE
<1> DEFINE ss == [k \in DOMAIN rd.slots |-> SlotUnfilled(rd.slots[k])]
<1>1. invalidate_forecast(rd) = WithSlots(rd, ss)
  BY DEF invalidate_forecast, WithSlots, SlotUnfilled
<1>2. \A k \in DOMAIN rd.slots :
        /\ SlotShape(ss[k]) /\ CacheSound(ss[k]) /\ SameSlot(ss[k], rd.slots[k])
        /\ ss[k].filled = FALSE
  <2> TAKE k \in DOMAIN rd.slots
  <2> DEFINE s == rd.slots[k]
             t == ss[k]
  <2>1. t = SlotUnfilled(s) /\ SlotShape(s) /\ CacheSound(s)
    BY DEF ForecastShape
  <2> HIDE DEF s, t
  <2>2. Remade(t, s, s.buf, FALSE)
    BY <2>1, SlotsStaySound, Zenon
  <2>3. SlotShape(t) /\ CacheSound(t) /\ SameSlot(t, s) /\ t.filled = FALSE
    BY <2>2, Zenon DEF Remade
  <2> QED BY <2>3 DEF s, t
<1>3. ss = [k \in DOMAIN rd.slots |-> ss[k]]
  OBVIOUS
<1> HIDE DEF ss
<1>4. /\ ForecastShape(WithSlots(rd, ss)) /\ SameSlots(WithSlots(rd, ss), rd)
      /\ WithSlots(rd, ss).slots = ss
  BY <1>2, <1>3, Reslotted
<1> QED BY <1>1, <1>2, <1>4

\* What a forecast read answers and leaves behind, after a failed one is invalidated.
ForecastDone(rd, at, r) ==
    /\ ForecastShape(r.reader) /\ SameSlots(r.reader, rd)
    /\ r.ok \in BOOLEAN /\ ForecastAllOrNothing(r.reader, at, r.ok)
    /\ r.ok => SlotsHeld(r.reader)

\* ForecastReader::read_at: all of its slots or none of them.
LEMMA ForecastReadAll ==
    ASSUME NEW rd, ForecastShape(rd), NEW at, NEW io
    PROVE  ForecastDone(rd, at, forecast_read(rd, at, io))
<1> DEFINE inner == forecast_read_into(rd, at, io)
           r == forecast_read(rd, at, io)
<1>1. r = IF inner.ok THEN inner ELSE [ok |-> FALSE, reader |-> invalidate_forecast(inner.reader)]
  BY DEF forecast_read, OrInvalidatedForecast
<1>2. ForecastAnswer(rd, at, inner)
  BY ForecastReadInto
<1> HIDE DEF inner
<1>3. ASSUME inner.ok = FALSE PROVE ForecastDone(rd, at, r)
  <2> DEFINE e == invalidate_forecast(inner.reader)
  <2>1. r = [ok |-> FALSE, reader |-> e]
    <3> HIDE DEF r, e
    <3> QED BY <1>1, <1>3 DEF e
  <2>2. ForecastShape(inner.reader) /\ SameSlots(inner.reader, rd)
    BY <1>2 DEF ForecastAnswer
  <2>3. /\ ForecastShape(e) /\ SameSlots(e, inner.reader)
        /\ \A k \in DOMAIN inner.reader.slots : e.slots[k].filled = FALSE
    BY <2>2, ForecastInvalidated
  <2> HIDE DEF e, r
  <2>4. r.ok = FALSE /\ r.reader = e
    BY <2>1
  <2>5. SameSlots(e, rd)
    BY <2>2, <2>3 DEF SameSlots, SameSlot
  <2>6. ForecastAllOrNothing(e, at, FALSE)
    BY <2>3 DEF ForecastAllOrNothing, SameSlots
  <2>7. ForecastAllOrNothing(r.reader, at, r.ok)
    BY <2>4, <2>6, Zenon
  <2>8. ForecastShape(r.reader) /\ SameSlots(r.reader, rd) /\ r.ok \in BOOLEAN /\ ~r.ok
    BY <2>3, <2>4, <2>5
  <2> QED BY <2>7, <2>8, Zenon DEF ForecastDone
<1>4. ASSUME inner.ok # FALSE PROVE ForecastDone(rd, at, r)
  <2>1. inner.ok = TRUE /\ ForecastAllOrNothing(inner.reader, at, TRUE) /\ SlotsHeld(inner.reader)
        /\ ForecastShape(inner.reader) /\ SameSlots(inner.reader, rd)
    BY <1>2, <1>4 DEF ForecastAnswer
  <2>2. r = inner
    <3> HIDE DEF r
    <3> QED BY <1>1, <2>1
  <2> HIDE DEF r
  <2>3. ForecastShape(r.reader) /\ SameSlots(r.reader, rd) /\ r.ok = TRUE /\ r.ok \in BOOLEAN
    BY <2>1, <2>2
  <2>4. ForecastAllOrNothing(r.reader, at, r.ok) /\ SlotsHeld(r.reader)
    BY <2>1, <2>2, <2>3, Zenon
  <2> QED BY <2>3, <2>4, Zenon DEF ForecastDone
<1>5. ForecastDone(rd, at, r)
  <2> HIDE DEF r
  <2> QED BY <1>3, <1>4
<1> QED BY <1>5

\* The distinct values of a sequence are a sequence.
LEMMA DistinctIsSequence ==
    ASSUME NEW n \in Nat, NEW s, DOMAIN s = 1 .. n
    PROVE  \E m \in Nat : DOMAIN Distinct(s) = 1 .. m
<1> DEFINE S == {i \in DOMAIN s : \A j \in 1 .. (i - 1) : s[j] # s[i]}
<1>1. S \in SUBSET (1 .. n)
  OBVIOUS
<1>2. DOMAIN Distinct(s) = DOMAIN InOrder(S)
  BY DEF Distinct
<1> HIDE DEF S
<1>3. IsFiniteSet(S) /\ S \in SUBSET Int
  BY <1>1, Positions
<1>4. Cardinality(S) \in Nat /\ DOMAIN InOrder(S) = 1 .. Cardinality(S)
  BY <1>3, Ordered
<1> QED BY <1>2, <1>4

\* A forecast reader that is built has slots, none read and none cached.
LEMMA ForecastBuilt ==
    ASSUME RowsKnown, NEW filter, build_forecast_reader(filter) # NoReader
    PROVE  ForecastShape(build_forecast_reader(filter))
<1> DEFINE R     == Matching(filter)
           rd    == build_forecast_reader(filter)
           items == InIdentityOrder(R)
           keys  == Distinct([i \in DOMAIN items |-> SlotKey(items[i])])
           first == items[1].series
           slots == [k \in DOMAIN keys |-> WindowSlot(CHOOSE r \in R : SlotKey(r) = keys[k])]
           entries == [i \in DOMAIN items |->
                         [id |-> items[i].id, slot |-> CHOOSE k \in DOMAIN keys : keys[k] = SlotKey(items[i])]]
<1>1. rd = [kind |-> "forecast", first |-> first, slots |-> slots, entries |-> entries]
  <2>1. rd = build_forecast_entries(R)
    BY DEF build_forecast_reader
  <2> HIDE DEF R
  <2> QED BY <2>1 DEF build_forecast_entries
<1>2. PICK m \in Nat : DOMAIN keys = 1 .. m
  <2> DEFINE S == {r.key : r \in R}
             s == [i \in DOMAIN items |-> SlotKey(items[i])]
  <2>1. IsFiniteSet(S) /\ S \in SUBSET Int
    <3>1. R \in SUBSET catalog
      BY DEF Matching
    <3> HIDE DEF R
    <3> QED BY <3>1, RowsAreFinite
  <2>2. Cardinality(S) \in Nat /\ DOMAIN InOrder(S) = 1 .. Cardinality(S)
    <3> HIDE DEF S
    <3> QED BY <2>1, Ordered
  <2>3. DOMAIN s = 1 .. Cardinality(S)
    BY <2>2 DEF InIdentityOrder
  <2> HIDE DEF s
  <2>4. \E m \in Nat : DOMAIN Distinct(s) = 1 .. m
    BY <2>2, <2>3, DistinctIsSequence
  <2> QED BY <2>4 DEF s
<1>3. slots = [k \in 1 .. m |-> slots[k]]
  <2> HIDE DEF keys
  <2> QED BY <1>2
<1>4. ASSUME NEW k \in DOMAIN slots PROVE SlotShape(slots[k]) /\ CacheSound(slots[k])
  <2> DEFINE row == CHOOSE r \in R : SlotKey(r) = keys[k]
             s == slots[k]
             h == row.hash
             a == ArrayOf(row)
             l == entry_layout(row)
             c == row.series.count
             e == <<>>
             f == FALSE
  <2>1. s = SlotOf(h, a, l, c, e, e, e, f) /\ e = <<>>
    BY DEF WindowSlot, SlotOf
  <2> HIDE DEF s, row, h, a, l, c, e, f
  <2>2. SlotShape(s) /\ s.cached = <<>>
    BY <2>1, SlotFields
  <2>3. CacheSound(s)
    BY <2>2 DEF CacheSound
  <2> QED BY <2>2, <2>3 DEF s
<1> HIDE DEF rd, slots, first, entries
<1>5. rd.first = first /\ rd.slots = slots /\ rd.entries = entries
  BY <1>1
<1>6. ForecastShape(rd)
  BY <1>1, <1>3, <1>4, <1>5 DEF ForecastShape
<1> QED BY <1>6 DEF rd

-----------------------------------------------------------------------------
(* The store and its reader. *)

\* A reader is none, or the columns it was built with.
ReaderKept == reader = NoReader \/ StaticShape(reader) \/ ForecastShape(reader)

\* After a read the reader holds all of its columns, at the instant that was read, or
\* none: never some at one instant and some at another (reader.rs:397-593,
\* store.rs:3907-4080).
ReadIsWhole ==
    /\ last.kind = "static" => AllOrNothing(reader, last.at, last.ok)
    /\ last.kind = "forecast" => ForecastAllOrNothing(reader, last.at, last.ok)

\* A read that answered found its arrays in the store.
ReadIsHeld ==
    /\ last.kind = "static" => StaticShape(reader) /\ (last.ok => GroupsHeld(reader))
    /\ last.kind = "forecast" => ForecastShape(reader) /\ (last.ok => SlotsHeld(reader))

ReaderInv == RowsKnown /\ ReaderKept /\ ReadIsWhole /\ ReadIsHeld

\* A reader that is kept has the shape of its kind.
LEMMA KindsOfReaders ==
    ASSUME ReaderKept
    PROVE  /\ reader.kind = "static" => StaticShape(reader)
           /\ reader.kind = "forecast" => ForecastShape(reader)
<1>1. NoReader.kind = "none"
  BY DEF NoReader
<1>2. StaticShape(reader) => reader.kind = "static"
  BY DEF StaticShape
<1>3. ForecastShape(reader) => reader.kind = "forecast"
  BY DEF ForecastShape
<1> QED BY <1>1, <1>2, <1>3 DEF ReaderKept

\* A static read leaves a whole reader behind.
LEMMA StaticReadKeeps ==
    ASSUME ReaderInv, StaticRead
    PROVE  (ReaderKept /\ ReadIsWhole /\ ReadIsHeld)'
<1>1. StaticShape(reader)
  BY KindsOfReaders DEF ReaderInv, StaticRead
<1>2. PICK at \in Moments, io \in SUBSET DOMAIN reader.groups :
        /\ reader' = static_read(reader, at, io).reader
        /\ last' = [kind |-> "static", at |-> at, ok |-> static_read(reader, at, io).ok]
  BY DEF StaticRead
<1> DEFINE r == static_read(reader, at, io)
<1>3. StaticAnswer(reader, at, r)
  BY <1>1, StaticReadAll
<1>4. reader' = r.reader /\ last'.kind = "static" /\ last'.at = at /\ last'.ok = r.ok
  <2> HIDE DEF r
  <2>1. last' = [kind |-> "static", at |-> at, ok |-> r.ok] /\ reader' = r.reader
    BY <1>2 DEF r
  <2>2. last'.ok = r.ok
    BY <2>1, Zenon
  <2> QED BY <2>1, <2>2
<1> HIDE DEF r
<1>5. StaticShape(reader') /\ r.ok \in BOOLEAN
  BY <1>3, <1>4 DEF StaticAnswer
<1>6. AllOrNothing(reader', last'.at, last'.ok)
  BY <1>3, <1>4, Zenon DEF StaticAnswer
<1>7. last'.ok => GroupsHeld(reader)'
  <2>1. UNCHANGED <<file, buffer>>
    BY DEF StaticRead, store
  <2>2. r.ok => GroupsHeld(r.reader)
    BY <1>3, Zenon DEF StaticAnswer
  <2> SUFFICES ASSUME last'.ok PROVE GroupsHeld(reader)'
    OBVIOUS
  <2>3. GroupsHeld(r.reader)
    BY <1>4, <2>2, Zenon
  <2> QED BY <1>4, <2>1, <2>3 DEF GroupsHeld, Held, holds_array
<1> QED BY <1>4, <1>5, <1>6, <1>7 DEF ReaderKept, ReadIsWhole, ReadIsHeld

\* So does a forecast read.
LEMMA ForecastReadKeeps ==
    ASSUME ReaderInv, ForecastRead
    PROVE  (ReaderKept /\ ReadIsWhole /\ ReadIsHeld)'
<1>1. ForecastShape(reader)
  BY KindsOfReaders DEF ReaderInv, ForecastRead
<1>2. PICK at \in Moments, io \in SUBSET DOMAIN reader.slots :
        /\ reader' = forecast_read(reader, at, io).reader
        /\ last' = [kind |-> "forecast", at |-> at, ok |-> forecast_read(reader, at, io).ok]
  BY DEF ForecastRead
<1> DEFINE r == forecast_read(reader, at, io)
<1>3. ForecastDone(reader, at, r)
  BY <1>1, ForecastReadAll
<1>4. reader' = r.reader /\ last'.kind = "forecast" /\ last'.at = at /\ last'.ok = r.ok
  <2> HIDE DEF r
  <2>1. last' = [kind |-> "forecast", at |-> at, ok |-> r.ok] /\ reader' = r.reader
    BY <1>2 DEF r
  <2>2. last'.ok = r.ok
    BY <2>1, Zenon
  <2> QED BY <2>1, <2>2
<1> HIDE DEF r
<1>5. ForecastShape(reader') /\ r.ok \in BOOLEAN
  BY <1>3, <1>4 DEF ForecastDone
<1>6. ForecastAllOrNothing(reader', last'.at, last'.ok)
  BY <1>3, <1>4, Zenon DEF ForecastDone
<1>7. last'.ok => SlotsHeld(reader)'
  <2>1. UNCHANGED <<file, buffer>>
    BY DEF ForecastRead, store
  <2>2. r.ok => SlotsHeld(r.reader)
    BY <1>3, Zenon DEF ForecastDone
  <2> SUFFICES ASSUME last'.ok PROVE SlotsHeld(reader)'
    OBVIOUS
  <2>3. SlotsHeld(r.reader)
    BY <1>4, <2>2, Zenon
  <2> QED BY <1>4, <2>1, <2>3 DEF SlotsHeld, holds_array
<1> QED BY <1>4, <1>5, <1>6, <1>7 DEF ReaderKept, ReadIsWhole, ReadIsHeld

\* The reader's invariant is inductive.
LEMMA ReaderSteps == ASSUME ReaderInv, [Next]_vars PROVE ReaderInv'
<1>1. RowsKnown'
  BY RowsStayKnown DEF ReaderInv
<1>2. CASE UNCHANGED vars
  <2>1. reader' = reader /\ last' = last /\ file' = file /\ buffer' = buffer
    BY <1>2 DEF vars
  <2>2. (ReaderKept /\ ReadIsWhole)'
    BY <2>1 DEF ReaderInv, ReaderKept, ReadIsWhole
  <2>3. ReadIsHeld'
    BY <2>1 DEF ReaderInv, ReadIsHeld, GroupsHeld, SlotsHeld, Held, holds_array
  <2> QED BY <1>1, <2>2, <2>3 DEF ReaderInv
<1>3. CASE StaticRead
  BY <1>1, <1>3, StaticReadKeeps DEF ReaderInv
<1>4. CASE ForecastRead
  BY <1>1, <1>4, ForecastReadKeeps DEF ReaderInv
<1>5. ASSUME last'.kind \notin {"static", "forecast"}, ReaderKept' PROVE ReaderInv'
  BY <1>1, <1>5 DEF ReaderInv, ReadIsWhole, ReadIsHeld
<1>6. CASE BulkRead
  <2>1. last'.kind \in {"ids", "range"} /\ reader' = reader
    BY <1>6 DEF BulkRead
  <2> QED BY <1>5, <2>1 DEF ReaderInv, ReaderKept
<1>7. CASE BuildStatic \/ BuildForecast
  <2>1. last'.kind = "none"
    BY <1>7 DEF BuildStatic, BuildForecast, Build, NoRead
  <2>2. ReaderKept'
    <3>1. CASE BuildStatic
      <4>1. PICK f \in StaticFilters, w \in ReadWindows :
              reader' = build_static_reader_over(f, w) /\ build_static_reader_over(f, w) # NoReader
        BY <3>1 DEF BuildStatic, Build
      <4>2. StaticShape(reader')
        BY <4>1, StaticBuilt DEF ReaderInv
      <4> QED BY <4>2 DEF ReaderKept
    <3>2. CASE BuildForecast
      <4>1. PICK f \in ForecastFilters :
              reader' = build_forecast_reader(f) /\ build_forecast_reader(f) # NoReader
        BY <3>2 DEF BuildForecast, Build
      <4>2. ForecastShape(reader')
        BY <4>1, ForecastBuilt DEF ReaderInv
      <4> QED BY <4>2 DEF ReaderKept
    <3> QED BY <1>7, <3>1, <3>2
  <2> QED BY <1>5, <2>1, <2>2
<1>8. CASE (\E row \in world : AddRow(row) \/ RemoveRow(row)) \/ Begin \/ Commit \/ Rollback
  <2>1. last'.kind = "none" /\ reader' = reader
    BY <1>8 DEF AddRow, RemoveRow, Begin, Commit, Rollback, NoRead
  <2> QED BY <1>5, <2>1 DEF ReaderInv, ReaderKept
<1> QED BY <1>2, <1>3, <1>4, <1>6, <1>7, <1>8 DEF Next

\* Before anything is built or read there is no reader to keep.
LEMMA ReaderStarts == Init => ReaderInv
<1> SUFFICES ASSUME Init PROVE ReaderInv
  OBVIOUS
<1>1. last.kind = "none" /\ reader = NoReader
  BY DEF Init, NoRead
<1>2. RowsKnown
  BY RowsStayKnown
<1> QED BY <1>1, <1>2 DEF ReaderInv, ReaderKept, ReadIsWhole, ReadIsHeld

\* After a read every column holds the row, or the window, of the instant that was read,
\* from a cache or not; after one that failed anywhere none holds anything.
THEOREM ReadsAreWhole == Spec => []ReadIsWhole
<1>1. ReaderInv => ReadIsWhole
  BY DEF ReaderInv
<1> QED BY <1>1, ReaderStarts, ReaderSteps, PTL DEF Spec

\* NothingServedAfterRemoval holds: a read that answers found every array it answered
\* from, whatever was removed since the reader was built or its blocks were cached.
THEOREM RemovedArraysAreNotServed == Spec => []NothingServedAfterRemoval
<1>1. ASSUME ReaderInv PROVE NothingServedAfterRemoval
  <2>1. ASSUME last.kind = "static", last.ok, NEW g \in DOMAIN reader.groups
        PROVE  Range(reader.groups[g].hashes) \subseteq file \cup buffer
    <3>1. Held(reader.groups[g].hashes)
      BY <1>1, <2>1 DEF ReaderInv, ReadIsHeld, GroupsHeld
    <3> QED BY <3>1 DEF Held, holds_array, Range
  <2>2. ASSUME last.kind = "forecast", last.ok
        PROVE  {reader.slots[k].hash : k \in DOMAIN reader.slots} \subseteq file \cup buffer
    <3>1. SlotsHeld(reader)
      BY <1>1, <2>2 DEF ReaderInv, ReadIsHeld
    <3> QED BY <3>1 DEF SlotsHeld, holds_array
  <2> QED BY <2>1, <2>2 DEF NothingServedAfterRemoval
<1> QED BY <1>1, ReaderStarts, ReaderSteps, PTL DEF Spec

-----------------------------------------------------------------------------
(* Numbers.                                                                *)

\* A set of naturals that is not empty has a least element.
LEMMA LeastNatural ==
    ASSUME NEW T, T \subseteq Nat, T # {}
    PROVE  \E x \in T : \A y \in T : x <= y
<1>1. PICK R : /\ IsWellFoundedOn(R, Nat)
               /\ \A x \in Nat, y \in Nat : y < x => <<y, x>> \in R
  <2> DEFINE R == OpToRel(<, Nat)
  <2>1. IsWellFoundedOn(R, Nat)
    BY NatLessThanWellFounded
  <2>2. \A x \in Nat, y \in Nat : y < x => <<y, x>> \in R
    BY DEF OpToRel
  <2> HIDE DEF R
  <2> QED BY <2>1, <2>2, Zenon
<1>2. \E x \in T : \A y \in T : ~(<<y, x>> \in R)
  BY <1>1, WFMin, Zenon
<1>3. PICK x \in T : \A y \in T : ~(<<y, x>> \in R)
  BY <1>2
<1>4. \A y \in T : ~(y < x)
  BY <1>1, <1>3
<1> QED BY <1>4

\* A set of naturals with a bound has a greatest element.
LEMMA GreatestNatural ==
    ASSUME NEW T, T \subseteq Nat, T # {}, NEW b \in Nat, \A x \in T : x <= b
    PROVE  \E x \in T : \A y \in T : x >= y
<1> DEFINE U == {b - x : x \in T}
<1>1. U \subseteq Nat
  OBVIOUS
<1>2. U # {}
  <2>1. PICK x : x \in T
    OBVIOUS
  <2>2. b - x \in U
    BY <2>1
  <2> QED BY <2>2
<1> HIDE DEF U
<1>3. PICK u \in U : \A v \in U : u <= v
  BY <1>1, <1>2, LeastNatural
<1>4. PICK x \in T : u = b - x
  BY DEF U
<1>5. \A y \in T : b - x <= b - y
  BY <1>3, <1>4 DEF U
<1> QED BY <1>5

\* Least and greatest elements are what Min and Max choose.
LEMMA MinIs ==
    ASSUME NEW T, T \subseteq Int, NEW x \in T, \A y \in T : x <= y
    PROVE  Min(T) = x
<1>1. Min(T) \in T /\ \A y \in T : Min(T) <= y
  BY Zenon DEF Min
<1> DEFINE m == Min(T)
<1>2. m \in Int /\ x \in Int /\ x <= m /\ m <= x
  BY <1>1
<1>3. m = x
  <2> HIDE DEF m
  <2> QED BY <1>2
<1> QED BY <1>3

\* The greatest element of a set of integers is the one Max chooses.
LEMMA MaxIs ==
    ASSUME NEW T, T \subseteq Int, NEW x \in T, \A y \in T : x >= y
    PROVE  Max(T) = x
<1>1. Max(T) \in T /\ \A y \in T : Max(T) >= y
  BY Zenon DEF Max
<1> DEFINE m == Max(T)
<1>2. m \in Int /\ x \in Int /\ x >= m /\ m >= x
  BY <1>1
<1>3. m = x
  <2> HIDE DEF m
  <2> QED BY <1>2
<1> QED BY <1>3

\* Products keep the order.
LEMMA ProductsRise ==
    ASSUME NEW b \in Nat \ {0}, NEW x \in Int, NEW y \in Int
    PROVE  /\ b * x \in Int
           /\ x <= y <=> b * x <= b * y
           /\ x < y <=> b * x < b * y
           /\ x + 1 <= y <=> b * x + b <= b * y
<1>1. ASSUME NEW d \in Nat PROVE b * d \in Nat /\ (d > 0 => b * d >= b)
  BY <1>1
<1> QED BY <1>1

\* Quotient and remainder are the only ones.
LEMMA Division ==
    ASSUME NEW b \in Nat \ {0}, NEW a \in Int
    PROVE  /\ a \div b \in Int /\ a % b \in 0 .. (b - 1)
           /\ a = b * (a \div b) + (a % b)
           /\ \A z \in Int, r \in 0 .. (b - 1) : a = b * z + r => z = a \div b /\ r = a % b
<1>1. a \div b \in Int /\ a % b \in 0 .. (b - 1) /\ a = b * (a \div b) + (a % b)
  OBVIOUS
<1> DEFINE d == a \div b
           e == a % b
<1> HIDE DEF d, e
<1>2. d \in Int /\ e \in 0 .. (b - 1) /\ a = b * d + e
  BY <1>1 DEF d, e
<1>3. ASSUME NEW z \in Int, NEW r \in 0 .. (b - 1), a = b * z + r
      PROVE  z = d /\ r = e
  <2>1. b * z \in Int /\ b * d \in Int
    BY <1>2, ProductsRise
  <2>2. ~(z + 1 <= d) /\ ~(d + 1 <= z)
    BY <1>2, <1>3, <2>1, ProductsRise
  <2>3. z = d
    BY <1>2, <2>2
  <2> QED BY <1>2, <1>3, <2>1, <2>3
<1> QED BY <1>1, <1>3 DEF d, e

\* A multiple leaves no remainder.
LEMMA Multiples ==
    ASSUME NEW b \in Nat \ {0}, NEW c \in Nat
    PROVE  (c * b) % b = 0
<1> DEFINE x == c * b
<1>1. x = b * c + 0 /\ 0 \in 0 .. (b - 1) /\ x \in Int
  OBVIOUS
<1> HIDE DEF x
<1>2. c = x \div b /\ 0 = x % b
  BY <1>1, Division
<1> QED BY <1>2 DEF x

-----------------------------------------------------------------------------
(* Months.                                                                 *)

LastMonth   == Len(MonthLen)
StartBody(f, m) == IF m = 1 THEN 0 ELSE f[m - 1] + MonthLen[m - 1]

\* The calendar has a month, and every month a day.
LEMMA MonthsHaveDays ==
    /\ LastMonth \in Nat \ {0} /\ DOMAIN MonthLen = 1 .. LastMonth
    /\ \A m \in 1 .. LastMonth : MonthLen[m] \in Nat \ {0}
<1>1. MonthLen \in Seq(Nat \ {0}) /\ MonthLen # <<>>
  BY CalendarAssumption
<1>2. Len(MonthLen) \in Nat /\ DOMAIN MonthLen = 1 .. Len(MonthLen)
  BY <1>1
<1>3. \A m \in 1 .. Len(MonthLen) : MonthLen[m] \in Nat \ {0}
  BY <1>1
<1>4. Len(MonthLen) # 0
  BY <1>1
<1> QED BY <1>2, <1>3, <1>4 DEF LastMonth

\* The recursion defines a function: one that obeys it up to month n extends to n + 1.
LEMMA StartsUnfold == MonthStart = [m \in 1 .. (LastMonth + 1) |-> StartBody(MonthStart, m)]
<1> DEFINE Obeys(f, n) == f = [m \in 1 .. n |-> StartBody(f, m)]
           Bad == {n \in Nat : ~\E f : Obeys(f, n)}
<1>1. \E f : Obeys(f, 0)
  <2> DEFINE f == [m \in 1 .. 0 |-> 0]
  <2>1. f = [m \in 1 .. 0 |-> StartBody(f, m)]
    OBVIOUS
  <2> QED BY <2>1
<1>2. ASSUME NEW n \in Nat, \E f : Obeys(f, n)
      PROVE  \E f : Obeys(f, n + 1)
  <2> PICK f : Obeys(f, n)
    BY <1>2
  <2> DEFINE g == [m \in 1 .. (n + 1) |-> StartBody(f, m)]
  <2>1. \A m \in 1 .. n : g[m] = f[m]
    OBVIOUS
  <2> HIDE DEF g
  <2>2. \A m \in 1 .. (n + 1) : StartBody(f, m) = StartBody(g, m)
    <3> SUFFICES ASSUME NEW m \in 1 .. (n + 1), m # 1 PROVE f[m - 1] = g[m - 1]
      BY DEF StartBody
    <3>1. m - 1 \in 1 .. n
      OBVIOUS
    <3> QED BY <2>1, <3>1
  <2> QED BY <2>2 DEF g
<1> HIDE DEF Obeys
<1>3. Bad = {}
  <2> SUFFICES ASSUME Bad # {} PROVE FALSE
    OBVIOUS
  <2>1. PICK n \in Bad : \A m \in Bad : n <= m
    BY LeastNatural
  <2>2. n # 0
    BY <1>1, <2>1
  <2>3. n - 1 \in Nat /\ n - 1 \notin Bad /\ (n - 1) + 1 = n
    BY <2>1, <2>2
  <2>4. \E f : Obeys(f, n - 1)
    BY <2>3
  <2>5. \E f : Obeys(f, (n - 1) + 1)
    BY <1>2, <2>3, <2>4
  <2> QED BY <2>1, <2>3, <2>5
<1>4. LastMonth + 1 \in Nat
  BY MonthsHaveDays
<1>5. \E f : f = [m \in 1 .. (LastMonth + 1) |-> StartBody(f, m)]
  <2>1. \E f : Obeys(f, LastMonth + 1)
    BY <1>3, <1>4
  <2> QED BY <2>1 DEF Obeys
<1> QED BY <1>5, Zenon DEF MonthStart, StartBody, LastMonth

\* Each month starts where the one before it ends.
LEMMA StartsStep ==
    /\ MonthStart[1] = 0
    /\ \A m \in 1 .. LastMonth : MonthStart[m + 1] = MonthStart[m] + MonthLen[m]
<1>1. \A m \in 1 .. (LastMonth + 1) : MonthStart[m] = StartBody(MonthStart, m)
  BY StartsUnfold
<1>2. LastMonth \in Nat \ {0}
  BY MonthsHaveDays
<1>3. MonthStart[1] = 0
  BY <1>1, <1>2 DEF StartBody
<1>4. ASSUME NEW m \in 1 .. LastMonth PROVE MonthStart[m + 1] = MonthStart[m] + MonthLen[m]
  <2>1. m + 1 \in 1 .. (LastMonth + 1) /\ m + 1 # 1 /\ (m + 1) - 1 = m
    BY <1>2
  <2> QED BY <1>1, <2>1 DEF StartBody
<1> QED BY <1>3, <1>4

\* Months start on days, one after another.
LEMMA StartsRise ==
    /\ \A m \in 1 .. (LastMonth + 1) : MonthStart[m] \in Nat /\ MonthStart[m] >= m - 1
    /\ \A m, n \in 1 .. (LastMonth + 1) : m < n => MonthStart[m + 1] <= MonthStart[n]
<1> DEFINE Good(n) == /\ MonthStart[n] \in Nat /\ MonthStart[n] >= n - 1
                      /\ \A m \in 1 .. (n - 1) : MonthStart[m + 1] \in Nat /\ MonthStart[m + 1] <= MonthStart[n]
           Bad == {n \in 1 .. (LastMonth + 1) : ~Good(n)}
<1>1. LastMonth \in Nat \ {0}
  BY MonthsHaveDays
<1>2. Good(1)
  BY StartsStep
<1>3. ASSUME NEW n \in 1 .. LastMonth, Good(n) PROVE Good(n + 1)
  <2>1. MonthLen[n] \in Nat \ {0} /\ MonthStart[n + 1] = MonthStart[n] + MonthLen[n]
    BY MonthsHaveDays, StartsStep
  <2>2. MonthStart[n + 1] \in Nat /\ MonthStart[n + 1] >= n /\ MonthStart[n] <= MonthStart[n + 1]
    BY <1>3, <2>1
  <2>3. ASSUME NEW m \in 1 .. ((n + 1) - 1)
        PROVE  MonthStart[m + 1] \in Nat /\ MonthStart[m + 1] <= MonthStart[n + 1]
    <3>1. CASE m = n
      BY <2>2, <3>1
    <3>2. CASE m # n
      <4>1. m \in 1 .. (n - 1)
        BY <3>2
      <4>2. MonthStart[m + 1] \in Nat /\ MonthStart[m + 1] <= MonthStart[n] /\ MonthStart[n] \in Nat
        BY <1>3, <4>1
      <4> QED BY <2>2, <4>2
    <3> QED BY <3>1, <3>2
  <2> QED BY <2>2, <2>3
<1> HIDE DEF Good
<1>4. Bad = {}
  <2> SUFFICES ASSUME Bad # {} PROVE FALSE
    OBVIOUS
  <2>9. Bad \subseteq Nat
    BY <1>1
  <2>1. PICK n \in Bad : \A m \in Bad : n <= m
    BY <2>9, LeastNatural
  <2>2. n # 1
    BY <1>2, <2>1
  <2>3. n - 1 \in 1 .. LastMonth /\ n - 1 \notin Bad /\ (n - 1) + 1 = n
    BY <1>1, <2>1, <2>2
  <2>4. Good(n - 1)
    BY <1>1, <2>3
  <2>5. Good((n - 1) + 1)
    BY <1>3, <2>3, <2>4
  <2> QED BY <2>1, <2>3, <2>5
<1>5. \A n \in 1 .. (LastMonth + 1) : Good(n)
  BY <1>4
<1> QED BY <1>1, <1>5 DEF Good

\* A day has ticks, and the calendar days.
LEMMA DaysAndTicks ==
    /\ Sub \in Nat \ {0} /\ DayMs \in Nat \ {0} /\ DayTicks \in Nat \ {0}
    /\ Days \in Nat /\ LastMonth <= Days
    /\ Days * DayTicks \in Nat /\ Instant = 0 .. (Days * DayTicks - 1)
<1>1. Sub \in Nat \ {0} /\ DayMs \in Nat \ {0}
  BY CalendarAssumption
<1>2. DayTicks \in Nat \ {0}
  BY <1>1, ProductsRise DEF DayTicks
<1>3. LastMonth + 1 \in 1 .. (LastMonth + 1) /\ LastMonth \in Nat
  BY MonthsHaveDays
<1>4. Days \in Nat /\ Days >= LastMonth
  BY <1>3, StartsRise DEF Days, LastMonth
<1>5. Days * DayTicks \in Nat
  BY <1>2, <1>4
<1> QED BY <1>1, <1>2, <1>3, <1>4, <1>5 DEF Instant

\* The day an instant falls on.
LEMMA DayOfInstant ==
    ASSUME NEW t \in Instant
    PROVE  t \in Nat /\ t \div DayTicks \in 0 .. (Days - 1)
<1>1. DayTicks \in Nat \ {0} /\ Days \in Nat /\ t \in Nat /\ t < Days * DayTicks
  BY DaysAndTicks
<1> DEFINE d == t \div DayTicks
<1>2. d \in Int /\ t % DayTicks \in 0 .. (DayTicks - 1) /\ t = DayTicks * d + (t % DayTicks)
  BY <1>1, Division
<1> HIDE DEF d
<1>3. d >= 0
  <2>1. d + 1 <= 0 => DayTicks * d + DayTicks <= DayTicks * 0
    BY <1>1, <1>2, ProductsRise
  <2>2. DayTicks * d \in Int /\ DayTicks * 0 = 0
    BY <1>1, <1>2, ProductsRise
  <2> QED BY <1>1, <1>2, <2>1, <2>2
<1>4. d < Days
  <2>1. Days <= d => DayTicks * Days <= DayTicks * d
    BY <1>1, <1>2, ProductsRise
  <2>2. DayTicks * Days = Days * DayTicks /\ DayTicks * d \in Int /\ DayTicks * Days \in Int
    BY <1>1, <1>2, ProductsRise
  <2> QED BY <1>1, <1>2, <2>1, <2>2
<1> QED BY <1>1, <1>2, <1>3, <1>4 DEF d

\* Every instant is in one month.
LEMMA MonthFound ==
    ASSUME NEW t \in Instant
    PROVE  /\ MonthOf(t) \in 1 .. LastMonth
           /\ DayOf(t) \in 0 .. (MonthLen[MonthOf(t)] - 1)
           /\ t \div DayTicks = MonthStart[MonthOf(t)] + DayOf(t)
           /\ \A m \in 1 .. LastMonth : \A e \in 0 .. (MonthLen[m] - 1) :
                 t \div DayTicks = MonthStart[m] + e => m = MonthOf(t) /\ e = DayOf(t)
<1> DEFINE d == t \div DayTicks
           S == {n \in DOMAIN MonthLen : MonthStart[n] <= d}
<1>1. d \in 0 .. (Days - 1) /\ Days = MonthStart[LastMonth + 1] /\ Days \in Nat
  BY DayOfInstant, DaysAndTicks DEF Days, LastMonth
<1>2. DOMAIN MonthLen = 1 .. LastMonth /\ LastMonth \in Nat \ {0}
  BY MonthsHaveDays
<1>3. S \subseteq Nat /\ (\A m \in S : m <= LastMonth) /\ 1 \in S
  BY <1>1, <1>2, StartsStep
<1>4. PICK m \in S : \A n \in S : m >= n
  <2> HIDE DEF S
  <2> QED BY <1>2, <1>3, GreatestNatural
<1>5. MonthOf(t) = m
  <2>1. MonthOf(t) = Max(S)
    BY DEF MonthOf
  <2> HIDE DEF S
  <2>2. S \subseteq Int
    BY <1>3
  <2> QED BY <1>4, <2>1, <2>2, MaxIs
<1>6. m \in 1 .. LastMonth /\ MonthStart[m] <= d
  BY <1>2, <1>4
<1>7. d < MonthStart[m + 1]
  <2>1. CASE m = LastMonth
    BY <1>1, <2>1
  <2>2. CASE m # LastMonth
    <3>1. m + 1 \in 1 .. LastMonth
      BY <1>2, <1>6, <2>2
    <3>2. m + 1 \notin S
      <4> HIDE DEF S
      <4> QED BY <1>4, <1>6, <3>1
    <3>3. MonthStart[m + 1] \in Nat
      BY <1>2, <3>1, StartsRise
    <3> QED BY <1>1, <1>2, <3>1, <3>2, <3>3
  <2> QED BY <2>1, <2>2
<1>8. MonthStart[m] \in Nat /\ MonthStart[m + 1] = MonthStart[m] + MonthLen[m] /\ MonthLen[m] \in Nat
  BY <1>2, <1>6, StartsRise, StartsStep, MonthsHaveDays
<1>9. DayOf(t) = d - MonthStart[m]
  BY <1>5 DEF DayOf
<1>10. ASSUME NEW n \in 1 .. LastMonth, NEW e \in 0 .. (MonthLen[n] - 1), d = MonthStart[n] + e
       PROVE  n = m
  <2>1. MonthStart[n] \in Nat /\ MonthStart[n + 1] = MonthStart[n] + MonthLen[n] /\ MonthLen[n] \in Nat
    BY <1>2, StartsRise, StartsStep, MonthsHaveDays
  <2>2. MonthStart[n] <= d /\ d < MonthStart[n + 1]
    BY <1>10, <2>1
  <2>3. n \in 1 .. (LastMonth + 1) /\ m \in 1 .. (LastMonth + 1)
    BY <1>2, <1>6
  <2>4. n < m => MonthStart[n + 1] <= MonthStart[m]
    BY <2>3, StartsRise
  <2>5. m < n => MonthStart[m + 1] <= MonthStart[n]
    BY <2>3, StartsRise
  <2> HIDE DEF d
  <2>6. d \in Int /\ MonthStart[n + 1] \in Int /\ MonthStart[m + 1] \in Int
    BY <1>1, <1>8, <2>1
  <2> QED BY <1>6, <1>7, <1>8, <2>1, <2>2, <2>3, <2>4, <2>5, <2>6
<1> HIDE DEF S
<1>11. ASSUME NEW n \in 1 .. LastMonth, NEW e \in 0 .. (MonthLen[n] - 1), d = MonthStart[n] + e
       PROVE  n = m /\ e = d - MonthStart[m]
  BY <1>8, <1>10, <1>11
<1>12. d - MonthStart[m] \in 0 .. (MonthLen[m] - 1) /\ d = MonthStart[m] + (d - MonthStart[m])
  BY <1>1, <1>6, <1>7, <1>8
<1> QED BY <1>5, <1>6, <1>9, <1>11, <1>12

\* The day of the month, held to the length of the month it lands in.
Clamped(t, m) == Min({DayOf(t), MonthLen[m] - 1})

\* The day a step lands on is a day of the month it lands in.
LEMMA ClampedDay ==
    ASSUME NEW t \in Instant, NEW m \in 1 .. LastMonth
    PROVE  /\ Clamped(t, m) \in 0 .. (MonthLen[m] - 1)
           /\ m = MonthOf(t) => Clamped(t, m) = DayOf(t)
<1> DEFINE a == DayOf(t)
           b == MonthLen[m] - 1
<1>1. a \in Nat /\ b \in Nat /\ (m = MonthOf(t) => a <= b)
  BY MonthFound, MonthsHaveDays
<1>2. Clamped(t, m) = Min({a, b})
  BY DEF Clamped
<1> HIDE DEF a, b
<1>3. a <= b => Min({a, b}) = a
  BY <1>1, MinIs
<1>4. b <= a => Min({a, b}) = b
  BY <1>1, MinIs
<1> QED BY <1>1, <1>2, <1>3, <1>4 DEF a, b

\* The day d at the time of day of t.
DayAt(d, t) == d * DayTicks + (t % DayTicks)

\* A day of the calendar at a time of day is an instant of that day.
LEMMA DaysAt ==
    ASSUME NEW t \in Instant, NEW d \in 0 .. (Days - 1)
    PROVE  /\ DayAt(d, t) \in Instant
           /\ DayAt(d, t) \div DayTicks = d
           /\ d = t \div DayTicks => DayAt(d, t) = t
           /\ \A e \in 0 .. (d - 1) : DayAt(e, t) < DayAt(d, t)
<1> DEFINE r == t % DayTicks
<1>1. DayTicks \in Nat \ {0} /\ Days \in Nat /\ Instant = 0 .. (Days * DayTicks - 1) /\ t \in Int
  BY DaysAndTicks, DayOfInstant
<1>2. r \in 0 .. (DayTicks - 1) /\ t = DayTicks * (t \div DayTicks) + r /\ t \div DayTicks \in Int
  BY <1>1, Division
<1>3. DayAt(d, t) = DayTicks * d + r
  BY <1>1 DEF DayAt
<1> HIDE DEF r
<1>4. /\ DayTicks * d \in Nat /\ DayTicks * Days \in Nat /\ DayTicks * Days = Days * DayTicks
      /\ DayTicks * d + DayTicks <= DayTicks * Days
  BY <1>1, ProductsRise
<1>5. DayAt(d, t) \in Instant
  BY <1>1, <1>2, <1>3, <1>4
<1>6. DayAt(d, t) \div DayTicks = d
  <2> DEFINE u == DayAt(d, t)
  <2>1. u \in Int /\ u = DayTicks * d + r /\ d \in Int
    BY <1>2, <1>3, <1>4
  <2> HIDE DEF u
  <2>2. \A z \in Int, s \in 0 .. (DayTicks - 1) : u = DayTicks * z + s => z = u \div DayTicks
    BY <1>1, <2>1, Division
  <2>3. d = u \div DayTicks
    BY <1>2, <2>1, <2>2
  <2> QED BY <2>3 DEF u
<1>7. ASSUME NEW e \in 0 .. (d - 1) PROVE DayAt(e, t) < DayAt(d, t)
  <2>1. DayAt(e, t) = DayTicks * e + r /\ DayTicks * e \in Int /\ DayTicks * e < DayTicks * d
    BY <1>1, <1>4, ProductsRise DEF DayAt, r
  <2> QED BY <1>2, <1>3, <1>4, <2>1
<1> QED BY <1>2, <1>3, <1>5, <1>6, <1>7

\* A calendar step lands in the month it counts to, keeps the time of day, and steps
\* further land later.
LEMMA InMonthLands ==
    ASSUME NEW t \in Instant
    PROVE  /\ \A m \in 1 .. LastMonth : /\ InMonth(t, m) \in Instant
                                   /\ MonthOf(InMonth(t, m)) = m
           /\ \A m : m \notin 1 .. LastMonth => InMonth(t, m) = NoInstant
           /\ InMonth(t, MonthOf(t)) = t
           /\ \A m, n \in 1 .. LastMonth : m < n => InMonth(t, m) < InMonth(t, n)
<1> DEFINE day(m) == MonthStart[m] + Clamped(t, m)
<1>1. DOMAIN MonthLen = 1 .. LastMonth /\ LastMonth \in Nat \ {0} /\ Days = MonthStart[LastMonth + 1] /\ Days \in Nat
  BY MonthsHaveDays, DaysAndTicks DEF Days, LastMonth
<1>2. \A m \in 1 .. LastMonth : InMonth(t, m) = DayAt(day(m), t)
  BY <1>1 DEF InMonth, Clamped, DayAt
<1>3. ASSUME NEW m \in 1 .. LastMonth
      PROVE  /\ MonthStart[m] \in Nat /\ MonthStart[m + 1] \in Nat /\ Clamped(t, m) \in 0 .. (MonthLen[m] - 1)
             /\ day(m) \in Nat /\ day(m) < MonthStart[m + 1]
             /\ MonthStart[m + 1] <= Days
  <2>1. MonthStart[m] \in Nat /\ MonthStart[m + 1] = MonthStart[m] + MonthLen[m] /\ MonthLen[m] \in Nat
    BY <1>1, StartsRise, StartsStep, MonthsHaveDays
  <2>2. m \in 1 .. (LastMonth + 1) /\ LastMonth + 1 \in 1 .. (LastMonth + 1) /\ m < LastMonth + 1
    BY <1>1
  <2>3. MonthStart[m + 1] <= Days
    BY <1>1, <2>2, StartsRise
  <2>4. Clamped(t, m) \in 0 .. (MonthLen[m] - 1)
    BY ClampedDay
  <2> QED BY <2>1, <2>3, <2>4
<1>4. ASSUME NEW m \in 1 .. LastMonth PROVE day(m) \in 0 .. (Days - 1)
  <2>1. day(m) \in Nat /\ day(m) < MonthStart[m + 1] /\ MonthStart[m + 1] <= Days /\ MonthStart[m + 1] \in Nat
    BY <1>3
  <2> HIDE DEF day
  <2> QED BY <1>1, <2>1
<1>5. ASSUME NEW m \in 1 .. LastMonth
      PROVE  InMonth(t, m) \in Instant /\ MonthOf(InMonth(t, m)) = m
  <2> DEFINE u == DayAt(day(m), t)
  <2>1. u \in Instant /\ u \div DayTicks = day(m)
    <3> HIDE DEF day
    <3> QED BY <1>4, DaysAt
  <2>2. u \div DayTicks = MonthStart[m] + Clamped(t, m) /\ Clamped(t, m) \in 0 .. (MonthLen[m] - 1)
    BY <1>3, <2>1
  <2> HIDE DEF u
  <2>3. m = MonthOf(u)
    BY <2>1, <2>2, MonthFound
  <2> QED BY <1>2, <2>1, <2>3 DEF u
<1>6. ASSUME NEW m, m \notin 1 .. LastMonth PROVE InMonth(t, m) = NoInstant
  BY <1>1, <1>6 DEF InMonth
<1>7. InMonth(t, MonthOf(t)) = t
  <2>1. MonthOf(t) \in 1 .. LastMonth /\ t \div DayTicks = MonthStart[MonthOf(t)] + DayOf(t)
    BY MonthFound
  <2>2. day(MonthOf(t)) = t \div DayTicks
    BY <2>1, ClampedDay
  <2>3. t \div DayTicks \in 0 .. (Days - 1)
    BY DayOfInstant
  <2> HIDE DEF day
  <2> QED BY <1>2, <2>1, <2>2, <2>3, DaysAt
<1>8. ASSUME NEW m \in 1 .. LastMonth, NEW n \in 1 .. LastMonth, m < n
      PROVE  InMonth(t, m) < InMonth(t, n)
  <2>1. m \in 1 .. (LastMonth + 1) /\ n \in 1 .. (LastMonth + 1)
    BY <1>1
  <2>2. MonthStart[m + 1] <= MonthStart[n]
    BY <1>8, <2>1, StartsRise
  <2>3. day(m) \in Nat /\ day(m) < MonthStart[m + 1] /\ MonthStart[m + 1] \in Nat
    BY <1>3
  <2>4. MonthStart[n] \in Nat /\ MonthStart[n] <= day(n) /\ day(n) \in 0 .. (Days - 1)
    BY <1>3, <1>4
  <2>5. day(m) \in 0 .. (day(n) - 1)
    <3> HIDE DEF day
    <3> QED BY <1>1, <2>2, <2>3, <2>4
  <2>6. InMonth(t, m) = DayAt(day(m), t) /\ InMonth(t, n) = DayAt(day(n), t)
    BY <1>2
  <2> HIDE DEF day
  <2> QED BY <2>4, <2>5, <2>6, DaysAt
<1> QED BY <1>5, <1>6, <1>7, <1>8

-----------------------------------------------------------------------------
(* Grids.                                                                  *)

IsPeriod(p) == p \in [kind : {"fixed", "months"}, n : Int] /\ is_positive(p)

\* A fixed period is a whole number of milliseconds, a calendar one of months.
LEMMA PositivePeriods ==
    ASSUME NEW p, IsPeriod(p)
    PROVE  /\ is_irregular(p) => p.n \in Nat \ {0} /\ Magnitude(p) = p.n
           /\ ~is_irregular(p) => /\ num_milliseconds(p.n) \in Nat \ {0}
                                  /\ p.n = num_milliseconds(p.n) * Sub
                                  /\ Magnitude(p) = num_milliseconds(p.n)
<1>1. p.n \in Int /\ Sub \in Nat \ {0}
  BY DaysAndTicks DEF IsPeriod
<1>2. CASE is_irregular(p)
  BY <1>1, <1>2 DEF IsPeriod, is_positive, Magnitude
<1>3. CASE ~is_irregular(p)
  <2>1. Magnitude(p) = num_milliseconds(p.n) /\ num_milliseconds(p.n) > 0 /\ p.n % Sub = 0
    BY <1>3 DEF IsPeriod, is_positive, Magnitude, WholeMs
  <2>2. p.n >= 0
    <3> SUFFICES ASSUME p.n < 0 PROVE FALSE
      BY <1>1
    <3> DEFINE a == -p.n
               d == a \div Sub
    <3>1. num_milliseconds(p.n) = -d
      BY DEF num_milliseconds
    <3>2. a \in Int /\ a > 0
      BY <1>1
    <3> HIDE DEF a
    <3>3. d \in Int /\ a % Sub \in 0 .. (Sub - 1) /\ a = Sub * d + (a % Sub)
      BY <1>1, <3>2, Division
    <3> HIDE DEF d
    <3>4. d + 1 <= 0
      BY <2>1, <3>1, <3>3
    <3>5. Sub * d + Sub <= Sub * 0 /\ Sub * d \in Int /\ Sub * 0 = 0
      BY <1>1, <3>3, <3>4, ProductsRise
    <3> QED BY <1>1, <3>2, <3>3, <3>5
  <2> DEFINE c == p.n \div Sub
  <2>3. num_milliseconds(p.n) = c
    BY <1>1, <2>2 DEF num_milliseconds
  <2>4. c \in Int /\ p.n = Sub * c + (p.n % Sub)
    BY <1>1, Division
  <2> HIDE DEF c
  <2>5. c \in Nat \ {0} /\ p.n = c * Sub
    BY <1>1, <2>1, <2>3, <2>4
  <2> QED BY <1>3, <2>1, <2>3, <2>5
<1> QED BY <1>2, <1>3

\* The points of a grid: the first is its start; a point exists only if those before it
\* do, and it is later than they are; there are no more of them than milliseconds.
Points(p, start) ==
  /\ add_to(p, start, 0) = start
  /\ \A k \in Nat : add_to(p, start, k) \in Instant \cup {NoInstant}
  /\ \A k \in Nat : \A j \in 0 .. (k - 1) :
        add_to(p, start, k) # NoInstant => /\ add_to(p, start, j) # NoInstant
                                           /\ add_to(p, start, j) < add_to(p, start, k)
  /\ \A k \in Nat : add_to(p, start, k) # NoInstant => k <= Days * DayMs

\* The points of a grid of months, and the month each of them lies in.
LEMMA CalendarPoints ==
    ASSUME NEW p, IsPeriod(p), is_irregular(p), NEW start \in Instant
    PROVE  /\ Points(p, start)
           /\ \A k \in Nat : add_to(p, start, k) # NoInstant =>
                 /\ k <= LastMonth
                 /\ months_between(start, add_to(p, start, k)) = p.n * k
<1> DEFINE m0 == MonthOf(start)
           n == p.n
<1>1. n \in Nat \ {0} /\ m0 \in 1 .. LastMonth /\ LastMonth \in Nat /\ LastMonth <= Days /\ Days \in Nat /\ DayMs \in Nat \ {0}
  BY PositivePeriods, MonthFound, MonthsHaveDays, DaysAndTicks
<1>2. \A k \in Nat : add_to(p, start, k) = InMonth(start, m0 + n * k)
  BY DEF add_to, checked_add_months
<1> HIDE DEF n, m0
<1>3. \A k \in Nat : n * k \in Nat /\ n * k >= k
  <2> SUFFICES ASSUME NEW k \in Nat PROVE n * k \in Nat /\ n * k >= k
    OBVIOUS
  <2>1. n * k = k * n /\ n >= 1 /\ n * k \in Nat
    BY <1>1
  <2>2. k = 0 \/ k \in Nat \ {0}
    OBVIOUS
  <2>3. ASSUME k \in Nat \ {0} PROVE k * 1 <= k * n
    BY <1>1, <2>1, <2>3, ProductsRise
  <2> QED BY <2>1, <2>2, <2>3
<1>4. NoInstant \notin Instant
  BY DEF NoInstant, Instant
<1>5. add_to(p, start, 0) = start
  <2>1. n * 0 = 0 /\ m0 + 0 = m0
    BY <1>1
  <2>2. add_to(p, start, 0) = InMonth(start, m0)
    BY <1>2, <2>1
  <2> QED BY <2>2, InMonthLands DEF m0
<1>6. ASSUME NEW k \in Nat
      PROVE  /\ add_to(p, start, k) \in Instant \cup {NoInstant}
             /\ add_to(p, start, k) # NoInstant => /\ m0 + n * k \in 1 .. LastMonth /\ k <= LastMonth
                                                   /\ MonthOf(add_to(p, start, k)) = m0 + n * k
  <2>1. CASE m0 + n * k \in 1 .. LastMonth
    <3>1. k <= LastMonth
      BY <1>1, <1>3, <2>1
    <3> QED BY <1>2, <2>1, <3>1, InMonthLands
  <2>2. CASE m0 + n * k \notin 1 .. LastMonth
    BY <1>2, <2>2, InMonthLands
  <2> QED BY <2>1, <2>2
<1>7. ASSUME NEW k \in Nat, NEW j \in 0 .. (k - 1), add_to(p, start, k) # NoInstant
      PROVE  add_to(p, start, j) # NoInstant /\ add_to(p, start, j) < add_to(p, start, k)
  <2>1. j \in Nat /\ n * j \in Nat /\ n * k \in Nat /\ n * j < n * k
    BY <1>1, <1>3, ProductsRise
  <2>2. m0 + n * k \in 1 .. LastMonth
    BY <1>6, <1>7
  <2>3. m0 + n * j \in 1 .. LastMonth /\ m0 + n * j < m0 + n * k
    BY <1>1, <2>1, <2>2
  <2>4. InMonth(start, m0 + n * j) \in Instant /\ InMonth(start, m0 + n * j) < InMonth(start, m0 + n * k)
    BY <2>2, <2>3, InMonthLands
  <2> QED BY <1>2, <1>4, <2>1, <2>4
<1>8. LastMonth <= Days * DayMs /\ Days * DayMs \in Nat
  <2>1. Days * 1 <= Days * DayMs \/ Days = 0
    BY <1>1, ProductsRise
  <2> QED BY <1>1, <2>1
<1>9. ASSUME NEW k \in Nat, add_to(p, start, k) # NoInstant
      PROVE  k <= Days * DayMs
  BY <1>1, <1>6, <1>8, <1>9
<1>10. ASSUME NEW k \in Nat, add_to(p, start, k) # NoInstant
       PROVE  months_between(start, add_to(p, start, k)) = n * k
  BY <1>1, <1>3, <1>6, <1>10 DEF months_between, m0
<1>11. Points(p, start)
  BY <1>5, <1>6, <1>7, <1>9 DEF Points
<1> QED BY <1>6, <1>10, <1>11 DEF n

\* Milliseconds between two instants, the later one second.
LEMMA MillisecondsOf ==
    ASSUME NEW d \in Nat
    PROVE  /\ num_milliseconds(d) \in Nat
           /\ Sub * num_milliseconds(d) <= d
           /\ d < Sub * num_milliseconds(d) + Sub
           /\ \A x \in Nat : Sub * x <= d <=> x <= num_milliseconds(d)
           /\ \A x \in Nat : d = x * Sub => num_milliseconds(d) = x
<1> DEFINE y == d \div Sub
<1>1. Sub \in Nat \ {0}
  BY DaysAndTicks
<1>2. y \in Int /\ d % Sub \in 0 .. (Sub - 1) /\ d = Sub * y + (d % Sub)
  BY <1>1, Division
<1>3. num_milliseconds(d) = y
  BY DEF num_milliseconds
<1> HIDE DEF y
<1>4. Sub * y \in Int /\ Sub * y <= d /\ d < Sub * y + Sub
  BY <1>1, <1>2, ProductsRise
<1>5. y \in Nat
  <2>1. y + 1 <= 0 => Sub * y + Sub <= Sub * 0
    BY <1>1, <1>2, ProductsRise
  <2>2. Sub * 0 = 0
    BY <1>1
  <2> QED BY <1>1, <1>2, <1>4, <2>1, <2>2
<1>6. ASSUME NEW x \in Nat PROVE Sub * x <= d <=> x <= y
  <2>1. Sub * x \in Int /\ (x <= y <=> Sub * x <= Sub * y) /\ (y + 1 <= x <=> Sub * y + Sub <= Sub * x)
    BY <1>1, <1>5, ProductsRise
  <2> QED BY <1>1, <1>4, <1>5, <2>1
<1>7. ASSUME NEW x \in Nat, d = x * Sub PROVE y = x
  <2>1. Sub * x = x * Sub /\ Sub * x <= d
    BY <1>1, <1>7
  <2>2. x <= y
    BY <1>6, <2>1
  <2>3. (x + 1 <= y) => Sub * x + Sub <= Sub * y
    BY <1>1, <1>5, ProductsRise
  <2> QED BY <1>1, <1>4, <1>5, <1>7, <2>1, <2>2, <2>3
<1> QED BY <1>3, <1>4, <1>5, <1>6, <1>7

\* The points of a grid of milliseconds, and how far each is from the start.
LEMMA FixedPoints ==
    ASSUME NEW p, IsPeriod(p), ~is_irregular(p), NEW start \in Instant
    PROVE  /\ Points(p, start)
           /\ \A k \in Nat : add_to(p, start, k) # NoInstant =>
                 num_milliseconds(add_to(p, start, k) - start) = num_milliseconds(p.n) * k
           /\ \A k \in Nat, at \in Instant : start <= at =>
                 (add_to(p, start, k) \in 0 .. at <=> num_milliseconds(p.n) * k <= num_milliseconds(at - start))
<1> DEFINE c == num_milliseconds(p.n)
           x(k) == c * k * Sub
<1>1. c \in Nat \ {0} /\ Sub \in Nat \ {0} /\ DayMs \in Nat \ {0} /\ Days \in Nat
  BY PositivePeriods, DaysAndTicks
<1>2. Instant = 0 .. (Days * DayTicks - 1) /\ Days * DayTicks \in Nat /\ start \in Nat
  BY DaysAndTicks
<1>3. \A k \in Nat : add_to(p, start, k) = IF start + x(k) \in Instant THEN start + x(k) ELSE NoInstant
  BY DEF add_to, checked_add_signed
<1> HIDE DEF c
<1>4. \A k \in Nat : c * k \in Nat /\ c * k >= k
  <2> SUFFICES ASSUME NEW k \in Nat PROVE c * k \in Nat /\ c * k >= k
    OBVIOUS
  <2>1. c * k = k * c /\ c >= 1 /\ c * k \in Nat
    BY <1>1
  <2>2. k = 0 \/ k \in Nat \ {0}
    OBVIOUS
  <2>3. ASSUME k \in Nat \ {0} PROVE k * 1 <= k * c
    BY <1>1, <2>1, <2>3, ProductsRise
  <2> QED BY <2>1, <2>2, <2>3
<1>5. \A k \in Nat : x(k) \in Nat /\ x(k) = Sub * (c * k)
  BY <1>1, <1>4
<1>6. x(0) = 0
  BY <1>1
<1>7. \A k \in Nat : \A j \in 0 .. (k - 1) : x(j) < x(k)
  <2> SUFFICES ASSUME NEW k \in Nat, NEW j \in 0 .. (k - 1) PROVE x(j) < x(k)
    OBVIOUS
  <2>1. c * j < c * k /\ c * j \in Nat /\ c * k \in Nat
    BY <1>1, <1>4, ProductsRise
  <2>2. Sub * (c * j) < Sub * (c * k)
    BY <1>1, <2>1, ProductsRise
  <2> QED BY <1>5, <2>2
<1> HIDE DEF x
<1>8. NoInstant \notin Instant /\ NoInstant = -1
  BY DEF NoInstant, Instant
<1>9. add_to(p, start, 0) = start
  BY <1>2, <1>3, <1>6
<1>10. \A k \in Nat : add_to(p, start, k) \in Instant \cup {NoInstant}
  BY <1>3
<1>11. ASSUME NEW k \in Nat, NEW j \in 0 .. (k - 1), add_to(p, start, k) # NoInstant
       PROVE  add_to(p, start, j) # NoInstant /\ add_to(p, start, j) < add_to(p, start, k)
  <2>1. start + x(k) \in Instant /\ x(j) \in Nat /\ x(k) \in Nat /\ x(j) < x(k)
    BY <1>3, <1>5, <1>7, <1>11
  <2>2. start + x(j) \in Instant /\ start + x(j) < start + x(k)
    BY <1>2, <2>1
  <2> QED BY <1>3, <1>8, <2>1, <2>2
<1>12. ASSUME NEW k \in Nat, add_to(p, start, k) # NoInstant
       PROVE  k <= Days * DayMs
  <2>1. start + x(k) \in Instant /\ x(k) = Sub * (c * k) /\ x(k) \in Nat
    BY <1>3, <1>5, <1>12
  <2>2. x(k) < Days * DayTicks
    BY <1>2, <2>1
  <2>3. Days * DayTicks = Sub * (Days * DayMs) /\ Days * DayMs \in Nat
    BY <1>1 DEF DayTicks
  <2>4. c * k < Days * DayMs
    BY <1>1, <1>4, <2>1, <2>2, <2>3, ProductsRise
  <2> QED BY <1>4, <2>3, <2>4
<1>13. ASSUME NEW k \in Nat, add_to(p, start, k) # NoInstant
       PROVE  num_milliseconds(add_to(p, start, k) - start) = c * k
  <2> DEFINE d == add_to(p, start, k) - start
  <2>1. d = x(k)
    BY <1>2, <1>3, <1>5, <1>13
  <2>2. d \in Nat /\ d = (c * k) * Sub /\ c * k \in Nat
    BY <1>1, <1>4, <1>5, <2>1
  <2> HIDE DEF d
  <2>3. num_milliseconds(d) = c * k
    BY <2>2, MillisecondsOf
  <2> QED BY <2>3 DEF d
<1>14. ASSUME NEW k \in Nat, NEW at \in Instant, start <= at
       PROVE  add_to(p, start, k) \in 0 .. at <=> c * k <= num_milliseconds(at - start)
  <2> DEFINE d == at - start
  <2>1. at \in Nat /\ d \in Nat /\ at = start + d
    BY <1>2, <1>14
  <2> HIDE DEF d
  <2>2. Sub * (c * k) <= d <=> c * k <= num_milliseconds(d)
    BY <1>4, <2>1, MillisecondsOf
  <2>3. add_to(p, start, k) \in 0 .. at <=> x(k) <= d
    <3>1. x(k) \in Nat /\ add_to(p, start, k) = IF start + x(k) \in Instant THEN start + x(k) ELSE NoInstant
      BY <1>3, <1>5
    <3>2. CASE start + x(k) \in Instant
      BY <1>2, <2>1, <3>1, <3>2
    <3>3. CASE start + x(k) \notin Instant
      <4>1. ~(x(k) <= d)
        BY <1>2, <2>1, <3>1, <3>3
      <4> QED BY <1>8, <3>1, <3>3, <4>1
    <3> QED BY <3>2, <3>3
  <2> QED BY <1>5, <2>2, <2>3 DEF d
<1>15. Points(p, start)
  BY <1>9, <1>10, <1>11, <1>12 DEF Points
<1> QED BY <1>13, <1>14, <1>15 DEF c

-----------------------------------------------------------------------------
(* The floor, the ceiling and the exact count.                             *)

\* The steps of a grid that are not past an instant, and the first in any case.
Reached(p, start, at) == {0} \cup {k \in Steps(p, start) : add_to(p, start, k) <= at}

\* There is a last step that is not past an instant, and what it means to be it.
LEMMA LastReached ==
    ASSUME NEW p, NEW start \in Instant, Points(p, start), NEW at \in Instant
    PROVE  LET top == Max(Reached(p, start, at)) IN
           /\ top \in Nat /\ top <= Days * DayMs
           /\ top # 0 => Lands(p, start, top, at)
           /\ start <= at => \A k \in Nat : Lands(p, start, k, at) <=> k <= top
           /\ \A k \in Nat : k > top => ~Lands(p, start, k, at)
           /\ \A k \in Nat : k < top => ~(add_to(p, start, k) = NoInstant \/ add_to(p, start, k) >= at)
<1> DEFINE R == Reached(p, start, at)
           top == Max(R)
<1>1. Days * DayMs \in Nat /\ Instant \subseteq Nat /\ start \in Nat /\ at \in Nat
  BY DaysAndTicks
<1>2. NoInstant = -1 /\ NoInstant \notin Instant
  BY DEF NoInstant, Instant
<1>3. \A k \in Nat : Lands(p, start, k, at) <=> add_to(p, start, k) # NoInstant /\ add_to(p, start, k) <= at
  <2> SUFFICES ASSUME NEW k \in Nat
               PROVE  Lands(p, start, k, at) <=> add_to(p, start, k) # NoInstant /\ add_to(p, start, k) <= at
    OBVIOUS
  <2> DEFINE a == add_to(p, start, k)
  <2>1. a \in Nat \/ a = -1
    BY <1>1, <1>2 DEF Points
  <2> HIDE DEF a
  <2>2. a \in 0 .. at <=> a # -1 /\ a <= at
    BY <1>1, <2>1
  <2> QED BY <1>2, <2>2 DEF Lands, a
<1>4. \A k \in Nat : add_to(p, start, k) # NoInstant => k <= Days * DayMs
  BY DEF Points
<1>5. \A k \in Nat : k \in R <=> k = 0 \/ Lands(p, start, k, at)
  BY <1>1, <1>3, <1>4 DEF Reached, Steps
<1>6. R \subseteq Nat /\ 0 \in R
  BY DEF Reached, Steps
<1>7. \A k \in R : k <= Days * DayMs
  BY <1>1, <1>3, <1>4, <1>5, <1>6
<1> HIDE DEF R
<1>8. PICK f \in R : \A k \in R : f >= k
  BY <1>1, <1>6, <1>7, GreatestNatural
<1>9. top = f
  <2>1. R \subseteq Int
    BY <1>6
  <2> QED BY <1>8, <2>1, MaxIs
<1> HIDE DEF top
<1>10. top \in Nat /\ top <= Days * DayMs /\ (top # 0 => Lands(p, start, top, at))
  BY <1>5, <1>6, <1>7, <1>8, <1>9
<1>11. \A k \in Nat : k > top => ~Lands(p, start, k, at)
  BY <1>5, <1>6, <1>8, <1>9
<1>12. ASSUME NEW k \in Nat, k < top
       PROVE  Lands(p, start, k, at) /\ add_to(p, start, k) < at
  <2>1. add_to(p, start, top) # NoInstant /\ add_to(p, start, top) <= at /\ k \in 0 .. (top - 1)
    BY <1>3, <1>10, <1>12
  <2>2. add_to(p, start, k) # NoInstant /\ add_to(p, start, k) < add_to(p, start, top)
    BY <1>10, <2>1 DEF Points
  <2>3. add_to(p, start, k) \in Nat /\ add_to(p, start, top) \in Nat
    BY <1>1, <1>10, <2>1, <2>2 DEF Points
  <2>4. add_to(p, start, k) < at
    BY <1>1, <2>1, <2>2, <2>3
  <2> QED BY <1>1, <1>3, <2>2, <2>3, <2>4
<1>13. ASSUME start <= at PROVE Lands(p, start, 0, at)
  <2>1. add_to(p, start, 0) = start
    BY DEF Points
  <2> QED BY <1>1, <1>13, <2>1 DEF Lands
<1>14. ASSUME start <= at, NEW k \in Nat
       PROVE  Lands(p, start, k, at) <=> k <= top
  <2>1. top = 0 \/ Lands(p, start, top, at)
    BY <1>10
  <2>2. Lands(p, start, top, at)
    BY <1>13, <1>14, <2>1
  <2>3. k > top \/ k = top \/ k < top
    BY <1>10
  <2> QED BY <1>10, <1>11, <1>12, <2>2, <2>3
<1>15. ASSUME NEW k \in Nat, k < top
       PROVE  ~(add_to(p, start, k) = NoInstant \/ add_to(p, start, k) >= at)
  <2>1. add_to(p, start, k) < at /\ add_to(p, start, k) # NoInstant /\ add_to(p, start, k) \in Nat
    BY <1>1, <1>3, <1>12, <1>15 DEF Points
  <2> QED BY <1>1, <2>1
<1> QED BY <1>10, <1>11, <1>14, <1>15 DEF R, top

\* The loops end on the last step reached, whatever they start from: down to one that is
\* reached, then up while the next one is.
LEMMA CorrectedIsLast ==
    ASSUME NEW p, NEW start \in Instant, NEW at \in Instant, NEW k \in Nat, NEW top \in Nat, top <= LastMonth,
           \A j \in Nat : Lands(p, start, j, at) <=> j <= top
    PROVE  Corrected(p, start, at, k) = top
<1> DEFINE D == {j \in 0 .. k : j = 0 \/ Lands(p, start, j, at)}
           down == Max(D)
           U == {j \in down .. (down + LastMonth) : ~Lands(p, start, j + 1, at)}
<1>1. D \subseteq Nat /\ 0 \in D /\ \A j \in D : j <= k
  OBVIOUS
<1>2. \A j \in D : j <= top
  OBVIOUS
<1> HIDE DEF D
<1>3. down \in Nat /\ down <= top
  <2>1. PICK j \in D : \A i \in D : j >= i
    BY <1>1, GreatestNatural
  <2>2. D \subseteq Int
    BY <1>1
  <2>3. down = j
    BY <2>1, <2>2, MaxIs
  <2> QED BY <1>1, <1>2, <2>1, <2>3
<1>4. Corrected(p, start, at, k) = Min(U)
  BY DEF Corrected, UpFrom, D, LastMonth
<1> HIDE DEF down
<1>5. LastMonth \in Nat
  BY MonthsHaveDays
<1>6. top \in U
  BY <1>3, <1>5
<1>7. U \subseteq Int /\ \A j \in U : top <= j
  BY <1>3, <1>5
<1> HIDE DEF U
<1> QED BY <1>4, <1>6, <1>7, MinIs

\* Any grid has such points.
LEMMA GridPoints ==
    ASSUME NEW p, IsPeriod(p), NEW start \in Instant
    PROVE  Points(p, start)
<1>1. CASE is_irregular(p)
  BY <1>1, CalendarPoints
<1>2. CASE ~is_irregular(p)
  BY <1>2, FixedPoints
<1> QED BY <1>1, <1>2

\* floor_steps is the last step reached.
LEMMA FloorIsLast ==
    ASSUME NEW p, IsPeriod(p), NEW start \in Instant, NEW at \in Instant
    PROVE  floor_steps(p, start, at) = Max(Reached(p, start, at))
<1> DEFINE top == Max(Reached(p, start, at))
<1>1. Instant \subseteq Nat /\ start \in Nat /\ at \in Nat /\ LastMonth \in Nat
  BY DaysAndTicks, MonthsHaveDays
<1>2. Points(p, start)
  BY GridPoints
<1>3. /\ top \in Nat /\ (top # 0 => Lands(p, start, top, at))
      /\ start <= at => \A k \in Nat : Lands(p, start, k, at) <=> k <= top
  BY <1>2, LastReached
<1> HIDE DEF top
<1>4. Magnitude(p) \in Nat \ {0}
  BY PositivePeriods
<1>5. CASE at <= start
  <2>1. floor_steps(p, start, at) = 0
    BY <1>5 DEF floor_steps
  <2>2. top = 0
    <3> SUFFICES ASSUME top # 0 PROVE FALSE
      OBVIOUS
    <3>1. 0 \in 0 .. (top - 1) /\ add_to(p, start, top) \in 0 .. at
      BY <1>3 DEF Lands
    <3>2. add_to(p, start, top) # NoInstant
      BY <3>1 DEF NoInstant
    <3>3. add_to(p, start, 0) < add_to(p, start, top) /\ add_to(p, start, 0) = start
      BY <1>2, <1>3, <3>1, <3>2 DEF Points
    <3> QED BY <1>1, <1>5, <3>1, <3>3
  <2> QED BY <2>1, <2>2 DEF top
<1>6. CASE ~(at <= start) /\ is_irregular(p)
  <2> DEFINE k == Max({months_between(start, at) \div p.n, 0})
  <2>1. floor_steps(p, start, at) = Corrected(p, start, at, k)
    BY <1>4, <1>6 DEF floor_steps
  <2>2. k \in Nat
    <3> DEFINE e == months_between(start, at) \div p.n
    <3>1. MonthOf(start) \in Int /\ MonthOf(at) \in Int /\ p.n \in Nat \ {0}
      BY <1>6, MonthFound, MonthsHaveDays, PositivePeriods
    <3>2. months_between(start, at) \in Int
      BY <3>1 DEF months_between
    <3>3. e \in Int
      BY <3>1, <3>2, Division
    <3> HIDE DEF e
    <3>4. e >= 0 => Max({e, 0}) = e
      BY <3>3, MaxIs
    <3>5. e <= 0 => Max({e, 0}) = 0
      BY <3>3, MaxIs
    <3> QED BY <3>3, <3>4, <3>5 DEF e
  <2> HIDE DEF k
  <2>3. top <= LastMonth
    <3>1. top = 0 \/ add_to(p, start, top) # NoInstant
      BY <1>3 DEF Lands, NoInstant
    <3> QED BY <1>1, <1>3, <1>6, <3>1, CalendarPoints
  <2>4. \A j \in Nat : Lands(p, start, j, at) <=> j <= top
    BY <1>1, <1>3, <1>6
  <2> QED BY <1>3, <2>1, <2>2, <2>3, <2>4, CorrectedIsLast DEF top
<1>7. CASE ~(at <= start) /\ ~is_irregular(p)
  <2> DEFINE c == num_milliseconds(p.n)
             span == num_milliseconds(at - start)
             y == span \div c
  <2>1. floor_steps(p, start, at) = y
    BY <1>4, <1>7 DEF floor_steps
  <2>2. c \in Nat \ {0} /\ span \in Nat
    <3>1. at - start \in Nat
      BY <1>1, <1>7
    <3> QED BY <1>7, <3>1, PositivePeriods, MillisecondsOf
  <2>3. ASSUME NEW k \in Nat PROVE k <= top <=> c * k <= span
    <3>1. start <= at
      BY <1>1, <1>7
    <3>2. Lands(p, start, k, at) <=> c * k <= span
      BY <1>7, <3>1, FixedPoints DEF Lands
    <3> QED BY <1>3, <3>1, <3>2
  <2> HIDE DEF c, span
  <2>4. y \in Int /\ span % c \in 0 .. (c - 1) /\ span = c * y + (span % c)
    BY <2>2, Division
  <2> HIDE DEF y
  <2>5. c * y \in Int /\ c * (y + 1) \in Int /\ c * (y + 1) = c * y + c
    BY <2>2, <2>4, ProductsRise
  <2>6. y \in Nat
    <3>1. y + 1 <= 0 => c * y + c <= c * 0
      BY <2>2, <2>4, ProductsRise
    <3>2. c * 0 = 0
      BY <2>2
    <3> QED BY <2>2, <2>4, <2>5, <3>1, <3>2
  <2>7. y <= top
    BY <2>2, <2>3, <2>4, <2>5, <2>6
  <2>8. ~(y + 1 <= top)
    <3>1. y + 1 <= top <=> c * (y + 1) <= span
      BY <2>3, <2>6
    <3> QED BY <2>2, <2>4, <2>5, <3>1
  <2> QED BY <1>3, <2>1, <2>6, <2>7, <2>8 DEF top
<1> QED BY <1>5, <1>6, <1>7

\* ceil_steps is the first step at or past the instant, or the first that does not exist.
LEMMA CeilIsFirst ==
    ASSUME NEW p, IsPeriod(p), NEW start \in Instant, NEW at \in Instant
    PROVE  ceil_steps(p, start, at)
             = Min({k \in 0 .. (Days * DayMs + 2) :
                      k \in Steps(p, start) => add_to(p, start, k) >= at})
<1> DEFINE top == Max(Reached(p, start, at))
           C == {k \in 0 .. (Days * DayMs + 2) : k \in Steps(p, start) => add_to(p, start, k) >= at}
           past(k) == add_to(p, start, k) = NoInstant \/ add_to(p, start, k) >= at
<1>1. Instant \subseteq Nat /\ start \in Nat /\ at \in Nat /\ Days * DayMs \in Nat /\ NoInstant = -1
  BY DaysAndTicks DEF NoInstant
<1>2. Points(p, start)
  BY GridPoints
<1>3. /\ top \in Nat /\ top <= Days * DayMs
      /\ \A k \in Nat : k > top => ~Lands(p, start, k, at)
      /\ \A k \in Nat : k < top => ~past(k)
  BY <1>2, LastReached
<1>4. ceil_steps(p, start, at) = CeilFrom(p, start, at, top)
  BY FloorIsLast DEF ceil_steps
<1> HIDE DEF top
<1>5. \A k \in 0 .. (Days * DayMs + 2) : past(k) => k \in C
  BY DEF Steps
<1>6. \A k \in C : k \in 0 .. (Days * DayMs + 2) /\ (k <= Days * DayMs + 1 => past(k))
  BY <1>1 DEF Steps
<1>7. past(top + 1)
  <2> SUFFICES ASSUME add_to(p, start, top + 1) # NoInstant PROVE add_to(p, start, top + 1) >= at
    OBVIOUS
  <2>1. add_to(p, start, top + 1) \in Nat
    <3>1. top + 1 \in Nat
      BY <1>3
    <3>2. add_to(p, start, top + 1) \in Instant \cup {NoInstant}
      BY <1>2, <3>1 DEF Points
    <3> QED BY <1>1, <3>2
  <2>2. add_to(p, start, top + 1) \notin 0 .. at
    BY <1>3 DEF Lands
  <2> QED BY <1>1, <2>1, <2>2
<1>8. CASE add_to(p, start, top) # NoInstant /\ add_to(p, start, top) >= at
  <2>1. CeilFrom(p, start, at, top) = top
    BY <1>8 DEF CeilFrom
  <2>2. top \in C
    BY <1>1, <1>3, <1>5, <1>8
  <2>3. C \subseteq Int /\ \A k \in C : top <= k
    BY <1>1, <1>3, <1>6
  <2> HIDE DEF C
  <2> QED BY <1>4, <2>1, <2>2, <2>3, MinIs DEF C
<1>9. CASE ~(add_to(p, start, top) # NoInstant /\ add_to(p, start, top) >= at)
  <2>1. CeilFrom(p, start, at, top) = top + 1
    BY <1>9 DEF CeilFrom
  <2>2. top + 1 \in C
    BY <1>1, <1>3, <1>5, <1>7
  <2>3. add_to(p, start, top) # NoInstant
    <3>1. top # 0 => add_to(p, start, top) \in 0 .. at
      BY <1>2, LastReached DEF top, Lands
    <3>2. top = 0 => add_to(p, start, top) \in Nat
      BY <1>1, <1>2 DEF Points
    <3> QED BY <1>1, <3>1, <3>2
  <2>4. ~past(top)
    BY <1>9, <2>3
  <2>5. C \subseteq Int /\ \A k \in C : top + 1 <= k
    BY <1>1, <1>3, <1>6, <2>4
  <2> HIDE DEF C
  <2> QED BY <1>4, <2>1, <2>2, <2>5, MinIs DEF C
<1> QED BY <1>8, <1>9

\* The estimate steps_between divides is the count wherever there is one.
Span(p, start, at) ==
  IF is_irregular(p) THEN months_between(start, at) ELSE num_milliseconds(at - start)

\* On a point of the grid the estimate is the count, times the period's magnitude.
LEMMA SpanCounts ==
    ASSUME NEW p, IsPeriod(p), NEW start \in Instant, NEW at \in Instant, start <= at
    PROVE  /\ Span(p, start, at) \in Int
           /\ \A k \in Nat : add_to(p, start, k) = at => Span(p, start, at) = Magnitude(p) * k
<1>1. Instant \subseteq Nat /\ NoInstant \notin Instant
  BY DaysAndTicks DEF NoInstant, Instant
<1>2. CASE is_irregular(p)
  <2>1. MonthOf(start) \in Int /\ MonthOf(at) \in Int
    BY MonthFound
  <2>2. Span(p, start, at) = months_between(start, at) /\ Magnitude(p) = p.n
    BY <1>2 DEF Span, Magnitude
  <2>3. months_between(start, at) \in Int
    BY <2>1 DEF months_between
  <2> QED BY <1>1, <1>2, <2>2, <2>3, CalendarPoints
<1>3. CASE ~is_irregular(p)
  <2>1. at - start \in Nat
    BY <1>1
  <2>2. Span(p, start, at) = num_milliseconds(at - start) /\ Magnitude(p) = num_milliseconds(p.n)
    BY <1>3 DEF Span, Magnitude
  <2>3. num_milliseconds(at - start) \in Int
    BY <2>1, MillisecondsOf
  <2> QED BY <1>1, <1>3, <2>2, <2>3, FixedPoints
<1> QED BY <1>2, <1>3

\* steps_between is the step that is the instant, or an error when none is.
LEMMA CountIsExact ==
    ASSUME NEW p, IsPeriod(p), NEW start \in Instant, NEW at \in Instant
    PROVE  steps_between(p, start, at)
             = IF \E k \in Steps(p, start) : add_to(p, start, k) = at
               THEN CHOOSE k \in Steps(p, start) : add_to(p, start, k) = at ELSE NoStep
<1> DEFINE span == Span(p, start, at)
           size == Magnitude(p)
           G == {k \in Steps(p, start) : add_to(p, start, k) = at}
<1>1. Instant \subseteq Nat /\ start \in Nat /\ at \in Nat /\ Days * DayMs \in Nat /\ NoInstant \notin Instant
  BY DaysAndTicks DEF NoInstant, Instant
<1>2. Points(p, start)
  BY GridPoints
<1>3. \A k \in Nat : add_to(p, start, k) = at => k \in G
  BY <1>1, <1>2 DEF Steps, Points
<1>4. G \subseteq Nat /\ \A k \in G : add_to(p, start, k) = at
  BY DEF Steps
<1>5. size \in Nat \ {0}
  BY PositivePeriods
<1>6. steps_between(p, start, at) = StepsIn(p, start, at, span, size)
  BY DEF steps_between, Span
<1>7. G = {} => ~\E k \in Steps(p, start) : add_to(p, start, k) = at
  OBVIOUS
<1>8. ASSUME NEW k \in G, \A j \in G : j = k
      PROVE  /\ \E j \in Steps(p, start) : add_to(p, start, j) = at
             /\ (CHOOSE j \in Steps(p, start) : add_to(p, start, j) = at) = k
  BY <1>8
<1> HIDE DEF G, size
<1>9. CASE at < start
  <2>1. ASSUME NEW k \in G PROVE FALSE
    <3>1. k \in Nat /\ add_to(p, start, k) = at /\ add_to(p, start, 0) = start
      BY <1>2, <1>4 DEF Points
    <3>2. k # 0 => 0 \in 0 .. (k - 1)
      BY <3>1
    <3>3. k # 0 => start < at
      BY <1>1, <1>2, <3>1, <3>2 DEF Points
    <3> QED BY <1>1, <1>9, <3>1, <3>3
  <2>2. StepsIn(p, start, at, span, size) = NoStep
    BY <1>9 DEF StepsIn
  <2> QED BY <1>6, <1>7, <2>1, <2>2
<1>10. CASE start <= at
  <2>1. span \in Int /\ \A k \in G : span = size * k
    BY <1>4, <1>10, SpanCounts DEF size
  <2> HIDE DEF span
  <2>2. ASSUME NEW k \in Nat, span = size * k
        PROVE  span >= 0 /\ span % size = 0 /\ span \div size = k
    <3>1. span = size * k + 0 /\ 0 \in 0 .. (size - 1) /\ size * k \in Nat
      BY <1>5, <2>2
    <3>2. k = span \div size /\ 0 = span % size
      BY <1>5, <2>1, <3>1, Division
    <3> QED BY <2>2, <3>1, <3>2
  <2>3. CASE G # {}
    <3>1. PICK k \in G : TRUE
      BY <2>3
    <3>2. \A j \in G : j = k
      BY <1>4, <2>1, <2>2, <3>1
    <3>3. StepsIn(p, start, at, span, size) = k
      BY <1>1, <1>4, <1>5, <1>10, <2>1, <2>2, <3>1 DEF StepsIn
    <3> QED BY <1>6, <1>8, <3>1, <3>2, <3>3
  <2>4. CASE G = {}
    <3>1. SUFFICES ASSUME StepsIn(p, start, at, span, size) # NoStep PROVE FALSE
      BY <1>6, <1>7, <2>4
    <3> DEFINE j == span \div size
    <3>2. span >= 0 /\ add_to(p, start, j) = at
      BY <1>5, <2>1, <3>1 DEF StepsIn
    <3>3. j \in Nat
      <4>1. j \in Int /\ span % size \in 0 .. (size - 1) /\ span = size * j + (span % size)
        BY <1>5, <2>1, Division
      <4> HIDE DEF j
      <4>2. j + 1 <= 0 => size * j + size <= size * 0
        BY <1>5, <4>1, ProductsRise
      <4>3. size * 0 = 0 /\ size * j \in Int
        BY <1>5, <4>1, ProductsRise
      <4> QED BY <1>5, <2>1, <3>2, <4>1, <4>2, <4>3
    <3> QED BY <1>3, <2>4, <3>2, <3>3
  <2> QED BY <2>3, <2>4
<1> QED BY <1>1, <1>9, <1>10

-----------------------------------------------------------------------------
(* Reading a period off a vector of instants.                              *)

\* A fixed period steps once to an instant only when it is the span between the two.
LEMMA FixedStep ==
    ASSUME NEW a \in Instant, NEW b \in Instant, a < b
    PROVE  /\ add_to(Fixed(b - a), a, 1) = b =>
                \E i \in 1 .. (Days * DayMs) : b - a = i * Sub
           /\ \A i \in 1 .. (Days * DayMs) : add_to(Fixed(i * Sub), a, 1) = b => i * Sub = b - a
<1> DEFINE d == b - a
           c == num_milliseconds(d)
<1>1. /\ a \in Nat /\ b \in Nat /\ d \in Nat \ {0} /\ Sub \in Nat \ {0}
      /\ Days * DayMs \in Nat /\ NoInstant = -1
  BY DaysAndTicks DEF NoInstant
<1>2. \A x : ~is_irregular(Fixed(x)) /\ Fixed(x).n = x
  BY DEF is_irregular, Fixed
<1>3. \A x : add_to(Fixed(x), a, 1) = checked_add_signed(a, num_milliseconds(x) * 1 * Sub)
  BY <1>2 DEF add_to
<1>4. \A x : checked_add_signed(a, x) = b => a + x = b
  BY <1>1 DEF checked_add_signed
<1>5. ASSUME add_to(Fixed(d), a, 1) = b
      PROVE  \E i \in 1 .. (Days * DayMs) : d = i * Sub
  <2>1. c \in Nat
    BY <1>1, MillisecondsOf
  <2>2. a + (c * 1 * Sub) = b
    BY <1>3, <1>4, <1>5
  <2>3. d = c * Sub /\ c # 0
    <3> HIDE DEF c
    <3> QED BY <1>1, <2>1, <2>2
  <2>4. num_milliseconds(Sub) = 1
    BY <1>1, MillisecondsOf
  <2>5. IsPeriod(Fixed(Sub))
    <3>1. Fixed(Sub) \in [kind : {"fixed", "months"}, n : Int]
      BY <1>1 DEF Fixed
    <3>2. Sub % Sub = 0
      BY <1>1
    <3> QED BY <1>2, <2>4, <3>1, <3>2 DEF IsPeriod, is_positive, Magnitude, WholeMs
  <2>6. add_to(Fixed(Sub), a, c) = b
    <3>1. add_to(Fixed(Sub), a, c) = checked_add_signed(a, 1 * c * Sub)
      BY <1>2, <2>4 DEF add_to
    <3>2. 1 * c * Sub = d
      <4> HIDE DEF c
      <4> QED BY <1>1, <2>1, <2>3
    <3>3. a + d = b
      BY <1>1
    <3> QED BY <3>1, <3>2, <3>3 DEF checked_add_signed
  <2>7. c <= Days * DayMs
    <3> HIDE DEF c
    <3> QED BY <1>1, <2>1, <2>5, <2>6, GridPoints DEF Points
  <2> HIDE DEF c
  <2> QED BY <1>1, <2>1, <2>3, <2>7
<1>6. ASSUME NEW i \in 1 .. (Days * DayMs), add_to(Fixed(i * Sub), a, 1) = b
      PROVE  i * Sub = d
  <2>1. i * Sub \in Nat /\ i \in Nat
    BY <1>1
  <2>2. num_milliseconds(i * Sub) = i
    BY <2>1, MillisecondsOf
  <2>3. a + (i * 1 * Sub) = b
    BY <1>3, <1>4, <1>6, <2>2
  <2> QED BY <1>1, <2>1, <2>3
<1> QED BY <1>5, <1>6

\* Any number of months is a period.
LEMMA MonthsArePeriods ==
    ASSUME NEW i \in Nat \ {0}
    PROVE  IsPeriod(Months(i)) /\ is_irregular(Months(i)) /\ Months(i).n = i
BY DEF Months, IsPeriod, is_positive, Magnitude, is_irregular

\* Months step once to an instant only when they are the months between the two; the
\* candidates confirmed_months_between tries are then that number alone.
LEMMA CalendarStep ==
    ASSUME NEW a \in Instant, NEW b \in Instant, a < b
    PROVE  /\ \A i \in Nat \ {0} : add_to(Months(i), a, 1) = b =>
                 i = months_between(a, b) /\ i \in DOMAIN MonthLen
           /\ months_between(a, b) \in Int
           /\ confirmed_months_between(a, b)
                = IF months_between(a, b) > 0 /\ add_to(Months(months_between(a, b)), a, 1) = b
                  THEN months_between(a, b) ELSE 0
<1> DEFINE M == months_between(a, b)
           C == {0} \cup {i \in {M - d : d \in 0 .. 1} : i > 0 /\ add_to(Months(i), a, 1) = b}
<1>1. MonthOf(a) \in 1 .. LastMonth /\ MonthOf(b) \in 1 .. LastMonth /\ LastMonth \in Nat
  BY MonthFound, MonthsHaveDays
<1>2. M \in Int /\ M <= LastMonth
  BY <1>1 DEF months_between
<1>3. DOMAIN MonthLen = 1 .. LastMonth
  BY MonthsHaveDays
<1>4. a \in Nat /\ b \in Nat /\ b # NoInstant
  BY DaysAndTicks DEF NoInstant
<1>5. ASSUME NEW i \in Nat \ {0}, add_to(Months(i), a, 1) = b
      PROVE  i = M /\ i \in DOMAIN MonthLen
  <2>1. months_between(a, add_to(Months(i), a, 1)) = i * 1
    BY <1>4, <1>5, MonthsArePeriods, CalendarPoints
  <2>2. M = i
    BY <1>5, <2>1
  <2> HIDE DEF M
  <2> QED BY <1>2, <1>3, <2>2
<1>6. confirmed_months_between(a, b) = Max(C)
  BY <1>4 DEF confirmed_months_between
<1> HIDE DEF M
<1>7. C \subseteq Int /\ 0 \in C /\ \A i \in C : i # 0 => i \in Nat \ {0} /\ add_to(Months(i), a, 1) = b
  BY <1>2
<1>8. CASE M > 0 /\ add_to(Months(M), a, 1) = b
  <2>1. M \in C
    <3>1. M = M - 0 /\ 0 \in 0 .. 1
      BY <1>2
    <3> QED BY <1>8, <3>1
  <2>2. \A i \in C : M >= i
    BY <1>2, <1>5, <1>7, <1>8
  <2>3. Max(C) = M
    <3> HIDE DEF C
    <3> QED BY <1>7, <2>1, <2>2, MaxIs
  <2> QED BY <1>2, <1>5, <1>6, <1>8, <2>3 DEF M
<1>9. CASE ~(M > 0 /\ add_to(Months(M), a, 1) = b)
  <2>1. \A i \in C : 0 >= i
    BY <1>2, <1>5, <1>7, <1>9
  <2>2. Max(C) = 0
    <3> HIDE DEF C
    <3> QED BY <1>7, <2>1, MaxIs
  <2> QED BY <1>2, <1>5, <1>6, <1>9, <2>2 DEF M
<1> QED BY <1>8, <1>9

\* The fixed and the calendar periods that reproduce a vector from its first instant.
Fits(ts) ==
  {p \in {Fixed(n * Sub) : n \in 1 .. (Days * DayMs)} \cup {Months(n) : n \in DOMAIN MonthLen} :
     \A k \in 2 .. Len(ts) : add_to(p, ts[1], k - 1) = ts[k]}

\* A period that fits steps from the first instant to the second, and all of them are
\* periods a series may have.
LEMMA FitsReproduce ==
    ASSUME NEW n \in Nat, n >= 2, NEW ts \in [1 .. n -> Instant], NEW p \in Fits(ts)
    PROVE  /\ IsPeriod(p)
           /\ add_to(p, ts[1], 1) = ts[2]
           /\ \A k \in 1 .. n : add_to(p, ts[1], k - 1) = ts[k]
           /\ OnGrid(p, ts)
<1>1. Len(ts) = n /\ DOMAIN ts = 1 .. n /\ ts[1] \in Instant /\ Sub \in Nat \ {0}
  BY DaysAndTicks
<1>2. \A k \in 2 .. n : add_to(p, ts[1], k - 1) = ts[k]
  BY <1>1 DEF Fits
<1>3. IsPeriod(p)
  <2>1. CASE \E i \in 1 .. (Days * DayMs) : p = Fixed(i * Sub)
    <3>1. PICK i \in 1 .. (Days * DayMs) : p = Fixed(i * Sub)
      BY <2>1
    <3>2. i \in Nat \ {0} /\ i * Sub \in Nat /\ (i * Sub) % Sub = 0
      <4>1. i \in Nat \ {0} /\ i * Sub \in Nat
        BY <1>1, DaysAndTicks
      <4> QED BY <1>1, <4>1, Multiples
    <3>3. num_milliseconds(i * Sub) = i
      BY <3>2, MillisecondsOf
    <3>4. ~is_irregular(p) /\ p.n = i * Sub /\ p \in [kind : {"fixed", "months"}, n : Int]
      BY <3>1, <3>2 DEF Fixed, is_irregular
    <3> QED BY <3>2, <3>3, <3>4 DEF IsPeriod, is_positive, Magnitude, WholeMs
  <2>2. CASE \E i \in DOMAIN MonthLen : p = Months(i)
    <3>1. \A i \in DOMAIN MonthLen : i \in Nat \ {0}
      BY MonthsHaveDays
    <3> QED BY <2>2, <3>1, MonthsArePeriods
  <2> QED BY <2>1, <2>2 DEF Fits
<1>4. add_to(p, ts[1], 0) = ts[1]
  BY <1>1, <1>3, GridPoints DEF Points
<1>5. add_to(p, ts[1], 1) = ts[2]
  <2>1. 2 \in 2 .. n /\ 2 - 1 = 1
    OBVIOUS
  <2> QED BY <1>2, <2>1
<1>6. ASSUME NEW k \in 1 .. n PROVE add_to(p, ts[1], k - 1) = ts[k]
  <2>1. CASE k = 1
    <3>1. k - 1 = 0
      BY <2>1
    <3> QED BY <1>4, <2>1, <3>1
  <2>2. CASE k # 1
    BY <1>2, <2>2
  <2> QED BY <2>1, <2>2
<1>7. OnGrid(p, ts)
  BY <1>1, <1>6 DEF OnGrid
<1> QED BY <1>3, <1>5, <1>6, <1>7

\* infer answers one of the periods that fit, and none only when there is none.
LEMMA InferredFits ==
    ASSUME NEW n \in Nat, n >= 2, NEW ts \in [1 .. n -> Instant], ts[1] < ts[2]
    PROVE  IF infer(ts) = NoPeriod THEN Fits(ts) = {} ELSE infer(ts) \in Fits(ts)
<1> DEFINE a == ts[1]
           b == ts[2]
           M == confirmed_months_between(a, b)
<1>1. /\ Len(ts) = n /\ DOMAIN ts = 1 .. n
      /\ a \in Instant /\ b \in Instant /\ Instant \subseteq Nat
      /\ a < b /\ ~(b <= a) /\ ~(Len(ts) < 2)
  BY DaysAndTicks
<1>2. infer(ts) = FirstOnGrid(ts, Fixed(b - a), Months(M))
  BY <1>1, Zenon DEF infer
<1>3. Fixed(b - a) # NoPeriod /\ Months(M) # NoPeriod
  BY DEF Fixed, Months, NoPeriod
<1>4. \A p : OnGrid(p, ts) => add_to(p, a, 1) = b /\ \A k \in 2 .. n : add_to(p, a, k - 1) = ts[k]
  <2>1. 2 \in 1 .. n /\ 2 > 1 /\ 2 - 1 = 1
    OBVIOUS
  <2> QED BY <1>1, <2>1 DEF OnGrid
<1>5. \A p : p \in Fits(ts) <=>
          /\ p \in {Fixed(i * Sub) : i \in 1 .. (Days * DayMs)} \cup {Months(i) : i \in DOMAIN MonthLen}
          /\ \A k \in 2 .. n : add_to(p, a, k - 1) = ts[k]
  BY <1>1 DEF Fits
<1> DEFINE B == months_between(a, b)
<1>5a. /\ \A i \in Nat \ {0} : add_to(Months(i), a, 1) = b => i = B /\ i \in DOMAIN MonthLen
      /\ B \in Int
      /\ M = IF B > 0 /\ add_to(Months(B), a, 1) = b THEN B ELSE 0
  BY <1>1, CalendarStep, Zenon
<1> HIDE DEF B, M
<1>6. M \in Int /\ (M > 0 => add_to(Months(M), a, 1) = b)
  BY <1>5a
<1>7. \A i \in Nat \ {0} : add_to(Months(i), a, 1) = b => i = M /\ i \in DOMAIN MonthLen
  <2> SUFFICES ASSUME NEW i \in Nat \ {0}, add_to(Months(i), a, 1) = b
               PROVE  i = M /\ i \in DOMAIN MonthLen
    OBVIOUS
  <2>1. i = B /\ i \in DOMAIN MonthLen
    BY <1>5a
  <2> QED BY <1>5a, <2>1
<1>8. Months(M).n = M
  BY DEF Months
<1>9. CASE OnGrid(Fixed(b - a), ts)
  <2>1. \E i \in 1 .. (Days * DayMs) : b - a = i * Sub
    BY <1>1, <1>4, <1>9, FixedStep
  <2>2. Fixed(b - a) \in Fits(ts)
    BY <1>4, <1>5, <1>9, <2>1
  <2> QED BY <1>2, <1>3, <1>9, <2>2 DEF FirstOnGrid
<1>10. CASE ~OnGrid(Fixed(b - a), ts) /\ M > 0 /\ OnGrid(Months(M), ts)
  <2>1. M \in DOMAIN MonthLen
    BY <1>6, <1>7, <1>10
  <2>2. Months(M) \in Fits(ts)
    BY <1>4, <1>5, <1>10, <2>1
  <2> QED BY <1>2, <1>3, <1>8, <1>10, <2>2 DEF FirstOnGrid
<1>11. CASE ~OnGrid(Fixed(b - a), ts) /\ ~(M > 0 /\ OnGrid(Months(M), ts))
  <2>1. infer(ts) = NoPeriod
    BY <1>2, <1>8, <1>11 DEF FirstOnGrid
  <2>2. ASSUME NEW p \in Fits(ts) PROVE FALSE
    <3>1. OnGrid(p, ts) /\ add_to(p, a, 1) = b
      BY FitsReproduce
    <3>2. CASE \E i \in 1 .. (Days * DayMs) : p = Fixed(i * Sub)
      BY <1>1, <1>11, <3>1, <3>2, FixedStep
    <3>3. CASE \E i \in DOMAIN MonthLen : p = Months(i)
      <4>1. PICK i \in DOMAIN MonthLen : p = Months(i)
        BY <3>3
      <4>2. i \in Nat \ {0}
        BY MonthsHaveDays
      <4>3. i = M
        BY <1>7, <3>1, <4>1, <4>2
      <4> QED BY <1>11, <3>1, <4>1, <4>2, <4>3
    <3> QED BY <1>5, <3>2, <3>3
  <2> QED BY <2>1, <2>2
<1> QED BY <1>9, <1>10, <1>11

\* A series built from a vector has its instants.
LEMMA SeriesReproduces ==
    ASSUME NEW n \in Nat, n >= 2, NEW ts \in [1 .. n -> Instant], ts[1] < ts[2],
           NEW length \in Nat, from_timestamps(ts, length).ok
    PROVE  ts = [k \in 1 .. length |-> timestamp_at(from_timestamps(ts, length).series, k - 1)]
<1> DEFINE p == infer(ts)
           s == from_timestamps(ts, length)
<1>1. Len(ts) = n /\ DOMAIN ts = 1 .. n /\ Refused.ok = FALSE
  BY DEF Refused
<1>2. n = length /\ p # NoPeriod
  BY <1>1 DEF from_timestamps, GridOver
<1>3. s = [ok |-> TRUE, series |-> Single(ts[1], p, n, FALSE)]
  BY <1>1, <1>2 DEF from_timestamps, GridOver
<1>4. p \in Fits(ts)
  BY <1>2, InferredFits
<1>5. /\ s.series.length = n /\ s.series.initial = ts[1] /\ s.series.resolution = p
  BY <1>3 DEF Single
<1> HIDE DEF s, p
<1>6. ASSUME NEW k \in 1 .. n PROVE timestamp_at(s.series, k - 1) = ts[k]
  <2>1. k - 1 < n
    OBVIOUS
  <2> QED BY <1>4, <1>5, <2>1, FitsReproduce DEF timestamp_at
<1> QED BY <1>1, <1>2, <1>6 DEF s

-----------------------------------------------------------------------------
(* The questions about grids.                                              *)

\* A question about a grid has a grid to ask about, and one about a vector an increasing
\* vector of instants.
GridQuestions ==
  /\ subject.type = "Grid" => subject.p \in Grids /\ subject.start \in Starts
  /\ subject.type = "Vector" => subject.ts \in InstantVectors(Bounds, 3)
  /\ q.kind = "steps" => subject.type = "Grid" /\ q.at \in Bounds
  /\ q.kind = "infer" => subject.type = "Vector" /\ q.length \in 0 .. 3

\* A subject of another type is neither.
LEMMA GridQuestionsAtFirst == QuestionsInit => GridQuestions
<1> SUFFICES ASSUME QuestionsInit PROVE GridQuestions
  OBVIOUS
<1>1. q.kind = "none"
  BY DEF QuestionsInit, Nothing
<1>2. \A s \in Singles : s.type = "SingleTimeSeries"
  BY DEF Singles, Single
<1>3. \A s \in Irregulars : s.type \in {"NonSequentialTimeSeries", "PersistentTimeSeries"}
  BY DEF Irregulars, Irregular
<1>4. \A s \in BuiltForecasts : s.type \in {"Deterministic", "Probabilistic", "Scenarios"}
  <2>1. \A s \in Deterministics : s.type = "Deterministic"
    BY DEF Deterministics, Forecast
  <2>2. \A s \in Ensembles : s.type \in {"Probabilistic", "Scenarios"}
    BY DEF Ensembles, Forecast
  <2> QED BY <2>1, <2>2 DEF BuiltForecasts
<1>5. \A s \in Series : s.type \notin {"Grid", "Vector"}
  BY <1>2, <1>3, <1>4 DEF Series
<1>6. \A s \in ForeignTables \cup Args \cup Catalogs : s.type \notin {"Grid", "Vector"}
  BY DEF ForeignTables, Args, Catalogs
<1>7. /\ subject.type = "Grid" => subject.p \in Grids /\ subject.start \in Starts
      /\ subject.type = "Vector" => subject.ts \in InstantVectors(Bounds, 3)
  BY <1>5, <1>6 DEF QuestionsInit
<1> QED BY <1>1, <1>7 DEF GridQuestions

\* What a question carries.
LEMMA Tagging ==
    ASSUME NEW kind, NEW types, NEW question, Ask(kind, types, question)
    PROVE  /\ subject.type \in types /\ UNCHANGED subject
           /\ q'.kind = kind
           /\ \A x \in DOMAIN question : x # "kind" => q'[x] = question[x]
BY DEF Ask, Tagged

\* No question about another kind of data touches what the grid answers rest on.
LEMMA GridQuestionsKept == GridQuestions /\ [QuestionsNext]_questionVars => GridQuestions'
<1> SUFFICES ASSUME GridQuestions, [QuestionsNext]_questionVars PROVE GridQuestions'
  OBVIOUS
<1>1. CASE UNCHANGED questionVars
  BY <1>1 DEF questionVars, GridQuestions
<1>2. ASSUME UNCHANGED subject, q'.kind \notin {"steps", "infer"} PROVE GridQuestions'
  BY <1>2 DEF GridQuestions
<1> DEFINE Others == {"period", "range", "window", "view", "text", "spell", "export", "import",
                     "values", "construct", "list", "ids", "count", "links", "add", "remove",
                     "move", "attribute"}
<1>3. \A kind \in Others : \A types, question : Ask(kind, types, question) => GridQuestions'
  <2> SUFFICES ASSUME NEW kind \in Others, NEW types, NEW question, Ask(kind, types, question)
               PROVE  GridQuestions'
    OBVIOUS
  <2>1. UNCHANGED subject /\ q'.kind = kind
    BY Tagging
  <2> QED BY <1>2, <2>1
<1>4. /\ {"period", "range", "window", "view", "text", "spell"} \subseteq Others
      /\ {"export", "import", "values", "construct", "list", "ids", "count"} \subseteq Others
      /\ {"links", "add", "remove", "move", "attribute"} \subseteq Others
  OBVIOUS
<1> HIDE DEF Others
<1>5. CASE AskSteps
  <2>1. PICK at \in Bounds : Ask("steps", {"Grid"}, [at |-> at])
    BY <1>5 DEF AskSteps
  <2>2. /\ subject.type \in {"Grid"} /\ UNCHANGED subject
        /\ q'.kind = "steps"
        /\ \A x \in DOMAIN [at |-> at] : x # "kind" => q'[x] = [at |-> at][x]
    BY <2>1, Tagging
  <2>3. q'.at = at
    BY <2>2
  <2> QED BY <2>2, <2>3 DEF GridQuestions
<1>6. CASE AskInfer
  <2>1. PICK n \in 0 .. 3 : Ask("infer", {"Vector"}, [length |-> n])
    BY <1>6 DEF AskInfer
  <2>2. /\ subject.type \in {"Vector"} /\ UNCHANGED subject
        /\ q'.kind = "infer"
        /\ \A x \in DOMAIN [length |-> n] : x # "kind" => q'[x] = [length |-> n][x]
    BY <2>1, Tagging
  <2>3. q'.length = n
    BY <2>2
  <2> QED BY <2>2, <2>3 DEF GridQuestions
<1>7. CASE AskPeriod
  BY <1>3, <1>4, <1>7 DEF AskPeriod
<1>8. CASE ReadRange
  BY <1>3, <1>4, <1>8 DEF ReadRange
<1>9. CASE ReadSteps
  BY <1>3, <1>4, <1>9 DEF ReadSteps
<1>10. CASE Transform
  BY <1>3, <1>4, <1>10 DEF Transform
<1>11. CASE AskText
  BY <1>3, <1>4, <1>11 DEF AskText
<1>12. CASE AskSpell
  BY <1>3, <1>4, <1>12 DEF AskSpell
<1>13. CASE ExportArrow
  BY <1>3, <1>4, <1>13 DEF ExportArrow
<1>14. CASE ImportArrow
  BY <1>3, <1>4, <1>14 DEF ImportArrow
<1>15. CASE FromValues
  BY <1>3, <1>4, <1>15 DEF FromValues
<1>16. CASE ConstructForecast
  BY <1>3, <1>4, <1>16 DEF ConstructForecast
<1>17. CASE ConstructStatic
  BY <1>3, <1>4, <1>17 DEF ConstructStatic
<1>18. CASE ListRows
  BY <1>3, <1>4, <1>18 DEF ListRows
<1>19. CASE ListByIds
  BY <1>3, <1>4, <1>19 DEF ListByIds
<1>20. CASE Count
  BY <1>3, <1>4, <1>20 DEF Count
<1>21. CASE ListLinks
  BY <1>3, <1>4, <1>21 DEF ListLinks
<1>22. CASE AddLinks
  BY <1>3, <1>4, <1>22 DEF AddLinks
<1>23. CASE RemoveLinks
  BY <1>3, <1>4, <1>23 DEF RemoveLinks
<1>24. CASE MoveComponent
  BY <1>3, <1>4, <1>24 DEF MoveComponent
<1>25. CASE SetAttribute
  BY <1>3, <1>4, <1>25 DEF SetAttribute
<1>26. CASE Answer
  BY <1>2, <1>26 DEF Answer, Nothing
<1> QED
  BY <1>1, <1>5, <1>6, <1>7, <1>8, <1>9, <1>10, <1>11, <1>12, <1>13, <1>14, <1>15,
     <1>16, <1>17, <1>18, <1>19, <1>20, <1>21, <1>22, <1>23, <1>24, <1>25, <1>26 DEF QuestionsNext

\* The three answers about steps are the definitions' own.
LEMMA StepsAnswered == GridQuestions => StepsAreExact
<1> SUFFICES ASSUME GridQuestions, q.kind = "steps" PROVE StepsAreExact
  BY DEF StepsAreExact
<1>1. subject.p \in Grids /\ subject.start \in Starts /\ q.at \in Bounds
  BY DEF GridQuestions
<1> DEFINE p == subject.p
           start == subject.start
           at == q.at
<1>2. IsPeriod(p) /\ start \in Instant /\ at \in Instant
  BY <1>1, QuestionAssumption DEF IsPeriod
<1>3. floor_steps(p, start, at)
        = Max({0} \cup {k \in Steps(p, start) : add_to(p, start, k) <= at})
  BY <1>2, FloorIsLast DEF Reached
<1>4. ceil_steps(p, start, at)
        = Min({k \in 0 .. (Days * DayMs + 2) : k \in Steps(p, start) => add_to(p, start, k) >= at})
  BY <1>2, CeilIsFirst
<1>5. steps_between(p, start, at)
        = IF \E k \in Steps(p, start) : add_to(p, start, k) = at
          THEN CHOOSE k \in Steps(p, start) : add_to(p, start, k) = at ELSE NoStep
  BY <1>2, CountIsExact
<1> QED BY <1>3, <1>4, <1>5, Zenon DEF StepsAreExact, InstantAt

\* A vector that was asked about is inferred exactly.
LEMMA InferenceAnswered == GridQuestions => InferenceReproduces
<1> SUFFICES ASSUME GridQuestions, q.kind = "infer", Len(subject.ts) >= 2 PROVE InferenceReproduces
  BY DEF InferenceReproduces
<1> DEFINE ts == subject.ts
           series == from_timestamps(ts, q.length)
<1>1. ts \in InstantVectors(Bounds, 3) /\ q.length \in 0 .. 3
  BY DEF GridQuestions
<1>2. PICK n \in 0 .. 3 : ts \in [1 .. n -> Bounds] /\ Increasing(ts)
  BY <1>1 DEF InstantVectors
<1>3. n \in Nat /\ n >= 2 /\ Len(ts) = n /\ ts \in [1 .. n -> Instant]
  BY <1>2, QuestionAssumption
<1>4. ts[1] < ts[2]
  <2>1. 1 \in 1 .. (Len(ts) - 1) /\ 1 + 1 = 2
    BY <1>3
  <2> QED BY <1>2, <2>1 DEF Increasing
<1>5. IF infer(ts) = NoPeriod THEN Fits(ts) = {} ELSE infer(ts) \in Fits(ts)
  BY <1>3, <1>4, InferredFits
<1>6. series.ok => ts = [k \in 1 .. q.length |-> timestamp_at(series.series, k - 1)]
  BY <1>1, <1>3, <1>4, SeriesReproduces
<1> HIDE DEF series
<1>7. Fits(ts) = {p \in {Fixed(i * Sub) : i \in 1 .. (Days * DayMs)} \cup {Months(i) : i \in DOMAIN MonthLen} :
                    \A k \in 2 .. Len(ts) : add_to(p, ts[1], k - 1) = ts[k]}
  BY DEF Fits
<1> QED BY <1>5, <1>6, <1>7, Zenon DEF InferenceReproduces, series

\* Over any calendar, the grid arithmetic answers what its definitions say: the floor, the
\* ceiling and the count of a grid's steps, through clamped month ends, instants between two
\* milliseconds and the end of the calendar, and the period that reproduces a vector
\* (period.rs:153-263, 316-384).
THEOREM GridArithmeticIsExact == QuestionsSpec => []GridsAreExact
<1>1. QuestionsInit => GridQuestions
  BY GridQuestionsAtFirst
<1>2. GridQuestions /\ [QuestionsNext]_questionVars => GridQuestions'
  BY GridQuestionsKept
<1>3. GridQuestions => GridsAreExact
  BY StepsAnswered, InferenceAnswered DEF GridsAreExact
<1> QED BY <1>1, <1>2, <1>3, PTL DEF QuestionsSpec

-----------------------------------------------------------------------------
(* A forecast view of a series (Windows.tla): the windows a range names,   *)
(* the rows they are gathered from, and the dates they are given.          *)

\* The product of no dimensions is one.
LEMMA EmptyProduct == Product(<<>>) = 1
<1> DEFINE body(f) == [i \in 0 .. 0 |-> IF i = 0 THEN 1 ELSE f[i - 1] * <<>>[i]]
           upTo == CHOOSE f : f = body(f)
<1>1. \E f : f = body(f)
  <2> DEFINE f == [i \in 0 .. 0 |-> 1]
  <2>1. f = body(f)
    OBVIOUS
  <2> QED BY <2>1
<1>2. upTo = body(upTo)
  <2> HIDE DEF body
  <2> QED BY <1>1
<1>3. upTo[0] = 1
  <2> HIDE DEF upTo
  <2> QED BY <1>2
<1>4. Product(<<>>) = upTo[0]
  BY DEF Product
<1> QED BY <1>3, <1>4

\* The windows that the binary search has still to look at, after n turns.
Searching(series, from, end, b, n) ==
  LET start(k) == add_to(series.interval, series.initial, k) IN
  /\ b.lo \in from .. series.count /\ b.hi \in b.lo .. series.count /\ b.hi - b.lo <= series.count - n
  /\ b.lo > from => start(b.lo - 1) # NoInstant /\ start(b.lo - 1) < end
  /\ b.hi < series.count => start(b.hi) # NoInstant /\ ~(start(b.hi) < end)

\* Multiplying keeps the order, by zero too.
LEMMA TimesKeepOrder ==
    ASSUME NEW a \in Nat, NEW b \in Nat, a <= b, NEW c \in Nat
    PROVE  a * c \in Nat /\ a * c <= b * c
<1>1. PICK d \in Nat : b = a + d
  <2>1. b - a \in Nat /\ b = a + (b - a)
    OBVIOUS
  <2> QED BY <2>1
<1>2. (a + d) * c = a * c + d * c
  OBVIOUS
<1>3. a * c \in Nat /\ d * c \in Nat
  OBVIOUS
<1> DEFINE x == a * c
           y == d * c
<1> HIDE DEF x, y
<1>4. x \in Nat /\ y \in Nat /\ x <= x + y
  BY <1>3 DEF x, y
<1> QED BY <1>1, <1>2, <1>4 DEF x, y

\* A grid runs past the calendar's end within so many steps.
RunsOut(p, start, total) == \E k \in 0 .. total : add_to(p, start, k) = NoInstant

\* A turn of the binary search keeps what is known of it and looks at fewer windows, unless
\* it meets one past the calendar's end.
LEMMA TurnSearches ==
    ASSUME NEW series, series.count \in Nat, NEW from \in 0 .. series.count, NEW end, NEW n \in Nat,
           NEW b, Searching(series, from, end, b, n)
    PROVE  \/ Halved(series, end, b) = Lost /\ RunsOut(series.interval, series.initial, series.count - 1)
           \/ Searching(series, from, end, Halved(series, end, b), n + 1)
           \/ Halved(series, end, b) = b /\ b.lo = b.hi
<1> DEFINE start(k) == add_to(series.interval, series.initial, k)
           mid == b.lo + ((b.hi - b.lo) \div 2)
           next == Halved(series, end, b)
<1>1. /\ b.lo \in from .. series.count /\ b.hi \in b.lo .. series.count
      /\ b.hi - b.lo <= series.count - n
      /\ b.lo > from => start(b.lo - 1) # NoInstant /\ start(b.lo - 1) < end
      /\ b.hi < series.count => start(b.hi) # NoInstant /\ ~(start(b.hi) < end)
  BY DEF Searching
<1>2. CASE b.lo >= b.hi
  <2>1. next = b
    BY <1>2 DEF Halved
  <2> QED BY <1>1, <1>2, <2>1
<1>3. CASE b.lo < b.hi
  <2>1. next = IF start(mid) = NoInstant THEN Lost
               ELSE IF start(mid) < end THEN [lo |-> mid + 1, hi |-> b.hi] ELSE [lo |-> b.lo, hi |-> mid]
    <3>1. ~(b.lo >= b.hi)
      BY <1>1, <1>3
    <3> QED BY <3>1 DEF Halved
  <2>2. mid \in Nat /\ b.lo <= mid /\ mid < b.hi
    BY <1>1, <1>3
  <2>3. (mid + 1) - 1 = mid
    BY <2>2
  <2> HIDE DEF mid, next
  <2>4. CASE start(mid) # NoInstant /\ start(mid) < end
    <3>1. next = [lo |-> mid + 1, hi |-> b.hi]
      BY <2>1, <2>4
    <3>2. next.lo = mid + 1 /\ next.hi = b.hi
      BY <3>1
    <3>3. /\ next.lo \in from .. series.count /\ next.hi \in next.lo .. series.count
          /\ next.hi - next.lo <= series.count - (n + 1)
          /\ next.lo - 1 = mid
      BY <1>1, <1>3, <2>2, <3>2
    <3>4. start(next.lo - 1) # NoInstant /\ start(next.lo - 1) < end
      BY <2>4, <3>3
    <3>5. next.hi < series.count => start(next.hi) # NoInstant /\ ~(start(next.hi) < end)
      BY <1>1, <3>2
    <3>6. Searching(series, from, end, next, n + 1)
      BY <3>3, <3>4, <3>5 DEF Searching
    <3> QED BY <3>6 DEF next
  <2>5. CASE start(mid) # NoInstant /\ ~(start(mid) < end)
    <3>1. next = [lo |-> b.lo, hi |-> mid]
      BY <2>1, <2>5
    <3>2. next.lo = b.lo /\ next.hi = mid
      BY <3>1
    <3>3. /\ next.lo \in from .. series.count /\ next.hi \in next.lo .. series.count
          /\ next.hi - next.lo <= series.count - (n + 1)
      BY <1>1, <1>3, <2>2, <3>2
    <3>4. next.lo > from => start(next.lo - 1) # NoInstant /\ start(next.lo - 1) < end
      BY <1>1, <3>2
    <3>5. start(next.hi) # NoInstant /\ ~(start(next.hi) < end)
      BY <2>5, <3>2
    <3>6. Searching(series, from, end, next, n + 1)
      BY <3>3, <3>4, <3>5 DEF Searching
    <3> QED BY <3>6 DEF next
  <2>6. CASE start(mid) = NoInstant
    <3>1. next = Lost
      BY <2>1, <2>6
    <3>2. mid \in 0 .. (series.count - 1)
      BY <1>1, <2>2
    <3> QED BY <2>6, <3>1, <3>2 DEF next, RunsOut
  <2> QED BY <2>4, <2>5, <2>6 DEF next
<1> QED BY <1>1, <1>2, <1>3

\* The search's first turns, as its recursion has them.
TurnsOf(series, from, end, f, turns) ==
  [n \in 0 .. turns |-> IF n = 0 THEN [lo |-> from, hi |-> series.count] ELSE Halved(series, end, f[n - 1])]

\* The search has its turns, however many: no turn is the first without one.
LEMMA TurnsUnfold ==
    ASSUME NEW series, NEW from, NEW end, NEW turns \in Nat
    PROVE  \E f : f = TurnsOf(series, from, end, f, turns)
<1> DEFINE Bad == {n \in Nat : ~\E f : f = TurnsOf(series, from, end, f, n)}
<1>1. \E f : f = TurnsOf(series, from, end, f, 0)
  <2> DEFINE f == [n \in 0 .. 0 |-> [lo |-> from, hi |-> series.count]]
  <2>1. f = TurnsOf(series, from, end, f, 0)
    BY DEF TurnsOf
  <2> QED BY <2>1
<1>2. ASSUME NEW n \in Nat, NEW f, f = TurnsOf(series, from, end, f, n)
      PROVE  \E g : g = TurnsOf(series, from, end, g, n + 1)
  <2> DEFINE g == TurnsOf(series, from, end, f, n + 1)
  <2>1. \A m \in 0 .. n : g[m] = f[m]
    <3> SUFFICES ASSUME NEW m \in 0 .. n PROVE g[m] = f[m]
      OBVIOUS
    <3>1. f[m] = TurnsOf(series, from, end, f, n)[m]
      BY <1>2
    <3>2. m \in 0 .. (n + 1)
      OBVIOUS
    <3> QED BY <3>1, <3>2 DEF TurnsOf
  <2> HIDE DEF g
  <2>2. TurnsOf(series, from, end, f, n + 1) = TurnsOf(series, from, end, g, n + 1)
    <3>1. \A m \in 0 .. (n + 1) : m # 0 => f[m - 1] = g[m - 1]
      <4> SUFFICES ASSUME NEW m \in 0 .. (n + 1), m # 0 PROVE f[m - 1] = g[m - 1]
        OBVIOUS
      <4>1. m - 1 \in 0 .. n
        OBVIOUS
      <4> QED BY <2>1, <4>1
    <3> QED BY <3>1 DEF TurnsOf
  <2> QED BY <2>2 DEF g
<1>3. Bad = {}
  <2> SUFFICES ASSUME Bad # {} PROVE FALSE
    OBVIOUS
  <2>1. PICK n \in Bad : \A m \in Bad : n <= m
    BY LeastNatural
  <2>2. n # 0
    BY <1>1, <2>1
  <2>3. n - 1 \in Nat /\ n - 1 \notin Bad /\ (n - 1) + 1 = n
    BY <2>1, <2>2
  <2>4. PICK f : f = TurnsOf(series, from, end, f, n - 1)
    BY <2>3
  <2>5. \E g : g = TurnsOf(series, from, end, g, (n - 1) + 1)
    BY <1>2, <2>3, <2>4
  <2> QED BY <2>1, <2>3, <2>5
<1> QED BY <1>3

\* The search finds the first window at or past the end, from the first it may answer, or
\* meets one past the calendar's end.
LEMMA SearchFinds ==
    ASSUME NEW series, series.count \in Nat, NEW from \in 0 .. series.count, NEW end
    PROVE  \/ /\ SearchEnd(series, from, end) = -1
              /\ RunsOut(series.interval, series.initial, series.count - 1)
           \/ /\ SearchEnd(series, from, end) \in from .. series.count
              /\ SearchEnd(series, from, end) > from =>
                   LET latest == add_to(series.interval, series.initial, SearchEnd(series, from, end) - 1)
                   IN latest # NoInstant /\ latest < end
              /\ SearchEnd(series, from, end) < series.count =>
                   LET next == add_to(series.interval, series.initial, SearchEnd(series, from, end))
                   IN next # NoInstant /\ ~(next < end)
<1> DEFINE turn == CHOOSE f : f = TurnsOf(series, from, end, f, series.count)
           out == RunsOut(series.interval, series.initial, series.count - 1)
           Good(n) == (turn[n] = Lost /\ out) \/ Searching(series, from, end, turn[n], n)
           Bad == {n \in 0 .. series.count : ~Good(n)}
<1>1. turn = TurnsOf(series, from, end, turn, series.count)
  BY TurnsUnfold
<1>2. SearchEnd(series, from, end) = turn[series.count].lo
  BY DEF SearchEnd, TurnsOf
<1> HIDE DEF turn
<1>3. turn[0] = [lo |-> from, hi |-> series.count]
  BY <1>1 DEF TurnsOf
<1>4. \A n \in 1 .. series.count : turn[n] = Halved(series, end, turn[n - 1])
  <2> SUFFICES ASSUME NEW n \in 1 .. series.count PROVE turn[n] = Halved(series, end, turn[n - 1])
    OBVIOUS
  <2>1. n \in 0 .. series.count /\ n # 0
    OBVIOUS
  <2> QED BY <1>1, <2>1 DEF TurnsOf
<1>5. Good(0)
  BY <1>3 DEF Searching
<1>6. ASSUME NEW n \in 1 .. series.count, Good(n - 1) PROVE Good(n)
  <2>1. turn[n] = Halved(series, end, turn[n - 1])
    BY <1>4
  <2>2. CASE turn[n - 1] = Lost /\ out
    BY <2>1, <2>2 DEF Halved, Lost
  <2>3. CASE Searching(series, from, end, turn[n - 1], n - 1)
    <3>1. \/ turn[n] = Lost /\ out
          \/ Searching(series, from, end, turn[n], (n - 1) + 1)
          \/ turn[n] = turn[n - 1] /\ turn[n - 1].lo = turn[n - 1].hi
      BY <2>1, <2>3, TurnSearches
    <3>2. (n - 1) + 1 = n
      OBVIOUS
    <3>3. CASE turn[n] = turn[n - 1] /\ turn[n - 1].lo = turn[n - 1].hi
      BY <2>3, <3>3 DEF Searching
    <3> QED BY <3>1, <3>2, <3>3
  <2> QED BY <1>6, <2>2, <2>3
<1> HIDE DEF Good
<1>7. Bad = {}
  <2> SUFFICES ASSUME Bad # {} PROVE FALSE
    OBVIOUS
  <2> Bad \subseteq Nat
    OBVIOUS
  <2>1. PICK n \in Bad : \A m \in Bad : n <= m
    BY LeastNatural
  <2>2. n # 0 /\ n \in 0 .. series.count /\ ~Good(n)
    BY <1>5, <2>1
  <2>3. n - 1 \notin Bad /\ n - 1 \in 0 .. series.count /\ n \in 1 .. series.count
    BY <2>1, <2>2
  <2> QED BY <1>6, <2>2, <2>3
<1>8. Good(series.count)
  BY <1>7
<1>9. CASE turn[series.count] = Lost /\ out
  BY <1>2, <1>9 DEF Lost
<1>10. CASE Searching(series, from, end, turn[series.count], series.count)
  <2>1. turn[series.count].hi = turn[series.count].lo
    BY <1>10 DEF Searching
  <2> QED BY <1>2, <1>10, <2>1 DEF Searching
<1> QED BY <1>8, <1>9, <1>10 DEF Good

\* Months that land on the same day of the month, at the same time of day, land alike.
LEMMA SameDayLands ==
    ASSUME NEW t \in Instant, NEW a \in Instant, NEW m \in 1 .. LastMonth, a = InMonth(t, m),
           DayOf(a) = DayOf(t)
    PROVE  \A k : InMonth(a, k) = InMonth(t, k)
<1>1. DOMAIN MonthLen = 1 .. LastMonth /\ DayTicks \in Nat \ {0} /\ t \in Int
  BY MonthsHaveDays, DaysAndTicks, DayOfInstant
<1> DEFINE day == MonthStart[m] + Clamped(t, m)
           r == t % DayTicks
<1>2. a = DayAt(day, t)
  BY <1>1 DEF InMonth, Clamped, DayAt
<1>3. day \in Int
  <2>1. m \in 1 .. (LastMonth + 1) /\ LastMonth \in Nat
    BY MonthsHaveDays
  <2>2. MonthStart[m] \in Int /\ Clamped(t, m) \in 0 .. (MonthLen[m] - 1)
    BY <2>1, StartsRise, ClampedDay
  <2> QED BY <2>2
<1>4. r \in 0 .. (DayTicks - 1)
  BY <1>1, Division
<1>5. a = DayTicks * day + r
  <2> HIDE DEF day
  <2> QED BY <1>1, <1>2, <1>3 DEF DayAt
<1>6. a % DayTicks = r
  <2> DEFINE b == DayTicks
  <2>1. a \in Int /\ b \in Nat \ {0} /\ a = b * day + r /\ r \in 0 .. (b - 1) /\ day \in Int
    BY <1>1, <1>3, <1>4, <1>5, DayOfInstant
  <2> HIDE DEF day, r, b
  <2>2. \A z \in Int, s \in 0 .. (b - 1) : a = b * z + s => z = a \div b /\ s = a % b
    BY <2>1, Division
  <2>3. r = a % b
    BY <2>1, <2>2
  <2> QED BY <2>3 DEF b
<1>7. a % DayTicks = t % DayTicks
  BY <1>6
<1> QED BY <1>7 DEF InMonth

\* Steps of an anchored run of a grid, taken from its first instant, are the grid's own.
LEMMA AnchoredRun ==
    ASSUME NEW p, IsPeriod(p), NEW start \in Instant, NEW offset \in Nat, NEW len \in Nat,
           sub_grid_is_anchorable(p, start, offset, len), add_to(p, start, offset) \in Instant
    PROVE  \A j \in 0 .. (len - 1) :
              add_to(p, add_to(p, start, offset), j) = add_to(p, start, offset + j)
<1> DEFINE a == add_to(p, start, offset)
<1>1. a \in Instant /\ a # NoInstant
  BY DEF Instant, NoInstant
<1>2. SUFFICES ASSUME NEW j \in 0 .. (len - 1) PROVE add_to(p, a, j) = add_to(p, start, offset + j)
  OBVIOUS
<1>3. \/ ~is_irregular(p)
      \/ offset = 0 \/ len < 2
      \/ is_irregular(p) /\ DayOf(a) = DayOf(start)
      \/ \A i \in 1 .. (len - 1) : add_to(p, a, i) = add_to(p, start, offset + i)
  BY <1>1 DEF sub_grid_is_anchorable, AnchorsAt
<1>4. CASE ~is_irregular(p)
  <2> DEFINE c == num_milliseconds(p.n)
  <2>1. c \in Nat \ {0} /\ Sub \in Nat \ {0} /\ start \in Int /\ a \in Int
    BY <1>1, <1>4, PositivePeriods, DaysAndTicks, DayOfInstant
  <2>2. \A t, k : add_to(p, t, k) = checked_add_signed(t, c * k * Sub)
    BY <1>4 DEF add_to
  <2> HIDE DEF c
  <2> DEFINE x == c * offset * Sub
             y == c * j * Sub
             z == c * (offset + j) * Sub
  <2>3. x \in Int /\ y \in Int /\ z = x + y
    BY <2>1
  <2>4. /\ a = checked_add_signed(start, x) /\ add_to(p, a, j) = checked_add_signed(a, y)
        /\ add_to(p, start, offset + j) = checked_add_signed(start, z)
    BY <2>2
  <2> HIDE DEF a, x, y, z
  <2>5. a = start + x
    BY <1>1, <2>4 DEF checked_add_signed
  <2>6. a + y = start + z
    BY <2>1, <2>3, <2>5
  <2> QED BY <2>4, <2>6 DEF checked_add_signed, a
<1>5. CASE j = 0
  <2>1. add_to(p, a, 0) = a /\ offset + 0 = offset
    BY <1>1, GridPoints DEF Points
  <2> QED BY <1>5, <2>1
<1>6. CASE offset = 0
  <2>1. add_to(p, start, 0) = start /\ 0 + j = j
    BY GridPoints DEF Points
  <2> QED BY <1>6, <2>1
<1>7. CASE is_irregular(p) /\ DayOf(a) = DayOf(start)
  <2> DEFINE m0 == MonthOf(start)
             n == p.n
  <2>1. n \in Nat \ {0} /\ m0 \in 1 .. LastMonth /\ MonthOf(a) \in 1 .. LastMonth
    BY <1>1, <1>7, PositivePeriods, MonthFound
  <2>2. \A t, k : add_to(p, t, k) = InMonth(t, MonthOf(t) + n * k)
    BY <1>7 DEF add_to, checked_add_months
  <2>3. a = InMonth(start, m0 + n * offset)
    BY <2>2
  <2> HIDE DEF a, n, m0
  <2>4. m0 + n * offset \in 1 .. LastMonth
    BY <1>1, <2>3, InMonthLands
  <2>5. MonthOf(a) = m0 + n * offset
    BY <2>3, <2>4, InMonthLands
  <2>6. \A k : InMonth(a, k) = InMonth(start, k)
    BY <1>1, <1>7, <2>3, <2>4, SameDayLands
  <2>7. (m0 + n * offset) + n * j = m0 + n * (offset + j)
    BY <2>1
  <2>8. add_to(p, a, j) = InMonth(a, m0 + n * (offset + j))
    BY <2>2, <2>5, <2>7
  <2>9. add_to(p, start, offset + j) = InMonth(start, m0 + n * (offset + j))
    BY <2>2 DEF m0
  <2> QED BY <2>6, <2>8, <2>9
<1>8. CASE \A i \in 1 .. (len - 1) : add_to(p, a, i) = add_to(p, start, offset + i)
  BY <1>5, <1>8
<1>9. CASE len < 2
  BY <1>5, <1>9
<1> QED BY <1>3, <1>4, <1>6, <1>7, <1>8, <1>9

\* A positive period is not zero, and zero is.
LEMMA NotZero ==
    /\ is_zero(zero)
    /\ \A p : IsPeriod(p) => ~is_zero(p) /\ p # zero
<1>1. is_zero(zero)
  BY DEF is_zero, zero, Fixed
<1>2. ASSUME NEW p, IsPeriod(p) PROVE p.n # 0
  <2>1. ASSUME ~is_irregular(p), p.n = 0 PROVE FALSE
    <3>1. num_milliseconds(0) \in Nat \ {0} /\ 0 = num_milliseconds(0) * Sub /\ Sub \in Nat \ {0}
      BY <1>2, <2>1, PositivePeriods, DaysAndTicks
    <3> QED BY <3>1
  <2>2. is_irregular(p) => p.n # 0
    BY <1>2, PositivePeriods
  <2> QED BY <2>1, <2>2
<1> QED BY <1>1, <1>2 DEF is_zero

\* Zero is not positive, and steps nowhere.
LEMMA ZeroStands ==
    ASSUME NEW t \in Instant
    PROVE  ~is_positive(zero) /\ add_to(zero, t, 0) = t
<1>1. ~is_irregular(zero) /\ zero.n = 0
  BY DEF is_irregular, zero, Fixed
<1>2. num_milliseconds(0) = 0
  <2>1. Sub \in Nat \ {0} /\ ~(0 < 0)
    BY DaysAndTicks
  <2>2. 0 = Sub * 0 + 0 /\ 0 \in 0 .. (Sub - 1)
    BY <2>1
  <2>3. 0 = 0 \div Sub /\ 0 = 0 % Sub
    BY <2>1, <2>2, Division
  <2> QED BY <2>1, <2>3 DEF num_milliseconds
<1>3. 0 * 0 * Sub = 0 /\ t + 0 = t
  BY DaysAndTicks, DayOfInstant
<1> QED BY <1>1, <1>2, <1>3 DEF is_positive, Magnitude, add_to, checked_add_signed

\* How many of one period make up another is an exact count of them, if any.
LEMMA Quotients ==
    ASSUME NEW p, IsPeriod(p), NEW o, IsPeriod(o), divide_into(p, o) # NoCount
    PROVE  /\ divide_into(p, o) \in Nat \ {0}
           /\ same_kind(p, o)
           /\ Magnitude(o) = Magnitude(p) * divide_into(p, o)
<1> DEFINE a == Magnitude(p)
           b == Magnitude(o)
           n == divide_into(p, o)
<1>1. a \in Nat \ {0} /\ b \in Nat \ {0}
  BY PositivePeriods
<1>2. same_kind(p, o) /\ n = ExactQuotient(a, b)
  BY DEF divide_into
<1>3. n # NoCount
  OBVIOUS
<1> HIDE DEF a, b, n
<1>4. b % a = 0 /\ n = b \div a
  BY <1>1, <1>2, <1>3 DEF ExactQuotient
<1>5. b \div a \in Int /\ b = a * (b \div a) + (b % a)
  BY <1>1, Division
<1>6. n \in Int /\ b = a * n
  BY <1>1, <1>4, <1>5
<1>7. n > 0
  <2> SUFFICES ASSUME n <= 0 PROVE FALSE
    BY <1>6
  <2>1. a * n <= a * 0 /\ a * 0 = 0
    BY <1>1, <1>6, ProductsRise
  <2> QED BY <1>1, <1>6, <2>1
<1> QED BY <1>2, <1>6, <1>7 DEF a, b, n

\* A grid of a multiple of a period passes through that period's points.
LEMMA Coarser ==
    ASSUME NEW p, IsPeriod(p), NEW o, IsPeriod(o), divide_into(p, o) # NoCount,
           NEW start \in Instant, NEW k \in Nat
    PROVE  add_to(o, start, k) = add_to(p, start, k * divide_into(p, o))
<1> DEFINE n == divide_into(p, o)
<1>1. n \in Nat \ {0} /\ same_kind(p, o) /\ Magnitude(o) = Magnitude(p) * n
  BY Quotients
<1> HIDE DEF n
<1>2. CASE is_irregular(p)
  <2>1. is_irregular(o)
    BY <1>1, <1>2 DEF same_kind, is_irregular
  <2>2. p.n \in Nat /\ o.n \in Nat /\ o.n = p.n * n
    BY <1>1, <1>2, <2>1, PositivePeriods
  <2>3. o.n * k = p.n * (k * n)
    BY <1>1, <2>2
  <2> QED BY <1>2, <2>1, <2>3 DEF add_to, n
<1>3. CASE ~is_irregular(p)
  <2>1. ~is_irregular(o)
    BY <1>1, <1>3 DEF same_kind, is_irregular
  <2> DEFINE c == num_milliseconds(p.n)
             d == num_milliseconds(o.n)
  <2>2. c \in Nat /\ d \in Nat /\ d = c * n
    BY <1>1, <1>3, <2>1, PositivePeriods
  <2>3. /\ add_to(o, start, k) = checked_add_signed(start, d * k * Sub)
        /\ add_to(p, start, k * n) = checked_add_signed(start, c * (k * n) * Sub)
    BY <1>3, <2>1 DEF add_to
  <2> HIDE DEF c, d
  <2>4. d * k = c * (k * n)
    BY <1>1, <2>2
  <2> QED BY <2>3, <2>4 DEF n
<1> QED BY <1>2, <1>3

\* A plan that was derived: the windows it counts lie inside the series, the interval is
\* whole steps of the resolution, or zero for a single window of the whole series, and each
\* window's dates are those of the rows it covers.
Planned(series, plan, h, steps) ==
  /\ h \in Nat \ {0} /\ plan.count \in Nat \ {0} /\ steps \in Nat
  /\ (plan.count - 1) * steps + h <= series.length
  /\ \/ plan.interval = zero /\ plan.count = 1 /\ steps = 0
     \/ /\ IsPeriod(plan.interval) /\ divide_into(series.resolution, plan.interval) = steps
        /\ steps # 0
        /\ \A k \in 0 .. (plan.count - 1) :
              sub_grid_is_anchorable(series.resolution, series.initial, k * steps, h)

\* What a view may rest on once its windows have been derived from the series.
LEMMA PlansDerived ==
    ASSUME NEW series, IsPeriod(series.resolution), series.length \in Nat,
           NEW horizon, IsPeriod(horizon), NEW requested, IsPeriod(requested) \/ requested = zero,
           NEW normalize, derive(series, horizon, requested, normalize).ok
    PROVE  LET plan == derive(series, horizon, requested, normalize) IN
           \E steps : Planned(series, plan, compute_h(horizon, series.resolution), steps)
<1> DEFINE h == compute_h(horizon, series.resolution)
           single == series.length = h /\ requested = horizon
           stored == IF single /\ normalize THEN zero ELSE requested
           divided == divide_into(series.resolution, stored)
           steps == IF is_zero(stored) THEN 1 ELSE divided
           count == IF is_zero(stored) THEN 1 ELSE (series.length - h) \div steps + 1
           plan == derive(series, horizon, requested, normalize)
<1>1. /\ ~(h = NoCount \/ h > series.length)
      /\ ~(is_zero(stored) /\ h # series.length)
      /\ steps # NoCount
      /\ ~(is_irregular(series.resolution) /\ ~WindowsAnchored(series, count, steps, h))
      /\ plan = [ok |-> TRUE, interval |-> stored, count |-> count]
  <2> HIDE DEF h
  <2> QED BY DEF derive, Refused, h
<1>2. plan.interval = stored /\ plan.count = count
  BY <1>1
<1>3. h \in Nat \ {0} /\ h <= series.length
  BY <1>1, Quotients DEF compute_h
<1>4. stored = zero \/ IsPeriod(stored)
  OBVIOUS
<1>5. is_zero(zero)
  BY NotZero
<1>6. IsPeriod(stored) => ~is_zero(stored)
  <2> HIDE DEF stored
  <2> QED BY NotZero
<1> HIDE DEF plan, h, single, stored
<1>7. CASE stored = zero
  <2>1. count = 1 /\ h = series.length
    BY <1>1, <1>5, <1>7
  <2>2. (1 - 1) * 0 + h <= series.length
    BY <1>3, <2>1
  <2>3. Planned(series, plan, h, 0)
    BY <1>2, <1>3, <1>7, <2>1, <2>2 DEF Planned
  <2> QED BY <2>3 DEF plan, h
<1>8. CASE IsPeriod(stored)
  <2>1. steps = divided /\ count = (series.length - h) \div steps + 1
    BY <1>6, <1>8
  <2>2. steps \in Nat \ {0}
    BY <1>1, <1>8, <2>1, Quotients
  <2>3. count \in Nat \ {0} /\ (count - 1) * steps + h <= series.length
    <3> DEFINE rest == series.length - h
               d == rest \div steps
    <3>1. rest \in Nat
      BY <1>3
    <3> HIDE DEF rest, steps
    <3>2. d \in Int /\ rest % steps \in 0 .. (steps - 1) /\ rest = steps * d + (rest % steps)
      BY <2>2, <3>1, Division
    <3>3. count = d + 1
      BY <2>1 DEF rest
    <3> HIDE DEF d, count
    <3>4. d >= 0
      <4> SUFFICES ASSUME d + 1 <= 0 PROVE FALSE
        BY <3>2
      <4>1. steps * d + steps <= steps * 0 /\ steps * 0 = 0 /\ steps * d \in Int
        BY <2>2, <3>2, ProductsRise
      <4> QED BY <2>2, <3>1, <3>2, <4>1
    <3>5. steps * d <= rest /\ steps * d \in Int
      BY <2>2, <3>2, ProductsRise
    <3>6. count - 1 = d /\ d * steps = steps * d
      BY <2>2, <3>2, <3>3
    <3>7. (count - 1) * steps <= rest /\ (count - 1) * steps \in Int
      BY <3>5, <3>6
    <3>8. rest = series.length - h
      BY DEF rest
    <3> QED BY <1>3, <3>2, <3>3, <3>4, <3>7, <3>8
  <2>4. \A k \in 0 .. (count - 1) :
           sub_grid_is_anchorable(series.resolution, series.initial, k * steps, h)
    <3> HIDE DEF count, steps
    <3>1. CASE is_irregular(series.resolution)
      BY <1>1, <3>1 DEF WindowsAnchored
    <3>2. CASE ~is_irregular(series.resolution)
      BY <3>2 DEF sub_grid_is_anchorable, AnchorsAt
    <3> QED BY <3>1, <3>2
  <2> HIDE DEF count, steps
  <2>5. Planned(series, plan, h, steps)
    BY <1>2, <1>3, <1>8, <2>1, <2>2, <2>3, <2>4 DEF Planned
  <2> QED BY <2>5 DEF plan, h
<1> QED BY <1>4, <1>7, <1>8 DEF stored

\* The windows lo..hi-1 of a forecast exist, and are the grid that starts at the instant the
\* read names.
WindowsOf(f, w) ==
  /\ w.lo \in Nat /\ w.hi \in w.lo .. f.count
  /\ w.lo < w.hi =>
       /\ w.initial = add_to(f.interval, f.initial, w.lo)
       /\ \A j \in 0 .. (w.hi - w.lo - 1) :
             /\ add_to(f.interval, w.initial, j) = add_to(f.interval, f.initial, w.lo + j)
             /\ add_to(f.interval, f.initial, w.lo + j) \in Instant

\* A run of windows ends with one that exists, and is anchored at its first.
LEMMA RunsExist ==
    ASSUME NEW f, IsPeriod(f.interval), f.initial \in Instant, f.count \in Nat,
           NEW from \in 0 .. f.count, NEW end,
           WindowRun(f, from, SearchEnd(f, from, end), add_to(f.interval, f.initial, from)).ok
    PROVE  WindowsOf(f, WindowRun(f, from, SearchEnd(f, from, end), add_to(f.interval, f.initial, from)))
<1> DEFINE to == SearchEnd(f, from, end)
           at == add_to(f.interval, f.initial, from)
           w == WindowRun(f, from, to, at)
<1>1. to # -1 /\ at # NoInstant
  <2> HIDE DEF to, at
  <2> QED BY DEF WindowRun, Corrupt, to, at
<1>2. /\ to \in from .. f.count
      /\ to > from => add_to(f.interval, f.initial, to - 1) # NoInstant
  <2>1. \/ to = -1
        \/ /\ to \in from .. f.count
           /\ to > from => LET latest == add_to(f.interval, f.initial, to - 1)
                           IN latest # NoInstant /\ latest < end
    BY SearchFinds
  <2> QED BY <1>1, <2>1
<1>3. Points(f.interval, f.initial)
  BY GridPoints
<1>4. at \in Instant
  BY <1>1, <1>3 DEF Points
<1>5. CASE to <= from
  <2>1. w = Rows(0, 0, at)
    <3> HIDE DEF to, at
    <3> QED BY <1>1, <1>5 DEF WindowRun
  <2> HIDE DEF w
  <2> QED BY <2>1 DEF WindowsOf, Rows, w
<1>6. CASE ~(to <= from)
  <2>1. /\ sub_grid_is_anchorable(f.interval, f.initial, from, to - from)
        /\ w = Rows(from, to, at)
    <3> HIDE DEF to, at
    <3> QED BY <1>1, <1>6 DEF WindowRun, Refused, to, at
  <2>2. w.lo = from /\ w.hi = to /\ w.initial = at
    BY <2>1 DEF Rows
  <2> HIDE DEF w
  <2>3. to \in Nat /\ to - from \in Nat /\ from < to
    BY <1>2, <1>6
  <2>4. \A j \in 0 .. (to - from - 1) : add_to(f.interval, at, j) = add_to(f.interval, f.initial, from + j)
    <3> HIDE DEF to
    <3> QED BY <1>4, <2>1, <2>3, AnchoredRun
  <2>5. ASSUME NEW j \in 0 .. (to - from - 1) PROVE add_to(f.interval, f.initial, from + j) \in Instant
    <3>1. add_to(f.interval, f.initial, to - 1) # NoInstant
      BY <1>2, <2>3
    <3> HIDE DEF to
    <3>2. to - 1 \in Nat /\ from + j \in Nat /\ (from + j = to - 1 \/ from + j \in 0 .. (to - 1 - 1))
      BY <2>3
    <3>3. add_to(f.interval, f.initial, from + j) # NoInstant
      BY <1>3, <3>1, <3>2 DEF Points
    <3> QED BY <1>3, <3>2, <3>3 DEF Points
  <2> HIDE DEF to
  <2>6. w.lo \in Nat /\ w.hi \in w.lo .. f.count
    BY <1>2, <2>2, <2>3
  <2>7. w.initial = add_to(f.interval, f.initial, w.lo)
    BY <2>2
  <2> HIDE DEF at
  <2>8. \A j \in 0 .. (w.hi - w.lo - 1) :
           /\ add_to(f.interval, w.initial, j) = add_to(f.interval, f.initial, w.lo + j)
           /\ add_to(f.interval, f.initial, w.lo + j) \in Instant
    BY <2>2, <2>4, <2>5
  <2>9. WindowsOf(f, w)
    BY <2>6, <2>7, <2>8 DEF WindowsOf
  <2> QED BY <2>9 DEF w, at, to
<1> QED BY <1>5, <1>6

\* An answer without rows: a refusal, or the store taken for corrupt, and then the grid runs
\* past the calendar's end within so many steps.
Declined(w, p, start, total) == w = Refused \/ (w = Corrupt /\ RunsOut(p, start, total))

\* A run of windows is declined, but for a refusal, only when one of them does not exist.
LEMMA RunsDeclined ==
    ASSUME NEW f, f.count \in Nat, NEW from \in 0 .. (f.count - 1), NEW end,
           NEW w, w = WindowRun(f, from, SearchEnd(f, from, end), add_to(f.interval, f.initial, from)), ~w.ok
    PROVE  Declined(w, f.interval, f.initial, f.count - 1)
<1> DEFINE to == SearchEnd(f, from, end)
           at == add_to(f.interval, f.initial, from)
           out == RunsOut(f.interval, f.initial, f.count - 1)
<1>1. to = -1 => out
  <2>1. f.count \in Nat /\ from \in 0 .. f.count /\ -1 \notin from .. f.count
    OBVIOUS
  <2> QED BY <2>1, SearchFinds
<1>2. at = NoInstant => out
  BY DEF RunsOut
<1>3. w = WindowRun(f, from, to, at)
  OBVIOUS
<1> HIDE DEF to, at, out
<1>4. \A lo, hi : Rows(lo, hi, at).ok
  BY DEF Rows
<1>5. w = Refused \/ (w = Corrupt /\ (to = -1 \/ at = NoInstant))
  BY <1>3, <1>4, Zenon DEF WindowRun
<1> QED BY <1>1, <1>2, <1>5 DEF Declined, out

\* So is a range of windows.
LEMMA WindowsDeclined ==
    ASSUME NEW f, IsPeriod(f.interval) \/ f.interval = zero, f.initial \in Instant, f.count \in Nat,
           NEW range, range.start \in Instant, NEW w, w = resolve_windows(f, range), ~w.ok
    PROVE  Declined(w, f.interval, f.initial, f.count - 1)
<1> DEFINE from == IF range.start <= f.initial THEN 0
                   ELSE steps_between(f.interval, f.initial, range.start)
<1>1. \A lo, hi, at : Rows(lo, hi, at).ok
  BY DEF Rows
<1>2. w = Refused \/ (is_positive(f.interval) /\ w = WindowsFrom(f, range, from))
  <2> HIDE DEF from
  <2> QED BY <1>1, Zenon DEF resolve_windows, from
<1>3. ASSUME w # Refused PROVE Declined(w, f.interval, f.initial, f.count - 1)
  <2>1. IsPeriod(f.interval)
    BY <1>2, <1>3, ZeroStands
  <2>2. from \in Nat \cup {NoStep}
    <3>1. Steps(f.interval, f.initial) \subseteq Nat
      BY DEF Steps
    <3>2. steps_between(f.interval, f.initial, range.start) \in Nat \cup {NoStep}
      BY <2>1, <3>1, CountIsExact
    <3> QED BY <3>2
  <2> HIDE DEF from
  <2>3. /\ ~(from = NoStep \/ from >= f.count)
        /\ w = WindowRun(f, from, SearchEnd(f, from, range.end), add_to(f.interval, f.initial, from))
    BY <1>2, <1>3, Zenon DEF WindowsFrom
  <2>4. from \in 0 .. (f.count - 1)
    BY <2>2, <2>3
  <2> QED BY <2>3, <2>4, RunsDeclined
<1> QED BY <1>3 DEF Declined

\* The windows a range resolves to are windows of the forecast.
LEMMA WindowsResolve ==
    ASSUME NEW f, IsPeriod(f.interval) \/ f.interval = zero, f.initial \in Instant, f.count \in Nat,
           NEW range, range.start \in Instant, range.end \in Instant, resolve_windows(f, range).ok
    PROVE  WindowsOf(f, resolve_windows(f, range))
<1> DEFINE w == resolve_windows(f, range)
           from == IF range.start <= f.initial THEN 0
                   ELSE steps_between(f.interval, f.initial, range.start)
<1>1. ~(range.end < range.start)
  BY DEF resolve_windows, Refused
<1>2. CASE IsPeriod(f.interval)
  <2>1. w = WindowsFrom(f, range, from)
    BY <1>1, <1>2 DEF resolve_windows, IsPeriod
  <2>2. steps_between(f.interval, f.initial, range.start) \in Nat \cup {NoStep}
    <3>1. Steps(f.interval, f.initial) \subseteq Nat
      BY DEF Steps
    <3> QED BY <1>2, <3>1, CountIsExact
  <2>3. from \in Nat \cup {NoStep}
    BY <2>2
  <2> HIDE DEF from
  <2>4. /\ ~(from = NoStep \/ from >= f.count)
        /\ w = WindowRun(f, from, SearchEnd(f, from, range.end), add_to(f.interval, f.initial, from))
    BY <2>1 DEF WindowsFrom, Refused
  <2>5. from \in 0 .. f.count
    BY <2>3, <2>4
  <2> QED BY <1>2, <2>4, <2>5, RunsExist
<1>3. CASE f.interval = zero
  <2>1. is_zero(zero) /\ ~is_irregular(zero) /\ zero.n = 0
    BY DEF is_zero, is_irregular, zero, Fixed
  <2>2. ~is_positive(zero) /\ add_to(zero, f.initial, 0) = f.initial
    BY ZeroStands
  <2>3. /\ f.count = 1
        /\ w = Rows(0, IF f.initial < range.end THEN 1 ELSE 0, f.initial)
    BY <1>1, <1>3, <2>1, <2>2 DEF resolve_windows, Refused
  <2>4. w.lo = 0 /\ w.hi \in {0, 1} /\ w.initial = f.initial
    BY <2>3 DEF Rows
  <2> HIDE DEF w
  <2>5. \A j \in 0 .. (w.hi - w.lo - 1) : j = 0 /\ w.lo + j = 0
    BY <2>4
  <2>6. w.lo \in Nat /\ w.hi \in w.lo .. f.count
    BY <2>3, <2>4
  <2>7. WindowsOf(f, w)
    BY <1>3, <2>2, <2>4, <2>5, <2>6 DEF WindowsOf
  <2> QED BY <2>7 DEF w
<1> QED BY <1>2, <1>3

\* The array of a view's read: the windows lo..hi-1, gathered from the source's rows.
HoldsRows(r, steps, h) ==
  r.array = [shape |-> <<h, r.hi - r.lo>>,
             cells |-> Gathered(SourceRows(r, steps, h), r, steps, h, r.hi - r.lo)]

\* A view read over a range is declined, or holds the windows of the forecast, gathered from
\* the source's rows; its arrays are never corrupt.
LEMMA ViewsAreRead ==
    ASSUME NEW series, series.initial \in Instant, IsPeriod(series.resolution), series.length \in Nat,
           NEW horizon, IsPeriod(horizon), NEW plan, NEW steps,
           Planned(series, plan, compute_h(horizon, series.resolution), steps),
           NEW range, range.start \in Instant, range.end \in Instant,
           NEW r, r = ReadView(ViewOf(series, horizon, plan), series.length, range)
    PROVE  \/ Declined(r, series.resolution, series.initial, series.length)
           \/ /\ r.ok /\ WindowsOf(ViewOf(series, horizon, plan), r)
              /\ HoldsRows(r, steps, compute_h(horizon, series.resolution))
<1> DEFINE view == ViewOf(series, horizon, plan)
           h == compute_h(horizon, series.resolution)
           w == resolve_windows(view, range)
           n == w.hi - w.lo
<1>1. /\ view.initial = series.initial /\ view.resolution = series.resolution
      /\ view.horizon = horizon /\ view.interval = plan.interval /\ view.count = plan.count
  BY DEF ViewOf, Forecast
<1>2. /\ h \in Nat \ {0} /\ plan.count \in Nat \ {0} /\ steps \in Nat
      /\ (plan.count - 1) * steps + h <= series.length
      /\ plan.interval = zero \/ IsPeriod(plan.interval)
  BY DEF Planned
<1>3. is_zero(zero)
  BY NotZero
<1>4. interval_steps(view) = steps
  <2>1. CASE plan.interval = zero
    <3>1. plan.count = 1 /\ steps = 0
      BY <2>1, NotZero DEF Planned
    <3> HIDE DEF view
    <3> QED BY <1>1, <1>3, <2>1, <3>1 DEF interval_steps
  <2>2. CASE IsPeriod(plan.interval)
    <3>1. ~is_zero(plan.interval) /\ plan.interval # zero
      BY <2>2, NotZero
    <3>2. divide_into(series.resolution, plan.interval) = steps
      BY <3>1 DEF Planned
    <3> HIDE DEF view
    <3> QED BY <1>1, <3>1, <3>2 DEF interval_steps
  <2> QED BY <1>2, <2>1, <2>2
<1>5. compute_h(view.horizon, view.resolution) = h
  BY <1>1
<1> HIDE DEF h
<1>6. Max({view.count - 1, 0}) = plan.count - 1
  <2> DEFINE finalWindow == plan.count - 1
             T == {finalWindow, 0}
  <2>1. view.count - 1 = finalWindow /\ finalWindow \in Nat
    BY <1>1, <1>2
  <2> HIDE DEF finalWindow, view
  <2>2. T \subseteq Int /\ finalWindow \in T /\ \A x \in T : finalWindow >= x
    BY <2>1
  <2> HIDE DEF T
  <2>3. Max(T) = finalWindow
    BY <2>2, MaxIs
  <2> QED BY <2>1, <2>3 DEF T, finalWindow
<1>7. r = ReadViewWindows(view, w, steps, h)
  <2>1. h # NoCount /\ steps # NoCount /\ ~((plan.count - 1) * steps + h > series.length)
    BY <1>2 DEF NoCount
  <2>2. r = ReadViewOver(view, series.length, range, steps, h)
    BY <1>4, <1>5 DEF ReadView
  <2> HIDE DEF view, w
  <2> QED BY <1>6, <2>1, <2>2 DEF ReadViewOver, w
<1>8. CASE ~w.ok
  <2>1. r = w
    BY <1>7, <1>8 DEF ReadViewWindows
  <2>2. Declined(w, view.interval, view.initial, view.count - 1)
    <3>1. /\ IsPeriod(view.interval) \/ view.interval = zero
          /\ view.initial \in Instant /\ view.count \in Nat
      BY <1>1, <1>2
    <3> HIDE DEF view
    <3> QED BY <1>8, <3>1, WindowsDeclined
  <2> HIDE DEF w, view
  <2>3. Declined(r, plan.interval, series.initial, plan.count - 1)
    BY <1>1, <2>1, <2>2
  <2>4. ASSUME NEW k \in 0 .. (plan.count - 1), add_to(plan.interval, series.initial, k) = NoInstant
        PROVE  RunsOut(series.resolution, series.initial, series.length)
    <3>1. plan.interval # zero
      <4> SUFFICES ASSUME plan.interval = zero PROVE FALSE
        OBVIOUS
      <4>1. plan.count = 1 /\ k = 0
        BY NotZero DEF Planned
      <4>2. NoInstant \notin Instant
        BY DayOfInstant DEF NoInstant
      <4>3. add_to(zero, series.initial, 0) = series.initial
        BY ZeroStands
      <4> QED BY <2>4, <4>1, <4>2, <4>3
    <3>2. IsPeriod(plan.interval) /\ divide_into(series.resolution, plan.interval) = steps
      BY <3>1 DEF Planned
    <3>3. divide_into(series.resolution, plan.interval) # NoCount
      <4>1. steps # NoCount
        BY <1>2 DEF NoCount
      <4> QED BY <3>2, <4>1
    <3>4. add_to(series.resolution, series.initial, k * steps) = NoInstant
      BY <2>4, <3>2, <3>3, Coarser
    <3>5. k * steps \in 0 .. series.length
      <4> DEFINE final == plan.count - 1
                 x == k * steps
                 y == final * steps
      <4>1. final \in Nat /\ k \in Nat /\ k <= final /\ steps \in Nat
        BY <1>2
      <4>2. x \in Nat /\ y \in Nat /\ x <= y
        BY <4>1, TimesKeepOrder
      <4>3. y + h <= series.length
        BY <1>2
      <4> HIDE DEF x, y
      <4>4. x \in 0 .. series.length
        BY <1>2, <4>2, <4>3
      <4> QED BY <4>4 DEF x
    <3> QED BY <3>4, <3>5 DEF RunsOut
  <2> QED BY <2>3, <2>4 DEF Declined, RunsOut
<1>9. CASE w.ok
  <2>1. WindowsOf(view, w)
    <3>1. /\ IsPeriod(view.interval) \/ view.interval = zero
          /\ view.initial \in Instant /\ view.count \in Nat
      BY <1>1, <1>2
    <3> HIDE DEF view
    <3> QED BY <1>9, <3>1, WindowsResolve
  <2>2. w.lo \in Nat /\ w.hi \in w.lo .. plan.count /\ n \in Nat /\ n <= plan.count
    BY <1>1, <1>2, <2>1 DEF WindowsOf
  <2> DEFINE found == [view EXCEPT !.initial = w.initial, !.count = n, !.shape = <<h, n>>]
  <2>3. /\ found.resolution = series.resolution /\ found.horizon = horizon
        /\ found.interval = plan.interval /\ found.count = n /\ found.shape = <<h, n>>
    <3> HIDE DEF w, n
    <3> QED BY DEF ViewOf, Forecast
  <2>4. ValidDeterministic(found)
    <3>1. is_positive(series.resolution) /\ is_positive(horizon)
      BY DEF IsPeriod
    <3>2. is_positive(plan.interval) \/ (n <= 1 /\ is_zero(plan.interval))
      <4>1. CASE IsPeriod(plan.interval)
        BY <4>1 DEF IsPeriod
      <4>2. CASE ~IsPeriod(plan.interval)
        <5>1. plan.interval = zero /\ plan.count = 1
          BY <4>2 DEF Planned
        <5> HIDE DEF n
        <5> QED BY <1>3, <2>2, <5>1
      <4> QED BY <4>1, <4>2
    <3>3. h # NoCount
      BY <1>2 DEF NoCount
    <3>4. compute_h(found.horizon, found.resolution) = h
      <4> HIDE DEF found
      <4> QED BY <2>3 DEF h
    <3>5. validate_forecast_shape(found.shape, <<h, n>>)
      <4> HIDE DEF found, n
      <4> QED BY <2>3 DEF validate_forecast_shape
    <3>6. validate_forecast_periods(found)
      <4> HIDE DEF found, n
      <4> QED BY <2>3, <3>1, <3>2 DEF validate_forecast_periods
    <3> HIDE DEF found, n
    <3> QED BY <2>3, <3>3, <3>4, <3>5, <3>6, Zenon DEF ValidDeterministic
  <2>5. r = Holding(w, [shape |-> <<h, n>>, cells |-> Gathered(SourceRows(w, steps, h), w, steps, h, n)])
    <3> HIDE DEF view, w
    <3> QED BY <1>7, <1>9, <2>4, Zenon DEF ReadViewWindows
  <2>6. /\ r.ok /\ r.lo = w.lo /\ r.hi = w.hi /\ r.initial = w.initial
        /\ r.array = [shape |-> <<h, n>>, cells |-> Gathered(SourceRows(w, steps, h), w, steps, h, n)]
    <3> HIDE DEF w, n
    <3> QED BY <2>5 DEF Holding
  <2> HIDE DEF view, w
  <2>7. WindowsOf(view, r)
    BY <2>1, <2>6 DEF WindowsOf
  <2>8. Gathered(SourceRows(w, steps, h), w, steps, h, n) = Gathered(SourceRows(r, steps, h), r, steps, h, n)
    BY <2>6 DEF Gathered, SourceRows
  <2>9. n = r.hi - r.lo
    BY <2>6
  <2> HIDE DEF n
  <2>10. HoldsRows(r, steps, h)
    BY <2>6, <2>8, <2>9 DEF HoldsRows
  <2> QED BY <2>6, <2>7, <2>10 DEF view, h
<1> QED BY <1>8, <1>9 DEF view, h

\* The cell of a step of a window of a view is the source's row at that step of that window,
\* and such a row.
LEMMA CellsAreRows ==
    ASSUME NEW series, series.length \in Nat, NEW horizon, NEW plan, NEW steps \in Nat,
           NEW h \in Nat \ {0}, h = compute_h(horizon, series.resolution),
           plan.count \in Nat, (plan.count - 1) * steps + h <= series.length,
           NEW r, r.lo \in Nat, r.hi \in r.lo .. plan.count,
           HoldsRows(r, steps, h), NEW j \in 0 .. (r.hi - r.lo - 1), NEW s \in 0 .. (h - 1)
    PROVE  /\ Cell(ViewOf(series, horizon, plan), r.array, 0, s, j, 1) = (r.lo + j) * steps + s + 1
           /\ (r.lo + j) * steps + s + 1 \in 1 .. series.length
<1> DEFINE n == r.hi - r.lo
           first == r.lo * steps
           at == (r.lo + j) * steps + s
           span == (r.hi - 1) * steps + h - first
           c == s * n + j + 1
           slice == SourceRows(r, steps, h)
           cells == Gathered(slice, r, steps, h, n)
<1>1. n \in Nat \ {0} /\ r.hi \in Nat /\ r.hi # r.lo
  OBVIOUS
<1>2. /\ first \in Nat /\ (r.lo + j) * steps \in Nat /\ first <= (r.lo + j) * steps
      /\ (r.lo + j) * steps <= (r.hi - 1) * steps /\ (r.hi - 1) * steps <= (plan.count - 1) * steps
      /\ (r.hi - 1) * steps \in Nat
  <2>1. /\ r.lo <= r.lo + j /\ r.lo + j <= r.hi - 1 /\ r.hi - 1 <= plan.count - 1
        /\ r.lo + j \in Nat /\ r.hi - 1 \in Nat /\ plan.count - 1 \in Nat
    BY <1>1
  <2>2. \A x, y \in Nat : x <= y => x * steps \in Nat /\ y * steps \in Nat /\ x * steps <= y * steps
    <3> SUFFICES ASSUME NEW x \in Nat, NEW y \in Nat, x <= y
                 PROVE  x * steps \in Nat /\ y * steps \in Nat /\ x * steps <= y * steps
      OBVIOUS
    <3>1. x * steps = steps * x /\ y * steps = steps * y /\ steps * x \in Nat /\ steps * y \in Nat
      OBVIOUS
    <3>2. CASE steps = 0
      BY <3>1, <3>2
    <3>3. CASE steps # 0
      BY <3>1, <3>3, ProductsRise
    <3> QED BY <3>2, <3>3
  <2> QED BY <2>1, <2>2
<1>3. at \in 0 .. (series.length - 1) /\ at - first + 1 \in 1 .. span
  <2> DEFINE x == (r.lo + j) * steps
             y == (r.hi - 1) * steps
             z == (plan.count - 1) * steps
  <2>1. z \in Int /\ x \in Nat /\ y \in Nat /\ first \in Nat /\ first <= x /\ x <= y /\ y <= z /\ z + h <= series.length
    BY <1>2
  <2> HIDE DEF x, y, z, first
  <2>2. x + s \in 0 .. (series.length - 1) /\ x + s - first + 1 \in 1 .. (y + h - first)
    BY <2>1
  <2>3. at = x + s /\ span = y + h - first
    BY DEF x, y
  <2> HIDE DEF at, span
  <2> QED BY <2>1, <2>2, <2>3
<1>4. slice = [i \in 1 .. span |-> first + i]
  <2> DEFINE top == IF r.hi = r.lo THEN first ELSE (r.hi - 1) * steps + h
  <2>1. slice = [i \in 1 .. (top - first) |-> first + i]
    BY Zenon DEF SourceRows
  <2>2. top - first = span
    BY <1>1
  <2> HIDE DEF top, span, first
  <2> QED BY <2>1, <2>2
<1>5. slice[at - first + 1] = at + 1
  <2> HIDE DEF slice, span
  <2>1. at - first + 1 \in Int /\ first + (at - first + 1) = at + 1
    BY <1>2, <1>3
  <2> HIDE DEF at, first
  <2> QED BY <1>3, <1>4, <2>1
<1>6. s = (c - 1) \div n /\ j = (c - 1) % n
  <2> DEFINE u == c - 1
  <2>1. u \in Int /\ u = n * s + j /\ j \in 0 .. (n - 1) /\ s \in Int
    BY <1>1
  <2> HIDE DEF u, n
  <2>2. s = u \div n /\ j = u % n
    BY <1>1, <2>1, Division
  <2> QED BY <2>2 DEF u
<1>7. c \in 1 .. (h * n)
  <2>1. n * s + n <= n * h /\ n * s \in Nat /\ n * h = h * n /\ s * n = n * s
    BY <1>1, ProductsRise
  <2>2. j \in 0 .. (n - 1)
    OBVIOUS
  <2> HIDE DEF n
  <2> QED BY <1>1, <2>1, <2>2
<1>8. cells[c] = at + 1
  <2>1. cells[c] = slice[(r.lo + ((c - 1) % n)) * steps + ((c - 1) \div n) - r.lo * steps + 1]
    <3> HIDE DEF c, n, slice
    <3> QED BY <1>7 DEF Gathered
  <2> HIDE DEF slice, c
  <2>2. cells[c] = slice[(r.lo + j) * steps + s - r.lo * steps + 1]
    BY <1>6, <2>1
  <2> HIDE DEF cells
  <2> QED BY <1>5, <2>2
<1>9. Cell(ViewOf(series, horizon, plan), r.array, 0, s, j, 1) = cells[c]
  <2> DEFINE view == ViewOf(series, horizon, plan)
  <2>1. view.type = "Deterministic" /\ view.horizon = horizon /\ view.resolution = series.resolution
    BY DEF ViewOf, Forecast
  <2>2. leading_dims(view.type) = 2 /\ compute_h(view.horizon, view.resolution) = h
    BY <2>1 DEF leading_dims
  <2>3. r.array.shape = <<h, n>> /\ r.array.cells = cells
    BY DEF HoldsRows
  <2>4. SubSeq(<<h, n>>, 3, 2) = <<>> /\ Len(<<h, n>>) = 2 /\ <<h, n>>[2] = n
    <3> HIDE DEF n
    <3> QED OBVIOUS
  <2> HIDE DEF view, cells
  <2>5. (((0 * h + s) * n + j) * 1) + 1 = c
    BY <1>1
  <2> HIDE DEF n, c
  <2>6. Product(SubSeq(r.array.shape, 2 + 1, Len(r.array.shape))) = 1 /\ r.array.shape[2] = n
    <3>1. 2 + 1 = 3
      OBVIOUS
    <3> QED BY <2>3, <2>4, <3>1, EmptyProduct
  <2>7. Cell(view, r.array, 0, s, j, 1) = r.array.cells[(((0 * h + s) * n + j) * 1) + 1]
    BY <2>2, <2>6 DEF Cell
  <2> QED BY <2>3, <2>5, <2>7 DEF view
<1> HIDE DEF cells, c
<1> QED BY <1>3, <1>8, <1>9

\* The dates of a window are those of the rows it was gathered from.
LEMMA DatesAreRows ==
    ASSUME NEW series, series.initial \in Instant, IsPeriod(series.resolution),
           NEW horizon, NEW plan, NEW h, NEW steps, Planned(series, plan, h, steps),
           NEW r, WindowsOf(ViewOf(series, horizon, plan), r),
           NEW j \in 0 .. (r.hi - r.lo - 1), NEW s \in 0 .. (h - 1)
    PROVE  window_timestamp(ViewOf(series, horizon, plan), r.initial, j, s)
             = add_to(series.resolution, series.initial, (r.lo + j) * steps + s)
<1> DEFINE view == ViewOf(series, horizon, plan)
           p == series.resolution
           start == series.initial
           k == r.lo + j
           x == add_to(plan.interval, start, k)
<1>1. /\ view.initial = start /\ view.resolution = p
      /\ view.interval = plan.interval /\ view.count = plan.count
  BY DEF ViewOf, Forecast
<1>2. h \in Nat \ {0} /\ plan.count \in Nat \ {0} /\ steps \in Nat
  BY DEF Planned
<1>3. r.lo \in Nat /\ r.hi \in r.lo .. plan.count
  BY <1>1 DEF WindowsOf
<1>4. j \in Nat /\ k \in Nat /\ k \in 0 .. (plan.count - 1) /\ r.lo < r.hi
  BY <1>2, <1>3
<1>5. add_to(plan.interval, r.initial, j) = x /\ x \in Instant
  <2> HIDE DEF view
  <2> QED BY <1>1, <1>4 DEF WindowsOf, view
<1>6. window_timestamp(view, r.initial, j, s) = add_to(p, x, s)
  <2> HIDE DEF x
  <2> QED BY <1>1, <1>5 DEF window_timestamp, window_start
<1>7. CASE plan.interval = zero
  <2>1. plan.count = 1 /\ steps = 0
    BY <1>7, NotZero DEF Planned
  <2>2. k = 0 /\ k * steps + s = s
    BY <1>4, <2>1
  <2>3. x = start
    BY <1>7, <2>2, ZeroStands
  <2> QED BY <1>6, <2>2, <2>3
<1>8. CASE IsPeriod(plan.interval)
  <2>1. /\ divide_into(p, plan.interval) = steps /\ steps # 0
        /\ sub_grid_is_anchorable(p, start, k * steps, h)
    BY <1>4, <1>8, NotZero DEF Planned
  <2>2. x = add_to(p, start, k * steps)
    <3>1. divide_into(p, plan.interval) # NoCount
      BY <1>2, <2>1 DEF NoCount
    <3> HIDE DEF k
    <3> QED BY <1>4, <1>8, <2>1, <3>1, Coarser
  <2>3. k * steps \in Nat /\ h \in Nat
    BY <1>2, <1>4
  <2> DEFINE offset == k * steps
  <2> HIDE DEF x, offset
  <2>4. \A i \in 0 .. (h - 1) : add_to(p, add_to(p, start, offset), i) = add_to(p, start, offset + i)
    BY <1>5, <2>1, <2>2, <2>3, AnchoredRun DEF offset
  <2> QED BY <1>6, <2>2, <2>4 DEF offset
<1>9. plan.interval = zero \/ IsPeriod(plan.interval)
  BY DEF Planned
<1> QED BY <1>7, <1>8, <1>9

-----------------------------------------------------------------------------
(* The questions about views.                                              *)

\* A question about a view is about a series of single values, and names periods and instants
\* it may have.
ViewQuestions ==
  /\ subject.type = "SingleTimeSeries" => subject \in Singles
  /\ q.kind = "view" => /\ subject.type = "SingleTimeSeries"
                        /\ q.horizon \in Grids /\ q.interval \in Grids \cup {zero}
                        /\ q.range.start \in Starts /\ q.range.end \in Starts

\* No other subject is of that type.
LEMMA ViewQuestionsAtFirst == QuestionsInit => ViewQuestions
<1> SUFFICES ASSUME QuestionsInit PROVE ViewQuestions
  OBVIOUS
<1>1. q.kind = "none"
  BY DEF QuestionsInit, Nothing
<1>2. \A s \in Irregulars : s.type # "SingleTimeSeries"
  BY DEF Irregulars, Irregular
<1>3. \A s \in BuiltForecasts : s.type # "SingleTimeSeries"
  <2>1. \A s \in Deterministics : s.type = "Deterministic"
    BY DEF Deterministics, Forecast
  <2>2. \A s \in Ensembles : s.type \in {"Probabilistic", "Scenarios"}
    BY DEF Ensembles, Forecast
  <2> QED BY <2>1, <2>2 DEF BuiltForecasts
<1>4. \A s \in Series : s.type = "SingleTimeSeries" => s \in Singles
  BY <1>2, <1>3 DEF Series
<1>5. \A s \in ForeignTables \cup Args \cup Catalogs : s.type # "SingleTimeSeries"
  BY DEF ForeignTables, Args, Catalogs
<1>6. subject.type = "SingleTimeSeries" => subject \in Singles
  BY <1>4, <1>5 DEF QuestionsInit
<1> QED BY <1>1, <1>6 DEF ViewQuestions

\* Only a transform asks about a view.
LEMMA ViewQuestionsKept == ViewQuestions /\ [QuestionsNext]_questionVars => ViewQuestions'
<1> SUFFICES ASSUME ViewQuestions, [QuestionsNext]_questionVars PROVE ViewQuestions'
  OBVIOUS
<1>1. CASE UNCHANGED questionVars
  BY <1>1 DEF questionVars, ViewQuestions
<1>2. ASSUME UNCHANGED subject, q'.kind # "view" PROVE ViewQuestions'
  BY <1>2 DEF ViewQuestions
<1> DEFINE Others == {"steps", "infer", "period", "range", "window", "text", "spell", "export",
                     "import", "values", "construct", "list", "ids", "count", "links", "add",
                     "remove", "move", "attribute"}
<1>3. \A kind \in Others : \A types, question : Ask(kind, types, question) => ViewQuestions'
  <2> SUFFICES ASSUME NEW kind \in Others, NEW types, NEW question, Ask(kind, types, question)
               PROVE  ViewQuestions'
    OBVIOUS
  <2>1. UNCHANGED subject /\ q'.kind = kind
    BY Tagging
  <2> QED BY <1>2, <2>1
<1>4. /\ {"steps", "infer", "period", "range", "window", "text", "spell"} \subseteq Others
      /\ {"export", "import", "values", "construct", "list", "ids", "count"} \subseteq Others
      /\ {"links", "add", "remove", "move", "attribute"} \subseteq Others
  OBVIOUS
<1> HIDE DEF Others
<1>5. CASE Transform
  <2>1. PICK horizon \in Grids, interval \in Grids \cup {zero}, normalize \in BOOLEAN, s \in Starts, e \in Starts :
          Ask("view", {"SingleTimeSeries"},
              [horizon |-> horizon, interval |-> interval, normalize |-> normalize,
               range |-> TimeRange(s, e, FALSE)])
    BY <1>5 DEF Transform
  <2> DEFINE question == [horizon |-> horizon, interval |-> interval, normalize |-> normalize,
                          range |-> TimeRange(s, e, FALSE)]
  <2>2. /\ subject.type \in {"SingleTimeSeries"} /\ UNCHANGED subject
        /\ q'.kind = "view"
        /\ \A x \in DOMAIN question : x # "kind" => q'[x] = question[x]
    <3>1. Ask("view", {"SingleTimeSeries"}, question)
      BY <2>1
    <3> HIDE DEF question
    <3> QED BY <3>1, Tagging
  <2>3. /\ {"horizon", "interval", "range"} \subseteq DOMAIN question
        /\ question.horizon = horizon /\ question.interval = interval
        /\ question.range = TimeRange(s, e, FALSE)
    OBVIOUS
  <2> HIDE DEF question
  <2>4. q'.horizon = horizon /\ q'.interval = interval /\ q'.range = TimeRange(s, e, FALSE)
    BY <2>2, <2>3
  <2>5. q'.range.start = s /\ q'.range.end = e
    BY <2>4 DEF TimeRange
  <2> QED BY <2>2, <2>4, <2>5 DEF ViewQuestions
<1>6. CASE AskSteps
  BY <1>3, <1>4, <1>6 DEF AskSteps
<1>7. CASE AskInfer
  BY <1>3, <1>4, <1>7 DEF AskInfer
<1>8. CASE AskPeriod
  BY <1>3, <1>4, <1>8 DEF AskPeriod
<1>9. CASE ReadRange
  BY <1>3, <1>4, <1>9 DEF ReadRange
<1>10. CASE ReadSteps
  BY <1>3, <1>4, <1>10 DEF ReadSteps
<1>11. CASE AskText
  BY <1>3, <1>4, <1>11 DEF AskText
<1>12. CASE AskSpell
  BY <1>3, <1>4, <1>12 DEF AskSpell
<1>13. CASE ExportArrow
  BY <1>3, <1>4, <1>13 DEF ExportArrow
<1>14. CASE ImportArrow
  BY <1>3, <1>4, <1>14 DEF ImportArrow
<1>15. CASE FromValues
  BY <1>3, <1>4, <1>15 DEF FromValues
<1>16. CASE ConstructForecast
  BY <1>3, <1>4, <1>16 DEF ConstructForecast
<1>17. CASE ConstructStatic
  BY <1>3, <1>4, <1>17 DEF ConstructStatic
<1>18. CASE ListRows
  BY <1>3, <1>4, <1>18 DEF ListRows
<1>19. CASE ListByIds
  BY <1>3, <1>4, <1>19 DEF ListByIds
<1>20. CASE Count
  BY <1>3, <1>4, <1>20 DEF Count
<1>21. CASE ListLinks
  BY <1>3, <1>4, <1>21 DEF ListLinks
<1>22. CASE AddLinks
  BY <1>3, <1>4, <1>22 DEF AddLinks
<1>23. CASE RemoveLinks
  BY <1>3, <1>4, <1>23 DEF RemoveLinks
<1>24. CASE MoveComponent
  BY <1>3, <1>4, <1>24 DEF MoveComponent
<1>25. CASE SetAttribute
  BY <1>3, <1>4, <1>25 DEF SetAttribute
<1>26. CASE Answer
  BY <1>2, <1>26 DEF Answer, Nothing
<1> QED
  BY <1>1, <1>5, <1>6, <1>7, <1>8, <1>9, <1>10, <1>11, <1>12, <1>13, <1>14, <1>15,
     <1>16, <1>17, <1>18, <1>19, <1>20, <1>21, <1>22, <1>23, <1>24, <1>25, <1>26 DEF QuestionsNext

\* A view that was derived and read tells each value's date.
LEMMA ViewsAnswered == ViewQuestions => ViewsTellTheTruth
<1> SUFFICES ASSUME ViewQuestions, q.kind = "view", derive(subject, q.horizon, q.interval, q.normalize).ok
             PROVE  ViewsTellTheTruth
  BY Zenon DEF ViewsTellTheTruth
<1> DEFINE plan == derive(subject, q.horizon, q.interval, q.normalize)
           view == ViewOf(subject, q.horizon, plan)
           r == ReadView(view, subject.length, q.range)
           h == compute_h(q.horizon, subject.resolution)
<1>1. subject.initial \in Starts /\ subject.resolution \in Grids /\ subject.length \in 0 .. MaxLen
  <2>1. \A x \in Singles : x.initial \in Starts /\ x.resolution \in Grids /\ x.length \in 0 .. MaxLen
    BY DEF Singles, Single
  <2> QED BY <2>1 DEF ViewQuestions
<1>2. subject.initial \in Instant /\ IsPeriod(subject.resolution) /\ subject.length \in Nat
  BY <1>1, QuestionAssumption DEF IsPeriod
<1>3. /\ IsPeriod(q.horizon)
      /\ IsPeriod(q.interval) \/ q.interval = zero
      /\ q.range.start \in Instant /\ q.range.end \in Instant
  BY QuestionAssumption DEF ViewQuestions, IsPeriod
<1>4. PICK steps : Planned(subject, plan, h, steps)
  <2>1. \E steps : Planned(subject, plan, h, steps)
    BY <1>2, <1>3, PlansDerived
  <2> QED BY <2>1
<1>5. h \in Nat \ {0} /\ plan.count \in Nat /\ steps \in Nat /\ (plan.count - 1) * steps + h <= subject.length
  <2> HIDE DEF plan, h
  <2> QED BY <1>4 DEF Planned
<1>6. \/ Declined(r, subject.resolution, subject.initial, subject.length)
      \/ r.ok /\ WindowsOf(view, r) /\ HoldsRows(r, steps, h)
  <2> HIDE DEF plan, r
  <2>1. r = ReadView(ViewOf(subject, q.horizon, plan), subject.length, q.range)
    BY DEF r
  <2> QED BY <1>2, <1>3, <1>4, <2>1, ViewsAreRead
<1>7. view.count = plan.count
  BY DEF ViewOf, Forecast
<1>8. r = Corrupt => LeavesCalendar(subject)
  <2> HIDE DEF r, h, plan
  <2>1. r = Corrupt => RunsOut(subject.resolution, subject.initial, subject.length)
    BY <1>6 DEF Declined, Refused, Corrupt
  <2>2. subject.type = "SingleTimeSeries"
    BY DEF ViewQuestions
  <2> QED BY <2>1, <2>2 DEF RunsOut, LeavesCalendar, Irregularly, Size, TimeOf
<1>9. ASSUME r.ok, NEW j \in 0 .. (r.hi - r.lo - 1), NEW s \in 0 .. (h - 1)
      PROVE  /\ Cell(view, r.array, 0, s, j, 1) \in 1 .. subject.length
             /\ window_timestamp(view, r.initial, j, s)
                  = add_to(subject.resolution, subject.initial, Cell(view, r.array, 0, s, j, 1) - 1)
  <2> DEFINE at == (r.lo + j) * steps + s
  <2>1. WindowsOf(view, r) /\ HoldsRows(r, steps, h)
    <3> HIDE DEF r
    <3> QED BY <1>6, <1>9 DEF Declined, Refused, Corrupt
  <2> HIDE DEF r, plan
  <2>2. r.lo \in Nat /\ r.hi \in r.lo .. plan.count
    <3> HIDE DEF view
    <3> QED BY <1>7, <2>1 DEF WindowsOf
  <2>3. Cell(view, r.array, 0, s, j, 1) = at + 1 /\ at + 1 \in 1 .. subject.length
    <3> HIDE DEF h
    <3>1. h = compute_h(q.horizon, subject.resolution)
      BY DEF h
    <3> QED BY <1>2, <1>5, <1>9, <2>1, <2>2, <3>1, CellsAreRows
  <2>4. window_timestamp(view, r.initial, j, s) = add_to(subject.resolution, subject.initial, at)
    <3> HIDE DEF h
    <3> QED BY <1>2, <1>4, <1>9, <2>1, DatesAreRows
  <2>5. at \in Int
    <3> HIDE DEF h
    <3> QED BY <1>5, <2>2
  <2> HIDE DEF at, view
  <2>6. (at + 1) - 1 = at
    BY <2>5
  <2> QED BY <2>3, <2>4, <2>6
<1> HIDE DEF r
<1> QED BY <1>8, <1>9, Zenon DEF ViewsTellTheTruth, r

\* Over any calendar, a forecast view derived from a series, read over any range, reports
\* values inside the series, each under the date of the row it was gathered from, and such a read
\* takes the store for corrupt only if the series itself runs past the calendar's end
\* (store.rs:700-860, 3519-3630).
THEOREM ViewsAreTruthful == QuestionsSpec => []ViewsTellTheTruth
<1>1. QuestionsInit => ViewQuestions
  BY ViewQuestionsAtFirst
<1>2. ViewQuestions /\ [QuestionsNext]_questionVars => ViewQuestions'
  BY ViewQuestionsKept
<1>3. ViewQuestions => ViewsTellTheTruth
  BY ViewsAnswered
<1> QED BY <1>1, <1>2, <1>3, PTL DEF QuestionsSpec

-----------------------------------------------------------------------------
(* Reads by time (Windows.tla): the rows a range selects.                  *)

\* Instants are numbers, and NoInstant is none of them.
LEMMA InstantsAreNaturals == Instant \subseteq Nat /\ NoInstant \notin Instant /\ NoInstant = -1
BY DayOfInstant DEF NoInstant

\* A step is past the floor exactly when the next one does not begin at or before the instant.
LEMMA FloorSplits ==
    ASSUME NEW p, IsPeriod(p), NEW start \in Instant, NEW at \in Instant, NEW k \in Nat
    PROVE  /\ floor_steps(p, start, at) \in Nat
           /\ floor_steps(p, start, at) <= k
                <=> add_to(p, start, k + 1) = NoInstant \/ add_to(p, start, k + 1) > at
<1> DEFINE top == Max(Reached(p, start, at))
           t(n) == add_to(p, start, n)
<1>1. floor_steps(p, start, at) = top
  BY FloorIsLast
<1>2. Points(p, start)
  BY GridPoints
<1>3. /\ top \in Nat
      /\ top # 0 => Lands(p, start, top, at)
      /\ \A n \in Nat : n > top => ~Lands(p, start, n, at)
  BY <1>2, LastReached
<1> HIDE DEF top
<1>4. \A n \in Nat : t(n) \in Nat \cup {-1}
  BY <1>2, InstantsAreNaturals DEF Points, NoInstant
<1>5. at \in Nat /\ NoInstant = -1
  BY DayOfInstant DEF NoInstant
<1>6. CASE top <= k
  <2>1. k + 1 \in Nat /\ k + 1 > top
    BY <1>3, <1>6
  <2>2. t(k + 1) \notin 0 .. at
    BY <1>3, <2>1 DEF Lands
  <2>3. t(k + 1) \in Nat \cup {-1}
    BY <1>4, <2>1
  <2> HIDE DEF t
  <2>4. t(k + 1) = NoInstant \/ t(k + 1) > at
    BY <1>5, <2>2, <2>3
  <2> QED BY <1>1, <1>3, <1>6, <2>4 DEF t
<1>7. CASE k < top
  <2>1. t(top) \in 0 .. at
    BY <1>3, <1>7 DEF Lands
  <2>2. t(top) # NoInstant
    BY <1>5, <2>1
  <2>3. k + 1 = top \/ (k + 1 \in 0 .. (top - 1) /\ t(k + 1) # NoInstant /\ t(k + 1) < t(top))
    <3>1. k + 1 = top \/ k + 1 \in 0 .. (top - 1)
      BY <1>3, <1>7
    <3> QED BY <1>2, <1>3, <2>2, <3>1 DEF Points
  <2>4. t(k + 1) \in Nat \cup {-1}
    BY <1>4
  <2> HIDE DEF t
  <2>5. t(k + 1) # NoInstant /\ ~(t(k + 1) > at)
    BY <1>5, <2>1, <2>2, <2>3, <2>4
  <2> QED BY <1>1, <1>3, <1>7, <2>5 DEF t
<1> QED BY <1>3, <1>6, <1>7

\* A step is before the ceiling exactly when it begins before the instant.
LEMMA CeilSplits ==
    ASSUME NEW p, IsPeriod(p), NEW start \in Instant, NEW at \in Instant, NEW k \in Nat
    PROVE  /\ ceil_steps(p, start, at) \in Nat
           /\ k < ceil_steps(p, start, at)
                <=> add_to(p, start, k) # NoInstant /\ add_to(p, start, k) < at
<1> DEFINE t(n) == add_to(p, start, n)
           final == Days * DayMs
           S == {n \in 0 .. (final + 2) : n \in Steps(p, start) => t(n) >= at}
<1>1. Points(p, start) /\ final \in Nat
  BY GridPoints, DaysAndTicks
<1>2. \A n \in Nat : t(n) \in Nat \cup {-1} /\ (t(n) # NoInstant => n <= final)
  BY <1>1, InstantsAreNaturals DEF Points, NoInstant
<1>3. at \in Nat /\ NoInstant = -1
  BY DayOfInstant DEF NoInstant
<1>4. Steps(p, start) = {n \in 0 .. (final + 1) : t(n) # NoInstant}
  BY DEF Steps
<1>5. ceil_steps(p, start, at) = Min(S)
  BY CeilIsFirst
<1> HIDE DEF final
<1>6. S \subseteq Nat /\ final + 2 \in S
  <2>1. final + 2 \notin Steps(p, start)
    BY <1>1, <1>4
  <2> QED BY <1>1, <2>1
<1>7. PICK c \in S : \A n \in S : c <= n
  <2> HIDE DEF S
  <2> QED BY <1>6, LeastNatural
<1>8. ceil_steps(p, start, at) = c
  <2> HIDE DEF S
  <2>1. S \subseteq Int
    BY <1>6
  <2> QED BY <1>5, <1>7, <2>1, MinIs
<1>9. c \in Nat /\ c <= final + 2 /\ (t(c) # NoInstant => t(c) >= at)
  <2>1. c \in 0 .. (final + 2) /\ (c \in Steps(p, start) => t(c) >= at)
    BY <1>7
  <2>2. t(c) # NoInstant => c \in Steps(p, start)
    BY <1>1, <1>2, <1>4, <2>1
  <2> QED BY <1>1, <2>1, <2>2
<1>10. CASE k < c
  <2>1. k \notin S /\ k \in 0 .. (final + 2)
    <3> HIDE DEF S
    <3> QED BY <1>1, <1>6, <1>7, <1>9, <1>10
  <2>2. k \in Steps(p, start) /\ ~(t(k) >= at)
    BY <2>1
  <2>3. t(k) \in Nat \cup {-1} /\ t(k) # NoInstant
    BY <1>2, <1>4, <2>2
  <2> HIDE DEF t
  <2>4. t(k) < at
    BY <1>3, <2>2, <2>3
  <2> QED BY <1>8, <1>9, <1>10, <2>3, <2>4 DEF t
<1>11. CASE c <= k
  <2>1. t(k) # NoInstant => k = c \/ (t(c) # NoInstant /\ t(c) < t(k))
    <3>1. k = c \/ c \in 0 .. (k - 1)
      BY <1>9, <1>11
    <3> QED BY <1>1, <3>1 DEF Points
  <2>2. t(k) \in Nat \cup {-1} /\ t(c) \in Nat \cup {-1}
    BY <1>2, <1>9
  <2> HIDE DEF t
  <2>3. ~(t(k) # NoInstant /\ t(k) < at)
    BY <1>3, <1>9, <2>1, <2>2
  <2> QED BY <1>8, <1>9, <1>11, <2>3 DEF t
<1> QED BY <1>8, <1>9, <1>10, <1>11

\* A single series' read has rows, or is declined.
LEMMA SingleDeclined ==
    ASSUME NEW f, f.initial \in Instant, IsPeriod(f.resolution), f.length \in Nat,
           NEW range, range.start \in Instant, NEW r, r = ReadSingle(f, range)
    PROVE  Declined(r, f.resolution, f.initial, f.length) \/ (r.ok /\ r # Corrupt)
<1> DEFINE floor == floor_steps(f.resolution, f.initial, range.start)
           lo == FirstStep(f, range)
           at == add_to(f.resolution, f.initial, lo)
<1>1. floor \in Nat
  <2>1. 0 \in Nat
    OBVIOUS
  <2> QED BY <2>1, FloorSplits
<1>2. lo \in 0 .. f.length
  <2>1. lo = Min({floor, f.length})
    BY DEF FirstStep
  <2> HIDE DEF floor, lo
  <2>2. floor <= f.length => Min({floor, f.length}) = floor
    BY <1>1, MinIs
  <2>3. f.length <= floor => Min({floor, f.length}) = f.length
    BY <1>1, MinIs
  <2> QED BY <1>1, <2>1, <2>2, <2>3
<1>3. \A from, to, a : Rows(from, to, a).ok /\ Rows(from, to, a) # Corrupt
  BY DEF Rows, Corrupt
<1>4. r = Refused \/ \E to : r = SliceOf(f, lo, to, at)
  <2> HIDE DEF lo
  <2> QED BY Zenon DEF ReadSingle, SliceFrom, lo
<1> HIDE DEF lo
<1>5. \A to : \/ SliceOf(f, lo, to, at) = Refused
              \/ SliceOf(f, lo, to, at) = Corrupt /\ at = NoInstant
              \/ SliceOf(f, lo, to, at) = Rows(lo, to, at)
  BY Zenon DEF SliceOf
<1>6. at = NoInstant => RunsOut(f.resolution, f.initial, f.length)
  BY <1>2 DEF RunsOut
<1> HIDE DEF at
<1> QED BY <1>3, <1>4, <1>5, <1>6, Zenon DEF Declined

\* A single series' read: the steps from the floor of the start to the ceiling of the end,
\* as the grid that starts at the first of them.
LEMMA SingleReads ==
    ASSUME NEW f, f.initial \in Instant, IsPeriod(f.resolution), f.length \in Nat,
           f.type = "SingleTimeSeries",
           NEW range, range.start \in Instant, range.end \in Instant,
           NEW r, r = ReadSingle(f, range), r.ok
    PROVE  /\ r.lo \in Nat /\ r.hi \in r.lo .. f.length
           /\ r.lo .. (r.hi - 1) = RowsAsked(f, range)
           /\ \A j \in 0 .. (r.hi - r.lo - 1) :
                 add_to(f.resolution, r.initial, j) = add_to(f.resolution, f.initial, r.lo + j)
<1> DEFINE floor == floor_steps(f.resolution, f.initial, range.start)
           ceil == ceil_steps(f.resolution, f.initial, range.end)
           lo == FirstStep(f, range)
           hi == EndStep(f, range, lo)
           at == add_to(f.resolution, f.initial, lo)
<1>1. r = SliceOf(f, lo, hi, at)
  <2> HIDE DEF lo
  <2> QED BY DEF ReadSingle, SliceFrom, Refused, lo
<1>2. floor \in Nat /\ ceil \in Nat
  <2>1. 0 \in Nat
    OBVIOUS
  <2> QED BY <2>1, FloorSplits, CeilSplits
<1>3. lo = IF floor <= f.length THEN floor ELSE f.length
  <2>1. lo = Min({floor, f.length})
    BY DEF FirstStep
  <2> HIDE DEF floor, lo
  <2>2. floor <= f.length => Min({floor, f.length}) = floor
    BY <1>2, MinIs
  <2>3. f.length <= floor => Min({floor, f.length}) = f.length
    BY <1>2, MinIs
  <2> QED BY <1>2, <2>1, <2>2, <2>3
<1> DEFINE cut == IF ceil <= f.length THEN ceil ELSE f.length
<1>4. hi = IF cut >= lo THEN cut ELSE lo
  <2>1. hi = Max({Min({ceil, f.length}), lo})
    BY DEF EndStep
  <2> HIDE DEF ceil, lo, hi
  <2>2. ceil <= f.length => Min({ceil, f.length}) = ceil
    BY <1>2, MinIs
  <2>3. f.length <= ceil => Min({ceil, f.length}) = f.length
    BY <1>2, MinIs
  <2>4. Min({ceil, f.length}) = cut /\ cut \in Nat /\ lo \in Nat
    BY <1>2, <1>3, <2>2, <2>3
  <2> HIDE DEF cut
  <2>5. cut >= lo => Max({cut, lo}) = cut
    BY <2>4, MaxIs
  <2>6. lo >= cut => Max({cut, lo}) = lo
    BY <2>4, MaxIs
  <2> QED BY <2>1, <2>4, <2>5, <2>6
<1> HIDE DEF lo, hi, floor, ceil
<1>5. lo \in Nat /\ hi \in lo .. f.length /\ hi - lo \in Nat
  BY <1>2, <1>3, <1>4
<1>6. /\ at # NoInstant /\ sub_grid_is_anchorable(f.resolution, f.initial, lo, hi - lo)
      /\ r = Rows(lo, hi, at)
  <2> HIDE DEF at
  <2> QED BY <1>1 DEF SliceOf, Refused, Corrupt
<1>7. r.lo = lo /\ r.hi = hi /\ r.initial = at
  BY <1>6 DEF Rows
<1>8. at \in Instant
  BY <1>5, <1>6, GridPoints DEF Points
<1>9. \A j \in 0 .. (hi - lo - 1) : add_to(f.resolution, at, j) = add_to(f.resolution, f.initial, lo + j)
  BY <1>5, <1>6, <1>8, AnchoredRun
<1>10. RowsAsked(f, range) = {k \in 0 .. (f.length - 1) : k < ceil /\ floor <= k}
  <2> DEFINE t(k) == add_to(f.resolution, f.initial, k)
  <2>1. \A k : TimeOf(f, k) = t(k)
    BY DEF TimeOf
  <2>2. Size(f) = f.length
    BY DEF Size
  <2>3. RowsAsked(f, range) = {k \in 0 .. (f.length - 1) :
            /\ t(k) # NoInstant /\ t(k) < range.end
            /\ t(k + 1) = NoInstant \/ t(k + 1) > range.start}
    BY <2>1, <2>2 DEF RowsAsked
  <2>4. \A k \in Nat : k < ceil <=> t(k) # NoInstant /\ t(k) < range.end
    BY CeilSplits DEF ceil
  <2>5. \A k \in Nat : floor <= k <=> t(k + 1) = NoInstant \/ t(k + 1) > range.start
    BY FloorSplits DEF floor
  <2>6. \A k \in 0 .. (f.length - 1) : k \in Nat
    OBVIOUS
  <2> HIDE DEF t
  <2> QED BY <2>3, <2>4, <2>5, <2>6
<1>11. lo .. (hi - 1) = {k \in 0 .. (f.length - 1) : k < ceil /\ floor <= k}
  BY <1>2, <1>3, <1>4
<1> HIDE DEF at
<1> QED BY <1>5, <1>7, <1>9, <1>10, <1>11

\* A vector of instants, each later than the one before.
Rising(ts, n) == n \in Nat /\ ts \in [1 .. n -> Int] /\ Increasing(ts)

\* Each is then later than all before.
LEMMA RisingOrder ==
    ASSUME NEW n, NEW ts, Rising(ts, n)
    PROVE  \A i, j \in 1 .. n : i < j => ts[i] < ts[j]
<1> DEFINE Bad(i) == {j \in 1 .. n : i < j /\ ~(ts[i] < ts[j])}
<1>1. n \in Nat /\ ts \in [1 .. n -> Int] /\ Len(ts) = n /\ \A i \in 1 .. (n - 1) : ts[i] < ts[i + 1]
  BY DEF Rising, Increasing
<1>2. SUFFICES ASSUME NEW i \in 1 .. n, Bad(i) # {} PROVE FALSE
  OBVIOUS
<1>3. Bad(i) \subseteq Nat
  OBVIOUS
<1>4. PICK j \in Bad(i) : \A m \in Bad(i) : j <= m
  <2> HIDE DEF Bad
  <2> QED BY <1>2, <1>3, LeastNatural
<1>5. j \in 1 .. n /\ i < j /\ ~(ts[i] < ts[j])
  BY <1>4
<1>6. j - 1 \in 1 .. (n - 1) /\ (j - 1) + 1 = j /\ (i = j - 1 \/ i < j - 1)
  BY <1>1, <1>5
<1>7. ts[j - 1] < ts[j]
  BY <1>1, <1>6
<1>8. j - 1 \notin Bad(i)
  <2> HIDE DEF Bad
  <2> QED BY <1>4, <1>5, <1>6
<1>9. i = j - 1 \/ ts[i] < ts[j - 1]
  BY <1>1, <1>6, <1>8
<1>10. ts[i] \in Int /\ ts[j] \in Int /\ ts[j - 1] \in Int
  BY <1>1, <1>5, <1>6
<1> QED BY <1>5, <1>7, <1>9, <1>10

\* A set of positions that holds every one before each of its own is a first stretch.
LEMMA FirstStretch ==
    ASSUME NEW n \in Nat, NEW S, S \subseteq 1 .. n, \A i \in S : \A j \in 1 .. n : j < i => j \in S
    PROVE  Cardinality(S) \in 0 .. n /\ \A i \in 1 .. n : i \in S <=> i <= Cardinality(S)
<1>1. CASE S = {}
  <2>1. Cardinality(S) = 0
    BY <1>1, FS_EmptySet
  <2> QED BY <1>1, <2>1
<1>2. CASE S # {}
  <2>1. S \subseteq Nat /\ \A x \in S : x <= n
    OBVIOUS
  <2>2. PICK m \in S : \A x \in S : m >= x
    BY <1>2, <2>1, GreatestNatural
  <2>3. S = 1 .. m
    <3>1. m \in 1 .. n /\ \A x \in S : x \in 1 .. n /\ x <= m
      BY <2>2
    <3>2. ASSUME NEW x \in 1 .. m PROVE x \in S
      <4>1. x \in 1 .. n /\ (x = m \/ x < m)
        BY <3>1
      <4> QED BY <2>2, <4>1
    <3>3. \A x \in S : x \in 1 .. m
      BY <3>1
    <3> QED BY <3>2, <3>3
  <2>4. Cardinality(1 .. m) = m
    BY <2>1, <2>2, FS_Interval
  <2> QED BY <2>1, <2>3, <2>4
<1> QED BY <1>1, <1>2

\* The instants before x are the first Before(ts, x) of them.
LEMMA BeforeSplits ==
    ASSUME NEW n, NEW ts, Rising(ts, n), NEW x \in Int
    PROVE  Before(ts, x) \in 0 .. n /\ \A i \in 1 .. n : ts[i] < x <=> i <= Before(ts, x)
<1> DEFINE S == {i \in 1 .. n : ts[i] < x}
<1>1. n \in Nat /\ ts \in [1 .. n -> Int] /\ DOMAIN ts = 1 .. n
  BY DEF Rising
<1>2. Before(ts, x) = Cardinality(S)
  BY <1>1 DEF Before
<1>3. \A i \in S : \A j \in 1 .. n : j < i => j \in S
  <2> SUFFICES ASSUME NEW i \in S, NEW j \in 1 .. n, j < i PROVE ts[j] < x
    OBVIOUS
  <2>1. ts[j] < ts[i] /\ ts[j] \in Int /\ ts[i] \in Int /\ ts[i] < x
    BY <1>1, RisingOrder
  <2> QED BY <2>1
<1>4. S \subseteq 1 .. n /\ \A i \in 1 .. n : i \in S <=> ts[i] < x
  OBVIOUS
<1> HIDE DEF S
<1>5. Cardinality(S) \in 0 .. n /\ \A i \in 1 .. n : i \in S <=> i <= Cardinality(S)
  BY <1>1, <1>3, <1>4, FirstStretch
<1> QED BY <1>2, <1>4, <1>5

\* index_at is the last of the instants at or before x, counted from zero.
LEMMA IndexSplits ==
    ASSUME NEW n, NEW ts, Rising(ts, n), NEW x \in Int
    PROVE  index_at(ts, x) \in -1 .. (n - 1) /\ \A i \in 1 .. n : ts[i] <= x <=> i <= index_at(ts, x) + 1
<1>1. n \in Nat /\ ts \in [1 .. n -> Int] /\ DOMAIN ts = 1 .. n
  BY DEF Rising
<1>2. \A i \in 1 .. n : ts[i] <= x <=> ts[i] < x + 1
  BY <1>1
<1>3. {i \in DOMAIN ts : ts[i] <= x} = {i \in DOMAIN ts : ts[i] < x + 1}
  BY <1>1, <1>2
<1>4. index_at(ts, x) = Before(ts, x + 1) - 1
  BY <1>3 DEF index_at, Before
<1>5. Before(ts, x + 1) \in 0 .. n /\ \A i \in 1 .. n : ts[i] < x + 1 <=> i <= Before(ts, x + 1)
  <2>1. x + 1 \in Int
    OBVIOUS
  <2> QED BY <2>1, BeforeSplits
<1>6. index_at(ts, x) + 1 = Before(ts, x + 1) /\ index_at(ts, x) \in -1 .. (n - 1)
  BY <1>1, <1>4, <1>5
<1> QED BY <1>2, <1>5, <1>6

\* An irregular series has a value at its instants only: a read selects those from the
\* range's start to before its end.
LEMMA NonSequentialReads ==
    ASSUME NEW f, NEW n, Rising(f.timestamps, n), f.type = "NonSequentialTimeSeries",
           NoInstant \notin {f.timestamps[i] : i \in 1 .. n},
           NEW range, range.start \in Int, range.end \in Int,
           NEW r, r = ReadNonSequential(f, range), r.ok
    PROVE  r.lo .. (r.hi - 1) = RowsAsked(f, range)
<1> DEFINE ts == f.timestamps
           a == Before(ts, range.start)
           b == Before(ts, range.end)
<1>1. n \in Nat /\ Len(ts) = n /\ Size(f) = n
  BY DEF Rising, Size
<1>2. r = Rows(a, b, range.start)
  BY DEF ReadNonSequential, Refused
<1>3. r.lo = a /\ r.hi = b
  BY <1>2 DEF Rows
<1>4. \A k : TimeOf(f, k) = ts[k + 1]
  BY DEF TimeOf
<1>5. /\ a \in 0 .. n /\ \A i \in 1 .. n : ts[i] < range.start <=> i <= a
      /\ b \in 0 .. n /\ \A i \in 1 .. n : ts[i] < range.end <=> i <= b
  BY BeforeSplits
<1> HIDE DEF a, b, ts
<1>6. \A k \in 0 .. (n - 1) : /\ k + 1 \in 1 .. n /\ ts[k + 1] \in Int /\ ts[k + 1] # NoInstant
  <2>1. ts \in [1 .. n -> Int]
    BY DEF Rising, ts
  <2>2. \A i \in 1 .. n : ts[i] # NoInstant
    BY DEF ts
  <2> QED BY <1>1, <2>1, <2>2
<1>7. RowsAsked(f, range) = {k \in 0 .. (n - 1) :
        /\ ts[k + 1] # NoInstant /\ ts[k + 1] < range.end /\ ts[k + 1] >= range.start}
  BY <1>1, <1>4 DEF RowsAsked
<1>8. \A k \in 0 .. (n - 1) :
         (ts[k + 1] # NoInstant /\ ts[k + 1] < range.end /\ ts[k + 1] >= range.start)
            <=> (a <= k /\ k < b)
  BY <1>5, <1>6
<1>9. a .. (b - 1) = {k \in 0 .. (n - 1) : a <= k /\ k < b}
  BY <1>1, <1>5
<1> QED BY <1>3, <1>7, <1>8, <1>9

\* A piece of a sequence, by its positions.
LEMMA CutIs ==
    ASSUME NEW S, NEW ts \in Seq(S), NEW a \in 1 .. (Len(ts) + 1), NEW b \in (a - 1) .. Len(ts),
           NEW m \in Nat, m = b - a + 1
    PROVE  /\ SubSeq(ts, a, b) = [i \in 1 .. m |-> ts[a + i - 1]] /\ Len(SubSeq(ts, a, b)) = m
           /\ SubSeq(ts, a, b) \in Seq(S)
<1>1. a \in Nat /\ b \in Nat /\ Len(ts) \in Nat
  OBVIOUS
<1>2. SubSeq(ts, a, b) = [i \in 1 .. m |-> ts[a + i - 1]] /\ Len(SubSeq(ts, a, b)) = m
  BY <1>1
<1>3. \A i \in 1 .. m : ts[a + i - 1] \in S
  <2> SUFFICES ASSUME NEW i \in 1 .. m PROVE ts[a + i - 1] \in S
    OBVIOUS
  <2> DEFINE k == a + i - 1
  <2>1. k \in 1 .. Len(ts)
    BY <1>1
  <2> HIDE DEF k
  <2>2. ts[k] \in S
    BY <2>1
  <2> QED BY <2>2 DEF k
<1>4. [i \in 1 .. m |-> ts[a + i - 1]] \in Seq(S)
  BY <1>3
<1> QED BY <1>2, <1>4

\* A step function has a value from its first instant on: a read selects the one in force at
\* the range's start and those up to its end, and they have the values they had.
LEMMA PersistentReads ==
    ASSUME NEW f, NEW n, Rising(f.timestamps, n), f.type = "PersistentTimeSeries",
           NoInstant \notin {f.timestamps[i] : i \in 1 .. n},
           NEW range, range.start \in Int, range.end \in Int,
           NEW r, r = ReadPersistent(f, range), r.ok
    PROVE  /\ range.start < range.end => r.lo .. (r.hi - 1) = RowsAsked(f, range)
           /\ \A t \in Int : range.start <= t /\ t < range.end =>
                 row_at(SubSeq(f.timestamps, r.lo + 1, r.hi), t) + r.lo = row_at(f.timestamps, t)
<1> DEFINE ts == f.timestamps
           a == index_at(ts, range.start)
           b == Before(ts, range.end)
<1>1. n \in Nat /\ ts \in [1 .. n -> Int] /\ Len(ts) = n /\ Size(f) = n
  BY DEF Rising, Size
<1>2. SUFFICES ASSUME range.start < range.end
               PROVE  /\ r.lo .. (r.hi - 1) = RowsAsked(f, range)
                      /\ \A t \in Int : range.start <= t /\ t < range.end =>
                           row_at(SubSeq(ts, r.lo + 1, r.hi), t) + r.lo = row_at(ts, t)
  OBVIOUS
<1>3. r = Rows(a, b, range.start) /\ ~(a < 0)
  BY <1>2 DEF ReadPersistent, Refused
<1>4. r.lo = a /\ r.hi = b
  BY <1>3 DEF Rows
<1>5. \A k : TimeOf(f, k) = ts[k + 1]
  BY DEF TimeOf
<1>6. /\ a \in -1 .. (n - 1) /\ \A i \in 1 .. n : ts[i] <= range.start <=> i <= a + 1
      /\ b \in 0 .. n /\ \A i \in 1 .. n : ts[i] < range.end <=> i <= b
  BY IndexSplits, BeforeSplits
<1>7. a \in Int /\ b \in Int
  BY <1>1, <1>6
<1>8. \A i \in 1 .. n : ts[i] \in Int /\ ts[i] # NoInstant
  BY <1>1
<1> HIDE DEF a, b, ts
<1>9. RowsAsked(f, range) = {k \in 0 .. (n - 1) :
        /\ ts[k + 1] # NoInstant /\ ts[k + 1] < range.end
        /\ k = n - 1 \/ ts[k + 1 + 1] = NoInstant \/ ts[k + 1 + 1] > range.start}
  <2>1. RowsAsked(f, range) = {k \in 0 .. (n - 1) :
          /\ TimeOf(f, k) # NoInstant /\ TimeOf(f, k) < range.end
          /\ k = n - 1 \/ TimeOf(f, k + 1) = NoInstant \/ TimeOf(f, k + 1) > range.start}
    BY <1>1 DEF RowsAsked
  <2> QED BY <1>5, <2>1
<1>10. ASSUME NEW k \in 0 .. (n - 1)
       PROVE  /\ ts[k + 1] # NoInstant /\ ts[k + 1] < range.end
              /\ k = n - 1 \/ ts[k + 1 + 1] = NoInstant \/ ts[k + 1 + 1] > range.start
              <=> a <= k /\ k < b
  BY <1>1, <1>3, <1>6, <1>7, <1>8
<1>11. a .. (b - 1) = {k \in 0 .. (n - 1) : a <= k /\ k < b}
  BY <1>1, <1>3, <1>6, <1>7
<1>12. ASSUME NEW t \in Int, range.start <= t, t < range.end
       PROVE  row_at(SubSeq(ts, a + 1, b), t) + a = row_at(ts, t)
  <2> DEFINE s == SubSeq(ts, a + 1, b)
             m == b - a
             c == index_at(ts, t)
             d == index_at(s, t)
  <2>1. c \in -1 .. (n - 1) /\ \A i \in 1 .. n : ts[i] <= t <=> i <= c + 1
    BY IndexSplits DEF ts
  <2>2. c \in Int
    BY <2>1, <1>1
  <2>3. a \in Nat /\ a + 1 <= b /\ m \in Nat
    <3>1. a \in Nat /\ a + 1 \in 1 .. n
      BY <1>1, <1>3, <1>6, <1>7
    <3>2. ts[a + 1] <= range.start
      BY <1>6, <3>1
    <3>3. ts[a + 1] < range.end
      BY <1>2, <1>8, <3>1, <3>2
    <3>4. a + 1 <= b
      BY <1>6, <3>1, <3>3
    <3> QED BY <1>7, <3>1, <3>4
  <2>4. Len(s) = m /\ s = [i \in 1 .. m |-> ts[a + i]]
    <3>1. ts \in Seq(Int) /\ a + 1 \in 1 .. n /\ b \in 1 .. n /\ Len(ts) = n
      BY <1>1, <1>6, <2>3
    <3>2. b - (a + 1) + 1 = m
      BY <1>7
    <3>3. Len(s) = m /\ s = [i \in 1 .. m |-> ts[(a + 1) + i - 1]]
      BY <1>7, <2>3, <3>1, <3>2, CutIs
    <3>4. \A i \in 1 .. m : (a + 1) + i - 1 = a + i
      BY <2>3
    <3> HIDE DEF s
    <3>5. [i \in 1 .. m |-> ts[(a + 1) + i - 1]] = [i \in 1 .. m |-> ts[a + i]]
      BY <3>4
    <3> QED BY <3>3, <3>5
  <2>5. \A i \in 1 .. m : a + i \in 1 .. n /\ s[i] = ts[a + i]
    BY <1>1, <1>6, <1>7, <2>3, <2>4
  <2> HIDE DEF s
  <2>6. Rising(s, m)
    <3>1. s \in [1 .. m -> Int]
      BY <1>8, <2>4, <2>5
    <3>2. ASSUME NEW i \in 1 .. (m - 1) PROVE s[i] < s[i + 1]
      <4>1. i \in 1 .. m /\ i + 1 \in 1 .. m
        BY <2>3
      <4>2. s[i] = ts[a + i] /\ s[i + 1] = ts[a + (i + 1)]
        BY <2>5, <4>1
      <4>3. a + i \in 1 .. (n - 1) /\ a + (i + 1) = (a + i) + 1
        BY <1>1, <1>6, <2>3, <4>1
      <4>4. ts[a + i] < ts[(a + i) + 1]
        BY <1>1, <4>3 DEF Rising, Increasing, ts
      <4> QED BY <4>2, <4>3, <4>4
    <3> QED BY <2>3, <2>4, <3>1, <3>2 DEF Rising, Increasing
  <2>7. /\ d \in -1 .. (m - 1) /\ \A i \in 1 .. m : s[i] <= t <=> i <= d + 1
        /\ d \in Int /\ d + 1 \in 0 .. m
    BY <2>3, <2>6, IndexSplits
  <2> HIDE DEF c, d
  <2>8. a + 1 <= c + 1 /\ c + 1 <= b
    <3>1. a + 1 \in 1 .. n /\ ts[a + 1] <= range.start /\ ts[a + 1] \in Int
      BY <1>1, <1>6, <1>7, <1>8, <2>3
    <3>2. a + 1 <= c + 1
      BY <1>12, <2>1, <3>1
    <3>3. c + 1 \in 1 .. n /\ ts[c + 1] <= t /\ ts[c + 1] \in Int
      BY <1>1, <1>8, <2>1, <2>2, <2>3, <3>2
    <3>4. c + 1 <= b
      BY <1>6, <1>12, <3>3
    <3> QED BY <3>2, <3>4
  <2>9. c - a + 1 <= d + 1
    <3>1. c - a + 1 \in 1 .. m /\ a + (c - a + 1) = c + 1
      BY <2>2, <2>3, <2>8, <1>6
    <3>2. ts[c + 1] <= t
      <4>1. c + 1 \in 1 .. n /\ c + 1 <= c + 1
        BY <1>1, <1>6, <1>7, <2>2, <2>3, <2>8
      <4> QED BY <2>1, <4>1
    <3> QED BY <2>5, <2>7, <3>1, <3>2
  <2>10. d + 1 <= c - a + 1
    <3>1. CASE d + 1 = 0
      BY <2>2, <2>3, <2>8, <3>1
    <3>2. CASE d + 1 # 0
      <4>1. d + 1 \in 1 .. m
        BY <2>7, <3>2
      <4>2. s[d + 1] <= t
        BY <2>2, <2>7, <4>1
      <4>3. a + (d + 1) <= c + 1
        <5>1. a + (d + 1) \in 1 .. n /\ ts[a + (d + 1)] <= t
          BY <2>5, <4>1, <4>2
        <5> QED BY <2>1, <5>1
      <4>4. d \in Int /\ a \in Int /\ c \in Int
        BY <1>7, <2>2, <2>7
      <4> QED BY <4>3, <4>4
    <3> QED BY <3>1, <3>2
  <2>11. d + a = c
    BY <1>7, <2>2, <2>7, <2>9, <2>10
  <2> QED BY <2>11 DEF row_at, c, d, s
<1> QED BY <1>4, <1>9, <1>10, <1>11, <1>12

-----------------------------------------------------------------------------
(* Arrays: the product of their axes, and the runs they are read by.       *)

\* The products of the first axes, as their recursion has them.
ProductsOf(dims, n, f) == [i \in 0 .. n |-> IF i = 0 THEN 1 ELSE f[i - 1] * dims[i]]

\* There are such products, however many axes.
LEMMA ProductsUnfold ==
    ASSUME NEW dims, NEW axes \in Nat
    PROVE  \E f : f = ProductsOf(dims, axes, f)
<1> DEFINE Bad == {n \in Nat : ~\E f : f = ProductsOf(dims, n, f)}
<1>1. \E f : f = ProductsOf(dims, 0, f)
  <2> DEFINE f == [n \in 0 .. 0 |-> 1]
  <2>1. f = ProductsOf(dims, 0, f)
    BY DEF ProductsOf
  <2> QED BY <2>1
<1>2. ASSUME NEW n \in Nat, NEW f, f = ProductsOf(dims, n, f)
      PROVE  \E g : g = ProductsOf(dims, n + 1, g)
  <2> DEFINE g == ProductsOf(dims, n + 1, f)
  <2>1. \A m \in 0 .. n : g[m] = f[m]
    <3> SUFFICES ASSUME NEW m \in 0 .. n PROVE g[m] = f[m]
      OBVIOUS
    <3>1. f[m] = ProductsOf(dims, n, f)[m]
      BY <1>2
    <3>2. m \in 0 .. (n + 1)
      OBVIOUS
    <3> QED BY <3>1, <3>2 DEF ProductsOf
  <2> HIDE DEF g
  <2>2. ProductsOf(dims, n + 1, f) = ProductsOf(dims, n + 1, g)
    <3>1. \A m \in 0 .. (n + 1) : m # 0 => f[m - 1] = g[m - 1]
      <4> SUFFICES ASSUME NEW m \in 0 .. (n + 1), m # 0 PROVE f[m - 1] = g[m - 1]
        OBVIOUS
      <4>1. m - 1 \in 0 .. n
        OBVIOUS
      <4> QED BY <2>1, <4>1
    <3> QED BY <3>1 DEF ProductsOf
  <2> QED BY <2>2 DEF g
<1>3. Bad = {}
  <2> SUFFICES ASSUME Bad # {} PROVE FALSE
    OBVIOUS
  <2>1. PICK n \in Bad : \A m \in Bad : n <= m
    BY LeastNatural
  <2>2. n # 0
    BY <1>1, <2>1
  <2>3. n - 1 \in Nat /\ n - 1 \notin Bad /\ (n - 1) + 1 = n
    BY <2>1, <2>2
  <2>4. PICK f : f = ProductsOf(dims, n - 1, f)
    BY <2>3
  <2>5. \E g : g = ProductsOf(dims, (n - 1) + 1, g)
    BY <1>2, <2>3, <2>4
  <2> QED BY <2>1, <2>3, <2>5
<1> QED BY <1>3

\* The product of the axes is such a product.
LEMMA ProductIs ==
    ASSUME NEW dims \in Seq(Nat)
    PROVE  \E f : f = ProductsOf(dims, Len(dims), f) /\ Product(dims) = f[Len(dims)]
<1> DEFINE f == CHOOSE f : f = ProductsOf(dims, Len(dims), f)
<1>1. Len(dims) \in Nat
  OBVIOUS
<1>2. f = ProductsOf(dims, Len(dims), f)
  BY <1>1, ProductsUnfold
<1>3. Product(dims) = f[Len(dims)]
  BY DEF Product, ProductsOf
<1> HIDE DEF f
<1> QED BY <1>2, <1>3

\* Products of the first axes depend on those axes only.
LEMMA ProductsAgree ==
    ASSUME NEW n \in Nat, NEW m \in n .. (n + 1), NEW s \in Seq(Nat), Len(s) = n, NEW t \in Seq(Nat), Len(t) = m,
           \A i \in 1 .. n : s[i] = t[i],
           NEW f, f = ProductsOf(s, n, f), NEW g, g = ProductsOf(t, m, g)
    PROVE  \A i \in 0 .. n : f[i] = g[i] /\ f[i] \in Nat
<1> DEFINE Bad == {i \in 0 .. n : ~(f[i] = g[i] /\ f[i] \in Nat)}
<1>1. ASSUME NEW i \in 0 .. n
      PROVE  /\ f[i] = IF i = 0 THEN 1 ELSE f[i - 1] * s[i]
             /\ g[i] = IF i = 0 THEN 1 ELSE g[i - 1] * t[i]
  <2>1. i \in 0 .. m
    OBVIOUS
  <2>2. f[i] = ProductsOf(s, n, f)[i] /\ g[i] = ProductsOf(t, m, g)[i]
    OBVIOUS
  <2> QED BY <2>1, <2>2 DEF ProductsOf
<1>2. SUFFICES ASSUME Bad # {} PROVE FALSE
  OBVIOUS
<1>3. Bad \subseteq Nat
  OBVIOUS
<1>4. PICK i \in Bad : \A j \in Bad : i <= j
  <2> HIDE DEF Bad
  <2> QED BY <1>2, <1>3, LeastNatural
<1>5. i # 0
  BY <1>1, <1>4
<1>6. i - 1 \in 0 .. n /\ i \in 1 .. n /\ i - 1 \notin Bad
  <2>1. i \in 0 .. n
    BY <1>4
  <2> HIDE DEF Bad
  <2> QED BY <1>4, <1>5, <2>1
<1>7. f[i - 1] = g[i - 1] /\ f[i - 1] \in Nat
  BY <1>6
<1>8. s[i] = t[i] /\ s[i] \in Nat
  BY <1>6
<1>9. f[i] = f[i - 1] * s[i] /\ g[i] = g[i - 1] * t[i]
  BY <1>1, <1>5, <1>6
<1> QED BY <1>4, <1>7, <1>8, <1>9

\* A product is a number, and one more axis multiplies it.
LEMMA ProductGrows ==
    ASSUME NEW n \in Nat, NEW s \in Seq(Nat), Len(s) = n, NEW t \in Seq(Nat), Len(t) = n + 1,
           \A i \in 1 .. n : s[i] = t[i]
    PROVE  Product(s) \in Nat /\ Product(t) = Product(s) * t[n + 1]
<1>1. PICK f : f = ProductsOf(s, n, f) /\ Product(s) = f[n]
  BY ProductIs
<1>2. PICK g : g = ProductsOf(t, n + 1, g) /\ Product(t) = g[n + 1]
  BY ProductIs
<1>3. \A i \in 0 .. n : f[i] = g[i] /\ f[i] \in Nat
  BY <1>1, <1>2, ProductsAgree
<1>4. g[n + 1] = g[n] * t[n + 1]
  <2>1. n + 1 \in 0 .. (n + 1) /\ n + 1 # 0 /\ (n + 1) - 1 = n
    OBVIOUS
  <2>2. g[n + 1] = ProductsOf(t, n + 1, g)[n + 1]
    BY <1>2
  <2> QED BY <2>1, <2>2 DEF ProductsOf
<1> QED BY <1>1, <1>2, <1>3, <1>4

\* A product is a number.
LEMMA ProductIsNatural ==
    ASSUME NEW s \in Seq(Nat)
    PROVE  Product(s) \in Nat
<1> DEFINE n == Len(s)
<1>1. PICK f : f = ProductsOf(s, n, f) /\ Product(s) = f[n]
  BY ProductIs
<1>2. n \in Nat /\ n \in n .. (n + 1) /\ n \in 0 .. n
  OBVIOUS
<1> HIDE DEF n
<1>3. \A i \in 0 .. n : f[i] = f[i] /\ f[i] \in Nat
  BY <1>1, <1>2, ProductsAgree DEF n
<1> QED BY <1>1, <1>2, <1>3

\* The last of a run of axes multiplies the product of those before it.
LEMMA ProductStep ==
    ASSUME NEW s \in Seq(Nat), NEW a \in 1 .. Len(s), NEW b \in a .. Len(s)
    PROVE  Product(SubSeq(s, a, b)) = Product(SubSeq(s, a, b - 1)) * s[b]
<1> DEFINE x == SubSeq(s, a, b - 1)
           y == SubSeq(s, a, b)
           n == b - a
<1>1. /\ a \in Nat /\ b \in Nat /\ n \in Nat /\ n = (b - 1) - a + 1 /\ n + 1 = b - a + 1 /\ n + 1 \in Nat
      /\ b \in (a - 1) .. Len(s) /\ b - 1 \in (a - 1) .. Len(s) /\ a + (n + 1) - 1 = b
  OBVIOUS
<1> HIDE DEF n
<1>2. x = [i \in 1 .. n |-> s[a + i - 1]] /\ Len(x) = n
  BY <1>1, CutIs
<1>3. y = [i \in 1 .. (n + 1) |-> s[a + i - 1]] /\ Len(y) = n + 1
  BY <1>1, CutIs
<1>4. x \in Seq(Nat) /\ y \in Seq(Nat)
  BY <1>1
<1> HIDE DEF x, y
<1>5. \A i \in 1 .. n : x[i] = y[i]
  BY <1>1, <1>2, <1>3
<1>6. y[n + 1] = s[b]
  <2>1. n + 1 \in 1 .. (n + 1)
    BY <1>1
  <2> QED BY <1>1, <1>3, <2>1
<1>7. Product(y) = Product(x) * y[n + 1]
  BY <1>1, <1>2, <1>3, <1>4, <1>5, ProductGrows
<1> QED BY <1>6, <1>7 DEF x, y

\* The product of all axes is that of those before one, of it, and of those after it.
LEMMA ProductSplits ==
    ASSUME NEW s \in Seq(Nat), NEW d \in 1 .. Len(s)
    PROVE  /\ Product(SubSeq(s, 1, d - 1)) \in Nat /\ s[d] \in Nat /\ Product(SubSeq(s, d + 1, Len(s))) \in Nat
           /\ Product(s) = (Product(SubSeq(s, 1, d - 1)) * s[d]) * Product(SubSeq(s, d + 1, Len(s)))
<1> DEFINE n == Len(s)
           A == Product(SubSeq(s, 1, d - 1))
           upTo(k) == Product(SubSeq(s, 1, k))
           after(k) == Product(SubSeq(s, d + 1, k))
           Bad == {k \in d .. n : upTo(k) # (A * s[d]) * after(k)}
<1>1. n \in Nat /\ d \in Nat /\ d \in d .. n /\ s[d] \in Nat /\ 1 \in 1 .. n
  OBVIOUS
<1>2. A \in Nat
  <2>1. SubSeq(s, 1, d - 1) \in Seq(Nat)
    BY <1>1
  <2> HIDE DEF A
  <2> QED BY <2>1, ProductIsNatural DEF A
<1>3. \A k \in d .. n : after(k) \in Nat
  <2> SUFFICES ASSUME NEW k \in d .. n PROVE after(k) \in Nat
    OBVIOUS
  <2>1. SubSeq(s, d + 1, k) \in Seq(Nat)
    BY <1>1
  <2> QED BY <2>1, ProductIsNatural
<1>4. SubSeq(s, 1, n) = s
  BY <1>1
<1>5. upTo(d) = A * s[d] /\ after(d) = 1
  <2>1. SubSeq(s, d + 1, d) = <<>>
    BY <1>1
  <2>2. upTo(d) = Product(SubSeq(s, 1, d - 1)) * s[d]
    BY <1>1, ProductStep
  <2> QED BY <2>1, <2>2, EmptyProduct
<1>6. \A k \in (d + 1) .. n : upTo(k) = upTo(k - 1) * s[k] /\ after(k) = after(k - 1) * s[k]
  <2> SUFFICES ASSUME NEW k \in (d + 1) .. n
               PROVE  upTo(k) = upTo(k - 1) * s[k] /\ after(k) = after(k - 1) * s[k]
    OBVIOUS
  <2>1. d + 1 \in 1 .. n /\ k \in 1 .. n
    BY <1>1
  <2> QED BY <1>1, <2>1, ProductStep
<1> HIDE DEF A, upTo, after
<1>7. Bad = {}
  <2> SUFFICES ASSUME Bad # {} PROVE FALSE
    OBVIOUS
  <2>1. Bad \subseteq Nat
    BY <1>1
  <2>2. PICK k \in Bad : \A j \in Bad : k <= j
    <3> HIDE DEF Bad
    <3> QED BY <2>1, LeastNatural
  <2>3. k # d
    <3>1. upTo(d) = (A * s[d]) * after(d)
      <4> DEFINE x == A * s[d]
      <4>1. x \in Nat
        BY <1>1, <1>2
      <4> HIDE DEF x
      <4> QED BY <1>5, <4>1 DEF x
    <3> QED BY <2>2, <3>1
  <2>4. k \in (d + 1) .. n /\ k - 1 \in d .. n /\ k - 1 \notin Bad
    <3>1. k \in d .. n
      BY <2>2
    <3>2. k \in (d + 1) .. n /\ k - 1 \in d .. n /\ ~(k <= k - 1)
      BY <1>1, <2>3, <3>1
    <3> HIDE DEF Bad
    <3> QED BY <2>2, <3>2
  <2>5. upTo(k - 1) = (A * s[d]) * after(k - 1)
    BY <2>4
  <2> DEFINE x == A * s[d]
             y == after(k - 1)
             z == s[k]
  <2>6. x \in Nat /\ y \in Nat /\ z \in Nat
    <3>1. z \in Nat
      <4>1. k \in 1 .. n
        BY <1>1, <2>4
      <4> QED BY <4>1
    <3>2. y \in Nat
      BY <1>3, <2>4
    <3>3. x \in Nat
      BY <1>1, <1>2
    <3> QED BY <3>1, <3>2, <3>3
  <2>7. (x * y) * z = x * (y * z)
    <3> HIDE DEF x, y, z
    <3> QED BY <2>6
  <2> QED BY <1>6, <2>2, <2>4, <2>5, <2>7
<1>8. upTo(n) = (A * s[d]) * after(n)
  BY <1>1, <1>7
<1>9. after(n) \in Nat /\ n \in d .. n
  BY <1>1, <1>3
<1>10. Product(s) = upTo(n)
  BY <1>4 DEF upTo
<1> HIDE DEF n
<1>11. Product(s) = (A * s[d]) * after(n)
  BY <1>8, <1>10
<1> QED BY <1>1, <1>2, <1>9, <1>11, Zenon DEF A, after, n

\* The first runs one after another, as the recursion has them.
RunsOf(runs, n, f) == [i \in 1 .. n |-> IF i = 1 THEN runs[i] ELSE f[i - 1] \o runs[i]]

\* There are such runs, however many.
LEMMA RunsUnfold ==
    ASSUME NEW runs, NEW many \in Nat
    PROVE  \E f : f = RunsOf(runs, many, f)
<1> DEFINE Bad == {n \in Nat : ~\E f : f = RunsOf(runs, n, f)}
<1>1. \E f : f = RunsOf(runs, 0, f)
  <2> DEFINE f == [n \in 1 .. 0 |-> 1]
  <2>1. f = RunsOf(runs, 0, f)
    BY DEF RunsOf
  <2> QED BY <2>1
<1>2. ASSUME NEW n \in Nat, NEW f, f = RunsOf(runs, n, f)
      PROVE  \E g : g = RunsOf(runs, n + 1, g)
  <2> DEFINE g == RunsOf(runs, n + 1, f)
  <2>1. \A m \in 1 .. n : g[m] = f[m]
    <3> SUFFICES ASSUME NEW m \in 1 .. n PROVE g[m] = f[m]
      OBVIOUS
    <3>1. f[m] = RunsOf(runs, n, f)[m]
      BY <1>2
    <3>2. m \in 1 .. (n + 1)
      OBVIOUS
    <3> QED BY <3>1, <3>2 DEF RunsOf
  <2> HIDE DEF g
  <2>2. RunsOf(runs, n + 1, f) = RunsOf(runs, n + 1, g)
    <3>1. \A m \in 1 .. (n + 1) : m # 1 => f[m - 1] = g[m - 1]
      <4> SUFFICES ASSUME NEW m \in 1 .. (n + 1), m # 1 PROVE f[m - 1] = g[m - 1]
        OBVIOUS
      <4>1. m - 1 \in 1 .. n
        OBVIOUS
      <4> QED BY <2>1, <4>1
    <3> QED BY <3>1 DEF RunsOf
  <2> QED BY <2>2 DEF g
<1>3. Bad = {}
  <2> SUFFICES ASSUME Bad # {} PROVE FALSE
    OBVIOUS
  <2>1. PICK n \in Bad : \A m \in Bad : n <= m
    BY LeastNatural
  <2>2. n # 0
    BY <1>1, <2>1
  <2>3. n - 1 \in Nat /\ n - 1 \notin Bad /\ (n - 1) + 1 = n
    BY <2>1, <2>2
  <2>4. PICK f : f = RunsOf(runs, n - 1, f)
    BY <2>3
  <2>5. \E g : g = RunsOf(runs, (n - 1) + 1, g)
    BY <1>2, <2>3, <2>4
  <2> QED BY <2>1, <2>3, <2>5
<1> QED BY <1>3

\* Two sequences, one after the other.
Joined(S, s, t, both) ==
  /\ both \in Seq(S) /\ Len(both) = Len(s) + Len(t)
  /\ \A k \in 1 .. Len(s) : both[k] = s[k]
  /\ \A i \in 1 .. Len(t) : both[Len(s) + i] = t[i]

\* Concatenation puts them so.
LEMMA AfterOneAnother ==
    ASSUME NEW S, NEW s \in Seq(S), NEW t \in Seq(S)
    PROVE  Joined(S, s, t, s \o t)
<1> DEFINE n == Len(s)
           m == Len(t)
           both == s \o t
<1>1. n \in Nat /\ m \in Nat
  OBVIOUS
<1>2. both \in Seq(S) /\ Len(both) = n + m
  BY ConcatProperties
<1>3. \A i \in 1 .. (n + m) : both[i] = IF i <= n THEN s[i] ELSE t[i - n]
  BY ConcatProperties
<1> HIDE DEF n, m, both
<1>4. ASSUME NEW k \in 1 .. n PROVE both[k] = s[k]
  <2>1. k \in 1 .. (n + m) /\ k <= n
    BY <1>1
  <2> QED BY <1>3, <2>1
<1>5. ASSUME NEW i \in 1 .. m PROVE both[n + i] = t[i]
  <2> DEFINE k == n + i
  <2>1. k \in 1 .. (n + m) /\ ~(k <= n) /\ k - n = i
    BY <1>1
  <2> HIDE DEF k
  <2>2. both[k] = t[i]
    BY <1>3, <2>1
  <2> QED BY <2>2 DEF k
<1>6. Joined(S, s, t, both)
  BY <1>2, <1>4, <1>5 DEF n, m, Joined
<1> QED BY <1>6 DEF both

\* One run after another, each as long as the others.
LaidOut(runs, many, width, out) ==
  /\ DOMAIN out = 1 .. (many * width)
  /\ \A o \in 0 .. (many - 1), i \in 1 .. width : out[(o * width) + i] = runs[o + 1][i]

\* Runs of one length, flattened, are one after another.
LEMMA FlattenEven ==
    ASSUME NEW S, NEW many \in Nat, NEW width \in Nat, NEW runs \in [1 .. many -> Seq(S)],
           \A o \in 1 .. many : Len(runs[o]) = width
    PROVE  /\ FlattenSeq(runs) \in Seq(S) /\ Len(FlattenSeq(runs)) = many * width
           /\ LaidOut(runs, many, width, FlattenSeq(runs))
<1> DEFINE f == CHOOSE f : f = RunsOf(runs, many, f)
           Good(n) == f[n] \in Seq(S) /\ Len(f[n]) = n * width /\ LaidOut(runs, n, width, f[n])
           Bad == {n \in 1 .. many : ~Good(n)}
<1>1. Len(runs) = many
  OBVIOUS
<1>2. CASE many = 0
  <2>1. FlattenSeq(runs) = <<>>
    <3>1. FlattenSeq(runs) = runs
      BY <1>1, <1>2 DEF FlattenSeq
    <3> QED BY <1>2, <3>1
  <2>2. many * width = 0 /\ 1 .. (many * width) = {}
    BY <1>2
  <2> QED BY <1>2, <2>1, <2>2 DEF LaidOut
<1>3. CASE many # 0
  <2>1. f = RunsOf(runs, many, f)
    BY RunsUnfold
  <2>2. FlattenSeq(runs) = f[many]
    BY <1>1, <1>3 DEF FlattenSeq, RunsOf
  <2> HIDE DEF f
  <2>3. ASSUME NEW n \in 1 .. many PROVE f[n] = IF n = 1 THEN runs[n] ELSE f[n - 1] \o runs[n]
    <3>1. f[n] = RunsOf(runs, many, f)[n]
      BY <2>1
    <3> QED BY <3>1 DEF RunsOf
  <2>4. Good(1)
    <3>1. 1 \in 1 .. many /\ 1 * width = width
      BY <1>3
    <3>2. f[1] = runs[1]
      BY <2>3, <3>1
    <3>3. runs[1] \in Seq(S) /\ Len(runs[1]) = width
      BY <3>1
    <3>4. LaidOut(runs, 1, width, runs[1])
      BY <3>1, <3>3 DEF LaidOut
    <3> QED BY <3>1, <3>2, <3>3, <3>4
  <2>5. ASSUME NEW n \in 2 .. many, Good(n - 1) PROVE Good(n)
    <3> DEFINE before == f[n - 1]
               size == (n - 1) * width
               run == runs[n]
    <3>1. f[n] = before \o run
      <4>1. n \in 1 .. many /\ n # 1
        OBVIOUS
      <4> QED BY <2>3, <4>1
    <3>2. before \in Seq(S) /\ Len(before) = size /\ LaidOut(runs, n - 1, width, before)
      BY <2>5
    <3>3. run \in Seq(S) /\ Len(run) = width /\ size \in Nat
      BY <3>2
    <3>6. n * width = size + width
      OBVIOUS
    <3> HIDE DEF before, run, size
    <3>4. before \in Seq(S) /\ Len(before) = size
      BY <3>2
    <3> DEFINE both == before \o run
    <3>5. /\ both \in Seq(S) /\ Len(both) = size + width
          /\ \A k \in 1 .. size : both[k] = before[k]
          /\ \A i \in 1 .. width : both[size + i] = run[i]
      <4>1. before \in Seq(S) /\ run \in Seq(S)
        BY <3>3, <3>4
      <4>2. Joined(S, before, run, both)
        BY <4>1, AfterOneAnother
      <4> HIDE DEF both
      <4> QED BY <3>3, <3>4, <4>2 DEF Joined
    <3>9. f[n] = both
      BY <3>1
    <3> HIDE DEF both
    <3>7. ASSUME NEW o \in 0 .. (n - 1), NEW i \in 1 .. width
          PROVE  f[n][(o * width) + i] = runs[o + 1][i]
      <4>1. CASE o = n - 1
        BY <3>5, <3>9, <4>1 DEF run, size
      <4>2. CASE o # n - 1
        <5>1. o \in 0 .. ((n - 1) - 1) /\ o + 1 <= n - 1
          BY <4>2
        <5>2. width * o + width <= width * (n - 1)
          BY <5>1, ProductsRise
        <5>3. (o * width) + i \in 1 .. size
          <6> DEFINE part == o * width
          <6>1. part = width * o /\ width * (n - 1) = size /\ part \in Nat
            BY DEF size
          <6>2. part + width <= size /\ part \in Nat
            BY <5>2, <6>1
          <6> HIDE DEF part
          <6>3. part + i \in 1 .. size
            BY <3>3, <6>2
          <6> QED BY <6>3 DEF part
        <5>4. before[(o * width) + i] = runs[o + 1][i]
          BY <3>2, <5>1 DEF LaidOut
        <5> QED BY <3>5, <3>9, <5>3, <5>4
      <4> QED BY <4>1, <4>2
    <3>8. f[n] \in Seq(S) /\ Len(f[n]) = size + width /\ DOMAIN f[n] = 1 .. (size + width)
      BY <3>3, <3>5, <3>9
    <3> QED BY <3>6, <3>7, <3>8 DEF LaidOut
  <2> HIDE DEF Good
  <2>6. Bad = {}
    <3> SUFFICES ASSUME Bad # {} PROVE FALSE
      OBVIOUS
    <3>1. Bad \subseteq Nat
      OBVIOUS
    <3>2. PICK n \in Bad : \A m \in Bad : n <= m
      <4> HIDE DEF Bad
      <4> QED BY <3>1, LeastNatural
    <3>3. n \in 2 .. many
      BY <2>4, <3>2
    <3>4. n - 1 \in 1 .. many /\ ~(n <= n - 1)
      BY <3>3
    <3>5. Good(n - 1)
      BY <3>2, <3>4
    <3> QED BY <2>5, <3>2, <3>3, <3>5
  <2>7. Good(many)
    <3>1. many \in 1 .. many
      BY <1>3
    <3> QED BY <2>6, <3>1
  <2> QED BY <2>2, <2>7 DEF Good
<1> QED BY <1>2, <1>3

\* From each of a number of rows of cells as wide as `all`, the `width` cells past `skip`.
Gather(cells, rows, all, skip, width) ==
  FlattenSeq([o \in 1 .. rows |-> SubSeq(cells, ((o - 1) * all) + skip + 1, ((o - 1) * all) + skip + width)])

\* Those cells, one row after another.
RowAfterRow(S, cells, rows, all, skip, width, out) ==
  /\ out \in Seq(S) /\ Len(out) = rows * width
  /\ \A o \in 0 .. (rows - 1), i \in 1 .. width : out[(o * width) + i] = cells[(o * all) + skip + i]

\* Gathering puts them so.
LEMMA Gathers ==
    ASSUME NEW S, NEW rows \in Nat, NEW all \in Nat, NEW skip \in Nat, NEW width \in Nat, skip + width <= all,
           NEW cells \in Seq(S), Len(cells) = rows * all,
           NEW out, out = Gather(cells, rows, all, skip, width)
    PROVE  RowAfterRow(S, cells, rows, all, skip, width, out)
<1> DEFINE run(o) == SubSeq(cells, ((o - 1) * all) + skip + 1, ((o - 1) * all) + skip + width)
           runs == [o \in 1 .. rows |-> run(o)]
<1>1. ASSUME NEW o \in 1 .. rows
      PROVE  /\ run(o) \in Seq(S) /\ Len(run(o)) = width
             /\ \A i \in 1 .. width : run(o)[i] = cells[((o - 1) * all) + skip + i]
  <2> DEFINE before == (o - 1) * all
             total == rows * all
             a == before + skip + 1
             b == before + skip + width
  <2>1. before \in Nat /\ before + all <= total /\ total = Len(cells)
    <3>1. o - 1 \in Nat /\ o \in Nat /\ o <= rows
      OBVIOUS
    <3>2. o * all <= rows * all
      BY <3>1, TimesKeepOrder
    <3>3. (o - 1) * all \in Nat /\ o * all = (o - 1) * all + all
      BY <3>1
    <3> DEFINE y == o * all
    <3>4. y <= total /\ before \in Nat /\ y = before + all
      BY <3>2, <3>3
    <3> HIDE DEF y, before, total
    <3>5. before + all <= total
      BY <3>4
    <3> QED BY <3>4, <3>5 DEF total
  <2> HIDE DEF before, total
  <2>2. a \in 1 .. (Len(cells) + 1) /\ b \in (a - 1) .. Len(cells) /\ width = b - a + 1
    BY <2>1
  <2>3. SubSeq(cells, a, b) = [i \in 1 .. width |-> cells[a + i - 1]] /\ Len(SubSeq(cells, a, b)) = width
        /\ SubSeq(cells, a, b) \in Seq(S)
    <3> HIDE DEF a, b
    <3> QED BY <2>2, CutIs
  <2>4. \A i \in 1 .. width : a + i - 1 = before + skip + i
    BY <2>1
  <2>5. run(o) = SubSeq(cells, a, b)
    BY DEF before
  <2> HIDE DEF a, b, run
  <2>6. \A i \in 1 .. width : run(o)[i] = cells[before + skip + i]
    BY <2>3, <2>4, <2>5
  <2> QED BY <2>3, <2>5, <2>6 DEF before
<1> HIDE DEF run
<1>2. runs \in [1 .. rows -> Seq(S)] /\ \A o \in 1 .. rows : Len(runs[o]) = width /\ runs[o] = run(o)
  BY <1>1
<1>3. out = FlattenSeq(runs)
  BY DEF Gather, run
<1> HIDE DEF runs
<1>4. /\ FlattenSeq(runs) \in Seq(S) /\ Len(FlattenSeq(runs)) = rows * width
      /\ LaidOut(runs, rows, width, FlattenSeq(runs))
  BY <1>2, FlattenEven
<1>5. ASSUME NEW o \in 0 .. (rows - 1), NEW i \in 1 .. width
      PROVE  out[(o * width) + i] = cells[(o * all) + skip + i]
  <2>1. o + 1 \in 1 .. rows /\ (o + 1) - 1 = o
    OBVIOUS
  <2>2. out[(o * width) + i] = runs[o + 1][i]
    BY <1>3, <1>4 DEF LaidOut
  <2>3. runs[o + 1] = run(o + 1) /\ run(o + 1)[i] = cells[(((o + 1) - 1) * all) + skip + i]
    BY <1>1, <1>2, <2>1
  <2> QED BY <2>1, <2>2, <2>3
<1> QED BY <1>3, <1>4, <1>5 DEF RowAfterRow

\* An array that fills its shape.
IsArray(S, array) ==
  /\ array \in [shape : Seq(Nat), cells : Seq(S)]
  /\ Len(array.cells) = Product(array.shape)

\* The axes before and after one, multiplied.
OuterOf(shape, axis) == Product(SubSeq(shape, 1, axis))
InnerOf(shape, axis) == Product(SubSeq(shape, axis + 2, Len(shape)))

\* Cells of `from` at the windows from `start` on, in `to`, which has `len` windows: every outer
\* index, window and inner position in its place.
CellsInPlace(outer, inner, from, all, start, to, len) ==
  \A o \in 0 .. (outer - 1), k \in 0 .. (len - 1), e \in 1 .. inner :
    to[(((o * len) + k) * inner) + e] = from[(((o * all) + start + k) * inner) + e]

\* An array has the cells of its outer indices, windows and inner positions.
LEMMA ArrayFills ==
    ASSUME NEW S, NEW array, IsArray(S, array), NEW axis \in Nat, axis < Len(array.shape)
    PROVE  /\ OuterOf(array.shape, axis) \in Nat /\ InnerOf(array.shape, axis) \in Nat
           /\ array.shape[axis + 1] \in Nat
           /\ Product(array.shape)
                = (OuterOf(array.shape, axis) * array.shape[axis + 1]) * InnerOf(array.shape, axis)
<1> DEFINE s == array.shape
           d == axis + 1
<1>1. s \in Seq(Nat) /\ d \in 1 .. Len(s) /\ d - 1 = axis /\ d + 1 = axis + 2
  BY DEF IsArray
<1> HIDE DEF s, d
<1>2. /\ Product(SubSeq(s, 1, d - 1)) \in Nat /\ s[d] \in Nat /\ Product(SubSeq(s, d + 1, Len(s))) \in Nat
      /\ Product(s) = (Product(SubSeq(s, 1, d - 1)) * s[d]) * Product(SubSeq(s, d + 1, Len(s)))
  BY <1>1, ProductSplits
<1>3. OuterOf(s, axis) = Product(SubSeq(s, 1, d - 1)) /\ InnerOf(s, axis) = Product(SubSeq(s, d + 1, Len(s)))
  BY <1>1 DEF OuterOf, InnerOf
<1> QED BY <1>2, <1>3 DEF s, d

\* Cells of rows of n parts, each w wide, counted by parts and by rows.
LEMMA PartsAndRows ==
    ASSUME NEW o \in Nat, NEW n \in Nat, NEW k \in Nat, NEW w \in Nat
    PROVE  /\ ((o * n) + k) * w = (o * (n * w)) + (k * w) /\ (o * n) * w = o * (n * w)
           /\ o * n \in Nat /\ n * w \in Nat /\ k * w \in Nat /\ o * (n * w) \in Nat
<1>1. (o * n) * w = o * (n * w)
  OBVIOUS
<1>2. o * n \in Nat /\ n * w \in Nat /\ k * w \in Nat
  OBVIOUS
<1>3. \A x \in Nat : (x + k) * w = (x * w) + (k * w)
  OBVIOUS
<1>4. o * (n * w) \in Nat
  <2> DEFINE y == n * w
  <2> HIDE DEF y
  <2>1. \A v \in Nat : o * v \in Nat
    OBVIOUS
  <2> QED BY <1>2, <2>1 DEF y
<1> DEFINE x == o * n
<1> HIDE DEF x
<1>5. (x + k) * w = (x * w) + (k * w)
  <2>1. x \in Nat
    BY <1>2 DEF x
  <2> QED BY <1>3, <2>1
<1> QED BY <1>1, <1>2, <1>4, <1>5 DEF x

\* A place in a window of a block is a place in the block's row.
LEMMA PlaceInRow ==
    ASSUME NEW inner \in Nat, NEW len \in Nat, NEW k \in 0 .. (len - 1), NEW e \in 1 .. inner
    PROVE  (k * inner) + e \in 1 .. (len * inner)
<1>1. k \in Nat /\ k + 1 \in Nat /\ k + 1 <= len
  OBVIOUS
<1>2. (k + 1) * inner <= len * inner
  BY <1>1, TimesKeepOrder
<1>3. (k + 1) * inner = (k * inner) + inner
  BY <1>1
<1>4. k * inner \in Nat /\ len * inner \in Nat
  BY <1>1
<1> DEFINE x == k * inner
           y == len * inner
<1>5. x \in Nat /\ y \in Nat /\ x + inner <= y
  BY <1>2, <1>3, <1>4
<1> HIDE DEF x, y
<1>6. x + e \in 1 .. y
  BY <1>5
<1> QED BY <1>6 DEF x, y

\* The cells of `len` windows from `start`, each in its place.
WindowCells(S, array, axis, start, len, block) ==
  /\ block \in Seq(S)
  /\ Len(block) = (OuterOf(array.shape, axis) * len) * InnerOf(array.shape, axis)
  /\ CellsInPlace(OuterOf(array.shape, axis), InnerOf(array.shape, axis),
               array.cells, array.shape[axis + 1], start, block, len)

\* A block of windows has their cells.
LEMMA BlockIs ==
    ASSUME NEW S, NEW array, IsArray(S, array), NEW axis \in Nat, axis < Len(array.shape),
           NEW start \in Nat, NEW len \in Nat, start + len <= array.shape[axis + 1],
           NEW block, block = write_window_block(array, axis, start, len)
    PROVE  WindowCells(S, array, axis, start, len, block)
<1> DEFINE n == array.shape[axis + 1]
           outer == OuterOf(array.shape, axis)
           inner == InnerOf(array.shape, axis)
           cells == array.cells
           all == n * inner
           skip == start * inner
           width == len * inner
           full == (outer * n) * inner
<1>1. outer \in Nat /\ inner \in Nat /\ n \in Nat /\ Product(array.shape) = full
  BY ArrayFills
<1>2. cells \in Seq(S) /\ Len(cells) = full /\ start + len <= n
  BY <1>1 DEF IsArray
<1>3. block = FlattenSeq([o \in 1 .. outer |->
         SubSeq(cells, (((o - 1) * n) + start) * inner + 1, (((o - 1) * n) + start + len) * inner)])
  BY DEF write_window_block, OuterOf, InnerOf
<1> HIDE DEF n, cells, outer, inner
<1>4. outer \in Nat /\ inner \in Nat /\ n \in Nat
  BY <1>1
<1>5. all \in Nat /\ skip \in Nat /\ width \in Nat /\ skip + width <= all
  <2>1. all \in Nat /\ skip \in Nat /\ width \in Nat
    BY <1>4
  <2>2. (start + len) * inner <= n * inner
    <3>1. start + len \in Nat
      OBVIOUS
    <3> QED BY <1>2, <1>4, <3>1, TimesKeepOrder
  <2>3. (start + len) * inner = skip + width
    BY <1>4
  <2> QED BY <2>1, <2>2, <2>3
<1>6. full = outer * all
  BY <1>4, PartsAndRows
<1>7. ASSUME NEW o \in 1 .. outer
      PROVE  /\ (((o - 1) * n) + start) * inner + 1 = ((o - 1) * all) + skip + 1
             /\ (((o - 1) * n) + start + len) * inner = ((o - 1) * all) + skip + width
  <2> DEFINE b == o - 1
             x == b * n
             y == b * all
  <2>1. b \in Nat /\ start + len \in Nat
    BY <1>4
  <2> HIDE DEF b
  <2>2. ((b * n) + start) * inner = (b * all) + skip
    BY <1>4, <2>1, PartsAndRows
  <2>3. ((b * n) + (start + len)) * inner = (b * all) + ((start + len) * inner)
    BY <1>4, <2>1, PartsAndRows
  <2>4. (start + len) * inner = skip + width
    BY <1>4
  <2>5. x \in Nat /\ y \in Nat
    <3> HIDE DEF all
    <3> QED BY <1>4, <1>5, <2>1
  <2>6. (x + start) * inner = y + skip /\ (x + (start + len)) * inner = y + (skip + width)
    BY <2>2, <2>3, <2>4
  <2> HIDE DEF x, y, all, skip, width
  <2>7. x + start + len = x + (start + len) /\ y + skip + width = y + (skip + width)
    BY <1>5, <2>5
  <2>8. (x + start) * inner + 1 = y + skip + 1 /\ (x + start + len) * inner = y + skip + width
    BY <2>6, <2>7
  <2> QED BY <2>8 DEF x, y, b
<1> HIDE DEF all, skip, width, full
<1>8. block = Gather(cells, outer, all, skip, width)
  BY <1>3, <1>7 DEF Gather
<1>9. /\ block \in Seq(S) /\ Len(block) = outer * width
      /\ \A o \in 0 .. (outer - 1), i \in 1 .. width : block[(o * width) + i] = cells[(o * all) + skip + i]
  <2>1. Len(cells) = outer * all
    BY <1>2, <1>6
  <2>2. cells \in Seq(S)
    BY <1>2
  <2>3. RowAfterRow(S, cells, outer, all, skip, width, block)
    BY <1>4, <1>5, <1>8, <2>1, <2>2, Gathers
  <2> QED BY <2>3 DEF RowAfterRow
<1>10. (outer * len) * inner = outer * width
  BY <1>4, PartsAndRows DEF width
<1>11. ASSUME NEW o \in 0 .. (outer - 1), NEW k \in 0 .. (len - 1), NEW e \in 1 .. inner
       PROVE  block[(((o * len) + k) * inner) + e] = cells[(((o * n) + start + k) * inner) + e]
  <2> DEFINE i == (k * inner) + e
             x == o * width
             y == o * all
             z == k * inner
             v == o * n
  <2>1. i \in 1 .. width
    BY <1>4, PlaceInRow DEF width
  <2>2. o \in Nat /\ k \in Nat /\ e \in Nat
    BY <1>4
  <2>3. ((o * len) + k) * inner = x + z /\ x \in Nat /\ z \in Nat
    <3>1. ((o * len) + k) * inner = (o * (len * inner)) + (k * inner)
      BY <1>4, <2>2, PartsAndRows
    <3>2. o * (len * inner) \in Nat /\ k * inner \in Nat
      BY <1>4, <2>2, PartsAndRows
    <3> QED BY <3>1, <3>2 DEF width
  <2>4. (v + (start + k)) * inner = y + ((start + k) * inner) /\ y \in Nat /\ v \in Nat
    <3>1. start + k \in Nat
      BY <2>2
    <3> QED BY <1>4, <2>2, <3>1, PartsAndRows DEF all
  <2>5. (start + k) * inner = skip + z
    BY <1>4, <2>2 DEF skip
  <2>6. block[x + i] = cells[y + skip + i]
    BY <1>9, <2>1
  <2> DEFINE p == ((o * len) + k) * inner
             w == (v + (start + k)) * inner
  <2>7. p = x + z /\ w = y + (skip + z) /\ i = z + e
    BY <2>3, <2>4, <2>5
  <2>8. v + start + k = v + (start + k)
    <3> HIDE DEF v
    <3> QED BY <2>2, <2>4
  <2> HIDE DEF i, x, y, z, p, w
  <2>9. x + i = p + e /\ y + skip + i = w + e
    BY <1>5, <2>2, <2>3, <2>4, <2>7
  <2>10. block[p + e] = cells[w + e]
    BY <2>6, <2>9
  <2> QED BY <2>8, <2>10 DEF p, w, v
<1>12. CellsInPlace(outer, inner, cells, n, start, block, len)
  BY <1>11 DEF CellsInPlace
<1> QED BY <1>9, <1>10, <1>12 DEF WindowCells, n, cells, outer, inner

\* Another number of windows on one axis leaves the axes before and after it.
LEMMA OtherAxes ==
    ASSUME NEW s \in Seq(Nat), NEW axis \in Nat, axis < Len(s), NEW len \in Nat,
           NEW t, t = [s EXCEPT ![axis + 1] = len]
    PROVE  /\ t \in Seq(Nat) /\ Len(t) = Len(s) /\ t[axis + 1] = len
           /\ OuterOf(t, axis) = OuterOf(s, axis) /\ InnerOf(t, axis) = InnerOf(s, axis)
<1> DEFINE n == Len(s)
           m == n - (axis + 1)
<1>1. n \in Nat /\ s \in [1 .. n -> Nat] /\ axis + 1 \in 1 .. n /\ m \in Nat /\ axis \in 0 .. n
  OBVIOUS
<1>2. t \in Seq(Nat) /\ Len(t) = n /\ t[axis + 1] = len /\ \A i \in 1 .. n : i # axis + 1 => t[i] = s[i]
  BY <1>1
<1>3. /\ SubSeq(s, 1, axis) = [i \in 1 .. axis |-> s[1 + i - 1]]
      /\ SubSeq(t, 1, axis) = [i \in 1 .. axis |-> t[1 + i - 1]]
  <2>1. /\ 1 \in 1 .. (Len(s) + 1) /\ axis \in (1 - 1) .. Len(s) /\ axis = axis - 1 + 1
        /\ 1 \in 1 .. (Len(t) + 1) /\ axis \in (1 - 1) .. Len(t)
    BY <1>1, <1>2
  <2> QED BY <1>2, <2>1, CutIs
<1>4. /\ SubSeq(s, axis + 2, n) = [i \in 1 .. m |-> s[(axis + 2) + i - 1]]
      /\ SubSeq(t, axis + 2, n) = [i \in 1 .. m |-> t[(axis + 2) + i - 1]]
  <2>1. /\ axis + 2 \in 1 .. (n + 1) /\ n \in ((axis + 2) - 1) .. n /\ m = n - (axis + 2) + 1
    BY <1>1
  <2> HIDE DEF m
  <2> QED BY <1>1, <1>2, <2>1, CutIs
<1> HIDE DEF n, m
<1>5. \A i \in 1 .. axis : s[1 + i - 1] = t[1 + i - 1]
  <2> SUFFICES ASSUME NEW i \in 1 .. axis PROVE s[1 + i - 1] = t[1 + i - 1]
    OBVIOUS
  <2>1. 1 + i - 1 \in 1 .. n /\ 1 + i - 1 # axis + 1
    BY <1>1
  <2> QED BY <1>2, <2>1
<1>6. \A i \in 1 .. m : s[(axis + 2) + i - 1] = t[(axis + 2) + i - 1]
  <2> SUFFICES ASSUME NEW i \in 1 .. m PROVE s[(axis + 2) + i - 1] = t[(axis + 2) + i - 1]
    OBVIOUS
  <2> DEFINE k == (axis + 2) + i - 1
  <2>1. k \in 1 .. n /\ k # axis + 1
    BY <1>1 DEF m
  <2> HIDE DEF k
  <2>2. s[k] = t[k]
    BY <1>2, <2>1
  <2> QED BY <2>2 DEF k
<1>7. SubSeq(s, 1, axis) = SubSeq(t, 1, axis) /\ SubSeq(s, axis + 2, n) = SubSeq(t, axis + 2, n)
  <2>1. [i \in 1 .. axis |-> s[1 + i - 1]] = [i \in 1 .. axis |-> t[1 + i - 1]]
    BY <1>5
  <2>2. [i \in 1 .. m |-> s[(axis + 2) + i - 1]] = [i \in 1 .. m |-> t[(axis + 2) + i - 1]]
    BY <1>6
  <2> QED BY <1>3, <1>4, <2>1, <2>2, Zenon
<1> QED BY <1>2, <1>7 DEF OuterOf, InnerOf, n

\* Windows lo..hi-1 of an array, read: the cells fill their shape, each in its place.
LEMMA WindowsRead ==
    ASSUME NEW S, NEW array, IsArray(S, array), NEW axis \in Nat, axis < Len(array.shape),
           NEW lo \in Nat, NEW hi \in Nat, lo <= hi, hi <= array.shape[axis + 1],
           NEW got, got = read_forecast_windows(array, axis, lo, hi)
    PROVE  /\ got # Corrupt /\ got.shape = [array.shape EXCEPT ![axis + 1] = hi - lo]
           /\ CellsInPlace(OuterOf(array.shape, axis), InnerOf(array.shape, axis),
                        array.cells, array.shape[axis + 1], lo, got.cells, hi - lo)
<1> DEFINE s == array.shape
           n == array.shape[axis + 1]
           len == hi - lo
           outer == OuterOf(s, axis)
           inner == InnerOf(s, axis)
           t == [s EXCEPT ![axis + 1] = len]
           block == write_window_block(array, axis, lo, len)
<1>1. s \in Seq(Nat) /\ array.cells \in Seq(S) /\ n \in Nat /\ outer \in Nat /\ inner \in Nat
  BY ArrayFills DEF IsArray
<1>2. CASE lo = 0 /\ hi = n
  <2>1. got = array
    BY <1>2 DEF read_forecast_windows
  <2>2. array # Corrupt
    <3>1. DOMAIN array = {"shape", "cells"}
      BY DEF IsArray
    <3>2. DOMAIN Corrupt = {"ok", "corrupt"}
      BY DEF Corrupt
    <3> QED BY <3>1, <3>2
  <2>3. t = s
    BY <1>1, <1>2
  <2>4. CellsInPlace(outer, inner, array.cells, n, lo, array.cells, len)
    <3> HIDE DEF n, s, outer, inner
    <3>1. \A o \in 0 .. (outer - 1) : (o * n) \in Nat
      BY <1>1
    <3>2. len = n
      BY <1>1, <1>2
    <3> HIDE DEF len
    <3>3. \A o \in 0 .. (outer - 1), k \in 0 .. (n - 1) : (o * n) + k = (o * n) + lo + k
      BY <1>1, <1>2, <3>1
    <3> QED BY <3>2, <3>3 DEF CellsInPlace
  <2> QED BY <2>1, <2>2, <2>3, <2>4
<1>3. CASE ~(lo = 0 /\ hi = n)
  <2>1. len \in Nat /\ lo + len <= n /\ len = hi - lo
    BY <1>1
  <2> HIDE DEF n, len, outer, inner, t, block
  <2>2. /\ block \in Seq(S) /\ Len(block) = (outer * len) * inner
        /\ CellsInPlace(outer, inner, array.cells, n, lo, block, len)
    <3>1. lo + len <= array.shape[axis + 1]
      BY <2>1 DEF n
    <3>2. WindowCells(S, array, axis, lo, len, block)
      BY <2>1, <3>1, BlockIs DEF block
    <3> QED BY <3>2 DEF WindowCells, n, outer, inner
  <2>3. /\ t \in Seq(Nat) /\ Len(t) = Len(s) /\ t[axis + 1] = len
        /\ OuterOf(t, axis) = outer /\ InnerOf(t, axis) = inner
    BY <1>1, <2>1, OtherAxes DEF t, outer, inner
  <2>4. Product(t) = (outer * len) * inner
    <3> DEFINE d == axis + 1
    <3>1. d \in 1 .. Len(t) /\ d - 1 = axis /\ d + 1 = axis + 2
      <4>1. Len(t) \in Nat /\ axis < Len(t)
        BY <2>3
      <4> QED BY <4>1
    <3>2. Product(t) = (Product(SubSeq(t, 1, d - 1)) * t[d]) * Product(SubSeq(t, d + 1, Len(t)))
      <4> HIDE DEF d
      <4> QED BY <2>3, <3>1, ProductSplits
    <3> QED BY <2>3, <3>1, <3>2 DEF OuterOf, InnerOf
  <2>5. got = IF Len(block) = Product(t) THEN [shape |-> t, cells |-> block] ELSE Corrupt
    BY <1>3 DEF read_forecast_windows, block, t, len, n
  <2>6. got = [shape |-> t, cells |-> block]
    BY <2>2, <2>4, <2>5
  <2>7. got # Corrupt /\ got.shape = t /\ got.cells = block
    <3>1. DOMAIN got = {"shape", "cells"}
      BY <2>6
    <3>2. DOMAIN Corrupt = {"ok", "corrupt"}
      BY DEF Corrupt
    <3> QED BY <2>6, <3>1, <3>2
  <2> QED BY <2>2, <2>7 DEF t, n, outer, inner, len
<1> QED BY <1>2, <1>3

-----------------------------------------------------------------------------
(* Forecasts by range.                                                     *)

\* The rows of a forecast that a range asks for are the windows that start inside it.
LEMMA WindowsAsked ==
    ASSUME NEW f, f.type \notin StaticTypes, f.count \in Nat, NEW range
    PROVE  RowsAsked(f, range)
             = {k \in 0 .. (f.count - 1) :
                  /\ add_to(f.interval, f.initial, k) # NoInstant
                  /\ add_to(f.interval, f.initial, k) < range.end
                  /\ add_to(f.interval, f.initial, k) >= range.start}
<1>1. f.type \notin {"SingleTimeSeries", "PersistentTimeSeries"} /\ Size(f) = f.count
  BY DEF StaticTypes, Size
<1>2. \A k : TimeOf(f, k) = add_to(f.interval, f.initial, k)
  BY DEF StaticTypes, TimeOf
<1> QED BY <1>1, <1>2 DEF RowsAsked

\* A run of windows from the first that starts in a range to the last is what it asks for.
LEMMA RunIsAsked ==
    ASSUME NEW f, f.type \notin StaticTypes, f.count \in Nat, IsPeriod(f.interval), f.initial \in Instant,
           NEW range, range.start \in Instant, range.end \in Instant, NEW from \in 0 .. (f.count - 1),
           \A k \in 0 .. (f.count - 1) : add_to(f.interval, f.initial, k) # NoInstant =>
              (add_to(f.interval, f.initial, k) >= range.start <=> k >= from),
           NEW w, w = WindowRun(f, from, SearchEnd(f, from, range.end), add_to(f.interval, f.initial, from)), w.ok
    PROVE  w.lo .. (w.hi - 1) = RowsAsked(f, range)
<1> DEFINE t(k) == add_to(f.interval, f.initial, k)
           to == SearchEnd(f, from, range.end)
           at == t(from)
           n == f.count
<1>1. to # -1 /\ at # NoInstant
  <2> HIDE DEF to, at
  <2> QED BY DEF WindowRun, Corrupt, to, at
<1>2. n \in Nat /\ from \in 0 .. n /\ from \in Nat
  OBVIOUS
<1>3. /\ to \in from .. n
      /\ to > from => t(to - 1) # NoInstant /\ t(to - 1) < range.end
      /\ to < n => t(to) # NoInstant /\ ~(t(to) < range.end)
  <2> HIDE DEF at
  <2> QED BY <1>1, <1>2, SearchFinds
<1>4. Points(f.interval, f.initial)
  BY GridPoints
<1>5. \A k \in Nat : t(k) \in Nat \cup {-1}
  BY <1>4, InstantsAreNaturals DEF Points, NoInstant
<1>6. \A k \in Nat : \A j \in 0 .. (k - 1) : t(k) # NoInstant => t(j) # NoInstant /\ t(j) < t(k)
  BY <1>4 DEF Points
<1>7. range.end \in Nat /\ range.start \in Nat
  BY InstantsAreNaturals
<1>8. RowsAsked(f, range) = {k \in 0 .. (n - 1) : t(k) # NoInstant /\ t(k) < range.end /\ t(k) >= range.start}
  BY WindowsAsked
<1>9. \A k \in 0 .. (n - 1) : t(k) # NoInstant => (t(k) >= range.start <=> k >= from)
  OBVIOUS
<1>10. (to <= from => w.lo = 0 /\ w.hi = 0) /\ (~(to <= from) => w.lo = from /\ w.hi = to)
  <2> HIDE DEF to, at
  <2>1. to <= from => w = Rows(0, 0, at)
    BY <1>1 DEF WindowRun, to, at
  <2>2. ~(to <= from) => w = Rows(from, to, at)
    BY <1>1 DEF WindowRun, Refused, to, at
  <2> QED BY <2>1, <2>2 DEF Rows
<1> HIDE DEF t, to, at, n
<1>11. ASSUME NEW k \in 0 .. (n - 1)
       PROVE  t(k) # NoInstant /\ t(k) < range.end /\ t(k) >= range.start <=> from <= k /\ k < to
  <2>1. k \in Nat /\ to \in Nat /\ t(k) \in Nat \cup {-1} /\ NoInstant = -1
    BY <1>2, <1>3, <1>5 DEF NoInstant
  <2>2. CASE k < from
    BY <1>2, <1>9, <2>1, <2>2
  <2>3. CASE from <= k /\ k < to
    <3>1. to - 1 \in Nat /\ (k = to - 1 \/ k \in 0 .. (to - 1 - 1)) /\ to > from
      BY <1>2, <2>1, <2>3
    <3>2. t(to - 1) # NoInstant /\ t(to - 1) < range.end /\ t(to - 1) \in Nat \cup {-1}
      BY <1>3, <1>5, <3>1
    <3>3. t(k) # NoInstant /\ (k = to - 1 \/ t(k) < t(to - 1))
      BY <1>6, <3>1, <3>2
    <3>4. t(k) < range.end
      BY <1>7, <2>1, <3>2, <3>3
    <3> QED BY <1>2, <1>9, <2>1, <2>3, <3>3, <3>4
  <2>4. CASE to <= k
    <3>1. to < n /\ t(to) # NoInstant /\ ~(t(to) < range.end) /\ t(to) \in Nat \cup {-1}
      BY <1>2, <1>3, <1>5, <2>1, <2>4
    <3>2. t(k) # NoInstant => k = to \/ t(to) < t(k)
      <4>1. k = to \/ to \in 0 .. (k - 1)
        BY <2>1, <2>4
      <4> QED BY <1>6, <2>1, <4>1
    <3>3. ~(t(k) # NoInstant /\ t(k) < range.end)
      BY <1>7, <2>1, <3>1, <3>2
    <3> QED BY <2>1, <2>4, <3>3
  <2> QED BY <1>2, <2>1, <2>2, <2>3, <2>4
<1>12. RowsAsked(f, range) = {k \in 0 .. (n - 1) : from <= k /\ k < to}
  BY <1>8, <1>11
<1>13. {k \in 0 .. (n - 1) : from <= k /\ k < to} = w.lo .. (w.hi - 1)
  BY <1>2, <1>3, <1>10
<1> QED BY <1>12, <1>13

\* A range resolves to the windows that start inside it.
LEMMA WindowsSelected ==
    ASSUME NEW f, f.type \notin StaticTypes, f.count \in Nat,
           IsPeriod(f.interval) \/ f.interval = zero, f.initial \in Instant,
           NEW range, range.start \in Instant, range.end \in Instant, range.start < range.end,
           NEW w, w = resolve_windows(f, range), w.ok
    PROVE  w.lo .. (w.hi - 1) = RowsAsked(f, range)
<1> DEFINE t(k) == add_to(f.interval, f.initial, k)
           from == IF range.start <= f.initial THEN 0
                   ELSE steps_between(f.interval, f.initial, range.start)
<1>1. range.start \in Nat /\ range.end \in Nat /\ f.initial \in Nat /\ ~(range.end < range.start)
  <2>1. range.start \in Nat /\ range.end \in Nat /\ f.initial \in Nat
    BY InstantsAreNaturals
  <2> QED BY <2>1
<1>2. CASE IsPeriod(f.interval)
  <2>1. w = WindowsFrom(f, range, from)
    <3> HIDE DEF from
    <3> QED BY <1>1, <1>2 DEF resolve_windows, IsPeriod, from
  <2>2. Points(f.interval, f.initial)
    BY <1>2, GridPoints
  <2>3. from = NoStep \/ (from \in Nat /\ ((from = 0 /\ range.start <= f.initial) \/ t(from) = range.start))
    <3>1. Steps(f.interval, f.initial) \subseteq Nat
      BY DEF Steps
    <3>2. CASE range.start <= f.initial
      BY <3>2
    <3>3. CASE ~(range.start <= f.initial)
      <4>1. from = IF \E k \in Steps(f.interval, f.initial) : t(k) = range.start
                   THEN CHOOSE k \in Steps(f.interval, f.initial) : t(k) = range.start ELSE NoStep
        BY <1>2, <3>3, CountIsExact
      <4> HIDE DEF from, t
      <4>2. from = NoStep \/ (from \in Steps(f.interval, f.initial) /\ t(from) = range.start)
        BY <4>1
      <4> QED BY <3>1, <4>2
    <3> QED BY <3>2, <3>3
  <2> HIDE DEF from
  <2>4. /\ ~(from = NoStep \/ from >= f.count)
        /\ w = WindowRun(f, from, SearchEnd(f, from, range.end), t(from))
    BY <2>1 DEF WindowsFrom, Refused
  <2>5. from \in 0 .. (f.count - 1)
    BY <2>3, <2>4
  <2>6. ASSUME NEW k \in 0 .. (f.count - 1), t(k) # NoInstant
        PROVE  t(k) >= range.start <=> k >= from
    <3>1. \A i \in Nat : t(i) \in Nat \cup {-1}
      BY <2>2, InstantsAreNaturals DEF Points, NoInstant
    <3>2. t(0) = f.initial
      BY <2>2 DEF Points
    <3>3. k \in Nat /\ from \in Nat /\ t(k) \in Nat
      BY <2>5, <2>6, <3>1 DEF NoInstant
    <3>4. CASE from = 0 /\ range.start <= f.initial
      <4>1. k = 0 \/ 0 \in 0 .. (k - 1)
        BY <3>3
      <4>2. k = 0 \/ t(0) < t(k)
        BY <2>2, <2>6, <3>3, <4>1 DEF Points
      <4> HIDE DEF t
      <4>3. t(k) >= range.start
        BY <1>1, <3>2, <3>3, <3>4, <4>2
      <4> QED BY <3>3, <3>4, <4>3
    <3>5. CASE t(from) = range.start
      <4>1. k = from \/ k \in 0 .. (from - 1) \/ from \in 0 .. (k - 1)
        BY <3>3
      <4>2. range.start # NoInstant
        BY <1>1 DEF NoInstant
      <4>3. /\ k \in 0 .. (from - 1) => t(k) < t(from)
            /\ from \in 0 .. (k - 1) => t(from) < t(k)
        BY <2>2, <2>6, <3>3, <3>5, <4>2 DEF Points
      <4> HIDE DEF t
      <4> QED BY <1>1, <3>3, <3>5, <4>1, <4>3
    <3> QED BY <2>3, <2>4, <3>4, <3>5
  <2> HIDE DEF t
  <2>7. w.lo .. (w.hi - 1) = RowsAsked(f, range)
    BY <1>2, <2>4, <2>5, <2>6, RunIsAsked DEF t
  <2> QED BY <2>7
<1>3. CASE f.interval = zero
  <2>1. is_zero(zero) /\ ~is_positive(zero) /\ t(0) = f.initial
    BY <1>3, NotZero, ZeroStands
  <2>2. /\ f.count = 1 /\ range.start <= f.initial
        /\ w = Rows(0, IF f.initial < range.end THEN 1 ELSE 0, f.initial)
    BY <1>1, <1>3, <2>1 DEF resolve_windows, Refused
  <2>3. w.lo = 0 /\ w.hi = IF f.initial < range.end THEN 1 ELSE 0
    BY <2>2 DEF Rows
  <2>4. RowsAsked(f, range) = {k \in 0 .. 0 : t(k) # NoInstant /\ t(k) < range.end /\ t(k) >= range.start}
    <3>1. 0 .. (f.count - 1) = 0 .. 0
      BY <2>2
    <3> QED BY <3>1, WindowsAsked
  <2> HIDE DEF t
  <2>5. RowsAsked(f, range) = {k \in 0 .. 0 : f.initial < range.end}
    BY <1>1, <2>1, <2>2, <2>4 DEF NoInstant
  <2> QED BY <2>3, <2>5
<1> QED BY <1>2, <1>3

\* A forecast that a write accepted.
IsForecast(f) ==
  /\ f = Forecast(f.type, f.initial, f.resolution, f.horizon, f.interval, f.count,
                  f.percentiles, f.scenario_count, f.shape)
  /\ f.type \in {"Deterministic", "Probabilistic", "Scenarios"}
  /\ f.initial \in Instant /\ IsPeriod(f.resolution) /\ IsPeriod(f.horizon)
  /\ IsPeriod(f.interval) \/ f.interval = zero
  /\ f.count \in Nat /\ f.percentiles \in Seq(Nat) /\ f.scenario_count \in Nat
  /\ f.shape \in Seq(Nat) /\ validate_forecast(f)

\* Its array has its leads, its steps and its windows in front.
LEMMA ShapeOfForecast ==
    ASSUME NEW f, IsForecast(f), NEW h, h = compute_h(f.horizon, f.resolution)
    PROVE  /\ h \in Nat \ {0} /\ Leads(f) \in Nat /\ leading_dims(f.type) \in {2, 3}
           /\ Len(f.shape) \in Nat /\ leading_dims(f.type) <= Len(f.shape)
           /\ f.shape[leading_dims(f.type)] = f.count
           /\ OuterOf(f.shape, leading_dims(f.type) - 1) = Leads(f) * h
<1> DEFINE s == f.shape
<1>1. s \in Seq(Nat) /\ Len(s) \in Nat
  BY DEF IsForecast
<1>2. Product(SubSeq(s, 1, 0)) = 1
  <2>1. SubSeq(s, 1, 0) = <<>>
    BY <1>1
  <2> QED BY <2>1, EmptyProduct
<1>3. ASSUME Len(s) >= 2 PROVE OuterOf(s, 1) = s[1] /\ s[1] \in Nat /\ s[2] \in Nat
  <2>1. 1 \in 1 .. Len(s) /\ 1 \in 1 .. Len(s) /\ 2 \in 1 .. Len(s) /\ 1 - 1 = 0
    BY <1>1, <1>3
  <2>2. Product(SubSeq(s, 1, 1)) = Product(SubSeq(s, 1, 1 - 1)) * s[1]
    BY <1>1, <2>1, ProductStep
  <2>3. s[1] \in Nat /\ s[2] \in Nat
    BY <1>1, <2>1
  <2> HIDE DEF s
  <2> QED BY <1>2, <2>1, <2>2, <2>3 DEF OuterOf
<1>4. ASSUME Len(s) >= 3 PROVE OuterOf(s, 2) = s[1] * s[2]
  <2>1. 2 \in 1 .. Len(s) /\ 1 \in 1 .. Len(s) /\ 2 - 1 = 1
    BY <1>1, <1>4
  <2>2. Product(SubSeq(s, 1, 2)) = Product(SubSeq(s, 1, 2 - 1)) * s[2]
    <3>1. 2 \in 1 .. Len(s)
      BY <2>1
    <3> HIDE DEF s
    <3> QED BY <1>1, <2>1, <3>1, ProductStep
  <2>3. OuterOf(s, 1) = s[1]
    BY <1>1, <1>3, <1>4
  <2> HIDE DEF s
  <2> QED BY <2>1, <2>2, <2>3 DEF OuterOf
<1>5. CASE f.type = "Deterministic"
  <2>1. ValidDeterministic(f)
    BY <1>5 DEF IsForecast, validate_forecast
  <2>2. h # NoCount /\ Len(s) >= 2 /\ s[1] = h /\ s[2] = f.count
    <3>1. h # NoCount /\ validate_forecast_shape(s, <<h, f.count>>)
      BY <2>1 DEF ValidDeterministic
    <3> HIDE DEF s
    <3> QED BY <3>1 DEF validate_forecast_shape
  <2>3. leading_dims(f.type) = 2 /\ Leads(f) = 1
    BY <1>5 DEF leading_dims, Leads
  <2>4. h \in Nat \ {0}
    BY <2>2, Quotients DEF IsForecast, compute_h
  <2> HIDE DEF s
  <2> QED BY <1>1, <1>3, <2>2, <2>3, <2>4 DEF s
<1>6. CASE f.type = "Probabilistic"
  <2>1. ValidProbabilistic(f)
    BY <1>6 DEF IsForecast, validate_forecast
  <2>2. h # NoCount /\ Len(s) >= 3 /\ s[1] = Len(f.percentiles) /\ s[2] = h /\ s[3] = f.count
    <3>1. h # NoCount /\ validate_forecast_shape(s, <<Len(f.percentiles), h, f.count>>)
      BY <2>1 DEF ValidProbabilistic
    <3> HIDE DEF s
    <3> QED BY <3>1 DEF validate_forecast_shape
  <2>3. leading_dims(f.type) = 3 /\ Leads(f) = Len(f.percentiles) /\ Leads(f) \in Nat
    BY <1>6 DEF leading_dims, Leads, IsForecast
  <2>4. h \in Nat \ {0}
    BY <2>2, Quotients DEF IsForecast, compute_h
  <2> HIDE DEF s
  <2> QED BY <1>1, <1>4, <2>2, <2>3, <2>4 DEF s
<1>7. CASE f.type = "Scenarios"
  <2>1. ValidScenarios(f)
    BY <1>7 DEF IsForecast, validate_forecast
  <2>2. h # NoCount /\ Len(s) >= 3 /\ s[1] = f.scenario_count /\ s[2] = h /\ s[3] = f.count
    <3>1. h # NoCount /\ validate_forecast_shape(s, <<f.scenario_count, h, f.count>>)
      BY <2>1 DEF ValidScenarios
    <3> HIDE DEF s
    <3> QED BY <3>1 DEF validate_forecast_shape
  <2>3. leading_dims(f.type) = 3 /\ Leads(f) = f.scenario_count /\ Leads(f) \in Nat
    BY <1>7 DEF leading_dims, Leads, IsForecast
  <2>4. h \in Nat \ {0}
    BY <2>2, Quotients DEF IsForecast, compute_h
  <2> HIDE DEF s
  <2> QED BY <1>1, <1>4, <2>2, <2>3, <2>4 DEF s
<1> QED BY <1>5, <1>6, <1>7 DEF IsForecast

\* Part of an accepted forecast, its windows lo..hi-1, is one that a write would accept.
LEMMA PartIsValid ==
    ASSUME NEW f, IsForecast(f), NEW at, NEW n \in Nat, n <= f.count,
           NEW part, part = [f EXCEPT !.initial = at, !.count = n,
                                      !.shape = [f.shape EXCEPT ![leading_dims(f.type)] = n]]
    PROVE  validate_forecast(part)
<1> DEFINE h == compute_h(f.horizon, f.resolution)
           d == leading_dims(f.type)
           t == [f.shape EXCEPT ![d] = n]
<1>1. /\ part.type = f.type /\ part.resolution = f.resolution /\ part.horizon = f.horizon
      /\ part.interval = f.interval /\ part.count = n /\ part.percentiles = f.percentiles
      /\ part.scenario_count = f.scenario_count /\ part.shape = t
  <2>1. f = Forecast(f.type, f.initial, f.resolution, f.horizon, f.interval, f.count,
                     f.percentiles, f.scenario_count, f.shape)
    BY DEF IsForecast
  <2>2. DOMAIN f = {"type", "initial", "resolution", "horizon", "interval", "count", "percentiles",
                    "scenario_count", "shape", "zoneless"}
    BY <2>1 DEF Forecast
  <2> HIDE DEF t
  <2>3. part = [f EXCEPT !.initial = at, !.count = n, !.shape = t]
    BY DEF t
  <2> QED BY <2>2, <2>3
<1>2. h # NoCount /\ d \in {2, 3} /\ f.shape \in Seq(Nat) /\ d <= Len(f.shape)
  <2>1. h \in Nat \ {0}
    BY ShapeOfForecast
  <2> QED BY <2>1, ShapeOfForecast DEF NoCount, IsForecast
<1>3. Len(t) = Len(f.shape) /\ t[d] = n /\ \A i \in 1 .. Len(t) : i # d => t[i] = f.shape[i]
  BY <1>2
<1>4. compute_h(part.horizon, part.resolution) = h
  BY <1>1
<1>5. validate_forecast_periods(f) => validate_forecast_periods(part)
  <2>1. f.count \in Nat
    BY DEF IsForecast
  <2>2. f.count <= 1 => n <= 1
    BY <2>1
  <2> QED BY <1>1, <2>2 DEF validate_forecast_periods
<1> HIDE DEF h, t
<1>6. CASE f.type = "Deterministic"
  <2>1. ValidDeterministic(f) /\ d = 2
    BY <1>6 DEF IsForecast, validate_forecast, leading_dims
  <2>2. validate_forecast_shape(f.shape, <<h, f.count>>)
    BY <2>1 DEF ValidDeterministic, h
  <2>3. validate_forecast_shape(t, <<h, n>>)
    <3> HIDE DEF d
    <3>1. f.shape[1] = h
      BY <2>2 DEF validate_forecast_shape
    <3>2. Len(t) \in Nat /\ Len(t) >= 2
      BY <1>2, <1>3, <2>1
    <3>3. t[1] = h /\ t[2] = n
      BY <1>3, <2>1, <3>1, <3>2
    <3> QED BY <3>2, <3>3 DEF validate_forecast_shape
  <2>4. validate_forecast_periods(part)
    BY <1>5, <2>1 DEF ValidDeterministic
  <2>5. ValidDeterministic(part)
    BY <1>1, <1>2, <1>4, <2>3, <2>4, Zenon DEF ValidDeterministic
  <2> QED BY <1>1, <1>6, <2>5 DEF validate_forecast
<1>7. CASE f.type = "Probabilistic"
  <2>1. ValidProbabilistic(f) /\ d = 3
    BY <1>7 DEF IsForecast, validate_forecast, leading_dims
  <2>2. validate_forecast_shape(f.shape, <<Len(f.percentiles), h, f.count>>)
    BY <2>1 DEF ValidProbabilistic, h
  <2>3. validate_forecast_shape(t, <<Len(f.percentiles), h, n>>)
    <3> HIDE DEF d
    <3>1. f.shape[1] = Len(f.percentiles) /\ f.shape[2] = h
      BY <2>2 DEF validate_forecast_shape
    <3>2. Len(t) \in Nat /\ Len(t) >= 3
      BY <1>2, <1>3, <2>1
    <3>3. t[1] = Len(f.percentiles) /\ t[2] = h /\ t[3] = n
      BY <1>3, <2>1, <3>1, <3>2
    <3> QED BY <3>2, <3>3 DEF validate_forecast_shape
  <2>4. validate_forecast_periods(part) /\ f.percentiles # <<>> /\ Increasing(f.percentiles)
    BY <1>5, <2>1 DEF ValidProbabilistic
  <2>5. ValidProbabilistic(part)
    BY <1>1, <1>2, <1>4, <2>3, <2>4, Zenon DEF ValidProbabilistic
  <2> QED BY <1>1, <1>7, <2>5 DEF validate_forecast
<1>8. CASE f.type = "Scenarios"
  <2>1. ValidScenarios(f) /\ d = 3
    BY <1>8 DEF IsForecast, validate_forecast, leading_dims
  <2>2. validate_forecast_shape(f.shape, <<f.scenario_count, h, f.count>>)
    BY <2>1 DEF ValidScenarios, h
  <2>3. validate_forecast_shape(t, <<f.scenario_count, h, n>>)
    <3> HIDE DEF d
    <3>1. f.shape[1] = f.scenario_count /\ f.shape[2] = h
      BY <2>2 DEF validate_forecast_shape
    <3>2. Len(t) \in Nat /\ Len(t) >= 3
      BY <1>2, <1>3, <2>1
    <3>3. t[1] = f.scenario_count /\ t[2] = h /\ t[3] = n
      BY <1>3, <2>1, <3>1, <3>2
    <3> QED BY <3>2, <3>3 DEF validate_forecast_shape
  <2>4. validate_forecast_periods(part)
    BY <1>5, <2>1 DEF ValidScenarios
  <2>5. ValidScenarios(part)
    BY <1>1, <1>2, <1>4, <2>3, <2>4, Zenon DEF ValidScenarios
  <2> QED BY <1>1, <1>8, <2>5 DEF validate_forecast
<1> QED BY <1>6, <1>7, <1>8 DEF IsForecast

\* Windows of a forecast, each value of them in its place.
HoldsWindows(f, r) ==
  /\ r.array.shape = [f.shape EXCEPT ![leading_dims(f.type)] = r.hi - r.lo]
  /\ CellsInPlace(Leads(f) * compute_h(f.horizon, f.resolution), InnerOf(f.shape, leading_dims(f.type) - 1),
                  StoredArray(f).cells, f.count, r.lo, r.array.cells, r.hi - r.lo)

\* A forecast's stored array fills its shape.
LEMMA StoredArrayFills ==
    ASSUME NEW f, f.shape \in Seq(Nat)
    PROVE  IsArray(Nat, StoredArray(f)) /\ StoredArray(f).shape = f.shape
<1> DEFINE n == Product(f.shape)
<1>1. n \in Nat
  BY ProductIsNatural
<1> HIDE DEF n
<1>2. StoredArray(f) = [shape |-> f.shape, cells |-> [i \in 1 .. n |-> i]]
  BY DEF StoredArray, n
<1>3. [i \in 1 .. n |-> i] \in Seq(Nat) /\ Len([i \in 1 .. n |-> i]) = n
  BY <1>1
<1> DEFINE cells == [i \in 1 .. n |-> i]
<1> HIDE DEF cells
<1>4. StoredArray(f) = [shape |-> f.shape, cells |-> cells] /\ cells \in Seq(Nat) /\ Len(cells) = n
  BY <1>2, <1>3 DEF cells
<1> QED BY <1>4 DEF IsArray, n

\* A forecast read by range is declined or holds the windows that start in it; its arrays are
\* never corrupt.
LEMMA ForecastReads ==
    ASSUME NEW f, IsForecast(f), NEW range, range.start \in Instant, range.end \in Instant,
           NEW r, r = ReadForecast(f, range)
    PROVE  \/ Declined(r, f.interval, f.initial, f.count - 1)
           \/ /\ r.ok /\ WindowsOf(f, r) /\ HoldsWindows(f, r) /\ DOMAIN r = {"ok", "lo", "hi", "initial", "array"}
              /\ range.start < range.end => r.lo .. (r.hi - 1) = RowsAsked(f, range)
<1> DEFINE h == compute_h(f.horizon, f.resolution)
           d == leading_dims(f.type)
           w == resolve_windows(f, range)
           n == w.hi - w.lo
           stored == StoredArray(f)
           array == read_forecast_windows(stored, d - 1, w.lo, w.hi)
<1>1. /\ h \in Nat \ {0} /\ Leads(f) \in Nat /\ d \in {2, 3} /\ Len(f.shape) \in Nat /\ d <= Len(f.shape)
      /\ f.shape[d] = f.count /\ OuterOf(f.shape, d - 1) = Leads(f) * h
  BY ShapeOfForecast
<1>2. r = ReadResolved(f, w)
  <2>1. h # NoCount
    BY <1>1 DEF NoCount
  <2> QED BY <2>1 DEF ReadForecast
<1>3. f.type \notin StaticTypes
  BY DEF IsForecast, StaticTypes
<1>4. CASE ~w.ok
  <2>1. r = w
    BY <1>2, <1>4 DEF ReadResolved
  <2>2. Declined(w, f.interval, f.initial, f.count - 1)
    BY <1>4, WindowsDeclined DEF IsForecast
  <2> QED BY <2>1, <2>2
<1>5. CASE w.ok
  <2>1. WindowsOf(f, w)
    BY <1>5, WindowsResolve DEF IsForecast
  <2>2. range.start < range.end => w.lo .. (w.hi - 1) = RowsAsked(f, range)
    BY <1>3, <1>5, WindowsSelected DEF IsForecast
  <2>3. r = Rebuilt(f, w, array)
    <3> HIDE DEF w
    <3> QED BY <1>2, <1>5 DEF ReadResolved
  <2> HIDE DEF w, d, h
  <2>4. w.lo \in Nat /\ w.hi \in Nat /\ w.lo <= w.hi /\ w.hi <= f.count /\ n \in Nat /\ n <= f.count
    BY <2>1 DEF WindowsOf, IsForecast
  <2>5. /\ array # Corrupt /\ array.shape = [f.shape EXCEPT ![d] = n]
        /\ CellsInPlace(Leads(f) * h, InnerOf(f.shape, d - 1), stored.cells, f.count, w.lo, array.cells, n)
    <3>1. IsArray(Nat, stored) /\ stored.shape = f.shape
      BY StoredArrayFills DEF IsForecast
    <3> HIDE DEF stored, array
    <3>2. d - 1 \in Nat /\ d - 1 < Len(stored.shape) /\ (d - 1) + 1 = d
      BY <1>1, <3>1
    <3>3. w.hi <= stored.shape[(d - 1) + 1]
      BY <1>1, <2>4, <3>1, <3>2
    <3>4. array = read_forecast_windows(stored, d - 1, w.lo, w.hi)
      BY DEF array
    <3> DEFINE axis == d - 1
    <3>5. axis \in Nat /\ axis < Len(stored.shape) /\ w.hi <= stored.shape[axis + 1]
      BY <3>2, <3>3
    <3>6. array = read_forecast_windows(stored, axis, w.lo, w.hi)
      BY <3>4
    <3> HIDE DEF axis, n
    <3>7. /\ array # Corrupt /\ array.shape = [stored.shape EXCEPT ![axis + 1] = w.hi - w.lo]
          /\ CellsInPlace(OuterOf(stored.shape, axis), InnerOf(stored.shape, axis),
                          stored.cells, stored.shape[axis + 1], w.lo, array.cells, w.hi - w.lo)
      BY <2>4, <3>1, <3>5, <3>6, WindowsRead
    <3>8. axis + 1 = d
      BY <3>2 DEF axis
    <3> QED BY <1>1, <3>1, <3>7, <3>8 DEF axis, n
  <2> HIDE DEF array
  <2> DEFINE part == [f EXCEPT !.initial = w.initial, !.count = n, !.shape = array.shape]
  <2>6. validate_forecast(part)
    <3>1. part = [f EXCEPT !.initial = w.initial, !.count = n,
                           !.shape = [f.shape EXCEPT ![leading_dims(f.type)] = n]]
      BY <2>5 DEF d
    <3> HIDE DEF part, n
    <3> QED BY <2>4, <3>1, PartIsValid
  <2>7. r = Holding(w, array)
    <3> HIDE DEF w
    <3> QED BY <2>3, <2>5, <2>6 DEF Rebuilt
  <2>8. r.ok /\ r.lo = w.lo /\ r.hi = w.hi /\ r.initial = w.initial /\ r.array = array
    BY <2>7 DEF Holding
  <2>9. DOMAIN r = {"ok", "lo", "hi", "initial", "array"}
    BY <2>7 DEF Holding
  <2>10. WindowsOf(f, r)
    BY <2>1, <2>8 DEF WindowsOf
  <2>11. HoldsWindows(f, r)
    BY <2>5, <2>8 DEF HoldsWindows, h, d
  <2> QED BY <2>2, <2>8, <2>9, <2>10, <2>11
<1> QED BY <1>4, <1>5

\* Each value of a window read is the value the stored forecast has there.
LEMMA CellsAreTheForecasts ==
    ASSUME NEW f, IsForecast(f), NEW r, WindowsOf(f, r), HoldsWindows(f, r),
           NEW h, h = compute_h(f.horizon, f.resolution),
           NEW lead \in 0 .. (Leads(f) - 1), NEW j \in 0 .. (r.hi - r.lo - 1), NEW s \in 0 .. (h - 1),
           NEW e \in 1 .. Product(SubSeq(f.shape, leading_dims(f.type) + 1, Len(f.shape)))
    PROVE  Cell(f, r.array, lead, s, j, e) = Cell(f, StoredArray(f), lead, s, r.lo + j, e)
<1> DEFINE d == leading_dims(f.type)
           n == r.hi - r.lo
           leads == Leads(f)
           inner == InnerOf(f.shape, d - 1)
           stored == StoredArray(f)
           t == r.array.shape
           o == (lead * h) + s
<1>1. /\ h \in Nat \ {0} /\ leads \in Nat /\ d \in {2, 3} /\ Len(f.shape) \in Nat /\ d <= Len(f.shape)
      /\ f.shape[d] = f.count
  BY ShapeOfForecast
<1>2. stored.shape = f.shape /\ f.shape \in Seq(Nat)
  BY StoredArrayFills DEF IsForecast
<1>3. r.lo \in Nat /\ n \in Nat /\ r.hi \in Nat
  BY DEF WindowsOf, IsForecast
<1>4. t = [f.shape EXCEPT ![d] = n]
  BY DEF HoldsWindows
<1> HIDE DEF d, t
<1>5. d + 1 = (d - 1) + 2 /\ d - 1 \in Nat /\ d - 1 < Len(f.shape) /\ (d - 1) + 1 = d
  BY <1>1
<1>6. t[d] = n /\ InnerOf(t, d - 1) = inner
  <2> DEFINE axis == d - 1
  <2>1. axis \in Nat /\ axis < Len(f.shape) /\ t = [f.shape EXCEPT ![axis + 1] = n] /\ axis + 1 = d
    BY <1>4, <1>5
  <2> HIDE DEF axis, n
  <2>2. t[axis + 1] = n /\ InnerOf(t, axis) = InnerOf(f.shape, axis)
    BY <1>2, <1>3, <2>1, OtherAxes
  <2> QED BY <2>1, <2>2 DEF axis
<1>7. /\ Product(SubSeq(t, d + 1, Len(t))) = inner
      /\ Product(SubSeq(f.shape, d + 1, Len(f.shape))) = inner
  BY <1>5, <1>6 DEF InnerOf
<1>8. CellsInPlace(leads * h, inner, stored.cells, f.count, r.lo, r.array.cells, n)
  BY DEF HoldsWindows, d
<1>9. o \in 0 .. (leads * h - 1)
  <2>1. (lead * h) + (s + 1) \in 1 .. (leads * h)
    <3>1. s + 1 \in 1 .. h /\ h \in Nat /\ leads \in Nat
      BY <1>1
    <3> HIDE DEF leads
    <3>2. lead \in 0 .. (leads - 1)
      BY DEF leads
    <3> DEFINE e2 == s + 1
    <3>3. e2 \in 1 .. h
      BY <3>1
    <3> HIDE DEF e2
    <3>4. (lead * h) + e2 \in 1 .. (leads * h)
      BY <3>1, <3>2, <3>3, PlaceInRow
    <3> QED BY <3>4 DEF e2
  <2>2. lead * h \in Nat /\ leads * h \in Nat /\ s \in Nat
    BY <1>1
  <2> DEFINE x == lead * h
             y == leads * h
  <2>3. x \in Nat /\ y \in Nat /\ x + (s + 1) \in 1 .. y
    BY <2>1, <2>2
  <2> HIDE DEF x, y
  <2>4. x + s \in 0 .. (y - 1)
    BY <2>2, <2>3
  <2> QED BY <2>4 DEF x, y
<1> HIDE DEF n, inner, leads, o, stored
<1>10. r.array.cells[(((o * n) + j) * inner) + e] = stored.cells[(((o * f.count) + r.lo + j) * inner) + e]
  <2>1. j \in 0 .. (n - 1) /\ e \in 1 .. inner
    BY <1>7 DEF n, d
  <2> QED BY <1>8, <1>9, <2>1 DEF CellsInPlace
<1>11. Cell(f, r.array, lead, s, j, e) = r.array.cells[(((o * n) + j) * inner) + e]
  BY <1>6, <1>7 DEF Cell, o, d, t
<1>12. Cell(f, stored, lead, s, r.lo + j, e) = stored.cells[(((o * f.count) + (r.lo + j)) * inner) + e]
  BY <1>1, <1>2, <1>7 DEF Cell, o, d
<1>13. (o * f.count) + r.lo + j = (o * f.count) + (r.lo + j)
  <2>1. o \in Nat /\ f.count \in Nat /\ j \in Nat
    <3>1. leads * h \in Int
      BY <1>1
    <3> QED BY <1>3, <1>9, <3>1 DEF IsForecast, n
  <2>2. o * f.count \in Nat
    BY <2>1
  <2> DEFINE x == o * f.count
  <2> HIDE DEF x
  <2>3. x + r.lo + j = x + (r.lo + j)
    BY <1>3, <2>1, <2>2 DEF x
  <2> QED BY <2>3 DEF x
<1> QED BY <1>10, <1>11, <1>12, <1>13 DEF stored

-----------------------------------------------------------------------------
(* Windows of so many steps.                                               *)

\* The day of the calendar that a step into a month lands on.
DayIn(t, m) == MonthStart[m] + Clamped(t, m)

\* It is a day of that month, no later in it than the day stepped from.
LEMMA DayInMonth ==
    ASSUME NEW t \in Instant, NEW m \in 1 .. LastMonth
    PROVE  /\ MonthStart[m] \in Nat /\ DayIn(t, m) \in MonthStart[m] .. (MonthStart[m + 1] - 1)
           /\ DayIn(t, m) \in 0 .. (Days - 1) /\ InMonth(t, m) = DayAt(DayIn(t, m), t)
           /\ Clamped(t, m) = IF DayOf(t) <= MonthLen[m] - 1 THEN DayOf(t) ELSE MonthLen[m] - 1
           /\ DayOf(t) \in Nat /\ MonthLen[m] - 1 \in Nat
<1>1. DOMAIN MonthLen = 1 .. LastMonth /\ LastMonth \in Nat \ {0} /\ Days = MonthStart[LastMonth + 1] /\ Days \in Nat
  BY MonthsHaveDays, DaysAndTicks DEF Days, LastMonth
<1>2. MonthStart[m] \in Nat /\ MonthStart[m + 1] = MonthStart[m] + MonthLen[m] /\ MonthLen[m] \in Nat \ {0}
  BY <1>1, StartsRise, StartsStep, MonthsHaveDays
<1>3. MonthStart[m + 1] <= Days
  <2>1. m \in 1 .. (LastMonth + 1) /\ LastMonth + 1 \in 1 .. (LastMonth + 1) /\ m < LastMonth + 1
    BY <1>1
  <2> QED BY <1>1, <2>1, StartsRise
<1>4. Clamped(t, m) \in 0 .. (MonthLen[m] - 1)
  BY ClampedDay
<1>5. DayIn(t, m) \in MonthStart[m] .. (MonthStart[m + 1] - 1) /\ DayIn(t, m) \in 0 .. (Days - 1)
  BY <1>1, <1>2, <1>3, <1>4 DEF DayIn
<1>6. InMonth(t, m) = DayAt(DayIn(t, m), t)
  BY <1>1 DEF InMonth, Clamped, DayAt, DayIn
<1> DEFINE a == DayOf(t)
           b == MonthLen[m] - 1
<1>7. a \in Nat /\ b \in Nat /\ Clamped(t, m) = Min({a, b})
  <2>1. MonthLen[MonthOf(t)] \in Nat
    BY MonthFound, MonthsHaveDays
  <2> QED BY <1>2, <2>1, MonthFound DEF Clamped
<1> HIDE DEF a, b
<1>8. Clamped(t, m) = IF a <= b THEN a ELSE b
  <2>1. a <= b => Min({a, b}) = a
    BY <1>7, MinIs
  <2>2. b <= a => Min({a, b}) = b
    BY <1>7, MinIs
  <2> QED BY <1>7, <2>1, <2>2
<1> QED BY <1>2, <1>5, <1>6, <1>7, <1>8 DEF a, b

\* A step of months keeps the time of day.
LEMMA TimeOfDayKept ==
    ASSUME NEW t \in Instant, NEW m \in 1 .. LastMonth
    PROVE  InMonth(t, m) % DayTicks = t % DayTicks
<1> DEFINE a == InMonth(t, m)
           day == DayIn(t, m)
           b == DayTicks
           r == t % DayTicks
<1>1. a \in Int /\ day \in Int /\ b \in Nat \ {0} /\ t \in Int /\ a = DayAt(day, t)
  BY DayInMonth, InMonthLands, DaysAndTicks, DayOfInstant
<1> HIDE DEF a, day
<1>2. r \in 0 .. (b - 1)
  BY <1>1, Division
<1>3. a = b * day + r
  BY <1>1 DEF DayAt
<1> HIDE DEF b, r
<1>4. \A z \in Int, s \in 0 .. (b - 1) : a = b * z + s => z = a \div b /\ s = a % b
  BY <1>1, Division, Zenon
<1>5. r = a % b
  BY <1>1, <1>2, <1>3, <1>4
<1> QED BY <1>5 DEF a, b, r

\* Months stepped from a month's clamped day land no later than those stepped from the day
\* itself, but after those of the months before.
LEMMA ClampedStepsLand ==
    ASSUME NEW t \in Instant, NEW m \in 1 .. LastMonth, NEW a, a = InMonth(t, m), NEW n \in 1 .. LastMonth
    PROVE  /\ InMonth(a, n) <= InMonth(t, n)
           /\ \A k \in 1 .. LastMonth : k < n => InMonth(t, k) < InMonth(a, n)
<1>1. a \in Instant /\ MonthOf(a) = m /\ a % DayTicks = t % DayTicks
  BY InMonthLands, TimeOfDayKept
<1>2. DayOf(a) <= DayOf(t)
  <2>1. a = DayAt(DayIn(t, m), t) /\ DayIn(t, m) \in 0 .. (Days - 1)
    BY DayInMonth
  <2>2. a \div DayTicks = DayIn(t, m)
    BY <2>1, DaysAt
  <2>3. Clamped(t, m) \in 0 .. (MonthLen[m] - 1)
    BY ClampedDay
  <2>4. Clamped(t, m) = DayOf(a)
    <3>1. a \div DayTicks = MonthStart[m] + Clamped(t, m)
      BY <2>2 DEF DayIn
    <3> QED BY <1>1, <2>3, <3>1, MonthFound
  <2>5. DayOf(t) \in Nat /\ MonthLen[m] - 1 \in Nat
        /\ Clamped(t, m) = IF DayOf(t) <= MonthLen[m] - 1 THEN DayOf(t) ELSE MonthLen[m] - 1
    BY DayInMonth
  <2> DEFINE x == DayOf(t)
             y == MonthLen[m] - 1
  <2> HIDE DEF x, y
  <2>6. Clamped(t, m) <= x
    BY <2>5 DEF x, y
  <2> QED BY <2>4, <2>6 DEF x
<1>3. /\ DayIn(t, n) \in 0 .. (Days - 1) /\ InMonth(t, n) = DayAt(DayIn(t, n), t)
      /\ DayIn(a, n) \in 0 .. (Days - 1) /\ InMonth(a, n) = DayAt(DayIn(a, n), a)
      /\ MonthStart[n] \in Nat /\ DayIn(a, n) >= MonthStart[n]
  BY <1>1, DayInMonth
<1>4. InMonth(a, n) = DayAt(DayIn(a, n), t)
  BY <1>1, <1>3 DEF DayAt
<1>5. Clamped(a, n) <= Clamped(t, n) /\ Clamped(a, n) \in Int /\ Clamped(t, n) \in Int
  <2>1. /\ Clamped(t, n) = IF DayOf(t) <= MonthLen[n] - 1 THEN DayOf(t) ELSE MonthLen[n] - 1
        /\ Clamped(a, n) = IF DayOf(a) <= MonthLen[n] - 1 THEN DayOf(a) ELSE MonthLen[n] - 1
        /\ DayOf(t) \in Nat /\ DayOf(a) \in Nat /\ MonthLen[n] - 1 \in Nat
    BY <1>1, DayInMonth
  <2> DEFINE y == MonthLen[n] - 1
             da == DayOf(a)
             dt == DayOf(t)
  <2>2. /\ Clamped(t, n) = (IF dt <= y THEN dt ELSE y) /\ Clamped(a, n) = (IF da <= y THEN da ELSE y)
        /\ dt \in Nat /\ da \in Nat /\ y \in Nat /\ da <= dt
    BY <1>2, <2>1
  <2> HIDE DEF y, da, dt
  <2> QED BY <2>2
<1>6. DayIn(a, n) <= DayIn(t, n)
  BY <1>3, <1>5 DEF DayIn
<1>7. InMonth(a, n) <= InMonth(t, n)
  <2>1. InMonth(a, n) \in Nat /\ InMonth(t, n) \in Nat
    BY <1>1, InMonthLands, InstantsAreNaturals
  <2>2. DayIn(a, n) = DayIn(t, n) \/ DayIn(a, n) \in 0 .. (DayIn(t, n) - 1)
    BY <1>3, <1>6, DaysAndTicks
  <2>3. DayIn(a, n) = DayIn(t, n) => InMonth(a, n) = InMonth(t, n)
    BY <1>3, <1>4
  <2>4. DayIn(a, n) \in 0 .. (DayIn(t, n) - 1) => InMonth(a, n) < InMonth(t, n)
    BY <1>3, <1>4, DaysAt
  <2> QED BY <2>1, <2>2, <2>3, <2>4
<1>8. ASSUME NEW k \in 1 .. LastMonth, k < n PROVE InMonth(t, k) < InMonth(a, n)
  <2>1. k \in 1 .. (LastMonth + 1) /\ n \in 1 .. (LastMonth + 1) /\ k + 1 \in 1 .. (LastMonth + 1)
    BY MonthsHaveDays
  <2>2. MonthStart[k + 1] <= MonthStart[n] /\ MonthStart[k + 1] \in Nat /\ MonthStart[k] \in Nat
    BY <1>8, <2>1, StartsRise
  <2>3. DayIn(t, k) \in MonthStart[k] .. (MonthStart[k + 1] - 1) /\ InMonth(t, k) = DayAt(DayIn(t, k), t)
    BY DayInMonth
  <2> DEFINE x == DayIn(t, k)
             y == DayIn(a, n)
             u == MonthStart[k]
             v == MonthStart[k + 1]
             z == MonthStart[n]
  <2>4. x \in u .. (v - 1) /\ y \in Nat /\ y >= z /\ u \in Nat /\ v \in Nat /\ v <= z /\ z \in Nat
    BY <1>3, <2>2, <2>3
  <2> HIDE DEF x, y, u, v, z
  <2>5. x \in 0 .. (y - 1)
    BY <2>4
  <2> QED BY <1>3, <1>4, <2>3, <2>5, DaysAt DEF x, y
<1> QED BY <1>7, <1>8

\* n steps from a point of a grid land after the point before their last and no later than
\* their last, which exists: a clamped month end may fall behind the grid, never into the
\* step before.
LEMMA StepsFromPoint ==
    ASSUME NEW p, IsPeriod(p), NEW start \in Instant, NEW k \in Nat, NEW n \in Nat \ {0},
           NEW at, at = add_to(p, start, k), at \in Instant, NEW e, e = add_to(p, at, n), e # NoInstant
    PROVE  /\ e \in Instant
           /\ add_to(p, start, k + n) \in Instant /\ e <= add_to(p, start, k + n)
           /\ add_to(p, start, k + n - 1) \in Instant /\ add_to(p, start, k + n - 1) < e
<1>1. Points(p, start) /\ Points(p, at)
  BY GridPoints
<1>2. e \in Instant
  BY <1>1 DEF Points
<1>3. NoInstant \notin Instant /\ Instant \subseteq Nat
  BY InstantsAreNaturals
<1> DEFINE i == k + n
           j == k + n - 1
<1>4. i \in Nat /\ j \in Nat /\ j \in 0 .. (i - 1)
  OBVIOUS
<1> HIDE DEF i, j
<1>5. add_to(p, start, i) \in Instant => add_to(p, start, j) \in Instant /\ add_to(p, start, j) < add_to(p, start, i)
  BY <1>1, <1>3, <1>4 DEF Points
<1>6. CASE ~is_irregular(p)
  <2>1. sub_grid_is_anchorable(p, start, k, n + 1)
    BY <1>6 DEF sub_grid_is_anchorable, AnchorsAt
  <2>2. n + 1 \in Nat /\ n \in 0 .. (n + 1 - 1)
    OBVIOUS
  <2>3. e = add_to(p, start, k + n)
    BY <2>1, <2>2, AnchoredRun
  <2>4. add_to(p, start, i) = e
    BY <2>3 DEF i
  <2> QED BY <1>2, <1>3, <1>5, <2>4 DEF i, j
<1>7. CASE is_irregular(p)
  <2> DEFINE m0 == MonthOf(start)
             c == p.n
             m == m0 + c * k
             latest == m0 + c * i
             before == m0 + c * j
  <2>1. c \in Nat \ {0} /\ m0 \in 1 .. LastMonth /\ LastMonth \in Nat
    BY <1>7, PositivePeriods, MonthFound, MonthsHaveDays
  <2>2. \A x \in Nat : add_to(p, start, x) = InMonth(start, m0 + c * x)
    BY <1>7 DEF add_to, checked_add_months
  <2>3. e = InMonth(at, MonthOf(at) + c * n)
    BY <1>7 DEF add_to, checked_add_months
  <2> HIDE DEF m0, c
  <2>4. at = InMonth(start, m)
    BY <2>2
  <2>5. m \in 1 .. LastMonth /\ MonthOf(at) = m
    BY <1>3, <2>4, InMonthLands
  <2>6. m + c * n = latest
    BY <2>1 DEF i
  <2>7. c * i \in Nat /\ c * j \in Nat /\ c * j < c * i /\ c * k \in Nat
    BY <1>4, <2>1, ProductsRise
  <2>8. before < latest /\ before \in Nat /\ 1 <= before
    BY <2>1, <2>7
  <2> HIDE DEF m, latest, before
  <2>9. e = InMonth(at, latest)
    BY <2>3, <2>5, <2>6
  <2>10. latest \in 1 .. LastMonth
    BY <2>9, InMonthLands
  <2>11. before \in 1 .. LastMonth
    BY <2>1, <2>8, <2>10
  <2>12. e <= InMonth(start, latest) /\ InMonth(start, before) < e
    BY <2>4, <2>5, <2>8, <2>9, <2>10, <2>11, ClampedStepsLand
  <2>13. InMonth(start, latest) \in Instant /\ InMonth(start, before) \in Instant
    BY <2>10, <2>11, InMonthLands
  <2>14. add_to(p, start, i) = InMonth(start, latest) /\ add_to(p, start, j) = InMonth(start, before)
    BY <1>4, <2>2 DEF latest, before
  <2> QED BY <1>2, <2>12, <2>13, <2>14 DEF i, j
<1> QED BY <1>6, <1>7

\* n steps from a point of a grid run out only if the grid does.
LEMMA StepsRunOut ==
    ASSUME NEW p, IsPeriod(p), NEW start \in Instant, NEW k \in Nat, NEW n \in Nat,
           NEW at, at = add_to(p, start, k), at \in Instant, add_to(p, at, n) = NoInstant
    PROVE  add_to(p, start, k + n) = NoInstant
<1>1. CASE ~is_irregular(p)
  <2>1. sub_grid_is_anchorable(p, start, k, n + 1)
    BY <1>1 DEF sub_grid_is_anchorable, AnchorsAt
  <2>2. n + 1 \in Nat /\ n \in 0 .. (n + 1 - 1)
    OBVIOUS
  <2> QED BY <2>1, <2>2, AnchoredRun
<1>2. CASE is_irregular(p)
  <2> DEFINE m0 == MonthOf(start)
             c == p.n
             m == m0 + c * k
             latest == m0 + c * (k + n)
  <2>1. c \in Nat \ {0} /\ m0 \in 1 .. LastMonth /\ LastMonth \in Nat
    BY <1>2, PositivePeriods, MonthFound, MonthsHaveDays
  <2>2. \A x \in Nat : add_to(p, start, x) = InMonth(start, m0 + c * x)
    BY <1>2 DEF add_to, checked_add_months
  <2>3. InMonth(at, MonthOf(at) + c * n) = NoInstant
    BY <1>2 DEF add_to, checked_add_months
  <2> HIDE DEF m0, c
  <2>4. at = InMonth(start, m)
    BY <2>2
  <2>5. m \in 1 .. LastMonth /\ MonthOf(at) = m
    BY <2>4, InMonthLands, InstantsAreNaturals
  <2>6. m + c * n = latest
    BY <2>1
  <2>7. latest \notin 1 .. LastMonth
    <3>1. InMonth(at, latest) = NoInstant
      BY <2>3, <2>5, <2>6
    <3> HIDE DEF latest
    <3> QED BY <3>1, InMonthLands, InstantsAreNaturals
  <2>8. add_to(p, start, k + n) = InMonth(start, latest)
    BY <2>2
  <2> HIDE DEF latest
  <2> QED BY <2>7, <2>8, InMonthLands
<1> QED BY <1>1, <1>2

\* So a range of n steps from the k-th point holds the points k..k+n-1 and no other.
LEMMA StepsInRange ==
    ASSUME NEW p, IsPeriod(p), NEW start \in Instant, NEW k \in Nat, NEW n \in Nat \ {0},
           NEW at, at = add_to(p, start, k), at \in Instant, NEW e, e = add_to(p, at, n), e # NoInstant,
           NEW i \in Nat
    PROVE  LET t(x) == add_to(p, start, x) IN
           /\ at < e
           /\ t(i) # NoInstant /\ t(i) < e /\ t(i) >= at <=> i \in k .. (k + n - 1)
           /\ t(i) # NoInstant /\ t(i) < e /\ (t(i + 1) = NoInstant \/ t(i + 1) > at) <=> i \in k .. (k + n - 1)
<1> DEFINE t(x) == add_to(p, start, x)
           b == k + n
           c == k + n - 1
<1>1. /\ e \in Instant /\ t(b) \in Instant /\ e <= t(b) /\ t(c) \in Instant /\ t(c) < e
  BY StepsFromPoint
<1>2. Points(p, start)
  BY GridPoints
<1>3. /\ \A x \in Nat : t(x) \in Nat \cup {-1}
      /\ \A x \in Nat : \A y \in 0 .. (x - 1) : t(x) # -1 => t(y) # -1 /\ t(y) < t(x)
  BY <1>2, InstantsAreNaturals DEF Points, NoInstant
<1>4. e \in Nat /\ at \in Nat /\ t(b) \in Nat /\ t(c) \in Nat /\ t(k) = at /\ NoInstant = -1
  BY <1>1, InstantsAreNaturals DEF NoInstant
<1>5. b \in Nat /\ c \in Nat /\ c = b - 1 /\ k <= c
  OBVIOUS
<1> HIDE DEF t, b, c
<1>6. ASSUME NEW x \in Nat, NEW y \in Nat, x < y, t(y) # -1 PROVE t(x) # -1 /\ t(x) < t(y)
  <2>1. x \in 0 .. (y - 1)
    BY <1>6
  <2> QED BY <1>3, <1>6, <2>1
<1>7. at < e
  <2>1. k = c \/ t(k) < t(c)
    <3>1. k = c \/ k < c
      BY <1>5
    <3>2. t(c) # -1
      BY <1>4
    <3> QED BY <1>5, <1>6, <3>1, <3>2
  <2> QED BY <1>1, <1>4, <2>1
<1>8. CASE i < k
  <2>1. t(k) # -1
    BY <1>4
  <2>2. t(i) # -1 /\ t(i) < t(k)
    BY <1>6, <1>8, <2>1
  <2>3. i + 1 = k \/ (t(i + 1) # -1 /\ t(i + 1) < t(k))
    <3>1. i + 1 \in Nat /\ (i + 1 = k \/ i + 1 < k)
      BY <1>8
    <3> QED BY <1>6, <2>1, <3>1
  <2>4. t(i) \in Nat \cup {-1} /\ t(i + 1) \in Nat \cup {-1}
    BY <1>3
  <2>5. ~(t(i) >= at) /\ ~(t(i + 1) = NoInstant \/ t(i + 1) > at)
    BY <1>4, <2>2, <2>3, <2>4
  <2>6. i \notin k .. c
    BY <1>5, <1>8
  <2> QED BY <1>7, <2>5, <2>6 DEF t, c
<1>9. CASE k <= i /\ i <= c
  <2>1. t(c) # -1
    BY <1>4
  <2>2. i = c \/ (t(i) # -1 /\ t(i) < t(c))
    BY <1>5, <1>6, <1>9, <2>1
  <2>3. t(i) # -1 /\ t(i) < e
    BY <1>1, <1>3, <1>4, <2>1, <2>2
  <2>4. t(i) >= at
    <3>1. i = k \/ t(k) < t(i)
      BY <1>6, <1>9, <2>3
    <3> QED BY <1>3, <1>4, <3>1
  <2>5. t(i + 1) = NoInstant \/ t(i + 1) > at
    <3>1. i + 1 \in Nat /\ i < i + 1 /\ t(i + 1) \in Nat \cup {-1} /\ t(i) \in Nat \cup {-1}
      BY <1>3
    <3>2. t(i + 1) # -1 => t(i) < t(i + 1)
      BY <1>6, <3>1
    <3> QED BY <1>4, <2>4, <3>1, <3>2
  <2>6. i \in k .. c /\ t(i) # NoInstant
    BY <1>4, <1>5, <1>9, <2>3
  <2> QED BY <1>7, <2>3, <2>4, <2>5, <2>6 DEF t, c
<1>10. CASE c < i
  <2>1. b = i \/ b < i
    BY <1>5, <1>10
  <2>2. t(i) # -1 => b = i \/ t(b) < t(i)
    BY <1>5, <1>6, <2>1
  <2>3. t(i) \in Nat \cup {-1}
    BY <1>3
  <2>4. ~(t(i) # NoInstant /\ t(i) < e)
    BY <1>1, <1>4, <2>2, <2>3
  <2>5. i \notin k .. c
    BY <1>5, <1>10
  <2> QED BY <1>7, <2>4, <2>5 DEF t, c
<1> QED BY <1>5, <1>8, <1>9, <1>10

\* Runs that hold the same rows, some at all, begin and end together.
LEMMA SameRun ==
    ASSUME NEW lo \in Int, NEW high \in Int, NEW from \in Int, NEW top \in Int, from <= top,
           lo .. high = from .. top
    PROVE  lo = from /\ high = top
<1>1. from \in lo .. high /\ top \in lo .. high
  <2>1. from \in from .. top /\ top \in from .. top
    OBVIOUS
  <2> QED BY <2>1
<1>2. lo <= high
  BY <1>1
<1>3. lo \in from .. top /\ high \in from .. top
  <2>1. lo \in lo .. high /\ high \in lo .. high
    BY <1>2
  <2> QED BY <2>1
<1> QED BY <1>1, <1>3

\* The n rows from the one at the start, as a range.
RangeOfSteps(p, initial, start, from, n, requested, total, range) ==
  /\ from \in Nat /\ n \in Nat \ {0} /\ from + n <= total
  /\ n = IF requested = Unset THEN total - from ELSE requested
  /\ add_to(p, initial, from) = start
  /\ range.start = start /\ range.end = add_to(p, start, n) /\ range.end # NoInstant

\* A window that resolves on a grid is that range.
LEMMA SteppedWindow ==
    ASSUME NEW p, IsPeriod(p), NEW initial \in Instant, NEW total \in Nat, NEW requested \in {Unset} \cup Nat,
           NEW start \in Instant, NEW window, NEW series, NEW w,
           w = SteppedFrom(window, series, p, start, steps_between(p, initial, start), requested, total), w.ok
    PROVE  \E from, n : RangeOfSteps(p, initial, start, from, n, requested, total, w.range)
<1> DEFINE from == steps_between(p, initial, start)
           asked == IF requested = Unset THEN total - from ELSE requested
           n == extent(requested, from, total)
           e == add_to(p, start, n)
           spelled == IF window.start = NoStart THEN series.zoneless ELSE window.zoneless
<1>1. ~is_zero(p)
  BY NotZero
<1>2. w = Stepped(window, series, p, start, from, n, total)
  BY DEF SteppedFrom
<1>3. from = NoStep \/ (from \in Nat /\ add_to(p, initial, from) = start)
  <2>1. Steps(p, initial) \subseteq Nat
    BY DEF Steps
  <2>2. from = IF \E k \in Steps(p, initial) : add_to(p, initial, k) = start
               THEN CHOOSE k \in Steps(p, initial) : add_to(p, initial, k) = start ELSE NoStep
    BY CountIsExact
  <2> HIDE DEF from
  <2>3. from = NoStep \/ (from \in Steps(p, initial) /\ add_to(p, initial, from) = start)
    BY <2>2
  <2> QED BY <2>1, <2>3
<1> HIDE DEF from
<1>4. n = IF asked = 0 \/ asked > total - from THEN -1 ELSE asked
  BY DEF extent
<1> HIDE DEF n
<1>5. /\ from # NoStep /\ ~(from >= total \/ n = -1)
      /\ w = Spelled(window, series, start, e)
  <2> HIDE DEF e
  <2>1. e = IF is_zero(p) THEN checked_add_signed(start, Sub) ELSE add_to(p, start, n)
    BY <1>1 DEF e
  <2> QED BY <1>2, <2>1 DEF Stepped, Refused
<1>6. e # NoInstant /\ w = [ok |-> TRUE, range |-> TimeRange(start, e, spelled)]
  <2> HIDE DEF e
  <2> QED BY <1>5 DEF Spelled, Corrupt
<1>7. w.range.start = start /\ w.range.end = e
  BY <1>6 DEF TimeRange
<1>8. from \in Nat /\ add_to(p, initial, from) = start
  BY <1>3, <1>5
<1>9. n = asked /\ asked # 0 /\ ~(asked > total - from)
  BY <1>4, <1>5
<1>10. asked \in Nat
  <2>1. total - from \in Nat
    BY <1>5, <1>8
  <2>2. requested # Unset => requested \in Nat
    OBVIOUS
  <2> QED BY <2>1, <2>2
<1> HIDE DEF e
<1>11. n \in Nat \ {0} /\ from + n <= total
  <2> HIDE DEF asked
  <2> QED BY <1>8, <1>9, <1>10
<1> QED BY <1>6, <1>7, <1>8, <1>9, <1>11 DEF RangeOfSteps, e

\* One that does not is refused, or its end lies past the calendar's, as its grid then does.
LEMMA SteppedDeclined ==
    ASSUME NEW p, IsPeriod(p), NEW initial \in Instant, NEW total \in Nat, NEW requested \in {Unset} \cup Nat,
           NEW start \in Instant, NEW window, NEW series, NEW w,
           w = SteppedFrom(window, series, p, start, steps_between(p, initial, start), requested, total), ~w.ok
    PROVE  Declined(w, p, initial, total)
<1> DEFINE from == steps_between(p, initial, start)
           asked == IF requested = Unset THEN total - from ELSE requested
           n == extent(requested, from, total)
           e == add_to(p, start, n)
<1>1. ~is_zero(p)
  BY NotZero
<1>2. w = Stepped(window, series, p, start, from, n, total)
  BY DEF SteppedFrom
<1>3. from = NoStep \/ (from \in Nat /\ add_to(p, initial, from) = start)
  <2>1. Steps(p, initial) \subseteq Nat
    BY DEF Steps
  <2>2. from = IF \E k \in Steps(p, initial) : add_to(p, initial, k) = start
               THEN CHOOSE k \in Steps(p, initial) : add_to(p, initial, k) = start ELSE NoStep
    BY CountIsExact
  <2> HIDE DEF from
  <2>3. from = NoStep \/ (from \in Steps(p, initial) /\ add_to(p, initial, from) = start)
    BY <2>2
  <2> QED BY <2>1, <2>3
<1> HIDE DEF from
<1>4. n = IF asked = 0 \/ asked > total - from THEN -1 ELSE asked
  BY DEF extent
<1> HIDE DEF n
<1>5. \/ w = Refused
      \/ /\ from # NoStep /\ ~(from >= total \/ n = -1)
         /\ w = Spelled(window, series, start, e)
  <2> HIDE DEF e
  <2>1. e = IF is_zero(p) THEN checked_add_signed(start, Sub) ELSE add_to(p, start, n)
    BY <1>1 DEF e
  <2> QED BY <1>2, <2>1, Zenon DEF Stepped
<1>6. ASSUME w # Refused PROVE w = Corrupt /\ RunsOut(p, initial, total)
  <2>1. w = Corrupt /\ e = NoInstant
    <3> HIDE DEF e
    <3>1. w = Spelled(window, series, start, e)
      BY <1>5, <1>6
    <3> QED BY <3>1 DEF Spelled
  <2>2. from \in Nat /\ add_to(p, initial, from) = start /\ ~(from >= total) /\ n # -1
    BY <1>3, <1>5, <1>6
  <2>3. n \in Nat /\ from + n \in 0 .. total
    <3>1. n = asked /\ ~(asked > total - from)
      BY <1>4, <2>2
    <3>2. asked \in Nat
      BY <2>2
    <3> HIDE DEF asked
    <3> QED BY <2>2, <3>1, <3>2
  <2>4. add_to(p, initial, from + n) = NoInstant
    BY <2>1, <2>2, <2>3, StepsRunOut
  <2> QED BY <2>1, <2>3, <2>4 DEF RunsOut
<1> QED BY <1>6 DEF Declined

\* A window on a series of single values reads that many rows, from the one at its start.
LEMMA SingleWindows ==
    ASSUME NEW f, f.type = "SingleTimeSeries", f.initial \in Instant, IsPeriod(f.resolution), f.length \in Nat,
           NEW window, window.start \in Instant \cup {NoStart}, window.len \in {Unset} \cup Nat,
           NEW w, w = resolve_single(window, f), w.ok, NEW r, r = ReadSingle(f, w.range), r.ok
    PROVE  /\ TimeOf(f, r.lo) = StartOf(window, f.initial)
           /\ r.hi - r.lo = IF window.len = Unset THEN f.length - r.lo ELSE window.len
<1> DEFINE start == StartOf(window, f.initial)
           p == f.resolution
           range == w.range
<1>1. start \in Instant
  BY DEF StartOf
<1>2. w = SteppedFrom(window, f, p, start, steps_between(p, f.initial, start), window.len, f.length)
  BY DEF resolve_single, Refused
<1> HIDE DEF start
<1>3. PICK from, n : RangeOfSteps(p, f.initial, start, from, n, window.len, f.length, range)
  BY <1>1, <1>2, SteppedWindow
<1>4. /\ from \in Nat /\ n \in Nat \ {0} /\ from + n <= f.length
      /\ n = IF window.len = Unset THEN f.length - from ELSE window.len
      /\ add_to(p, f.initial, from) = start
      /\ range.start = start /\ range.end = add_to(p, start, n) /\ range.end # NoInstant
  BY <1>3 DEF RangeOfSteps
<1>5. range.end \in Instant
  BY <1>1, <1>4, GridPoints DEF Points
<1> HIDE DEF range
<1>6. r.lo \in Nat /\ r.hi \in r.lo .. f.length /\ r.lo .. (r.hi - 1) = RowsAsked(f, range)
  <2>1. range.start \in Instant /\ r = ReadSingle(f, range)
    BY <1>1, <1>4 DEF range
  <2> QED BY <1>5, <2>1, SingleReads
<1> DEFINE t(k) == add_to(p, f.initial, k)
<1>7. RowsAsked(f, range) = {k \in 0 .. (f.length - 1) :
          /\ t(k) # NoInstant /\ t(k) < range.end
          /\ t(k + 1) = NoInstant \/ t(k + 1) > range.start}
  <2>1. (\A k : TimeOf(f, k) = t(k)) /\ Size(f) = f.length
    BY DEF TimeOf, Size
  <2> HIDE DEF t
  <2> QED BY <2>1 DEF RowsAsked
<1>8. \A k \in Nat : (t(k) # NoInstant /\ t(k) < range.end /\ (t(k + 1) = NoInstant \/ t(k + 1) > range.start))
         <=> k \in from .. (from + n - 1)
  <2> SUFFICES ASSUME NEW k \in Nat
               PROVE (t(k) # NoInstant /\ t(k) < range.end /\ (t(k + 1) = NoInstant \/ t(k + 1) > range.start))
                        <=> k \in from .. (from + n - 1)
    OBVIOUS
  <2>1. t(k) # NoInstant /\ t(k) < range.end /\ (t(k + 1) = NoInstant \/ t(k + 1) > start)
           <=> k \in from .. (from + n - 1)
    BY <1>1, <1>4, StepsInRange
  <2> QED BY <1>4, <2>1
<1> HIDE DEF t
<1>9. RowsAsked(f, range) = {k \in 0 .. (f.length - 1) : k \in from .. (from + n - 1)}
  <2>1. \A k \in 0 .. (f.length - 1) : k \in Nat
    OBVIOUS
  <2> QED BY <1>7, <1>8, <2>1
<1>10. RowsAsked(f, range) = from .. (from + n - 1)
  BY <1>4, <1>9
<1>11. r.lo = from /\ r.hi = from + n
  <2> DEFINE a == r.lo
             b == r.hi - 1
             top == from + n - 1
  <2>1. a \in Int /\ b \in Int /\ top \in Int /\ from \in Int /\ from <= top
    <3>1. r.lo \in Int /\ r.hi \in Int
      BY <1>6
    <3>2. top \in Int /\ from \in Int /\ from <= top
      BY <1>4
    <3> QED BY <3>1, <3>2
  <2>2. a .. b = from .. top
    BY <1>6, <1>10
  <2> HIDE DEF a, b, top
  <2>3. a = from /\ b = top
    BY <2>1, <2>2, SameRun
  <2>4. r.lo \in Int /\ r.hi \in Int /\ from \in Int /\ n \in Int
    BY <1>4, <1>6
  <2> QED BY <2>3, <2>4 DEF a, b, top
<1>12. TimeOf(f, r.lo) = start
  BY <1>4, <1>11 DEF TimeOf
<1> QED BY <1>4, <1>11, <1>12 DEF start

\* A window on a forecast reads that many windows, from the one at its start.
LEMMA ForecastWindows ==
    ASSUME NEW f, IsForecast(f), NEW window, window.start \in Instant \cup {NoStart},
           window.count \in {Unset} \cup Nat,
           NEW w, w = resolve_forecast(window, f), w.ok,
           NEW r, r.lo \in Nat, r.hi \in r.lo .. f.count,
           w.range.start \in Instant /\ w.range.end \in Instant /\ w.range.start < w.range.end
             => r.lo .. (r.hi - 1) = RowsAsked(f, w.range)
    PROVE  /\ w.range.start \in Instant /\ w.range.end \in Instant
           /\ TimeOf(f, r.lo) = StartOf(window, f.initial)
           /\ r.hi - r.lo = IF window.count = Unset THEN f.count - r.lo ELSE window.count
<1> DEFINE start == StartOf(window, f.initial)
           p == f.interval
           range == w.range
           t(k) == add_to(p, f.initial, k)
<1>1. start \in Instant /\ f.initial \in Instant /\ f.count \in Nat /\ r.hi \in Nat
  BY DEF StartOf, IsForecast
<1>2. w = SteppedFrom(window, f, p, start, WindowAtStart(f, start), window.count, f.count)
  BY DEF resolve_forecast, Refused
<1>3. RowsAsked(f, range) = {k \in 0 .. (f.count - 1) : t(k) # NoInstant /\ t(k) < range.end /\ t(k) >= range.start}
  <2>1. f.type \notin StaticTypes
    BY DEF IsForecast, StaticTypes
  <2> QED BY <1>1, <2>1, WindowsAsked
<1>4. TimeOf(f, r.lo) = t(r.lo)
  BY DEF IsForecast, TimeOf
<1> HIDE DEF start
<1>5. CASE IsPeriod(p)
  <2>1. WindowAtStart(f, start) = steps_between(p, f.initial, start)
    BY <1>5, NotZero DEF WindowAtStart
  <2>2. PICK from, n : RangeOfSteps(p, f.initial, start, from, n, window.count, f.count, range)
    BY <1>1, <1>2, <1>5, <2>1, SteppedWindow
  <2>3. /\ from \in Nat /\ n \in Nat \ {0} /\ from + n <= f.count
        /\ n = IF window.count = Unset THEN f.count - from ELSE window.count
        /\ t(from) = start
        /\ range.start = start /\ range.end = add_to(p, start, n) /\ range.end # NoInstant
    BY <2>2 DEF RangeOfSteps
  <2>4. range.end \in Instant
    BY <1>1, <1>5, <2>3, GridPoints DEF Points
  <2> HIDE DEF range, t
  <2>5. range.start < range.end
    BY <1>1, <1>5, <2>3, StepsInRange DEF t
  <2>6. \A k \in Nat : t(k) # NoInstant /\ t(k) < range.end /\ t(k) >= range.start
           <=> k \in from .. (from + n - 1)
    <3> SUFFICES ASSUME NEW k \in Nat
                 PROVE t(k) # NoInstant /\ t(k) < range.end /\ t(k) >= range.start
                          <=> k \in from .. (from + n - 1)
      OBVIOUS
    <3>1. t(k) # NoInstant /\ t(k) < range.end /\ t(k) >= start <=> k \in from .. (from + n - 1)
      BY <1>1, <1>5, <2>3, StepsInRange DEF t
    <3> QED BY <2>3, <3>1
  <2>7. RowsAsked(f, range) = {k \in 0 .. (f.count - 1) : k \in from .. (from + n - 1)}
    <3>1. \A k \in 0 .. (f.count - 1) : k \in Nat
      OBVIOUS
    <3> QED BY <1>3, <2>6, <3>1
  <2>8. RowsAsked(f, range) = from .. (from + n - 1)
    BY <1>1, <2>3, <2>7
  <2>9. r.lo .. (r.hi - 1) = from .. (from + n - 1)
    BY <1>1, <2>3, <2>4, <2>5, <2>8 DEF range
  <2>10. r.lo = from /\ r.hi = from + n
    <3> DEFINE a == r.lo
               b == r.hi - 1
               top == from + n - 1
    <3>1. a \in Int /\ b \in Int /\ top \in Int /\ from \in Int /\ from <= top
      BY <1>1, <2>3
    <3>2. a .. b = from .. top
      BY <2>9
    <3> HIDE DEF a, b, top
    <3>3. a = from /\ b = top
      BY <3>1, <3>2, SameRun
    <3> QED BY <1>1, <2>3, <3>3 DEF a, b, top
  <2> QED BY <1>1, <1>4, <2>3, <2>4, <2>10 DEF range, start
<1>6. CASE p = zero
  <2>1. is_zero(p) /\ ~is_positive(p) /\ t(0) = f.initial
    BY <1>1, <1>6, NotZero, ZeroStands
  <2> DEFINE from == WindowAtStart(f, start)
             n == extent(window.count, from, f.count)
             asked == IF window.count = Unset THEN f.count - from ELSE window.count
             e == checked_add_signed(start, Sub)
             spelled == IF window.start = NoStart THEN f.zoneless ELSE window.zoneless
  <2>2. from = IF start = f.initial THEN 0 ELSE NoStep
    BY <2>1 DEF WindowAtStart
  <2> HIDE DEF from
  <2>3. n = IF asked = 0 \/ asked > f.count - from THEN -1 ELSE asked
    BY DEF extent
  <2> HIDE DEF n
  <2>4. from # NoStep /\ ~(from >= f.count \/ n = -1) /\ w = Spelled(window, f, start, e)
    <3> HIDE DEF e
    <3>1. w = Stepped(window, f, p, start, from, n, f.count)
      BY <1>2 DEF SteppedFrom, from, n
    <3>2. e = IF is_zero(p) THEN checked_add_signed(start, Sub) ELSE add_to(p, start, n)
      BY <2>1 DEF e
    <3> QED BY <3>1, <3>2 DEF Stepped, Refused
  <2>5. e # NoInstant /\ w = [ok |-> TRUE, range |-> TimeRange(start, e, spelled)]
    <3> HIDE DEF e
    <3> QED BY <2>4 DEF Spelled, Corrupt
  <2>6. range.start = start /\ range.end = e
    BY <2>5 DEF TimeRange
  <2>7. start = f.initial /\ from = 0
    BY <2>2, <2>4
  <2>8. e = start + Sub /\ e \in Instant
    BY <2>5 DEF checked_add_signed
  <2>9. start \in Nat /\ Sub \in Nat \ {0} /\ start < e
    <3>1. start \in Nat /\ Sub \in Nat \ {0}
      BY <1>1, InstantsAreNaturals, DaysAndTicks
    <3> QED BY <2>8, <3>1
  <2>10. f.count = 1
    <3>1. validate_forecast_periods(f)
      BY DEF IsForecast, validate_forecast, ValidDeterministic, ValidProbabilistic, ValidScenarios
    <3>2. f.count <= 1
      BY <2>1, <3>1 DEF validate_forecast_periods
    <3> QED BY <1>1, <2>4, <2>7, <3>2
  <2> HIDE DEF e, range, t
  <2>11. RowsAsked(f, range) = 0 .. 0
    <3>1. 0 .. (f.count - 1) = 0 .. 0 /\ 0 .. 0 = {0}
      BY <2>10
    <3>2. t(0) # NoInstant /\ t(0) < range.end /\ t(0) >= range.start
      BY <2>1, <2>6, <2>7, <2>9 DEF NoInstant
    <3> QED BY <1>3, <3>1, <3>2
  <2>12. r.lo .. (r.hi - 1) = 0 .. (0 + 1 - 1)
    <3>1. r.lo .. (r.hi - 1) = RowsAsked(f, range)
      BY <1>1, <2>6, <2>8, <2>9 DEF range
    <3> QED BY <2>11, <3>1
  <2>13. r.lo = 0 /\ r.hi = 1
    <3> DEFINE a == r.lo
               b == r.hi - 1
               first == 0
    <3>1. a \in Int /\ b \in Int /\ first \in Int /\ first <= first
      BY <1>1
    <3>2. a .. b = first .. first
      BY <2>12
    <3> HIDE DEF a, b, first
    <3>3. a = first /\ b = first
      BY <3>1, <3>2, SameRun
    <3> QED BY <1>1, <3>3 DEF a, b, first
  <2>14. asked = 1
    <3>1. asked # 0 /\ ~(asked > 1)
      BY <2>3, <2>4, <2>7, <2>10
    <3>2. asked \in Nat
      BY <2>7, <2>10
    <3> HIDE DEF asked
    <3> QED BY <3>1, <3>2
  <2> QED BY <1>1, <1>4, <2>1, <2>6, <2>7, <2>8, <2>10, <2>13, <2>14 DEF range, start, asked
<1> QED BY <1>5, <1>6 DEF IsForecast

\* A window on an irregular series reads that many rows, from the one at its start; it is
\* never refused once the window is.
LEMMA IrregularWindows ==
    ASSUME NEW f, NEW m, Rising(f.timestamps, m),
           f.type \in {"NonSequentialTimeSeries", "PersistentTimeSeries"},
           NEW window, window.start \in Int, window.len \in {Unset} \cup Nat,
           NEW w, w = resolve_non_sequential(window, f), w.ok,
           NEW r, r = IF f.type = "PersistentTimeSeries" THEN ReadPersistent(f, w.range)
                      ELSE ReadNonSequential(f, w.range)
    PROVE  /\ r.ok /\ r # Corrupt
           /\ TimeOf(f, r.lo) = IF window.start = NoStart THEN TimeOf(f, 0) ELSE window.start
           /\ r.hi - r.lo = IF window.len = Unset THEN Size(f) - r.lo ELSE window.len
<1> DEFINE ts == f.timestamps
           total == Len(ts)
           start == IF window.start = NoStart THEN ts[1] ELSE window.start
           from == Before(ts, start)
           n == extent(window.len, from, total)
           asked == IF window.len = Unset THEN total - from ELSE window.len
           e == end_after(ts, from + n)
           range == w.range
           spelled == IF window.start = NoStart THEN f.zoneless ELSE window.zoneless
<1>1. m \in Nat /\ total = m /\ Size(f) = m /\ \A i \in 1 .. m : ts[i] \in Int
  BY DEF Rising, Size
<1>2. /\ total # 0 /\ ~(from >= total) /\ ts[from + 1] = start /\ n # -1
      /\ w = Spelled(window, f, start, e)
  <2> HIDE DEF e, n, from, start
  <2> QED BY DEF resolve_non_sequential, Refused, e, n, from, start
<1>3. e # NoInstant /\ w = [ok |-> TRUE, range |-> TimeRange(start, e, spelled)]
  <2> HIDE DEF e, start
  <2> QED BY <1>2 DEF Spelled, Corrupt
<1>4. range.start = start /\ range.end = e
  BY <1>3 DEF TimeRange
<1>5. n = IF asked = 0 \/ asked > total - from THEN -1 ELSE asked
  BY DEF extent
<1>6. start \in Int
  BY <1>1, <1>2
<1> HIDE DEF start
<1>7. from \in 0 .. m /\ \A i \in 1 .. m : ts[i] < start <=> i <= from
  BY <1>6, BeforeSplits
<1> HIDE DEF from, n
<1>8. from \in Nat /\ from < m /\ asked \in Nat
  BY <1>1, <1>2, <1>7
<1>9. n = asked /\ n \in Nat \ {0} /\ from + n <= m
  <2>1. asked # 0 /\ ~(asked > total - from) /\ n = asked
    BY <1>2, <1>5
  <2> HIDE DEF asked
  <2> QED BY <1>1, <1>8, <2>1
<1>10. \A i, j \in 1 .. m : i < j => ts[i] < ts[j]
  BY RisingOrder
<1>11. e \in Int /\ \A i \in 1 .. m : ts[i] < e <=> i <= from + n
  <2> DEFINE k == from + n
  <2>1. k \in 1 .. m
    BY <1>1, <1>8, <1>9
  <2> HIDE DEF k
  <2>2. CASE k < m
    <3>1. e = ts[k + 1] /\ k + 1 \in 1 .. m
      BY <1>1, <2>1, <2>2 DEF end_after, k
    <3>2. ASSUME NEW i \in 1 .. m PROVE ts[i] < ts[k + 1] <=> i <= k
      <4>1. ts[i] \in Int /\ ts[k + 1] \in Int /\ i \in Int /\ k \in Int
        BY <1>1, <2>1, <3>1
      <4>2. i < k + 1 => ts[i] < ts[k + 1]
        BY <1>10, <3>1
      <4>3. k + 1 < i => ts[k + 1] < ts[i]
        BY <1>10, <3>1
      <4>4. i < k + 1 \/ i = k + 1 \/ k + 1 < i
        BY <4>1
      <4> QED BY <4>1, <4>2, <4>3, <4>4
    <3> QED BY <1>1, <3>1, <3>2 DEF k
  <2>3. CASE ~(k < m)
    <3>1. k = m /\ e = checked_add_signed(ts[m], Sub)
      BY <1>1, <2>1, <2>3 DEF end_after, k
    <3>2. e = ts[m] + Sub
      BY <1>3, <3>1 DEF checked_add_signed
    <3>3. m \in 1 .. m /\ ts[m] \in Int /\ Sub \in Nat \ {0}
      BY <1>1, <2>1, DaysAndTicks
    <3>4. ASSUME NEW i \in 1 .. m PROVE ts[i] < e /\ i <= k
      <4>1. ts[i] \in Int /\ (i = m \/ i < m)
        BY <1>1
      <4>2. ts[i] <= ts[m]
        BY <1>10, <3>3, <4>1
      <4> QED BY <1>1, <3>1, <3>2, <3>3, <4>1, <4>2
    <3> QED BY <3>2, <3>3, <3>4 DEF k
  <2> QED BY <2>2, <2>3
<1> HIDE DEF e, asked
<1>12. start < e
  <2>1. from + 1 \in 1 .. m /\ from + 1 <= from + n
    BY <1>1, <1>8, <1>9
  <2> QED BY <1>2, <1>11, <2>1
<1>13. Before(ts, e) = from + n
  <2> DEFINE b == Before(ts, e)
             k == from + n
  <2>1. b \in 0 .. m /\ \A i \in 1 .. m : ts[i] < e <=> i <= b
    BY <1>11, BeforeSplits
  <2>2. k \in 1 .. m
    BY <1>1, <1>8, <1>9
  <2>3. \A i \in 1 .. m : i <= b <=> i <= k
    BY <1>11, <2>1
  <2> HIDE DEF b, k
  <2>4. k <= b
    BY <1>1, <2>2, <2>3
  <2>5. b \in 1 .. m
    BY <1>1, <2>1, <2>2, <2>4
  <2>6. b <= k
    BY <1>1, <2>3, <2>5
  <2> QED BY <1>1, <2>1, <2>2, <2>4, <2>6 DEF b, k
<1>14. r = Rows(from, from + n, start)
  <2>1. CASE f.type = "NonSequentialTimeSeries"
    <3>1. ~(e < start)
      BY <1>6, <1>11, <1>12
    <3>2. r = Rows(Before(ts, start), Before(ts, e), start)
      BY <1>4, <2>1, <3>1 DEF ReadNonSequential
    <3> QED BY <1>13, <3>2 DEF from
  <2>2. CASE f.type = "PersistentTimeSeries"
    <3>1. ~(e < start) /\ ~(e = start)
      BY <1>6, <1>11, <1>12
    <3>2. index_at(ts, start) = from
      <4> DEFINE a == index_at(ts, start)
      <4>1. a \in -1 .. (m - 1) /\ \A i \in 1 .. m : ts[i] <= start <=> i <= a + 1
        BY <1>6, IndexSplits
      <4>2. a \in Int
        BY <1>1, <4>1
      <4> HIDE DEF a
      <4>3. from + 1 \in 1 .. m /\ ts[from + 1] <= start
        BY <1>1, <1>2, <1>6, <1>8
      <4>4. from + 1 <= a + 1
        BY <4>1, <4>3
      <4>5. a <= from
        <5> SUFFICES ASSUME a > from PROVE FALSE
          BY <1>8, <4>2
        <5>1. a + 1 \in 1 .. m /\ from + 1 < a + 1 /\ a + 1 <= a + 1
          BY <1>1, <1>8, <4>1, <4>2
        <5>2. ts[a + 1] <= start /\ ts[from + 1] < ts[a + 1] /\ ts[a + 1] \in Int
          BY <1>1, <1>10, <4>1, <4>3, <5>1
        <5> QED BY <1>2, <1>6, <5>2
      <4> QED BY <1>8, <4>2, <4>4, <4>5 DEF a
    <3>3. ~(from < 0)
      BY <1>8
    <3>4. r = Rows(from, Before(ts, e), start)
      BY <1>4, <2>2, <3>1, <3>2, <3>3 DEF ReadPersistent
    <3> QED BY <1>13, <3>4
  <2> QED BY <2>1, <2>2
<1>15. r.ok /\ r.lo = from /\ r.hi = from + n
  BY <1>14 DEF Rows
<1>16. r # Corrupt
  <2>1. Corrupt.ok = FALSE
    BY DEF Corrupt
  <2> QED BY <1>15, <2>1
<1>17. TimeOf(f, r.lo) = start
  BY <1>2, <1>15 DEF TimeOf
<1>18. TimeOf(f, 0) = ts[1]
  BY DEF TimeOf
<1>19. r.hi - r.lo = n
  BY <1>8, <1>9, <1>15
<1> QED BY <1>1, <1>9, <1>15, <1>16, <1>17, <1>18, <1>19 DEF start, asked

-----------------------------------------------------------------------------
(* The questions about reads.                                              *)

\* A series a question may be about.
IsSeries(f) ==
  /\ f.type \in SeriesTypes
  /\ f.type = "SingleTimeSeries" =>
       /\ f = Single(f.initial, f.resolution, f.length, f.zoneless)
       /\ f.initial \in Instant /\ IsPeriod(f.resolution) /\ f.length \in Nat
  /\ f.type \in {"NonSequentialTimeSeries", "PersistentTimeSeries"} =>
       \E n : Rising(f.timestamps, n) /\ NoInstant \notin {f.timestamps[i] : i \in 1 .. n}
  /\ f.type \notin StaticTypes => IsForecast(f)

\* The first start is an instant.
LEMMA FirstStart == Min(Starts) \in Instant
<1>1. Starts \subseteq Nat /\ Starts \subseteq Int /\ Starts # {} /\ Starts \subseteq Instant
  <2>1. Starts \subseteq Instant /\ Starts # {}
    BY QuestionAssumption
  <2> QED BY <2>1, InstantsAreNaturals
<1>2. PICK x \in Starts : \A y \in Starts : x <= y
  BY <1>1, LeastNatural
<1>3. Min(Starts) = x
  BY <1>1, <1>2, MinIs
<1> QED BY <1>1, <1>3

\* The shapes a caller may give are vectors of numbers.
LEMMA ShapesAreNumbers == Shapes \subseteq Seq(Nat)
<1>1. 0 .. MaxLen \subseteq Nat
  BY QuestionAssumption
<1>2. \A s \in [1 .. 2 -> 0 .. MaxLen] : s \in Seq(Nat)
  <2> SUFFICES ASSUME NEW s \in [1 .. 2 -> 0 .. MaxLen] PROVE s \in Seq(Nat)
    OBVIOUS
  <2>1. s \in [1 .. 2 -> Nat] /\ 2 \in Nat
    BY <1>1
  <2> QED BY <2>1, SeqDef
<1>3. \A s \in {2} \X {1, 2} \X (0 .. MaxLen) : s \in Seq(Nat)
  <2>1. \A a, b, c \in Nat : <<a, b, c>> \in Seq(Nat)
    OBVIOUS
  <2> SUFFICES ASSUME NEW s \in {2} \X {1, 2} \X (0 .. MaxLen) PROVE s \in Seq(Nat)
    OBVIOUS
  <2>2. s = <<s[1], s[2], s[3]>> /\ s[1] \in Nat /\ s[2] \in Nat /\ s[3] \in Nat
    BY <1>1
  <2> QED BY <2>1, <2>2
<1>4. \A s \in {2} \X {1} \X {3} \X {2} : s \in Seq(Nat)
  <2>1. \A s \in {2} \X {1} \X {3} \X {2} : s = <<2, 1, 3, 2>>
    OBVIOUS
  <2>2. <<2, 1, 3, 2>> \in Seq(Nat)
    OBVIOUS
  <2> QED BY <2>1, <2>2
<1> QED BY <1>2, <1>3, <1>4 DEF Shapes

\* Those an irregular series may have its values at.
LEMMA IrregularsAre ==
    ASSUME NEW f \in Irregulars
    PROVE  IsSeries(f)
<1>1. \A x \in Irregulars : /\ x.type \in {"NonSequentialTimeSeries", "PersistentTimeSeries"}
                           /\ x.timestamps \in InstantVectors(Starts, 3)
  BY DEF Irregulars, Irregular
<1> DEFINE ts == f.timestamps
<1>2. f.type \in {"NonSequentialTimeSeries", "PersistentTimeSeries"} /\ ts \in InstantVectors(Starts, 3)
  BY <1>1
<1> HIDE DEF ts
<1>3. PICK n \in 0 .. 3 : ts \in [1 .. n -> Starts]
  BY <1>2 DEF InstantVectors
<1>4. Increasing(ts)
  BY <1>2 DEF InstantVectors
<1>5. Starts \subseteq Int /\ NoInstant \notin Starts
  BY InstantsAreNaturals, QuestionAssumption
<1>6. n \in Nat /\ ts \in [1 .. n -> Int]
  <2>1. n \in Nat
    OBVIOUS
  <2>2. \A S, T : S \subseteq T => [1 .. n -> S] \subseteq [1 .. n -> T]
    OBVIOUS
  <2> QED BY <1>3, <1>5, <2>1, <2>2
<1>7. NoInstant \notin {ts[i] : i \in 1 .. n}
  <2>1. \A i \in 1 .. n : ts[i] \in Starts
    BY <1>3
  <2> QED BY <1>5, <2>1
<1>8. Rising(ts, n)
  BY <1>4, <1>6 DEF Rising
<1> QED BY <1>2, <1>7, <1>8 DEF IsSeries, SeriesTypes, StaticTypes, ts

\* A single series of the questions has positive steps.
LEMMA SinglesAre ==
    ASSUME NEW f \in Singles
    PROVE  IsSeries(f)
<1>1. \A x \in Singles : /\ x.type = "SingleTimeSeries" /\ x = Single(x.initial, x.resolution, x.length, x.zoneless)
                        /\ x.initial \in Starts /\ x.resolution \in Grids /\ x.length \in 0 .. MaxLen
  BY DEF Singles, Single
<1>2. f.initial \in Instant /\ f.length \in Nat /\ IsPeriod(f.resolution)
  BY <1>1, QuestionAssumption DEF IsPeriod
<1> QED BY <1>1, <1>2 DEF IsSeries, SeriesTypes, StaticTypes

\* A forecast of the questions that a write accepts is one.
LEMMA BuiltForecastsAre ==
    ASSUME NEW f \in BuiltForecasts
    PROVE  IsSeries(f)
<1> DEFINE Wanted ==
      /\ f = Forecast(f.type, f.initial, f.resolution, f.horizon, f.interval, f.count,
                      f.percentiles, f.scenario_count, f.shape)
      /\ f.type \in {"Deterministic", "Probabilistic", "Scenarios"}
      /\ f.initial \in Starts \cup {Min(Starts)}
      /\ f.resolution = Fixed(Sub) /\ (f.horizon = Fixed(1 * Sub) \/ f.horizon = Fixed(2 * Sub))
      /\ f.interval \in Grids \cup {zero} /\ f.count \in 0 .. MaxLen
      /\ f.percentiles \in {<<>>, <<1, 9>>, <<9, 1>>} /\ f.scenario_count \in {0, 2}
      /\ f.shape \in Shapes
<1>1. \A x \in Deterministics :
         /\ x = Forecast(x.type, x.initial, x.resolution, x.horizon, x.interval, x.count,
                         x.percentiles, x.scenario_count, x.shape)
         /\ x.type = "Deterministic" /\ x.initial \in Starts /\ x.resolution = Fixed(Sub)
         /\ x.horizon = Fixed(1 * Sub) \/ x.horizon = Fixed(2 * Sub)
         /\ x.interval \in Grids \cup {zero} /\ x.count \in 0 .. MaxLen
         /\ x.percentiles = <<>> /\ x.scenario_count = 0 /\ x.shape \in Shapes
  BY DEF Deterministics, Forecast
<1>2. \A x \in Ensembles :
         /\ x = Forecast(x.type, x.initial, x.resolution, x.horizon, x.interval, x.count,
                         x.percentiles, x.scenario_count, x.shape)
         /\ x.type \in {"Probabilistic", "Scenarios"} /\ x.initial = Min(Starts) /\ x.resolution = Fixed(Sub)
         /\ x.horizon = Fixed(1 * Sub) \/ x.horizon = Fixed(2 * Sub)
         /\ x.interval \in Grids \cup {zero} /\ x.count \in 0 .. MaxLen
         /\ x.percentiles \in {<<>>, <<1, 9>>, <<9, 1>>} /\ x.scenario_count = 2 /\ x.shape \in Shapes
  BY DEF Ensembles, Forecast
<1>3. Wanted /\ validate_data(f)
  BY <1>1, <1>2 DEF BuiltForecasts
<1>4. validate_forecast(f)
  <2>1. f.type \notin StaticTypes
    BY <1>3 DEF StaticTypes
  <2> QED BY <1>3, <2>1 DEF validate_data, StaticTypes
<1>5. is_positive(f.resolution) /\ is_positive(f.horizon)
  <2>1. validate_forecast_periods(f)
    BY <1>3, <1>4 DEF validate_forecast, ValidDeterministic, ValidProbabilistic, ValidScenarios
  <2> QED BY <2>1 DEF validate_forecast_periods
<1>6. \A n \in Int : Fixed(n) \in [kind : {"fixed", "months"}, n : Int]
  BY DEF Fixed
<1>7. Sub \in Int /\ 1 * Sub \in Int /\ 2 * Sub \in Int
  BY DaysAndTicks
<1>8. IsPeriod(f.resolution) /\ IsPeriod(f.horizon)
  BY <1>3, <1>5, <1>6, <1>7 DEF IsPeriod
<1>9. IsPeriod(f.interval) \/ f.interval = zero
  BY <1>3, QuestionAssumption DEF IsPeriod
<1>10. f.initial \in Instant /\ f.count \in Nat /\ f.scenario_count \in Nat
  BY <1>3, FirstStart, QuestionAssumption
<1>11. f.percentiles \in Seq(Nat) /\ f.shape \in Seq(Nat)
  <2>1. <<>> \in Seq(Nat) /\ <<1, 9>> \in Seq(Nat) /\ <<9, 1>> \in Seq(Nat)
    OBVIOUS
  <2> QED BY <1>3, <2>1, ShapesAreNumbers
<1>12. IsForecast(f)
  BY <1>3, <1>4, <1>8, <1>9, <1>10, <1>11 DEF IsForecast
<1> QED BY <1>3, <1>12 DEF IsSeries, SeriesTypes, StaticTypes

\* A question about a read is about such a series, and names instants and numbers of steps.
ReadQuestions ==
  /\ subject.type \in SeriesTypes => IsSeries(subject)
  /\ q.kind = "range" => /\ subject.type \in SeriesTypes
                         /\ q.range.start \in Instant /\ q.range.end \in Instant
  /\ q.kind = "window" => /\ subject.type \in SeriesTypes
                          /\ q.start \in Instant \cup {NoStart}
                          /\ q.len \in {Unset} \cup Nat /\ q.count \in {Unset} \cup Nat

\* The other subjects are of other types.
LEMMA ReadQuestionsAtFirst == QuestionsInit => ReadQuestions
<1> SUFFICES ASSUME QuestionsInit PROVE ReadQuestions
  OBVIOUS
<1>1. q.kind = "none"
  BY DEF QuestionsInit, Nothing
<1>2. \A s \in Series : IsSeries(s)
  BY SinglesAre, IrregularsAre, BuiltForecastsAre DEF Series
<1>3. \A s \in ForeignTables \cup Args \cup Catalogs : s.type \notin SeriesTypes
  BY DEF ForeignTables, Args, Catalogs, SeriesTypes, StaticTypes
<1>4. subject.type \in SeriesTypes => subject \in Series
  BY <1>3 DEF QuestionsInit, SeriesTypes, StaticTypes
<1> QED BY <1>1, <1>2, <1>4 DEF ReadQuestions

\* Only a range and a window ask about a read.
LEMMA ReadQuestionsKept == ReadQuestions /\ [QuestionsNext]_questionVars => ReadQuestions'
<1> SUFFICES ASSUME ReadQuestions, [QuestionsNext]_questionVars PROVE ReadQuestions'
  OBVIOUS
<1>1. CASE UNCHANGED questionVars
  BY <1>1 DEF questionVars, ReadQuestions
<1>2. ASSUME UNCHANGED subject, q'.kind \notin {"range", "window"} PROVE ReadQuestions'
  BY <1>2 DEF ReadQuestions
<1> DEFINE Others == {"steps", "infer", "period", "view", "text", "spell", "export", "import",
                     "values", "construct", "list", "ids", "count", "links", "add", "remove",
                     "move", "attribute"}
<1>3. \A kind \in Others : \A types, question : Ask(kind, types, question) => ReadQuestions'
  <2> SUFFICES ASSUME NEW kind \in Others, NEW types, NEW question, Ask(kind, types, question)
               PROVE  ReadQuestions'
    OBVIOUS
  <2>1. UNCHANGED subject /\ q'.kind = kind
    BY Tagging
  <2> QED BY <1>2, <2>1
<1>4. /\ {"steps", "infer", "period", "view", "text", "spell"} \subseteq Others
      /\ {"export", "import", "values", "construct", "list", "ids", "count"} \subseteq Others
      /\ {"links", "add", "remove", "move", "attribute"} \subseteq Others
  OBVIOUS
<1> HIDE DEF Others
<1>5. CASE ReadRange
  <2>1. PICK s \in Bounds, e \in Bounds : Ask("range", SeriesTypes, [range |-> TimeRange(s, e, FALSE)])
    BY <1>5 DEF ReadRange
  <2> DEFINE question == [range |-> TimeRange(s, e, FALSE)]
  <2>2. /\ subject.type \in SeriesTypes /\ UNCHANGED subject /\ q'.kind = "range"
        /\ \A x \in DOMAIN question : x # "kind" => q'[x] = question[x]
    <3>1. Ask("range", SeriesTypes, question)
      BY <2>1
    <3> HIDE DEF question
    <3> QED BY <3>1, Tagging
  <2>3. "range" \in DOMAIN question /\ question.range = TimeRange(s, e, FALSE)
    OBVIOUS
  <2> HIDE DEF question
  <2>4. q'.range = TimeRange(s, e, FALSE)
    BY <2>2, <2>3
  <2>5. q'.range.start = s /\ q'.range.end = e
    BY <2>4 DEF TimeRange
  <2> QED BY <2>2, <2>5, QuestionAssumption DEF ReadQuestions
<1>10. CASE ReadSteps
  <2>1. PICK start \in Bounds \cup {NoStart}, zoneless \in BOOLEAN, len \in {Unset} \cup 0 .. 2, count \in {Unset, 1} :
          Ask("window", SeriesTypes, [start |-> start, zoneless |-> zoneless, len |-> len, count |-> count])
    BY <1>10 DEF ReadSteps
  <2> DEFINE question == [start |-> start, zoneless |-> zoneless, len |-> len, count |-> count]
  <2>2. /\ subject.type \in SeriesTypes /\ UNCHANGED subject /\ q'.kind = "window"
        /\ \A x \in DOMAIN question : x # "kind" => q'[x] = question[x]
    <3>1. Ask("window", SeriesTypes, question)
      BY <2>1
    <3> HIDE DEF question
    <3> QED BY <3>1, Tagging
  <2>3. /\ {"start", "len", "count"} \subseteq DOMAIN question
        /\ question.start = start /\ question.len = len /\ question.count = count
    OBVIOUS
  <2> HIDE DEF question
  <2>4. q'.start = start /\ q'.len = len /\ q'.count = count
    BY <2>2, <2>3
  <2>5. /\ start \in Instant \cup {NoStart} /\ len \in {Unset} \cup Nat /\ count \in {Unset} \cup Nat
    BY QuestionAssumption
  <2> QED BY <2>2, <2>4, <2>5 DEF ReadQuestions
<1>6. CASE AskSteps
  BY <1>3, <1>4, <1>6 DEF AskSteps
<1>7. CASE AskInfer
  BY <1>3, <1>4, <1>7 DEF AskInfer
<1>8. CASE AskPeriod
  BY <1>3, <1>4, <1>8 DEF AskPeriod
<1>9. CASE Transform
  BY <1>3, <1>4, <1>9 DEF Transform
<1>11. CASE AskText
  BY <1>3, <1>4, <1>11 DEF AskText
<1>12. CASE AskSpell
  BY <1>3, <1>4, <1>12 DEF AskSpell
<1>13. CASE ExportArrow
  BY <1>3, <1>4, <1>13 DEF ExportArrow
<1>14. CASE ImportArrow
  BY <1>3, <1>4, <1>14 DEF ImportArrow
<1>15. CASE FromValues
  BY <1>3, <1>4, <1>15 DEF FromValues
<1>16. CASE ConstructForecast
  BY <1>3, <1>4, <1>16 DEF ConstructForecast
<1>17. CASE ConstructStatic
  BY <1>3, <1>4, <1>17 DEF ConstructStatic
<1>18. CASE ListRows
  BY <1>3, <1>4, <1>18 DEF ListRows
<1>19. CASE ListByIds
  BY <1>3, <1>4, <1>19 DEF ListByIds
<1>20. CASE Count
  BY <1>3, <1>4, <1>20 DEF Count
<1>21. CASE ListLinks
  BY <1>3, <1>4, <1>21 DEF ListLinks
<1>22. CASE AddLinks
  BY <1>3, <1>4, <1>22 DEF AddLinks
<1>23. CASE RemoveLinks
  BY <1>3, <1>4, <1>23 DEF RemoveLinks
<1>24. CASE MoveComponent
  BY <1>3, <1>4, <1>24 DEF MoveComponent
<1>25. CASE SetAttribute
  BY <1>3, <1>4, <1>25 DEF SetAttribute
<1>26. CASE Answer
  BY <1>2, <1>26 DEF Answer, Nothing
<1> QED
  BY <1>1, <1>5, <1>6, <1>7, <1>8, <1>9, <1>10, <1>11, <1>12, <1>13, <1>14, <1>15,
     <1>16, <1>17, <1>18, <1>19, <1>20, <1>21, <1>22, <1>23, <1>24, <1>25, <1>26 DEF QuestionsNext

-----------------------------------------------------------------------------
(* The answers to them.                                                    *)

\* What a series read at another first instant counts its rows by.
LEMMA MovedRows ==
    ASSUME NEW f, IsSeries(f), f.type \notin {"NonSequentialTimeSeries", "PersistentTimeSeries"}, NEW at, NEW j
    PROVE  /\ f.type = "SingleTimeSeries" =>
                /\ TimeOf(f, j) = add_to(f.resolution, f.initial, j)
                /\ TimeOf([f EXCEPT !.initial = at], j) = add_to(f.resolution, at, j)
           /\ f.type # "SingleTimeSeries" =>
                /\ TimeOf(f, j) = add_to(f.interval, f.initial, j)
                /\ TimeOf([f EXCEPT !.initial = at], j) = add_to(f.interval, at, j)
<1> DEFINE g == [f EXCEPT !.initial = at]
<1>1. CASE f.type = "SingleTimeSeries"
  <2>1. f = Single(f.initial, f.resolution, f.length, f.zoneless)
    BY <1>1 DEF IsSeries
  <2>2. g.type = f.type /\ g.resolution = f.resolution /\ g.initial = at
    BY <2>1 DEF Single
  <2> HIDE DEF g
  <2>3. TimeOf(f, j) = add_to(f.resolution, f.initial, j) /\ TimeOf(g, j) = add_to(f.resolution, at, j)
    BY <1>1, <2>2 DEF TimeOf
  <2> QED BY <1>1, <2>3 DEF g
<1>2. CASE f.type # "SingleTimeSeries"
  <2>1. f = Forecast(f.type, f.initial, f.resolution, f.horizon, f.interval, f.count,
                     f.percentiles, f.scenario_count, f.shape)
    BY <1>2 DEF IsSeries, IsForecast, StaticTypes
  <2>2. g.type = f.type /\ g.interval = f.interval /\ g.initial = at
    BY <2>1 DEF Forecast
  <2> HIDE DEF g
  <2>3. TimeOf(f, j) = add_to(f.interval, f.initial, j) /\ TimeOf(g, j) = add_to(f.interval, at, j)
    BY <1>2, <2>2 DEF TimeOf
  <2> QED BY <1>2, <2>3 DEF g
<1> QED BY <1>1, <1>2

\* A read of an irregular series is refused or has rows.
LEMMA IrregularReads ==
    ASSUME NEW f, NEW range, NEW r, r \in {ReadNonSequential(f, range), ReadPersistent(f, range)}
    PROVE  r = Refused \/ (r.ok /\ r # Corrupt)
<1>1. \A lo, hi, at : Rows(lo, hi, at).ok /\ Rows(lo, hi, at) # Corrupt
  BY DEF Rows, Corrupt
<1>2. r = Refused \/ \E lo, hi, at : r = Rows(lo, hi, at)
  <2>1. CASE r = ReadNonSequential(f, range)
    BY <2>1, Zenon DEF ReadNonSequential
  <2>2. CASE r = ReadPersistent(f, range)
    BY <2>2, Zenon DEF ReadPersistent
  <2> QED BY <2>1, <2>2
<1> QED BY <1>1, <1>2

\* A series whose grid runs out leaves the calendar.
LEMMA RunningOutLeaves ==
    ASSUME NEW f, f.type \notin {"NonSequentialTimeSeries", "PersistentTimeSeries"}, NEW total \in Int,
           f.type = "SingleTimeSeries" => f.length \in Nat /\ total <= f.length /\ RunsOut(f.resolution, f.initial, total),
           f.type # "SingleTimeSeries" => f.count \in Nat /\ total <= f.count /\ RunsOut(f.interval, f.initial, total)
    PROVE  LeavesCalendar(f)
<1>1. CASE f.type = "SingleTimeSeries"
  <2>1. Size(f) = f.length /\ \A k : TimeOf(f, k) = add_to(f.resolution, f.initial, k)
    BY <1>1 DEF Size, TimeOf
  <2>2. 0 .. total \subseteq 0 .. f.length
    BY <1>1
  <2> QED BY <1>1, <2>1, <2>2 DEF LeavesCalendar, Irregularly, RunsOut
<1>2. CASE f.type # "SingleTimeSeries"
  <2>1. Size(f) = f.count /\ \A k : TimeOf(f, k) = add_to(f.interval, f.initial, k)
    BY <1>2 DEF Size, TimeOf
  <2>2. 0 .. total \subseteq 0 .. f.count
    BY <1>2
  <2> QED BY <1>2, <2>1, <2>2 DEF LeavesCalendar, Irregularly, RunsOut
<1> QED BY <1>1, <1>2

\* What a read by range of a series must answer.
RangeAnswer(f, range, r) ==
  /\ r = Corrupt => LeavesCalendar(f)
  /\ r.ok =>
      /\ range.start < range.end => r.lo .. (r.hi - 1) = RowsAsked(f, range)
      /\ f.type \notin {"NonSequentialTimeSeries", "PersistentTimeSeries"} =>
           \A j \in 0 .. (r.hi - r.lo - 1) :
             TimeOf([f EXCEPT !.initial = r.initial], j) = TimeOf(f, r.lo + j)
      /\ f.type \notin StaticTypes =>
           \A lead \in 0 .. (Leads(f) - 1), j \in 0 .. (r.hi - r.lo - 1),
              s \in 0 .. (compute_h(f.horizon, f.resolution) - 1),
              e \in 1 .. Product(SubSeq(f.shape, leading_dims(f.type) + 1, Len(f.shape))) :
             Cell(f, r.array, lead, s, j, e) = Cell(f, StoredArray(f), lead, s, r.lo + j, e)
      /\ f.type = "PersistentTimeSeries" =>
           \A t \in Bounds :
             range.start <= t /\ t < range.end =>
               row_at(SubSeq(f.timestamps, r.lo + 1, r.hi), t) + r.lo = row_at(f.timestamps, t)

\* It does.
LEMMA RangesAreRead ==
    ASSUME NEW f, IsSeries(f), NEW range, range.start \in Instant, range.end \in Instant,
           NEW r, r = materialize_array(f, range)
    PROVE  RangeAnswer(f, range, r)
<1>1. Refused # Corrupt /\ ~Refused.ok
  <2>1. "corrupt" \notin DOMAIN Refused /\ "corrupt" \in DOMAIN Corrupt
    BY DEF Refused, Corrupt
  <2>2. Refused # Corrupt
    BY <2>1
  <2>3. ~Refused.ok
    BY DEF Refused
  <2> QED BY <2>2, <2>3
<1>2. ASSUME r = Refused PROVE RangeAnswer(f, range, r)
  BY <1>1, <1>2, Zenon DEF RangeAnswer
<1>3. ASSUME r = Corrupt, LeavesCalendar(f) PROVE RangeAnswer(f, range, r)
  <2>1. ~Corrupt.ok
    BY DEF Corrupt
  <2> QED BY <1>3, <2>1, Zenon DEF RangeAnswer
<1>4. range.start \in Int /\ range.end \in Int /\ Bounds \subseteq Int
  <2>1. Instant \subseteq Int /\ Bounds \subseteq Instant
    BY InstantsAreNaturals, QuestionAssumption
  <2> QED BY <2>1
<1>5. CASE ~check_against(range, f)
  BY <1>2, <1>5, Zenon DEF materialize_array
<1>6. CASE check_against(range, f) /\ f.type = "SingleTimeSeries"
  <2>1. r = ReadSingle(f, range)
    BY <1>6 DEF materialize_array
  <2>2. f.initial \in Instant /\ IsPeriod(f.resolution) /\ f.length \in Nat
    BY <1>6 DEF IsSeries
  <2>3. Declined(r, f.resolution, f.initial, f.length) \/ (r.ok /\ r # Corrupt)
    BY <2>1, <2>2, SingleDeclined
  <2>4. ASSUME RunsOut(f.resolution, f.initial, f.length) PROVE LeavesCalendar(f)
    <3>1. f.length \in Int /\ f.length <= f.length /\ f.type \notin {"NonSequentialTimeSeries", "PersistentTimeSeries"}
      BY <1>6, <2>2
    <3> QED BY <1>6, <2>2, <2>4, <3>1, RunningOutLeaves
  <2>5. ASSUME r.ok, r # Corrupt PROVE RangeAnswer(f, range, r)
    <3>1. f.initial \in Instant /\ IsPeriod(f.resolution) /\ f.length \in Nat
      BY <2>2
    <3>2. /\ r.lo .. (r.hi - 1) = RowsAsked(f, range)
          /\ \A j \in 0 .. (r.hi - r.lo - 1) :
                add_to(f.resolution, r.initial, j) = add_to(f.resolution, f.initial, r.lo + j)
      BY <1>6, <2>1, <2>5, <3>1, SingleReads
    <3>3. \A j : /\ TimeOf(f, j) = add_to(f.resolution, f.initial, j)
                 /\ TimeOf([f EXCEPT !.initial = r.initial], j) = add_to(f.resolution, r.initial, j)
      <4>1. f.type \notin {"NonSequentialTimeSeries", "PersistentTimeSeries"}
        BY <1>6
      <4>2. ASSUME NEW j
            PROVE  /\ TimeOf(f, j) = add_to(f.resolution, f.initial, j)
                   /\ TimeOf([f EXCEPT !.initial = r.initial], j) = add_to(f.resolution, r.initial, j)
        <5> DEFINE at == r.initial
        <5> HIDE DEF at
        <5>1. /\ TimeOf(f, j) = add_to(f.resolution, f.initial, j)
              /\ TimeOf([f EXCEPT !.initial = at], j) = add_to(f.resolution, at, j)
          BY <1>6, <4>1, MovedRows
        <5> QED BY <5>1 DEF at
      <4> QED BY <4>2
    <3>4. \A j \in 0 .. (r.hi - r.lo - 1) : TimeOf([f EXCEPT !.initial = r.initial], j) = TimeOf(f, r.lo + j)
      BY <3>2, <3>3, Zenon
    <3>5. f.type \in StaticTypes /\ f.type # "PersistentTimeSeries"
      BY <1>6 DEF StaticTypes
    <3> QED BY <2>5, <3>2, <3>4, <3>5, Zenon DEF RangeAnswer
  <2> QED BY <1>2, <1>3, <2>3, <2>5, <2>4 DEF Declined
<1>7. CASE check_against(range, f) /\ f.type \in {"NonSequentialTimeSeries", "PersistentTimeSeries"}
  <2>1. PICK n : Rising(f.timestamps, n) /\ NoInstant \notin {f.timestamps[i] : i \in 1 .. n}
    BY <1>7 DEF IsSeries
  <2>2. f.type \in StaticTypes
    BY <1>7 DEF StaticTypes
  <2>3. CASE f.type = "NonSequentialTimeSeries"
    <3>1. r = ReadNonSequential(f, range)
      BY <1>7, <2>3 DEF materialize_array
    <3>2. r = Refused \/ (r.ok /\ r # Corrupt)
      BY <3>1, IrregularReads
    <3>3. ASSUME r.ok, r # Corrupt PROVE RangeAnswer(f, range, r)
      <4>1. r.lo .. (r.hi - 1) = RowsAsked(f, range)
        BY <1>4, <2>1, <2>3, <3>1, <3>3, NonSequentialReads
      <4>2. f.type # "PersistentTimeSeries"
        BY <2>3
      <4> QED BY <1>7, <2>2, <3>3, <4>1, <4>2, Zenon DEF RangeAnswer
    <3> QED BY <1>2, <3>2, <3>3
  <2>4. CASE f.type = "PersistentTimeSeries"
    <3>1. r = ReadPersistent(f, range)
      BY <1>7, <2>4 DEF materialize_array
    <3>2. r = Refused \/ (r.ok /\ r # Corrupt)
      BY <3>1, IrregularReads
    <3>3. ASSUME r.ok, r # Corrupt PROVE RangeAnswer(f, range, r)
      <4>1. /\ range.start < range.end => r.lo .. (r.hi - 1) = RowsAsked(f, range)
            /\ \A t \in Int : range.start <= t /\ t < range.end =>
                  row_at(SubSeq(f.timestamps, r.lo + 1, r.hi), t) + r.lo = row_at(f.timestamps, t)
        BY <1>4, <2>1, <2>4, <3>1, <3>3, PersistentReads
      <4>2. \A t \in Bounds : t \in Int
        BY <1>4
      <4> QED BY <1>7, <2>2, <3>3, <4>1, <4>2, Zenon DEF RangeAnswer
    <3> QED BY <1>2, <3>2, <3>3
  <2> QED BY <1>7, <2>3, <2>4
<1>8. CASE check_against(range, f) /\ f.type \notin StaticTypes
  <2>1. r = ReadForecast(f, range) /\ f.type # "SingleTimeSeries"
        /\ f.type \notin {"NonSequentialTimeSeries", "PersistentTimeSeries"}
    BY <1>8 DEF materialize_array, StaticTypes
  <2>2. IsForecast(f)
    BY <1>8 DEF IsSeries
  <2>3. ASSUME RunsOut(f.interval, f.initial, f.count - 1) PROVE LeavesCalendar(f)
    <3>1. f.count \in Nat /\ f.count - 1 \in Int /\ f.count - 1 <= f.count
      BY <2>2 DEF IsForecast
    <3> QED BY <2>1, <2>3, <3>1, RunningOutLeaves
  <2>4. \/ Declined(r, f.interval, f.initial, f.count - 1)
        \/ /\ r.ok /\ WindowsOf(f, r) /\ HoldsWindows(f, r) /\ DOMAIN r = {"ok", "lo", "hi", "initial", "array"}
           /\ range.start < range.end => r.lo .. (r.hi - 1) = RowsAsked(f, range)
    BY <2>1, <2>2, ForecastReads
  <2>5. ASSUME r.ok, WindowsOf(f, r), HoldsWindows(f, r), DOMAIN r = {"ok", "lo", "hi", "initial", "array"},
               range.start < range.end => r.lo .. (r.hi - 1) = RowsAsked(f, range)
        PROVE  RangeAnswer(f, range, r)
    <3>1. r # Corrupt
      <4>1. DOMAIN Corrupt = {"ok", "corrupt"}
        BY DEF Corrupt
      <4> QED BY <2>5, <4>1
    <3>2. \A j \in 0 .. (r.hi - r.lo - 1) : TimeOf([f EXCEPT !.initial = r.initial], j) = TimeOf(f, r.lo + j)
      <4> SUFFICES ASSUME NEW j \in 0 .. (r.hi - r.lo - 1)
                   PROVE  TimeOf([f EXCEPT !.initial = r.initial], j) = TimeOf(f, r.lo + j)
        OBVIOUS
      <4>1. r.lo < r.hi
        <5>1. r.lo \in Nat /\ r.hi \in Nat
          BY <2>2, <2>5 DEF WindowsOf, IsForecast
        <5> QED BY <5>1
      <4>2. add_to(f.interval, r.initial, j) = add_to(f.interval, f.initial, r.lo + j)
        BY <2>5, <4>1 DEF WindowsOf
      <4>3. \A k : /\ TimeOf(f, k) = add_to(f.interval, f.initial, k)
                   /\ TimeOf([f EXCEPT !.initial = r.initial], k) = add_to(f.interval, r.initial, k)
        BY <2>1, MovedRows
      <4> QED BY <4>2, <4>3, Zenon
    <3>3. \A lead \in 0 .. (Leads(f) - 1), j \in 0 .. (r.hi - r.lo - 1),
             s \in 0 .. (compute_h(f.horizon, f.resolution) - 1),
             e \in 1 .. Product(SubSeq(f.shape, leading_dims(f.type) + 1, Len(f.shape))) :
            Cell(f, r.array, lead, s, j, e) = Cell(f, StoredArray(f), lead, s, r.lo + j, e)
      <4> DEFINE h == compute_h(f.horizon, f.resolution)
      <4>1. \A lead \in 0 .. (Leads(f) - 1), j \in 0 .. (r.hi - r.lo - 1), s \in 0 .. (h - 1),
               e \in 1 .. Product(SubSeq(f.shape, leading_dims(f.type) + 1, Len(f.shape))) :
              Cell(f, r.array, lead, s, j, e) = Cell(f, StoredArray(f), lead, s, r.lo + j, e)
        BY <2>2, <2>5, CellsAreTheForecasts
      <4> QED BY <4>1
    <3>4. f.type # "PersistentTimeSeries"
      BY <2>1
    <3> QED BY <2>5, <3>1, <3>2, <3>3, <3>4, Zenon DEF RangeAnswer
  <2> QED BY <1>2, <1>3, <2>4, <2>5, <2>3 DEF Declined
<1> QED BY <1>5, <1>6, <1>7, <1>8 DEF StaticTypes

\* So a range asked for is answered so.
LEMMA RangesAnswered == ReadQuestions => RangeReadsAreExact
<1> SUFFICES ASSUME ReadQuestions, q.kind = "range", NEW r \in {materialize_array(subject, q.range)}
             PROVE  RangeAnswer(subject, q.range, r)
  BY Zenon DEF RangeReadsAreExact, RangeAnswer
<1>1. IsSeries(subject) /\ q.range.start \in Instant /\ q.range.end \in Instant
  BY DEF ReadQuestions
<1>2. r = materialize_array(subject, q.range)
  OBVIOUS
<1> QED BY <1>1, <1>2, RangesAreRead

\* A window's range is spelled as the caller spelled its start, and as the series is when
\* there is none.
LEMMA WindowsAreSpelled ==
    ASSUME NEW f, NEW window, NEW w, w = resolve(window, f), w.ok
    PROVE  w.range.zoneless = IF window.start = NoStart THEN f.zoneless ELSE window.zoneless
<1>1. w # Refused /\ w # Corrupt
  BY DEF Refused, Corrupt
<1>2. \A s, e : w = Spelled(window, f, s, e) =>
         w.range.zoneless = IF window.start = NoStart THEN f.zoneless ELSE window.zoneless
  <2> SUFFICES ASSUME NEW s, NEW e, w = Spelled(window, f, s, e)
               PROVE  w.range.zoneless = IF window.start = NoStart THEN f.zoneless ELSE window.zoneless
    OBVIOUS
  <2> DEFINE z == IF window.start = NoStart THEN f.zoneless ELSE window.zoneless
  <2>1. w = [ok |-> TRUE, range |-> TimeRange(s, e, z)]
    BY <1>1, Zenon DEF Spelled
  <2> HIDE DEF z
  <2>2. w.range = TimeRange(s, e, z)
    BY <2>1
  <2>3. w.range.zoneless = z
    BY <2>2 DEF TimeRange
  <2> QED BY <2>3 DEF z
<1>3. \A p, start, from, requested, total : w = SteppedFrom(window, f, p, start, from, requested, total)
         => \E s, e : w = Spelled(window, f, s, e)
  BY <1>1, Zenon DEF SteppedFrom, Stepped
<1>4. \E s, e : w = Spelled(window, f, s, e)
  <2>1. CASE w = resolve_single(window, f)
    BY <1>1, <1>3, <2>1, Zenon DEF resolve_single
  <2>2. CASE w = resolve_non_sequential(window, f)
    BY <1>1, <2>2, Zenon DEF resolve_non_sequential
  <2>3. CASE w = resolve_forecast(window, f)
    BY <1>1, <1>3, <2>3, Zenon DEF resolve_forecast
  <2>4. \/ w = resolve_single(window, f)
        \/ w = resolve_non_sequential(window, f)
        \/ w = resolve_forecast(window, f)
    BY DEF resolve
  <2> QED BY <2>1, <2>2, <2>3, <2>4
<1> QED BY <1>2, <1>4, Zenon

\* A window that takes the store for corrupt is of a series that leaves the calendar, or
\* ends it.
LEMMA WindowsPastTheEnd ==
    ASSUME NEW f, IsSeries(f), NEW window, window.start \in Instant \cup {NoStart},
           window.len \in {Unset} \cup Nat, window.count \in {Unset} \cup Nat,
           resolve(window, f) = Corrupt
    PROVE  LeavesCalendar(f) \/ EndsCalendar(f)
<1> DEFINE w == resolve(window, f)
           start == StartOf(window, f.initial)
<1>1. ~w.ok /\ w # Refused
  <2>1. ~Corrupt.ok /\ DOMAIN Corrupt # DOMAIN Refused
    BY DEF Corrupt, Refused
  <2> HIDE DEF w
  <2>2. w = Corrupt
    BY DEF w
  <2> QED BY <2>1, <2>2
<1>2. CASE f.type = "SingleTimeSeries"
  <2>1. f.initial \in Instant /\ IsPeriod(f.resolution) /\ f.length \in Nat
    BY <1>2 DEF IsSeries
  <2>2. start \in Instant
    BY <2>1 DEF StartOf
  <2>3. w = SteppedFrom(window, f, f.resolution, start, steps_between(f.resolution, f.initial, start),
                        window.len, f.length)
    <3>1. w = resolve_single(window, f)
      BY <1>2 DEF resolve
    <3> HIDE DEF w
    <3> QED BY <1>1, <3>1, Zenon DEF resolve_single
  <2> HIDE DEF w, start
  <2>4. Declined(w, f.resolution, f.initial, f.length)
    BY <1>1, <2>1, <2>2, <2>3, SteppedDeclined
  <2>5. RunsOut(f.resolution, f.initial, f.length)
    BY <1>1, <2>4 DEF Declined
  <2>6. /\ f.length \in Int /\ f.length <= f.length
        /\ f.type \notin {"NonSequentialTimeSeries", "PersistentTimeSeries"}
    BY <1>2, <2>1
  <2> QED BY <1>2, <2>1, <2>5, <2>6, RunningOutLeaves
<1>3. CASE f.type \in {"NonSequentialTimeSeries", "PersistentTimeSeries"}
  <2> DEFINE ts == f.timestamps
             total == Len(ts)
             begin == IF window.start = NoStart THEN ts[1] ELSE window.start
             from == Before(ts, begin)
             n == extent(window.len, from, total)
             asked == IF window.len = Unset THEN total - from ELSE window.len
             e == end_after(ts, from + n)
  <2>1. PICK m : Rising(ts, m) /\ NoInstant \notin {ts[i] : i \in 1 .. m}
    BY <1>3 DEF IsSeries
  <2>2. m \in Nat /\ total = m /\ Size(f) = m /\ \A i \in 1 .. m : ts[i] \in Int
    BY <1>3, <2>1 DEF Rising, Size
  <2>3. w = resolve_non_sequential(window, f)
    BY <1>3 DEF resolve
  <2>4. /\ total # 0 /\ ~(from >= total) /\ n # -1
        /\ w = Spelled(window, f, begin, e)
    <3> HIDE DEF e, n, from, begin, w
    <3> QED BY <1>1, <2>3, Zenon DEF resolve_non_sequential, e, n, from, begin
  <2>5. e = NoInstant
    <3> HIDE DEF e, w, begin
    <3> QED BY <1>1, <2>4, Zenon DEF Spelled
  <2>6. n = IF asked = 0 \/ asked > total - from THEN -1 ELSE asked
    BY DEF extent
  <2>7. begin \in Int
    <3>1. 1 \in 1 .. m
      BY <2>2, <2>4
    <3>2. window.start # NoStart => window.start \in Int
      <4>1. Instant \subseteq Int
        BY InstantsAreNaturals
      <4> QED BY <4>1
    <3> QED BY <2>2, <3>1, <3>2
  <2> HIDE DEF begin
  <2>8. from \in 0 .. m
    BY <2>1, <2>7, BeforeSplits
  <2> HIDE DEF from, n
  <2>9. from + n \in 0 .. m
    <3>1. asked \in Nat
      BY <2>2, <2>4, <2>8
    <3>2. n = asked /\ ~(asked > total - from)
      BY <2>4, <2>6
    <3> HIDE DEF asked
    <3> QED BY <2>2, <2>8, <3>1, <3>2
  <2> DEFINE k == from + n
  <2>10. ~(k < m)
    <3> SUFFICES ASSUME k < m PROVE FALSE
      OBVIOUS
    <3>1. k + 1 \in 1 .. m
      BY <2>2, <2>9
    <3> HIDE DEF k
    <3>2. e = ts[k + 1]
      BY <2>2 DEF end_after, k
    <3> QED BY <2>1, <2>5, <3>1, <3>2
  <2>11. checked_add_signed(ts[m], Sub) = NoInstant
    <3> HIDE DEF k
    <3> QED BY <2>2, <2>5, <2>10 DEF end_after, k
  <2>12. Size(f) > 0 /\ TimeOf(f, Size(f) - 1) = ts[m]
    <3>1. TimeOf(f, m - 1) = ts[(m - 1) + 1]
      BY <1>3 DEF TimeOf
    <3>2. (m - 1) + 1 = m /\ m > 0
      BY <2>2, <2>4
    <3> QED BY <2>2, <3>1, <3>2
  <2> QED BY <1>3, <2>11, <2>12 DEF EndsCalendar, Irregularly
<1>4. CASE f.type \notin StaticTypes
  <2>1. IsForecast(f) /\ f.type \notin {"SingleTimeSeries", "NonSequentialTimeSeries", "PersistentTimeSeries"}
    BY <1>4 DEF IsSeries, StaticTypes
  <2>2. start \in Instant /\ f.initial \in Instant /\ f.count \in Nat
    BY <2>1 DEF StartOf, IsForecast
  <2>3. w = SteppedFrom(window, f, f.interval, start, WindowAtStart(f, start), window.count, f.count)
    <3>1. w = resolve_forecast(window, f)
      BY <2>1 DEF resolve
    <3> HIDE DEF w
    <3> QED BY <1>1, <3>1, Zenon DEF resolve_forecast
  <2> HIDE DEF w, start
  <2>4. CASE IsPeriod(f.interval)
    <3>1. WindowAtStart(f, start) = steps_between(f.interval, f.initial, start)
      BY <2>4, NotZero DEF WindowAtStart
    <3>2. Declined(w, f.interval, f.initial, f.count)
      BY <1>1, <2>2, <2>3, <2>4, <3>1, SteppedDeclined
    <3>3. RunsOut(f.interval, f.initial, f.count)
      BY <1>1, <3>2 DEF Declined
    <3>4. f.count \in Int /\ f.count <= f.count
      BY <2>2
    <3> QED BY <2>1, <2>2, <3>3, <3>4, RunningOutLeaves
  <2>5. CASE f.interval = zero
    <3>1. is_zero(f.interval)
      BY <2>5, NotZero
    <3> DEFINE from == WindowAtStart(f, start)
               n == extent(window.count, from, f.count)
               e == checked_add_signed(start, Sub)
    <3>2. from = IF start = f.initial THEN 0 ELSE NoStep
      BY <3>1 DEF WindowAtStart
    <3> HIDE DEF from, n
    <3>3. w = Stepped(window, f, f.interval, start, from, n, f.count)
      BY <2>3 DEF SteppedFrom, from, n
    <3>4. from # NoStep /\ w = Spelled(window, f, start, e)
      <4> HIDE DEF e
      <4>1. e = IF is_zero(f.interval) THEN checked_add_signed(start, Sub) ELSE add_to(f.interval, start, n)
        BY <3>1 DEF e
      <4> QED BY <1>1, <3>3, <4>1, Zenon DEF Stepped
    <3>5. e = NoInstant
      <4> HIDE DEF e
      <4> QED BY <1>1, <3>4, Zenon DEF Spelled
    <3>6. start = f.initial
      BY <3>2, <3>4
    <3> QED BY <2>1, <3>5, <3>6 DEF EndsCalendar, Irregularly
  <2> QED BY <2>1, <2>4, <2>5 DEF IsForecast
<1> QED BY <1>2, <1>3, <1>4 DEF StaticTypes

\* What a read of a window of a series must answer.
WindowAnswer(f, window, r) ==
  LET n    == IF f.type \in StaticTypes THEN window.len ELSE window.count
      from == IF window.start = NoStart THEN TimeOf(f, 0) ELSE window.start
  IN /\ r.ok => /\ TimeOf(f, r.lo) = from
                /\ r.hi - r.lo = IF n = Unset THEN Size(f) - r.lo ELSE n
                /\ window.start = NoStart \/ window.zoneless = f.zoneless
     /\ r = Corrupt => LeavesCalendar(f)
     /\ ~r.ok => \/ window.start # NoStart /\ window.zoneless # f.zoneless
                 \/ f.type \notin {"NonSequentialTimeSeries", "PersistentTimeSeries"}

\* A window on a forecast is bounded by instants.
LEMMA ForecastBounds ==
    ASSUME NEW f, IsForecast(f), NEW window, window.start \in Instant \cup {NoStart},
           window.count \in {Unset} \cup Nat,
           NEW w, w = resolve_forecast(window, f), w.ok
    PROVE  w.range.start \in Instant /\ w.range.end \in Instant
<1> SUFFICES ASSUME ~(w.range.start \in Instant /\ w.range.end \in Instant) PROVE FALSE
  OBVIOUS
<1> DEFINE r == [lo |-> 0, hi |-> 0]
<1>1. f.count \in Nat
  BY DEF IsForecast
<1>2. r.lo \in Nat /\ r.hi \in r.lo .. f.count
  BY <1>1
<1> HIDE DEF r
<1> QED BY <1>2, ForecastWindows

\* So is one on a series of single values.
LEMMA SingleBounds ==
    ASSUME NEW f, f.initial \in Instant, IsPeriod(f.resolution), f.length \in Nat,
           NEW window, window.start \in Instant \cup {NoStart}, window.len \in {Unset} \cup Nat,
           NEW w, w = resolve_single(window, f), w.ok
    PROVE  w.range.start \in Instant /\ w.range.end \in Instant
<1> DEFINE start == StartOf(window, f.initial)
<1>1. start \in Instant
  BY DEF StartOf
<1>2. w = SteppedFrom(window, f, f.resolution, start, steps_between(f.resolution, f.initial, start),
                      window.len, f.length)
  BY DEF resolve_single, Refused
<1> HIDE DEF start
<1>3. PICK from, n : RangeOfSteps(f.resolution, f.initial, start, from, n, window.len, f.length, w.range)
  BY <1>1, <1>2, SteppedWindow
<1>4. /\ n \in Nat /\ w.range.start = start
      /\ w.range.end = add_to(f.resolution, start, n) /\ w.range.end # NoInstant
  BY <1>3 DEF RangeOfSteps
<1> QED BY <1>1, <1>4, GridPoints DEF Points

\* The first row is at the first instant.
LEMMA FirstRow ==
    ASSUME NEW f, IsSeries(f), f.type \notin {"NonSequentialTimeSeries", "PersistentTimeSeries"}
    PROVE  TimeOf(f, 0) = f.initial
<1>1. CASE f.type = "SingleTimeSeries"
  <2>1. f.initial \in Instant /\ IsPeriod(f.resolution)
    BY <1>1 DEF IsSeries
  <2>2. add_to(f.resolution, f.initial, 0) = f.initial
    BY <2>1, GridPoints DEF Points
  <2> QED BY <1>1, <2>2 DEF TimeOf
<1>2. CASE f.type # "SingleTimeSeries"
  <2>1. f.initial \in Instant /\ (IsPeriod(f.interval) \/ f.interval = zero)
    BY <1>2 DEF IsSeries, IsForecast, StaticTypes
  <2>2. add_to(f.interval, f.initial, 0) = f.initial
    BY <2>1, GridPoints, ZeroStands DEF Points
  <2> QED BY <1>2, <2>2 DEF TimeOf
<1> QED BY <1>1, <1>2

\* It does.
LEMMA WindowsAreAnswered ==
    ASSUME NEW f, IsSeries(f), NEW window, window.start \in Instant \cup {NoStart},
           window.len \in {Unset} \cup Nat, window.count \in {Unset} \cup Nat,
           NEW w, w = resolve(window, f), w.ok,
           NEW r, r = materialize_array(f, w.range)
    PROVE  WindowAnswer(f, window, r)
<1> DEFINE range == w.range
           spelled == window.start = NoStart \/ window.zoneless = f.zoneless
<1>1. check_against(range, f) <=> spelled
  <2>1. range.zoneless = IF window.start = NoStart THEN f.zoneless ELSE window.zoneless
    BY WindowsAreSpelled
  <2>2. check_against(range, f) <=> range.zoneless = f.zoneless
    BY DEF check_against
  <2> HIDE DEF range
  <2> QED BY <2>1, <2>2
<1>2. CASE ~check_against(range, f)
  <2>1. r = Refused
    BY <1>2, Zenon DEF materialize_array
  <2>2. ~r.ok /\ r # Corrupt
    <3>1. ~Refused.ok /\ DOMAIN Refused # DOMAIN Corrupt
      BY DEF Refused, Corrupt
    <3> QED BY <2>1, <3>1
  <2> QED BY <1>1, <1>2, <2>2, Zenon DEF WindowAnswer
<1>3. CASE check_against(range, f) /\ f.type = "SingleTimeSeries"
  <2>1. r = ReadSingle(f, range) /\ w = resolve_single(window, f) /\ Size(f) = f.length
    BY <1>3 DEF materialize_array, resolve, Size
  <2>2. f.type \in StaticTypes /\ f.type \notin {"NonSequentialTimeSeries", "PersistentTimeSeries"}
    BY <1>3 DEF StaticTypes
  <2>3. f.initial \in Instant /\ IsPeriod(f.resolution) /\ f.length \in Nat
    BY <1>3 DEF IsSeries
  <2>4. ASSUME r.ok
        PROVE  /\ TimeOf(f, r.lo) = IF window.start = NoStart THEN TimeOf(f, 0) ELSE window.start
               /\ r.hi - r.lo = IF window.len = Unset THEN Size(f) - r.lo ELSE window.len
    <3>1. /\ TimeOf(f, r.lo) = StartOf(window, f.initial)
          /\ r.hi - r.lo = IF window.len = Unset THEN f.length - r.lo ELSE window.len
      BY <1>3, <2>1, <2>3, <2>4, SingleWindows
    <3>2. TimeOf(f, 0) = f.initial
      BY <2>2, FirstRow
    <3> QED BY <2>1, <3>1, <3>2, Zenon DEF StartOf
  <2>5. r = Corrupt => LeavesCalendar(f)
    <3>1. range.start \in Instant /\ range.end \in Instant
      BY <2>1, <2>3, SingleBounds
    <3>2. RangeAnswer(f, range, r)
      BY <3>1, RangesAreRead
    <3> QED BY <3>2, Zenon DEF RangeAnswer
  <2> QED BY <1>1, <1>3, <2>2, <2>4, <2>5, Zenon DEF WindowAnswer
<1>4. CASE check_against(range, f) /\ f.type \in {"NonSequentialTimeSeries", "PersistentTimeSeries"}
  <2>1. PICK m : Rising(f.timestamps, m)
    BY <1>4 DEF IsSeries
  <2>2. /\ r = IF f.type = "PersistentTimeSeries" THEN ReadPersistent(f, range) ELSE ReadNonSequential(f, range)
        /\ w = resolve_non_sequential(window, f)
    BY <1>4 DEF materialize_array, resolve
  <2>3. window.start \in Int
    <3>1. Instant \subseteq Int /\ NoStart \in Int
      BY InstantsAreNaturals DEF NoStart
    <3> QED BY <3>1
  <2>4. /\ r.ok
        /\ TimeOf(f, r.lo) = IF window.start = NoStart THEN TimeOf(f, 0) ELSE window.start
        /\ r.hi - r.lo = IF window.len = Unset THEN Size(f) - r.lo ELSE window.len
    BY <1>4, <2>1, <2>2, <2>3, IrregularWindows
  <2>6. r # Corrupt
    BY <2>4 DEF Corrupt
  <2>5. f.type \in StaticTypes
    BY <1>4 DEF StaticTypes
  <2> QED BY <1>1, <1>4, <2>4, <2>5, <2>6, Zenon DEF WindowAnswer
<1>5. CASE check_against(range, f) /\ f.type \notin StaticTypes
  <2>1. /\ r = ReadForecast(f, range) /\ w = resolve_forecast(window, f)
        /\ f.type \notin {"NonSequentialTimeSeries", "PersistentTimeSeries"} /\ Size(f) = f.count
    BY <1>5 DEF materialize_array, resolve, StaticTypes, Size
  <2>2. IsForecast(f)
    BY <1>5 DEF IsSeries
  <2>3. range.start \in Instant /\ range.end \in Instant
    BY <2>1, <2>2, ForecastBounds
  <2>4. ASSUME r.ok
        PROVE  /\ TimeOf(f, r.lo) = IF window.start = NoStart THEN TimeOf(f, 0) ELSE window.start
               /\ r.hi - r.lo = IF window.count = Unset THEN Size(f) - r.lo ELSE window.count
    <3>1. WindowsOf(f, r) /\ (range.start < range.end => r.lo .. (r.hi - 1) = RowsAsked(f, range))
      <4>1. ~Declined(r, f.interval, f.initial, f.count - 1)
        BY <2>4 DEF Declined, Refused, Corrupt
      <4> QED BY <2>1, <2>2, <2>3, <4>1, ForecastReads
    <3>2. r.lo \in Nat /\ r.hi \in r.lo .. f.count
      BY <3>1 DEF WindowsOf
    <3>3. /\ TimeOf(f, r.lo) = StartOf(window, f.initial)
          /\ r.hi - r.lo = IF window.count = Unset THEN f.count - r.lo ELSE window.count
      BY <2>1, <2>2, <3>1, <3>2, ForecastWindows
    <3>4. TimeOf(f, 0) = f.initial
      BY <2>1, FirstRow
    <3> QED BY <2>1, <3>3, <3>4, Zenon DEF StartOf
  <2>5. r = Corrupt => LeavesCalendar(f)
    <3>1. RangeAnswer(f, range, r)
      BY <2>3, RangesAreRead
    <3> QED BY <3>1, Zenon DEF RangeAnswer
  <2> QED BY <1>1, <1>5, <2>1, <2>4, <2>5, Zenon DEF WindowAnswer
<1> QED BY <1>2, <1>3, <1>4, <1>5 DEF StaticTypes

\* So a window asked for is answered so.
LEMMA WindowsAnswered == ReadQuestions => WindowReadsAreExact
<1> SUFFICES ASSUME ReadQuestions, q.kind = "window", NEW w \in {resolve(q, subject)}
             PROVE  /\ w = Corrupt => LeavesCalendar(subject) \/ EndsCalendar(subject)
                    /\ w.ok => \A r \in {materialize_array(subject, w.range)} : WindowAnswer(subject, q, r)
  BY Zenon DEF WindowReadsAreExact, WindowAnswer
<1>1. /\ IsSeries(subject) /\ q.start \in Instant \cup {NoStart}
      /\ q.len \in {Unset} \cup Nat /\ q.count \in {Unset} \cup Nat
  BY DEF ReadQuestions
<1>2. w = resolve(q, subject)
  OBVIOUS
<1>3. w = Corrupt => LeavesCalendar(subject) \/ EndsCalendar(subject)
  BY <1>1, <1>2, WindowsPastTheEnd
<1>4. ASSUME w.ok, NEW r \in {materialize_array(subject, w.range)} PROVE WindowAnswer(subject, q, r)
  <2>1. r = materialize_array(subject, w.range)
    OBVIOUS
  <2> QED BY <1>1, <1>2, <1>4, <2>1, WindowsAreAnswered
<1> QED BY <1>3, <1>4

\* Over any calendar, a read by time returns what was asked for: a range selects exactly the
\* rows it asks for, contiguous, under the dates they have, a forecast's values each in its
\* place, a step function's as they were in force; a window, once turned into a range and read,
\* is that many rows from its start, and one spelled unlike its series reads nothing; and only
\* a series whose own grid runs past the calendar's end, or a window that ends there, takes the
\* store for corrupt (store.rs:255-517, 3211-3518).
THEOREM ReadsAreAsAsked == QuestionsSpec => []ReadsAreExact
<1>1. QuestionsInit => ReadQuestions
  BY ReadQuestionsAtFirst
<1>2. ReadQuestions /\ [QuestionsNext]_questionVars => ReadQuestions'
  BY ReadQuestionsKept
<1>3. ReadQuestions => ReadsAreExact
  BY RangesAnswered, WindowsAnswered DEF ReadsAreExact
<1> QED BY <1>1, <1>2, <1>3, PTL DEF QuestionsSpec
=============================================================================
