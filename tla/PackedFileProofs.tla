-------------------------- MODULE PackedFileProofs --------------------------
(***************************************************************************)
(* Proofs about PackedFile, for any arrays, axes, pools, widths and         *)
(* failures.                                                               *)
(***************************************************************************)
EXTENDS PackedFile, TLAPS

-----------------------------------------------------------------------------
(* Operators.                                                              *)

\* A dataset is given between one column and what a chunk allows, and never more
\* than was asked for.
LEMMA ResolveBounds ==
    ASSUME NEW p \in Pools, NEW n \in Nat \ {0}
    PROVE  /\ ResolveCols(p, n) \in 1..MaxCols
           /\ ResolveCols(p, n) <= n
BY FileConstants DEF ResolveCols

\* Creating a dataset keeps the counts of a pool within their types.
LEMMA NewSetTypes ==
    ASSUME TypeOK, NEW p \in Pools, made[p] < MaxSets, NEW n \in 1..MaxCols, NewSet(p, n)
    PROVE  /\ made' \in [Pools -> 0..MaxSets]
           /\ width' \in [Pools \X (1..MaxSets) -> 0..MaxCols]
           /\ \A q \in Pools : made[q] <= made'[q]
           /\ made'[p] = made[p] + 1
<1>1. /\ made \in [Pools -> 0..MaxSets]
      /\ made' = [made EXCEPT ![p] = @ + 1]
      /\ MaxSets \in Nat
  BY FileConstants DEF TypeOK, NewSet
<1>2. made[p] + 1 \in 0..MaxSets
  BY <1>1
<1>3. /\ made' \in [Pools -> 0..MaxSets]
      /\ \A q \in Pools : made[q] <= made'[q]
      /\ made'[p] = made[p] + 1
  BY <1>1, <1>2
<1>4. width' \in [Pools \X (1..MaxSets) -> 0..MaxCols]
  BY FileConstants DEF TypeOK, NewSet
<1> QED
  BY <1>3, <1>4

\* The dataset a put needs, new or not.
LEMMA EnsureSetTypes ==
    ASSUME TypeOK, NEW p \in Pools, Spills(p) => CanCreate(p), EnsureSet(p)
    PROVE  /\ made' \in [Pools -> 0..MaxSets]
           /\ width' \in [Pools \X (1..MaxSets) -> 0..MaxCols]
           /\ \A q \in Pools : made[q] <= made'[q]
           /\ Spills(p) => made'[p] = made[p] + 1
<1>1. CASE Spills(p)
  <2>1. NewSet(p, ResolveCols(p, DefaultCols)) /\ made[p] < MaxSets
    BY <1>1 DEF EnsureSet, CanCreate
  <2>2. ResolveCols(p, DefaultCols) \in 1..MaxCols
    BY ResolveBounds, FileConstants
  <2> QED
    BY <2>1, <2>2, NewSetTypes
<1>2. CASE ~Spills(p)
  BY <1>2, FileConstants DEF EnsureSet, TypeOK
<1> QED
  BY <1>1, <1>2

\* The column a put writes is free, in a dataset that exists once it is made.
LEMMA TargetFree ==
    ASSUME FileInv, NEW p \in Pools, NEW s \in Slots, IsTarget(p, s), EnsureSet(p),
           Spills(p) => CanCreate(p)
    PROVE  /\ s[1] = p
           /\ rows[s] = Free
           /\ cols[s] = Free
           /\ s[2] <= made'[s[1]]
<1>1. CASE Spills(p)
  <2>1. s = <<p, made[p] + 1, 1>>
    BY <1>1 DEF IsTarget
  <2>2. s[1] = p /\ s[2] = made[p] + 1 /\ made[p] \in Nat
    BY <2>1, FileConstants DEF FileInv, TypeOK
  <2>3. s[2] > made[s[1]]
    BY <2>2
  <2>4. made'[p] = made[p] + 1
    BY <1>1, EnsureSetTypes DEF FileInv
  <2> QED
    BY <2>2, <2>3, <2>4 DEF FileInv, FreshUnnamed
<1>2. CASE ~Spills(p)
  <2>1. s \in FreeSlots(p) /\ made' = made
    BY <1>2 DEF IsTarget, EnsureSet
  <2>2. s[1] = p /\ s[2] <= made[p] /\ cols[s] = Free
    BY <2>1 DEF FreeSlots, SlotsOf
  <2>3. rows[s] = Free
    BY <2>2, FileConstants DEF FileInv, RowsKnown
  <2> QED
    BY <2>1, <2>2, <2>3
<1> QED
  BY <1>1, <1>2

\* The segment about to be written: its width, its columns and its arrays.
LEMMA SegmentFacts ==
    ASSUME FileInv, phase = "block", job.left # <<>>
    PROVE  /\ job.pool \in Pools
           /\ job.left \in Seq(Hashes)
           /\ Len(job.left) \in Nat \ {0}
           /\ SegmentWidth \in 1..MaxCols
           /\ SegmentWidth \in 1..Len(job.left)
           /\ \A c \in 1..SegmentWidth : job.left[c] \in Hashes
           /\ SegmentHashes \subseteq Hashes
           /\ \A s \in SegmentSlots : /\ s \in Slots
                                      /\ s[3] \in 1..SegmentWidth
                                      /\ job.left[s[3]] \in SegmentHashes
                                      /\ s[1] = job.pool
                                      /\ s[2] = made[job.pool] + 1
                                      /\ rows[s] = Free
                                      /\ cols[s] = Free
<1>1. job.pool \in Pools /\ job.left \in Seq(Hashes)
  BY DEF FileInv, TypeOK, JobInv
<1>2. Len(job.left) \in Nat \ {0}
  BY <1>1
<1>3. SegmentWidth \in 1..MaxCols /\ SegmentWidth \in 1..Len(job.left)
  BY <1>1, <1>2, ResolveBounds, FileConstants DEF SegmentWidth
<1>4. \A c \in 1..SegmentWidth : job.left[c] \in Hashes
  BY <1>1, <1>2, <1>3
<1>5. SegmentHashes \subseteq Hashes
  BY <1>4 DEF SegmentHashes
<1>6. ASSUME NEW s \in SegmentSlots
      PROVE  /\ s \in Slots
             /\ s[3] \in 1..SegmentWidth
             /\ job.left[s[3]] \in SegmentHashes
             /\ s[1] = job.pool
             /\ s[2] = made[job.pool] + 1
             /\ rows[s] = Free
             /\ cols[s] = Free
  <2>1. /\ s \in Slots
        /\ s[1] = job.pool
        /\ s[2] = made[job.pool] + 1
        /\ s[3] <= SegmentWidth
    BY DEF SegmentSlots
  <2>2. s[3] \in 1..SegmentWidth
    BY <2>1, <1>3 DEF Slots
  <2>3. made[job.pool] \in Nat
    BY <1>1, FileConstants DEF FileInv, TypeOK
  <2>4. s[2] > made[s[1]]
    BY <2>1, <2>3
  <2>5. rows[s] = Free /\ cols[s] = Free
    BY <2>1, <2>4 DEF FileInv, FreshUnnamed
  <2> QED
    BY <2>1, <2>2, <2>5 DEF SegmentHashes
<1> QED
  BY <1>1, <1>2, <1>3, <1>4, <1>5, <1>6

\* Where a segment puts its arrays: each in the column of its turn.
LEMMA SegmentPlaces ==
    ASSUME FileInv, phase = "block", job.left # <<>>, CanCreate(job.pool),
           NEW h \in SegmentHashes
    PROVE  LET s == CHOOSE t \in SegmentSlots : job.left[t[3]] = h
           IN  s \in SegmentSlots /\ job.left[s[3]] = h
<1>1. PICK c \in 1..SegmentWidth : h = job.left[c]
  BY DEF SegmentHashes
<1>2. made[job.pool] + 1 \in 1..MaxSets
  BY SegmentFacts, FileConstants DEF CanCreate, FileInv, TypeOK
<1>3. c \in 1..MaxCols
  BY <1>1, SegmentFacts, FileConstants
<1>4. <<job.pool, made[job.pool] + 1, c>> \in SegmentSlots
  BY <1>1, <1>2, <1>3, SegmentFacts DEF SegmentSlots, Slots
<1>5. \E t \in SegmentSlots : job.left[t[3]] = h
  BY <1>1, <1>4
<1> QED
  BY <1>5

-----------------------------------------------------------------------------
(* FileInv, whatever fails.                                                *)

\* Between calls a block is not in progress.
LEMMA CalmJob ==
    ASSUME FileInv, Calm, phase' = phase
    PROVE  JobInv' /\ phase' \in {"open", "block", "unwind", "refused"}
BY DEF Calm, JobInv, FileInv

LEMMA InitFileInv == Init => FileInv
<1> SUFFICES ASSUME Init PROVE FileInv
  OBVIOUS
<1>1. TypeOK
  BY FileConstants DEF Init, TypeOK, LinkStates, NoJob
<1>2. FreshUnnamed /\ RowsKnown /\ RowsTellTheTruth
  BY DEF Init, FreshUnnamed, RowsKnown, RowsTellTheTruth
<1>3. JobInv
  BY DEF Init, JobInv
<1> QED
  BY <1>1, <1>2, <1>3 DEF FileInv

\* A column that is fresh after the number of datasets grew was fresh before.
LEMMA StillFresh ==
    ASSUME TypeOK, made' \in [Pools -> 0..MaxSets], \A q \in Pools : made[q] <= made'[q],
           NEW s \in Slots, s[2] > made'[s[1]]
    PROVE  s[2] > made[s[1]]
<1>1. s[1] \in Pools /\ s[2] \in Nat
  BY FileConstants DEF Slots
<1>2. made[s[1]] \in Nat /\ made'[s[1]] \in Nat /\ made[s[1]] <= made'[s[1]]
  BY <1>1, FileConstants DEF TypeOK
<1> QED
  BY <1>1, <1>2

LEMMA PutPackedFileInv ==
    ASSUME FileInv, NEW h \in Hashes, NEW p \in Pools, PutPacked(h, p)
    PROVE  FileInv'
<1>1. /\ Calm
      /\ Spills(p) => CanCreate(p)
      /\ EnsureSet(p)
      /\ UNCHANGED <<half, links, axisLinks, standaloneVars, timestampHashes, phase, job>>
  BY DEF PutPacked, alone
<1>2. PICK s \in Slots :
           /\ IsTarget(p, s)
           /\ data' = [data EXCEPT ![s] = h]
           /\ rows' = [rows EXCEPT ![s] = h]
           /\ cols' = [cols EXCEPT ![s] = h]
           /\ byHash' = [byHash EXCEPT ![h] = s]
  BY DEF PutPacked
<1>3. s[1] = p /\ rows[s] = Free /\ cols[s] = Free /\ s[2] <= made'[s[1]]
  BY <1>1, <1>2, TargetFree
<1>4. /\ made' \in [Pools -> 0..MaxSets]
      /\ width' \in [Pools \X (1..MaxSets) -> 0..MaxCols]
      /\ \A q \in Pools : made[q] <= made'[q]
  BY <1>1, EnsureSetTypes DEF FileInv
<1>5. TypeOK'
  BY <1>1, <1>2, <1>4 DEF FileInv, TypeOK
<1>6. FreshUnnamed'
  <2> SUFFICES ASSUME NEW t \in Slots, t[2] > made'[t[1]]
               PROVE  rows'[t] = Free /\ cols'[t] = Free
    BY DEF FreshUnnamed
  <2>1. t[2] > made[t[1]]
    BY <1>4, StillFresh DEF FileInv
  <2>2. rows[t] = Free /\ cols[t] = Free
    BY <2>1 DEF FileInv, FreshUnnamed
  <2>3. s[2] \in Nat /\ s[1] \in Pools /\ made'[s[1]] \in Nat
    BY <1>4, FileConstants DEF Slots
  <2>4. t # s
    BY <1>3, <2>3
  <2> QED
    BY <1>2, <2>2, <2>4 DEF FileInv, TypeOK
<1>7. RowsKnown'
  BY <1>2, FileConstants DEF FileInv, RowsKnown, TypeOK
<1>8. RowsTellTheTruth'
  BY <1>2 DEF FileInv, RowsTellTheTruth, TypeOK
<1> QED
  BY <1>1, <1>5, <1>6, <1>7, <1>8, CalmJob DEF FileInv

LEMMA PutPackedTearsFileInv ==
    ASSUME FileInv, NEW h \in Hashes, NEW p \in Pools, PutPackedTears(h, p)
    PROVE  FileInv'
<1>1. /\ Calm
      /\ Spills(p) => CanCreate(p)
      /\ EnsureSet(p)
      /\ UNCHANGED <<rows, half, links, axisLinks, cols, byHash, standaloneVars,
                     timestampHashes, phase, job>>
  BY DEF PutPackedTears, alone, index
<1>2. PICK s \in Slots :
           /\ IsTarget(p, s)
           /\ data' = [data EXCEPT ![s] = Torn] \/ data' = [data EXCEPT ![s] = h]
  BY DEF PutPackedTears
<1>3. rows[s] = Free
  BY <1>1, <1>2, TargetFree
<1>4. /\ made' \in [Pools -> 0..MaxSets]
      /\ width' \in [Pools \X (1..MaxSets) -> 0..MaxCols]
      /\ \A q \in Pools : made[q] <= made'[q]
  BY <1>1, EnsureSetTypes DEF FileInv
<1>5. TypeOK'
  BY <1>1, <1>2, <1>4 DEF FileInv, TypeOK
<1>6. FreshUnnamed'
  BY <1>1, <1>4, StillFresh DEF FileInv, FreshUnnamed
<1>7. RowsKnown'
  BY <1>1 DEF FileInv, RowsKnown
<1>8. RowsTellTheTruth'
  BY <1>1, <1>2, <1>3 DEF FileInv, RowsTellTheTruth, TypeOK
<1> QED
  BY <1>1, <1>5, <1>6, <1>7, <1>8, CalmJob DEF FileInv

\* An operation that leaves packed datasets and their index alone.
LEMMA PackedAlone ==
    ASSUME FileInv, UNCHANGED <<made, rows, data, cols>>
    PROVE  FreshUnnamed' /\ RowsKnown' /\ RowsTellTheTruth'
BY DEF FileInv, FreshUnnamed, RowsKnown, RowsTellTheTruth

LEMMA CreateFailsHalf ==
    ASSUME TypeOK, NEW p \in Pools, CreateFails(p)
    PROVE  half' \subseteq Pools
BY DEF TypeOK, CreateFails

LEMMA PutPackedNoSetFileInv ==
    ASSUME FileInv, NEW h \in Hashes, NEW p \in Pools, PutPackedNoSet(h, p)
    PROVE  FileInv'
<1>1. /\ Calm
      /\ CreateFails(p)
      /\ UNCHANGED <<made, width, rows, data, links, axisLinks, cols, byHash,
                     standaloneVars, timestampHashes, phase, job>>
  BY DEF PutPackedNoSet, alone, index
<1>2. TypeOK'
  BY <1>1, CreateFailsHalf DEF FileInv, TypeOK
<1> QED
  BY <1>1, <1>2, PackedAlone, CalmJob DEF FileInv

LEMMA LinkTypes ==
    /\ \A l \in LinkStates : CreateOrFillFails(l) \subseteq LinkStates
    /\ "own" \in LinkStates
    /\ "none" \in LinkStates
BY DEF CreateOrFillFails, FillFails, LinkStates

LEMMA StandaloneFileInv ==
    ASSUME FileInv, NEW h \in Hashes,
           PutStandaloneKnown(h) \/ PutStandalone(h) \/ PutStandaloneFails(h)
    PROVE  FileInv'
<1>1. Calm /\ UNCHANGED <<made, width, rows, data, half, axisLinks, cols, timestampHashes,
                          phase, job>>
  BY DEF PutStandaloneKnown, PutStandalone, PutStandaloneFails, packed, alone, index
<1>2. /\ links \in [Hashes -> LinkStates]
      /\ byHash \in [Hashes -> Slots \cup {Own, Absent}]
      /\ standaloneVars \subseteq Hashes
  BY DEF FileInv, TypeOK
<1>3. /\ links' \in [Hashes -> LinkStates]
      /\ byHash' \in [Hashes -> Slots \cup {Own, Absent}]
      /\ standaloneVars' \subseteq Hashes
  <2>1. CASE PutStandaloneKnown(h)
    BY <1>2, <2>1 DEF PutStandaloneKnown, alone
  <2>2. CASE PutStandalone(h)
    BY <1>2, <2>2, LinkTypes DEF PutStandalone
  <2>3. CASE PutStandaloneFails(h)
    <3>1. PICK l \in CreateOrFillFails(links[h]) : links' = [links EXCEPT ![h] = l]
      BY <2>3 DEF PutStandaloneFails
    <3>2. l \in LinkStates
      BY <1>2, <3>1, LinkTypes
    <3> QED
      BY <1>2, <2>3, <3>1, <3>2 DEF PutStandaloneFails, index
  <2> QED
    BY <2>1, <2>2, <2>3
<1>4. TypeOK'
  BY <1>1, <1>3 DEF FileInv, TypeOK
<1> QED
  BY <1>1, <1>4, PackedAlone, CalmJob DEF FileInv

LEMMA TimestampsFileInv ==
    ASSUME FileInv, NEW x \in Axes,
           PutTimestamps(x) \/ PutTimestampsFails(x) \/ RemoveTimestamps(x)
    PROVE  FileInv'
<1>1. Calm /\ UNCHANGED <<made, width, rows, data, half, links, cols, byHash, standaloneVars,
                          phase, job>>
  BY DEF PutTimestamps, PutTimestampsFails, RemoveTimestamps, packed, index
<1>2. /\ axisLinks \in [Axes -> LinkStates]
      /\ timestampHashes \subseteq Axes
  BY DEF FileInv, TypeOK
<1>3. /\ axisLinks' \in [Axes -> LinkStates]
      /\ timestampHashes' \subseteq Axes
  <2>1. CASE PutTimestamps(x)
    BY <1>2, <2>1, LinkTypes DEF PutTimestamps
  <2>2. CASE PutTimestampsFails(x)
    <3>1. PICK l \in CreateOrFillFails(axisLinks[x]) : axisLinks' = [axisLinks EXCEPT ![x] = l]
      BY <2>2 DEF PutTimestampsFails
    <3>2. l \in LinkStates
      BY <1>2, <3>1, LinkTypes
    <3> QED
      BY <1>2, <2>2, <3>1, <3>2 DEF PutTimestampsFails, index
  <2>3. CASE RemoveTimestamps(x)
    BY <1>2, <2>3, LinkTypes DEF RemoveTimestamps
  <2> QED
    BY <2>1, <2>2, <2>3
<1>4. TypeOK'
  BY <1>1, <1>3 DEF FileInv, TypeOK
<1> QED
  BY <1>1, <1>4, PackedAlone, CalmJob DEF FileInv

\* A removal, of whatever outcome, un-names a column before it is anything else.
LEMMA RemoveFacts ==
    ASSUME FileInv, NEW h \in Hashes, UNCHANGED made,
           Remove(h) \/ (RemoveFails(h) /\ UNCHANGED <<links, cols, byHash, standaloneVars>>)
    PROVE  /\ rows' \in [Slots -> Hashes \cup {Free}]
           /\ data' \in [Slots -> Hashes \cup {Zero, Torn}]
           /\ cols' \in [Slots -> Hashes \cup {Free}]
           /\ links' \in [Hashes -> LinkStates]
           /\ byHash' \in [Hashes -> Slots \cup {Own, Absent}]
           /\ standaloneVars' \subseteq Hashes
           /\ FreshUnnamed' /\ RowsKnown' /\ RowsTellTheTruth'
<1>0. /\ rows \in [Slots -> Hashes \cup {Free}]
      /\ data \in [Slots -> Hashes \cup {Zero, Torn}]
      /\ cols \in [Slots -> Hashes \cup {Free}]
      /\ links \in [Hashes -> LinkStates]
      /\ byHash \in [Hashes -> Slots \cup {Own, Absent}]
      /\ standaloneVars \subseteq Hashes
  BY DEF FileInv, TypeOK
<1>1. CASE Remove(h)
  <2>1. CASE byHash[h] \in Slots /\ byHash[h] # Own
    <3>1. /\ rows' = [rows EXCEPT ![byHash[h]] = Free]
          /\ data' = [data EXCEPT ![byHash[h]] = Zero]
          /\ cols' = [cols EXCEPT ![byHash[h]] = Free]
          /\ byHash' = [byHash EXCEPT ![h] = Absent]
          /\ UNCHANGED <<links, standaloneVars>>
      BY <1>1, <2>1 DEF Remove
    <3>2. /\ rows' \in [Slots -> Hashes \cup {Free}]
          /\ data' \in [Slots -> Hashes \cup {Zero, Torn}]
          /\ cols' \in [Slots -> Hashes \cup {Free}]
          /\ links' \in [Hashes -> LinkStates]
          /\ byHash' \in [Hashes -> Slots \cup {Own, Absent}]
          /\ standaloneVars' \subseteq Hashes
      BY <1>0, <3>1
    <3>3. FreshUnnamed' /\ RowsKnown' /\ RowsTellTheTruth'
      BY <1>0, <2>1, <3>1 DEF FileInv, FreshUnnamed, RowsKnown, RowsTellTheTruth
    <3> QED
      BY <3>2, <3>3
  <2>2. CASE ~(byHash[h] \in Slots /\ byHash[h] # Own)
    <3>1. /\ links' = [links EXCEPT ![h] = "none"]
          /\ standaloneVars' = standaloneVars \ {h}
          /\ byHash' = [byHash EXCEPT ![h] = Absent]
          /\ UNCHANGED <<rows, data, cols>>
      BY <1>1, <2>2, LocationsDiffer DEF Remove
    <3> QED
      BY <1>0, <3>1, PackedAlone DEF LinkStates
  <2> QED
    BY <2>1, <2>2
<1>2. CASE RemoveFails(h) /\ UNCHANGED <<links, cols, byHash, standaloneVars>>
  <2>1. CASE UNCHANGED <<rows, data>>
    BY <1>0, <1>2, <2>1, PackedAlone
  <2>2. CASE /\ byHash[h] \in Slots
             /\ rows' = [rows EXCEPT ![byHash[h]] = Free]
             /\ data' = [data EXCEPT ![byHash[h]] = Torn]
    <3>1. FreshUnnamed' /\ RowsKnown' /\ RowsTellTheTruth'
      BY <1>0, <1>2, <2>2 DEF FileInv, FreshUnnamed, RowsKnown, RowsTellTheTruth
    <3>2. /\ rows' \in [Slots -> Hashes \cup {Free}]
          /\ data' \in [Slots -> Hashes \cup {Zero, Torn}]
      BY <1>0, <2>2
    <3> QED
      BY <1>0, <1>2, <3>1, <3>2
  <2> QED
    BY <1>2, <2>1, <2>2 DEF RemoveFails
<1> QED
  BY <1>1, <1>2

LEMMA RemovalFileInv ==
    ASSUME FileInv, NEW h \in Hashes, RemoveArray(h) \/ RemoveArrayFails(h)
    PROVE  FileInv'
<1>1. /\ Calm
      /\ Remove(h) \/ (RemoveFails(h) /\ UNCHANGED <<links, cols, byHash, standaloneVars>>)
      /\ UNCHANGED <<made, width, half, axisLinks, timestampHashes, phase, job>>
  BY DEF RemoveArray, RemoveArrayFails, alone, index
<1>2. TypeOK'
  BY <1>1, RemoveFacts DEF FileInv, TypeOK
<1> QED
  BY <1>1, <1>2, RemoveFacts, CalmJob DEF FileInv

\* Block writes.
LEMMA BlockBeginFileInv ==
    ASSUME FileInv, NEW p \in Pools, BlockBegin(p)
    PROVE  FileInv'
<1>1. UNCHANGED <<made, width, rows, data, half, links, axisLinks, cols, byHash,
                  standaloneVars, timestampHashes>> /\ phase' = "block"
  BY DEF BlockBegin, packed, alone, index
<1>2. PICK b \in Blocks : job' = [pool |-> p, left |-> b, done |-> {}, before |-> Stored]
  BY DEF BlockBegin
<1>3. PICK n \in 1..MaxBlock :
           /\ b \in [1..n -> Hashes]
           /\ \A i \in 1..n : BlockNew(b[i])
           /\ \A i, j \in 1..n : b[i] = b[j] => i = j
  BY <1>2 DEF Blocks
<1>4. n \in Nat
  BY <1>3, FileConstants
<1>5. b \in Seq(Hashes) /\ DOMAIN b = 1..n
  BY <1>3, <1>4
<1>6. TypeOK'
  BY <1>1, <1>2, <1>5 DEF FileInv, TypeOK, Stored
<1>7. JobInv'
  BY <1>1, <1>2, <1>3, <1>5 DEF JobInv, BlockNew, Stored
<1> QED
  BY <1>1, <1>6, <1>7, PackedAlone DEF FileInv

LEMMA BlockSegmentFileInv ==
    ASSUME FileInv, BlockSegment
    PROVE  FileInv'
<1> DEFINE w == SegmentWidth
           place(h) == CHOOSE t \in SegmentSlots : job.left[t[3]] = h
<1>1. /\ phase = "block"
      /\ job.left # <<>>
      /\ CanCreate(job.pool)
      /\ NewSet(job.pool, w)
      /\ rows' = [s \in Slots |-> IF s \in SegmentSlots THEN job.left[s[3]] ELSE rows[s]]
      /\ data' = [s \in Slots |-> IF s \in SegmentSlots THEN job.left[s[3]] ELSE data[s]]
      /\ cols' = [s \in Slots |-> IF s \in SegmentSlots THEN job.left[s[3]] ELSE cols[s]]
      /\ byHash' = [h \in Hashes |-> IF h \in SegmentHashes THEN place(h) ELSE byHash[h]]
      /\ job' = [job EXCEPT !.left = SubSeq(@, w + 1, Len(@)),
                            !.done = @ \cup SegmentHashes]
      /\ UNCHANGED <<half, links, axisLinks, standaloneVars, timestampHashes, phase>>
  BY DEF BlockSegment, alone
<1>2. /\ job.pool \in Pools
      /\ job.left \in Seq(Hashes)
      /\ w \in 1..MaxCols
      /\ w \in 1..Len(job.left)
      /\ SegmentHashes \subseteq Hashes
      /\ \A s \in SegmentSlots : /\ s \in Slots
                                 /\ job.left[s[3]] \in SegmentHashes
                                 /\ s[1] = job.pool
                                 /\ s[2] = made[job.pool] + 1
  BY <1>1, SegmentFacts
<1>3. \A h \in SegmentHashes : place(h) \in SegmentSlots /\ job.left[place(h)[3]] = h
  BY <1>1, SegmentPlaces
<1>4. /\ made' \in [Pools -> 0..MaxSets]
      /\ width' \in [Pools \X (1..MaxSets) -> 0..MaxCols]
      /\ \A q \in Pools : made[q] <= made'[q]
      /\ made'[job.pool] = made[job.pool] + 1
  BY <1>1, <1>2, NewSetTypes DEF CanCreate, FileInv
<1> DEFINE rest == SubSeq(job.left, w + 1, Len(job.left))
<1>5. /\ rest \in Seq(Hashes)
      /\ Len(rest) = Len(job.left) - w
      /\ \A i \in 1..Len(rest) : rest[i] = job.left[w + i] /\ w + i \in 1..Len(job.left)
  BY <1>2
<1>6. /\ job \in [pool : Pools \cup {Absent}, left : Seq(Hashes), done : SUBSET Hashes,
                  before : SUBSET Hashes]
      /\ job'.pool = job.pool
      /\ job'.left = rest
      /\ job'.done = job.done \cup SegmentHashes
      /\ job'.before = job.before
      /\ job' \in [pool : Pools \cup {Absent}, left : Seq(Hashes), done : SUBSET Hashes,
                  before : SUBSET Hashes]
  <2>1. job \in [pool : Pools \cup {Absent}, left : Seq(Hashes), done : SUBSET Hashes,
                before : SUBSET Hashes]
    BY DEF FileInv, TypeOK
  <2>2. job' = [job EXCEPT !.left = rest, !.done = job.done \cup SegmentHashes]
    BY <1>1
  <2> HIDE DEF rest
  <2> QED
    BY <2>1, <2>2, <1>2, <1>5
<1> HIDE DEF place, w, rest
<1>7. /\ rows' \in [Slots -> Hashes \cup {Free}]
      /\ data' \in [Slots -> Hashes \cup {Zero, Torn}]
      /\ cols' \in [Slots -> Hashes \cup {Free}]
  BY <1>1, <1>2 DEF FileInv, TypeOK
<1>8. byHash' \in [Hashes -> Slots \cup {Own, Absent}]
  BY <1>1, <1>2, <1>3 DEF FileInv, TypeOK
<1>9. TypeOK'
  BY <1>1, <1>4, <1>6, <1>7, <1>8 DEF FileInv, TypeOK
<1>10. FreshUnnamed'
  <2> SUFFICES ASSUME NEW s \in Slots, s[2] > made'[s[1]]
               PROVE  rows'[s] = Free /\ cols'[s] = Free
    BY DEF FreshUnnamed
  <2>1. s[1] \in Pools /\ s[2] \in Nat
    BY FileConstants DEF Slots
  <2>2. made'[s[1]] \in Nat
    BY <2>1, <1>4, FileConstants
  <2>3. s[2] > made[s[1]]
    BY <1>4, StillFresh DEF FileInv
  <2>4. s \notin SegmentSlots
    BY <1>2, <1>4, <2>1, <2>2
  <2>5. rows[s] = Free /\ cols[s] = Free
    BY <2>3 DEF FileInv, FreshUnnamed
  <2> QED
    BY <1>1, <2>4, <2>5
<1>11. RowsKnown'
  BY <1>1 DEF FileInv, RowsKnown
<1>12. RowsTellTheTruth'
  BY <1>1 DEF FileInv, RowsTellTheTruth
<1>13. JobInv'
  <2>1. /\ \A i \in DOMAIN job.left : byHash[job.left[i]] = Absent
        /\ \A i, j \in DOMAIN job.left : job.left[i] = job.left[j] => i = j
        /\ \A h \in job.done : byHash[h] \in Slots
        /\ job.done \cap job.before = {}
        /\ Stored = job.before \cup job.done
    BY <1>1 DEF FileInv, JobInv
  <2>2. DOMAIN job.left = 1..Len(job.left) /\ DOMAIN rest = 1..Len(rest) /\ w \in Nat
        /\ Len(job.left) \in Nat /\ Len(rest) \in Nat
    BY <1>2, <1>5
  <2>3. \A h \in SegmentHashes : \E c \in 1..w : c \in DOMAIN job.left /\ job.left[c] = h
    BY <1>2, <2>2 DEF SegmentHashes, w
  <2>4. \A h \in SegmentHashes : byHash[h] = Absent
    BY <2>1, <2>3
  <2>5. \A i \in DOMAIN rest : rest[i] \notin SegmentHashes
    <3> SUFFICES ASSUME NEW i \in DOMAIN rest, rest[i] \in SegmentHashes
                 PROVE  FALSE
      OBVIOUS
    <3>1. rest[i] = job.left[w + i] /\ w + i \in DOMAIN job.left /\ i > 0
      BY <1>5, <2>2
    <3>2. PICK c \in 1..w : c \in DOMAIN job.left /\ job.left[c] = rest[i]
      BY <2>3
    <3>3. c = w + i
      BY <2>1, <3>1, <3>2
    <3> QED
      BY <3>1, <3>2, <3>3, <2>2
  <2>6. \A i \in DOMAIN rest : rest[i] \in Hashes /\ byHash[rest[i]] = Absent
    <3> SUFFICES ASSUME NEW i \in DOMAIN rest
                 PROVE  rest[i] \in Hashes /\ byHash[rest[i]] = Absent
      OBVIOUS
    <3>1. rest[i] = job.left[w + i] /\ w + i \in DOMAIN job.left
      BY <1>5, <2>2
    <3>2. rest[i] \in Hashes
      BY <1>5, <2>2
    <3> QED
      BY <2>1, <3>1, <3>2
  <2>7. \A i \in DOMAIN rest : byHash'[rest[i]] = Absent
    BY <1>1, <2>5, <2>6
  <2>8. \A i, j \in DOMAIN rest : rest[i] = rest[j] => i = j
    <3> SUFFICES ASSUME NEW i \in DOMAIN rest, NEW j \in DOMAIN rest, rest[i] = rest[j]
                 PROVE  i = j
      OBVIOUS
    <3>1. /\ w + i \in DOMAIN job.left /\ w + j \in DOMAIN job.left
          /\ job.left[w + i] = job.left[w + j]
      BY <1>5, <2>2
    <3>2. w + i = w + j
      BY <2>1, <3>1
    <3> QED
      BY <3>2, <2>2
  <2>9. \A h \in job.done : h \notin SegmentHashes /\ h \in Hashes
    BY <2>1, <2>4, <1>6, LocationsDiffer
  <2>10. \A h \in job'.done : byHash'[h] \in Slots
    BY <1>1, <1>2, <1>3, <1>6, <2>1, <2>9
  <2>11. job'.done \cap job'.before = {}
    <3>1. \A h \in SegmentHashes : h \notin Stored
      BY <2>4 DEF Stored
    <3> QED
      BY <1>6, <2>1, <3>1
  <2>12. Stored' = job'.before \cup job'.done
    <3>1. \A h \in Hashes : h \in Stored' <=> (h \in SegmentHashes \/ h \in Stored)
      BY <1>1, <1>2, <1>3, LocationsDiffer DEF Stored
    <3>2. Stored' \subseteq Hashes /\ Stored \subseteq Hashes
      BY DEF Stored
    <3> QED
      BY <1>2, <1>6, <2>1, <3>1, <3>2
  <2>13. job'.pool \in Pools
    BY <1>2, <1>6
  <2> QED
    BY <1>6, <2>7, <2>8, <2>10, <2>11, <2>12, <2>13 DEF JobInv
<1> QED
  BY <1>9, <1>10, <1>11, <1>12, <1>13 DEF FileInv

LEMMA BlockSegmentFailsFileInv ==
    ASSUME FileInv, BlockSegmentFails
    PROVE  FileInv'
<1>1. /\ phase = "block"
      /\ job.left # <<>>
      /\ phase' = "unwind"
      /\ UNCHANGED <<rows, links, axisLinks, cols, byHash, standaloneVars, timestampHashes, job>>
  BY DEF BlockSegmentFails, alone, index
<1>2. /\ job.pool \in Pools
      /\ SegmentWidth \in 1..MaxCols
      /\ \A s \in SegmentSlots : job.left[s[3]] \in Hashes /\ rows[s] = Free
  BY <1>1, SegmentFacts
<1>3. /\ made' \in [Pools -> 0..MaxSets]
      /\ width' \in [Pools \X (1..MaxSets) -> 0..MaxCols]
      /\ \A q \in Pools : made[q] <= made'[q]
      /\ half' \subseteq Pools
  <2>1. CASE CreateFails(job.pool) /\ UNCHANGED <<made, width>>
    BY <1>2, <2>1, CreateFailsHalf, FileConstants DEF FileInv, TypeOK
  <2>2. CASE CanCreate(job.pool) /\ NewSet(job.pool, SegmentWidth) /\ UNCHANGED half
    BY <1>2, <2>2, NewSetTypes DEF FileInv, CanCreate, TypeOK
  <2> QED
    BY <2>1, <2>2 DEF BlockSegmentFails
<1>4. /\ data' \in [Slots -> Hashes \cup {Zero, Torn}]
      /\ \A s \in Slots : s \notin SegmentSlots => data'[s] = data[s]
  <2>1. data \in [Slots -> Hashes \cup {Zero, Torn}]
    BY DEF FileInv, TypeOK
  <2>2. \/ data' = data
        \/ data' = [s \in Slots |-> IF s \in SegmentSlots THEN Torn ELSE data[s]]
        \/ data' = [s \in Slots |-> IF s \in SegmentSlots THEN job.left[s[3]] ELSE data[s]]
    BY DEF BlockSegmentFails
  <2> QED
    BY <1>2, <2>1, <2>2
<1>5. TypeOK'
  BY <1>1, <1>3, <1>4 DEF FileInv, TypeOK
<1>6. FreshUnnamed'
  BY <1>1, <1>3, StillFresh DEF FileInv, FreshUnnamed
<1>7. RowsKnown'
  BY <1>1 DEF FileInv, RowsKnown
<1>8. RowsTellTheTruth'
  BY <1>1, <1>2, <1>4 DEF FileInv, RowsTellTheTruth
<1>9. JobInv'
  BY <1>1 DEF FileInv, JobInv
<1> QED
  BY <1>5, <1>6, <1>7, <1>8, <1>9 DEF FileInv

LEMMA BlockUnwindFileInv ==
    ASSUME FileInv, NEW h \in Hashes, BlockUnwind(h)
    PROVE  FileInv'
<1>1. /\ phase = "unwind"
      /\ Remove(h) \/ (RemoveFails(h) /\ UNCHANGED <<links, cols, byHash, standaloneVars>>)
      /\ job' = [job EXCEPT !.done = @ \ {h}]
      /\ UNCHANGED <<made, width, half, axisLinks, timestampHashes, phase>>
  BY DEF BlockUnwind
<1>2. job \in [pool : Pools \cup {Absent}, left : Seq(Hashes), done : SUBSET Hashes,
              before : SUBSET Hashes]
  BY DEF FileInv, TypeOK
<1>3. /\ job' \in [pool : Pools \cup {Absent}, left : Seq(Hashes), done : SUBSET Hashes,
                   before : SUBSET Hashes]
      /\ job'.left = job.left
      /\ job'.pool = job.pool
  BY <1>1, <1>2
<1>4. TypeOK'
  BY <1>1, <1>3, RemoveFacts DEF FileInv, TypeOK
<1>5. \A i \in Hashes : byHash[i] = Absent => byHash'[i] = Absent
  BY <1>1, LocationsDiffer DEF Remove, FileInv, TypeOK
<1>6. \A i \in DOMAIN job.left : job.left[i] \in Hashes
  BY <1>2
<1>7. JobInv'
  BY <1>1, <1>3, <1>5, <1>6 DEF FileInv, JobInv
<1> QED
  BY <1>1, <1>4, <1>7, RemoveFacts DEF FileInv

LEMMA BlockDoneFileInv ==
    ASSUME FileInv, BlockEnd \/ BlockFailed \/ OpenRefused
    PROVE  FileInv'
<1>1. /\ UNCHANGED <<made, width, rows, data, half, links, axisLinks, cols, byHash,
                     standaloneVars, timestampHashes>>
      /\ phase' \in {"open", "refused"}
      /\ job' = NoJob \/ job' = job
  BY DEF BlockEnd, BlockFailed, OpenRefused, packed, alone, index
<1>2. TypeOK'
  <2>1. NoJob \in [pool : Pools \cup {Absent}, left : Seq(Hashes), done : SUBSET Hashes,
                  before : SUBSET Hashes]
    BY DEF NoJob
  <2>2. job' \in [pool : Pools \cup {Absent}, left : Seq(Hashes), done : SUBSET Hashes,
                 before : SUBSET Hashes]
    BY <1>1, <2>1 DEF FileInv, TypeOK
  <2>3. phase' \in {"open", "block", "unwind", "refused"}
    BY <1>1
  <2> QED
    BY <1>1, <2>2, <2>3 DEF FileInv, TypeOK
<1>3. JobInv'
  BY <1>1 DEF JobInv
<1> QED
  BY <1>1, <1>2, <1>3, PackedAlone DEF FileInv

LEMMA ReopenFileInv ==
    ASSUME FileInv, Reopen
    PROVE  FileInv'
<1>1. /\ Calm
      /\ cols' = rows
      /\ byHash' \in [Hashes -> Places \cup {Absent}]
      /\ standaloneVars' \subseteq Hashes
      /\ timestampHashes' \subseteq Axes
      /\ UNCHANGED <<made, width, rows, data, half, links, axisLinks, phase, job>>
  BY DEF Reopen, packed, alone
<1>2. Places \subseteq Slots \cup {Own}
  BY DEF Places, NamedAt
<1>3. TypeOK'
  BY <1>1, <1>2 DEF FileInv, TypeOK
<1>4. FreshUnnamed' /\ RowsKnown' /\ RowsTellTheTruth'
  BY <1>1 DEF FileInv, FreshUnnamed, RowsKnown, RowsTellTheTruth
<1> QED
  BY <1>1, <1>3, <1>4, CalmJob DEF FileInv

LEMMA FileInvStep ==
    ASSUME FileInv, [Next]_vars
    PROVE  FileInv'
<1>1. CASE Next
  BY <1>1, PutPackedFileInv, PutPackedTearsFileInv, PutPackedNoSetFileInv, StandaloneFileInv,
     TimestampsFileInv, RemovalFileInv, BlockBeginFileInv, BlockSegmentFileInv,
     BlockSegmentFailsFileInv, BlockUnwindFileInv, BlockDoneFileInv, ReopenFileInv DEF Next
<1>2. CASE UNCHANGED vars
  BY <1>2 DEF vars, packed, alone, index, FileInv, TypeOK, FreshUnnamed, RowsKnown,
              RowsTellTheTruth, JobInv, Stored
<1> QED
  BY <1>1, <1>2

\* FileInv, which relates the file, the index and a block in progress, holds in
\* every reachable state whichever file operations fail.
THEOREM FileInvariant == Spec => []FileInv
<1>1. Init => FileInv
  BY InitFileInv
<1>2. FileInv /\ [Next]_vars => FileInv'
  BY FileInvStep
<1> QED
  BY <1>1, <1>2, PTL DEF Spec

\* A hash row never names a column that holds anything but that array: the write
\* order of put_packed, put_packed_segment and remove_array_locked keeps it so
\* through any failure.
THEOREM RowsNeverLie == Spec => []RowsTellTheTruth
<1>1. FileInv => RowsTellTheTruth
  BY DEF FileInv
<1> QED
  BY <1>1, FileInvariant, PTL

-----------------------------------------------------------------------------
(* PlaceInv, while no clean-up fails.                                      *)

\* The index and the file then name the same place for an array.
LEMMA PlacesAgree ==
    ASSUME FileInv, PlaceInv
    PROVE  NothingResurrected /\ StoredOnce
<1>1. ASSUME NEW h \in Hashes, NEW l \in NamedAt(h)
      PROVE  byHash[h] = l
  <2>1. CASE l \in Slots /\ rows[l] = h
    BY <2>1, FileConstants DEF FileInv, RowsKnown, PlaceInv
  <2>2. CASE l = Own /\ links[h] # "none"
    BY <2>2 DEF PlaceInv
  <2> QED
    BY <2>1, <2>2 DEF NamedAt
<1> QED
  BY <1>1 DEF NothingResurrected, StoredOnce

LEMMA PutPackedPlace ==
    ASSUME FileInv, PlaceInv, NEW h \in Hashes, NEW p \in Pools, PutPacked(h, p)
    PROVE  PlaceInv'
<1>1. /\ byHash[h] = Absent
      /\ Spills(p) => CanCreate(p)
      /\ EnsureSet(p)
      /\ UNCHANGED <<half, links, standaloneVars>>
  BY DEF PutPacked, alone
<1>2. PICK s \in Slots :
           /\ IsTarget(p, s)
           /\ cols' = [cols EXCEPT ![s] = h]
           /\ byHash' = [byHash EXCEPT ![h] = s]
  BY DEF PutPacked
<1>3. cols[s] = Free
  BY <1>1, <1>2, TargetFree
<1>4. cols \in [Slots -> Hashes \cup {Free}] /\ byHash \in [Hashes -> Slots \cup {Own, Absent}]
  BY DEF FileInv, TypeOK
<1>5. \A g \in Hashes : byHash'[g] \in Slots => cols'[byHash'[g]] = g
  BY <1>2, <1>3, <1>4, FileConstants DEF PlaceInv
<1>6. \A t \in Slots : cols'[t] # Free => byHash'[cols'[t]] = t
  BY <1>1, <1>2, <1>4, LocationsDiffer DEF PlaceInv
<1>7. \A g \in Hashes : byHash'[g] = Own <=> links[g] # "none"
  BY <1>1, <1>2, <1>4, LocationsDiffer, FileConstants DEF PlaceInv
<1> QED
  BY <1>1, <1>5, <1>6, <1>7 DEF PlaceInv, FileOpens

\* Operations that change neither links nor the index of arrays.
LEMMA PlaceAlone ==
    ASSUME PlaceInv, half' = half, UNCHANGED <<cols, byHash, links, standaloneVars>>
    PROVE  PlaceInv'
BY DEF PlaceInv, FileOpens

LEMMA CreateFailsOpens ==
    ASSUME "cleanup" \notin Faults, NEW p \in Pools, CreateFails(p)
    PROVE  half' = half
BY DEF CreateFails

LEMMA StandalonePlace ==
    ASSUME "cleanup" \notin Faults, FileInv, PlaceInv, NEW h \in Hashes,
           PutStandaloneKnown(h) \/ PutStandalone(h) \/ PutStandaloneFails(h)
    PROVE  PlaceInv'
<1>0. /\ links \in [Hashes -> LinkStates]
      /\ byHash \in [Hashes -> Slots \cup {Own, Absent}]
      /\ cols \in [Slots -> Hashes \cup {Free}]
  BY DEF FileInv, TypeOK
<1>1. CASE PutStandaloneKnown(h)
  <2>1. h \in standaloneVars /\ byHash[h] = Absent
    BY <1>1 DEF PutStandaloneKnown
  <2> QED
    BY <2>1, FileConstants DEF PlaceInv
<1>2. CASE PutStandalone(h)
  <2>1. /\ byHash[h] = Absent
        /\ links' = [links EXCEPT ![h] = "own"]
        /\ standaloneVars' = standaloneVars \cup {h}
        /\ byHash' = [byHash EXCEPT ![h] = Own]
        /\ UNCHANGED <<half, cols>>
    BY <1>2 DEF PutStandalone, packed
  <2>2. \A g \in Hashes : byHash'[g] \in Slots => cols'[byHash'[g]] = g
    BY <1>0, <2>1, LocationsDiffer DEF PlaceInv
  <2>3. \A t \in Slots : cols'[t] # Free => byHash'[cols'[t]] = t
    BY <1>0, <2>1, LocationsDiffer DEF PlaceInv
  <2>4. \A g \in Hashes : byHash'[g] = Own <=> links'[g] # "none"
    BY <1>0, <2>1 DEF PlaceInv
  <2>5. \A g \in Hashes : links'[g] # "fill"
    BY <1>0, <2>1 DEF PlaceInv
  <2>6. standaloneVars' = {g \in Hashes : links'[g] # "none"}
    BY <1>0, <2>1 DEF PlaceInv
  <2> QED
    BY <2>1, <2>2, <2>3, <2>4, <2>5, <2>6 DEF PlaceInv, FileOpens
<1>3. CASE PutStandaloneFails(h)
  <2>1. PICK l \in CreateOrFillFails(links[h]) : links' = [links EXCEPT ![h] = l]
    BY <1>3 DEF PutStandaloneFails
  <2>2. l = links[h]
    BY DEF CreateOrFillFails, FillFails
  <2>3. links' = links
    BY <1>0, <2>1, <2>2
  <2>4. UNCHANGED <<half, cols, byHash, standaloneVars>>
    BY <1>3 DEF PutStandaloneFails, packed, index
  <2> QED
    BY <2>3, <2>4, PlaceAlone
<1> QED
  BY <1>1, <1>2, <1>3

LEMMA RemovePlace ==
    ASSUME FileInv, PlaceInv, NEW h \in Hashes, Remove(h), half' = half
    PROVE  PlaceInv'
<1>0. /\ links \in [Hashes -> LinkStates]
      /\ byHash \in [Hashes -> Slots \cup {Own, Absent}]
      /\ cols \in [Slots -> Hashes \cup {Free}]
  BY DEF FileInv, TypeOK
<1>1. CASE byHash[h] \in Slots
  <2>1. /\ cols' = [cols EXCEPT ![byHash[h]] = Free]
        /\ byHash' = [byHash EXCEPT ![h] = Absent]
        /\ UNCHANGED <<links, standaloneVars>>
    BY <1>1, LocationsDiffer DEF Remove
  <2>2. cols[byHash[h]] = h
    BY <1>1 DEF PlaceInv
  <2>3. \A g \in Hashes : byHash'[g] \in Slots => cols'[byHash'[g]] = g
    BY <1>0, <1>1, <2>1, <2>2, LocationsDiffer DEF PlaceInv
  <2>4. \A t \in Slots : cols'[t] # Free => byHash'[cols'[t]] = t
    BY <1>0, <1>1, <2>1, <2>2 DEF PlaceInv
  <2>5. \A g \in Hashes : byHash'[g] = Own <=> links'[g] # "none"
    BY <1>0, <1>1, <2>1, LocationsDiffer, FileConstants DEF PlaceInv
  <2> QED
    BY <2>1, <2>3, <2>4, <2>5 DEF PlaceInv, FileOpens
<1>2. CASE byHash[h] = Own
  <2>1. /\ links' = [links EXCEPT ![h] = "none"]
        /\ standaloneVars' = standaloneVars \ {h}
        /\ byHash' = [byHash EXCEPT ![h] = Absent]
        /\ UNCHANGED cols
    BY <1>2, LocationsDiffer DEF Remove
  <2>2. \A g \in Hashes : byHash'[g] \in Slots => cols'[byHash'[g]] = g
    BY <1>0, <2>1, LocationsDiffer DEF PlaceInv
  <2>3. \A t \in Slots : cols'[t] # Free => byHash'[cols'[t]] = t
    BY <1>0, <1>2, <2>1, LocationsDiffer DEF PlaceInv
  <2>4. \A g \in Hashes : byHash'[g] = Own <=> links'[g] # "none"
    BY <1>0, <2>1, FileConstants DEF PlaceInv
  <2>5. \A g \in Hashes : links'[g] # "fill"
    BY <1>0, <2>1 DEF PlaceInv
  <2>6. standaloneVars' = {g \in Hashes : links'[g] # "none"}
    BY <1>0, <2>1 DEF PlaceInv
  <2> QED
    BY <2>1, <2>2, <2>3, <2>4, <2>5, <2>6 DEF PlaceInv, FileOpens
<1> QED
  BY <1>1, <1>2 DEF Remove

LEMMA BlockSegmentPlace ==
    ASSUME FileInv, PlaceInv, BlockSegment
    PROVE  PlaceInv'
<1> DEFINE place(h) == CHOOSE t \in SegmentSlots : job.left[t[3]] = h
<1>1. /\ phase = "block"
      /\ job.left # <<>>
      /\ CanCreate(job.pool)
      /\ cols' = [s \in Slots |-> IF s \in SegmentSlots THEN job.left[s[3]] ELSE cols[s]]
      /\ byHash' = [h \in Hashes |-> IF h \in SegmentHashes THEN place(h) ELSE byHash[h]]
      /\ UNCHANGED <<half, links, standaloneVars>>
  BY DEF BlockSegment, alone
<1>2. /\ job.left \in Seq(Hashes)
      /\ SegmentWidth \in 1..Len(job.left)
      /\ SegmentHashes \subseteq Hashes
      /\ \A s \in SegmentSlots : /\ s \in Slots
                                 /\ s[3] \in 1..SegmentWidth
                                 /\ job.left[s[3]] \in SegmentHashes
                                 /\ s[1] = job.pool
                                 /\ s[2] = made[job.pool] + 1
                                 /\ cols[s] = Free
  BY <1>1, SegmentFacts
<1>3. \A h \in SegmentHashes : place(h) \in SegmentSlots /\ job.left[place(h)[3]] = h
  BY <1>1, SegmentPlaces
<1>4. /\ \A i \in 1..Len(job.left) : byHash[job.left[i]] = Absent
      /\ \A i, j \in 1..Len(job.left) : job.left[i] = job.left[j] => i = j
  BY <1>1, <1>2 DEF FileInv, JobInv
<1>5. \A h \in SegmentHashes : byHash[h] = Absent
  BY <1>2, <1>4 DEF SegmentHashes
<1>6. /\ byHash \in [Hashes -> Slots \cup {Own, Absent}]
      /\ cols \in [Slots -> Hashes \cup {Free}]
  BY DEF FileInv, TypeOK
\* a segment has one column for each of its arrays
<1>7. ASSUME NEW s \in SegmentSlots, NEW t \in SegmentSlots, job.left[s[3]] = job.left[t[3]]
      PROVE  s = t
  <2>1. s[3] \in 1..Len(job.left) /\ t[3] \in 1..Len(job.left)
    BY <1>2
  <2>2. s[3] = t[3] /\ s[1] = t[1] /\ s[2] = t[2]
    BY <1>2, <1>4, <1>7, <2>1
  <2> QED
    BY <1>2, <2>2 DEF Slots
<1>8. \A s \in SegmentSlots : place(job.left[s[3]]) = s
  BY <1>2, <1>3, <1>7
<1> HIDE DEF place
<1>9. ASSUME NEW g \in Hashes, byHash'[g] \in Slots
      PROVE  cols'[byHash'[g]] = g
  <2>1. CASE g \in SegmentHashes
    BY <1>1, <1>2, <1>3, <2>1
  <2>2. CASE g \notin SegmentHashes
    <3>1. byHash'[g] = byHash[g] /\ cols[byHash[g]] = g
      BY <1>1, <1>9, <2>2 DEF PlaceInv
    <3>2. byHash[g] \notin SegmentSlots
      BY <1>2, <3>1, FileConstants
    <3> QED
      BY <1>1, <1>9, <3>1, <3>2
  <2> QED
    BY <2>1, <2>2
<1>10. ASSUME NEW t \in Slots, cols'[t] # Free
       PROVE  byHash'[cols'[t]] = t
  <2>1. CASE t \in SegmentSlots
    BY <1>1, <1>2, <1>8, <2>1
  <2>2. CASE t \notin SegmentSlots
    <3>1. cols'[t] = cols[t] /\ byHash[cols[t]] = t /\ cols[t] \in Hashes
      BY <1>1, <1>6, <1>10, <2>2 DEF PlaceInv
    <3>2. cols[t] \notin SegmentHashes
      BY <1>5, <3>1, LocationsDiffer
    <3> QED
      BY <1>1, <3>1, <3>2
  <2> QED
    BY <2>1, <2>2
<1>11. \A g \in Hashes : byHash'[g] = Own <=> links[g] # "none"
  BY <1>1, <1>2, <1>3, <1>5, LocationsDiffer, FileConstants DEF PlaceInv
<1> QED
  BY <1>1, <1>9, <1>10, <1>11 DEF PlaceInv, FileOpens

LEMMA ReopenPlace ==
    ASSUME FileInv, PlaceInv, Reopen
    PROVE  PlaceInv'
<1>1. /\ cols' = rows
      /\ \A h \in Hashes : Indexes(byHash', h)
      /\ standaloneVars' = {h \in Hashes : links[h] # "none"}
      /\ UNCHANGED <<half, links>>
  BY DEF Reopen, packed, alone
<1>2. \A h \in Hashes : \A l \in NamedAt(h) : byHash[h] = l
  BY PlacesAgree DEF NothingResurrected
<1>3. \A h \in Hashes : \A l \in NamedAt(h) : byHash'[h] = l
  BY <1>1, <1>2 DEF Indexes
<1>4. \A h \in Hashes : byHash'[h] # Absent => byHash'[h] \in NamedAt(h)
  BY <1>1 DEF Indexes
<1>5. rows \in [Slots -> Hashes \cup {Free}]
  BY DEF FileInv, TypeOK
<1>6. \A h \in Hashes : byHash'[h] \in Slots => cols'[byHash'[h]] = h
  BY <1>1, <1>4, LocationsDiffer DEF NamedAt
<1>7. \A s \in Slots : cols'[s] # Free => byHash'[cols'[s]] = s
  BY <1>1, <1>3, <1>5 DEF NamedAt
<1>8. \A h \in Hashes : byHash'[h] = Own <=> links[h] # "none"
  BY <1>3, <1>4, LocationsDiffer, FileConstants DEF NamedAt
<1> QED
  BY <1>1, <1>6, <1>7, <1>8 DEF PlaceInv, FileOpens

LEMMA PlaceStep ==
    ASSUME "cleanup" \notin Faults, FileInv, PlaceInv, [Next]_vars
    PROVE  PlaceInv'
<1>1. ASSUME NEW h \in Hashes, NEW p \in Pools, PutPackedTears(h, p) \/ PutPackedNoSet(h, p)
      PROVE  PlaceInv'
  <2>1. UNCHANGED <<cols, byHash, links, standaloneVars>> /\ half' = half
    BY <1>1, CreateFailsOpens DEF PutPackedTears, PutPackedNoSet, alone, index
  <2> QED
    BY <2>1, PlaceAlone
<1>2. ASSUME NEW x \in Axes, PutTimestamps(x) \/ PutTimestampsFails(x) \/ RemoveTimestamps(x)
      PROVE  PlaceInv'
  <2>1. UNCHANGED <<cols, byHash, links, standaloneVars>> /\ half' = half
    BY <1>2 DEF PutTimestamps, PutTimestampsFails, RemoveTimestamps, packed, index
  <2> QED
    BY <2>1, PlaceAlone
<1>3. ASSUME NEW h \in Hashes, RemoveArray(h) \/ RemoveArrayFails(h) \/ BlockUnwind(h)
      PROVE  PlaceInv'
  <2>1. half' = half
    BY <1>3 DEF RemoveArray, RemoveArrayFails, BlockUnwind
  <2>2. Remove(h) \/ UNCHANGED <<cols, byHash, links, standaloneVars>>
    BY <1>3 DEF RemoveArray, RemoveArrayFails, BlockUnwind, alone, index
  <2> QED
    BY <2>1, <2>2, RemovePlace, PlaceAlone
<1>4. ASSUME NEW p \in Pools, BlockBegin(p)
      PROVE  PlaceInv'
  <2>1. UNCHANGED <<cols, byHash, links, standaloneVars>> /\ half' = half
    BY <1>4 DEF BlockBegin, packed, alone, index
  <2> QED
    BY <2>1, PlaceAlone
<1>5. CASE BlockEnd \/ BlockFailed \/ OpenRefused
  <2>1. UNCHANGED <<cols, byHash, links, standaloneVars>> /\ half' = half
    BY <1>5 DEF BlockEnd, BlockFailed, OpenRefused, packed, alone, index
  <2> QED
    BY <2>1, PlaceAlone
<1>6. CASE BlockSegmentFails
  <2>1. job.pool \in Pools
    BY <1>6, SegmentFacts DEF BlockSegmentFails
  <2>2. UNCHANGED <<cols, byHash, links, standaloneVars>> /\ half' = half
    BY <1>6, <2>1, CreateFailsOpens DEF BlockSegmentFails, alone, index
  <2> QED
    BY <2>2, PlaceAlone
<1>7. CASE UNCHANGED vars
  BY <1>7, PlaceAlone DEF vars, packed, alone, index
<1>8. CASE Next
  BY <1>8, <1>1, <1>2, <1>3, <1>4, <1>5, <1>6, PutPackedPlace, StandalonePlace,
     BlockSegmentPlace, ReopenPlace DEF Next
<1> QED
  BY <1>7, <1>8

LEMMA InitPlace == Init => PlaceInv /\ AgreeInv /\ UnwindInv
<1> SUFFICES ASSUME Init PROVE PlaceInv /\ AgreeInv /\ UnwindInv
  OBVIOUS
<1>1. PlaceInv
  BY LocationsDiffer, FileConstants DEF Init, PlaceInv, FileOpens
<1>2. AgreeInv
  BY DEF Init, AgreeInv
<1>3. UnwindInv
  BY DEF Init, UnwindInv
<1> QED
  BY <1>1, <1>2, <1>3

\* While the clean-up unlinks work, a failed write never makes the file unopenable,
\* no array is stored twice, and a reopen brings back nothing that was removed or
\* failed to be written, whatever else fails.
THEOREM NothingComesBack ==
    ASSUME "cleanup" \notin Faults
    PROVE  Spec => [](FileOpens /\ StoredOnce /\ NothingResurrected)
<1>1. Init => FileInv /\ PlaceInv
  BY InitFileInv, InitPlace
<1>2. (FileInv /\ PlaceInv) /\ [Next]_vars => (FileInv /\ PlaceInv)'
  BY FileInvStep, PlaceStep
<1>3. FileInv /\ PlaceInv => FileOpens /\ StoredOnce /\ NothingResurrected
  BY PlacesAgree DEF PlaceInv
<1> QED
  BY <1>1, <1>2, <1>3, PTL DEF Spec

-----------------------------------------------------------------------------
(* AgreeInv, while no removal half-succeeds either.                        *)

LEMMA AgreeAlone ==
    ASSUME AgreeInv, UNCHANGED <<cols, rows, timestampHashes, axisLinks>>
    PROVE  AgreeInv'
BY DEF AgreeInv

LEMMA TimestampsAgree ==
    ASSUME Faults \cap {"zero", "unlink", "cleanup"} = {}, FileInv, AgreeInv, NEW x \in Axes,
           PutTimestamps(x) \/ PutTimestampsFails(x) \/ RemoveTimestamps(x)
    PROVE  AgreeInv'
<1>0. axisLinks \in [Axes -> LinkStates]
  BY DEF FileInv, TypeOK
<1>1. UNCHANGED <<cols, rows>>
  BY DEF PutTimestamps, PutTimestampsFails, RemoveTimestamps, packed, index
<1>2. CASE PutTimestamps(x)
  BY <1>0, <1>1, <1>2 DEF PutTimestamps, AgreeInv
<1>3. CASE PutTimestampsFails(x)
  <2>1. PICK l \in CreateOrFillFails(axisLinks[x]) : axisLinks' = [axisLinks EXCEPT ![x] = l]
    BY <1>3 DEF PutTimestampsFails
  <2>2. l = axisLinks[x]
    BY DEF CreateOrFillFails, FillFails
  <2>3. axisLinks' = axisLinks /\ timestampHashes' = timestampHashes
    BY <1>0, <1>3, <2>1, <2>2 DEF PutTimestampsFails, index
  <2> QED
    BY <1>1, <2>3, AgreeAlone
<1>4. CASE RemoveTimestamps(x)
  BY <1>0, <1>1, <1>4 DEF RemoveTimestamps, AgreeInv
<1> QED
  BY <1>2, <1>3, <1>4

LEMMA AgreeStep ==
    ASSUME Faults \cap {"zero", "unlink", "cleanup"} = {}, FileInv, PlaceInv, AgreeInv,
           [Next]_vars
    PROVE  AgreeInv'
<1>0. cols = rows /\ rows \in [Slots -> Hashes \cup {Free}]
  BY DEF FileInv, TypeOK, AgreeInv
<1>1. ASSUME NEW h \in Hashes, NEW p \in Pools,
             PutPacked(h, p) \/ PutPackedTears(h, p) \/ PutPackedNoSet(h, p)
      PROVE  AgreeInv'
  BY <1>0, <1>1 DEF PutPacked, PutPackedTears, PutPackedNoSet, alone, index, AgreeInv
<1>2. ASSUME NEW h \in Hashes,
             PutStandaloneKnown(h) \/ PutStandalone(h) \/ PutStandaloneFails(h)
      PROVE  AgreeInv'
  BY <1>2, AgreeAlone DEF PutStandaloneKnown, PutStandalone, PutStandaloneFails, packed,
                          alone, index
<1>3. ASSUME NEW h \in Hashes, RemoveArray(h) \/ RemoveArrayFails(h) \/ BlockUnwind(h)
      PROVE  AgreeInv'
  <2>1. UNCHANGED <<timestampHashes, axisLinks>>
    BY <1>3 DEF RemoveArray, RemoveArrayFails, BlockUnwind, alone, index
  <2>2. Remove(h) \/ (RemoveFails(h) /\ UNCHANGED cols)
    BY <1>3 DEF RemoveArray, RemoveArrayFails, BlockUnwind, index
  <2>3. RemoveFails(h) => UNCHANGED rows
    BY DEF RemoveFails
  <2>4. Remove(h) => cols' = rows'
    BY <1>0 DEF Remove
  <2> QED
    BY <1>0, <2>1, <2>2, <2>3, <2>4 DEF AgreeInv
<1>4. ASSUME NEW p \in Pools, BlockBegin(p)
      PROVE  AgreeInv'
  BY <1>4, AgreeAlone DEF BlockBegin, packed, alone, index
<1>5. CASE BlockSegment
  BY <1>0, <1>5 DEF BlockSegment, alone, AgreeInv
<1>6. CASE BlockSegmentFails \/ BlockEnd \/ BlockFailed \/ OpenRefused
  BY <1>6, AgreeAlone DEF BlockSegmentFails, BlockEnd, BlockFailed, OpenRefused, packed,
                          alone, index
<1>7. CASE Reopen
  BY <1>7 DEF Reopen, packed, alone, AgreeInv
<1>8. CASE UNCHANGED vars
  BY <1>8, AgreeAlone DEF vars, packed, alone, index
<1>9. CASE Next
  BY <1>9, <1>1, <1>2, <1>3, <1>4, <1>5, <1>6, <1>7, TimestampsAgree DEF Next
<1> QED
  BY <1>8, <1>9

\* What the index rebuilt at a reopen says is what it said before.
LEMMA ReopenRebuilds ==
    ASSUME FileInv, PlaceInv, AgreeInv, Reopen
    PROVE  UNCHANGED index
<1>1. /\ cols' = rows
      /\ byHash' \in [Hashes -> Places \cup {Absent}]
      /\ \A h \in Hashes : Indexes(byHash', h)
      /\ standaloneVars' = {h \in Hashes : links[h] # "none"}
      /\ timestampHashes' = {x \in Axes : axisLinks[x] # "none"}
  BY DEF Reopen
<1>2. cols = rows /\ byHash \in [Hashes -> Slots \cup {Own, Absent}]
  BY DEF FileInv, TypeOK, AgreeInv
<1>3. ASSUME NEW h \in Hashes
      PROVE  byHash'[h] = byHash[h]
  <2>1. \A l \in NamedAt(h) : byHash[h] = l
    BY PlacesAgree DEF NothingResurrected
  <2>2. byHash[h] # Absent => byHash[h] \in NamedAt(h)
    BY <1>2 DEF PlaceInv, NamedAt
  <2> QED
    BY <1>1, <2>1, <2>2 DEF Indexes
<1>4. byHash' = byHash
  BY <1>1, <1>2, <1>3
<1> QED
  BY <1>1, <1>2, <1>4 DEF index, AgreeInv, PlaceInv

\* The index, the columns it keeps and the file stay in step while removals and
\* clean-ups work, however writes fail.
LEMMA PlacesAlwaysAgree ==
    ASSUME Faults \cap {"zero", "unlink", "cleanup"} = {}
    PROVE  Spec => [](FileInv /\ PlaceInv /\ AgreeInv)
<1> DEFINE I == FileInv /\ PlaceInv /\ AgreeInv
<1>1. Init => I
  BY InitFileInv, InitPlace
<1>2. I /\ [Next]_vars => I'
  BY FileInvStep, PlaceStep, AgreeStep
<1> QED
  BY <1>1, <1>2, PTL DEF Spec

\* While removals and clean-ups work, every array the index says is stored can be
\* read: its column holds its values, or its own dataset is complete (get_packed,
\* get_standalone), however writes fail.
THEOREM StoredArraysRead ==
    ASSUME Faults \cap {"zero", "unlink", "cleanup"} = {}
    PROVE  Spec => []ReadsItsContent
<1> DEFINE I == FileInv /\ PlaceInv /\ AgreeInv
<1>1. I => ReadsItsContent
  <2> SUFFICES ASSUME I, NEW h \in Hashes
               PROVE  /\ byHash[h] \in Slots => data[byHash[h]] = h
                      /\ byHash[h] = Own => links[h] = "own"
    BY DEF ReadsItsContent
  <2>1. byHash[h] \in Slots => rows[byHash[h]] = h
    BY DEF PlaceInv, AgreeInv
  <2>2. byHash[h] \in Slots => data[byHash[h]] = h
    BY <2>1, FileConstants DEF FileInv, RowsTellTheTruth
  <2>3. links[h] \in LinkStates
    BY DEF FileInv, TypeOK
  <2>4. byHash[h] = Own => links[h] = "own"
    BY <2>3 DEF PlaceInv, LinkStates
  <2> QED
    BY <2>2, <2>4
<1> QED
  BY <1>1, PlacesAlwaysAgree, PTL

\* While removals and clean-ups work, closing and reopening the file changes
\* nothing the index says, however writes fail.
THEOREM ReopenChangesNothing ==
    ASSUME Faults \cap {"zero", "unlink", "cleanup"} = {}
    PROVE  Spec => ReopenFindsTheSame
<1> DEFINE I == FileInv /\ PlaceInv /\ AgreeInv
<1>1. I /\ [Next]_vars => [Reopen => UNCHANGED index]_vars
  BY ReopenRebuilds
<1> QED
  BY <1>1, PlacesAlwaysAgree, PTL DEF Spec, ReopenFindsTheSame

-----------------------------------------------------------------------------
(* UnwindInv, while no removal of a column fails.                          *)

LEMMA UnwindNext ==
    ASSUME Faults \cap {"clear", "zero"} = {}, FileInv, UnwindInv, NEW h \in Hashes,
           BlockUnwind(h)
    PROVE  UnwindInv'
<1>1. /\ phase = "unwind"
      /\ h \in job.done
      /\ job' = [job EXCEPT !.done = @ \ {h}]
      /\ phase' = phase
  BY DEF BlockUnwind
<1>2. byHash[h] \in Slots
  BY <1>1 DEF UnwindInv
<1>3. ~RemoveFails(h)
  BY <1>2, LocationsDiffer DEF RemoveFails
<1>4. byHash' = [byHash EXCEPT ![h] = Absent]
  BY <1>3 DEF BlockUnwind, Remove
<1>5. /\ job \in [pool : Pools \cup {Absent}, left : Seq(Hashes), done : SUBSET Hashes,
                  before : SUBSET Hashes]
      /\ byHash \in [Hashes -> Slots \cup {Own, Absent}]
  BY DEF FileInv, TypeOK
<1>6. job'.done = job.done \ {h} /\ job'.before = job.before
  BY <1>1, <1>5
<1>7. Stored' = Stored \ {h}
  BY <1>4, <1>5 DEF Stored
<1>8. Stored = job.before \cup job.done /\ job.done \cap job.before = {}
  BY <1>1 DEF UnwindInv
<1>9. Stored' = job'.before \cup job'.done /\ job'.done \cap job'.before = {}
  BY <1>1, <1>6, <1>7, <1>8
<1>10. \A g \in job'.done : byHash'[g] \in Slots
  BY <1>1, <1>4, <1>5, <1>6 DEF UnwindInv
<1> QED
  BY <1>9, <1>10 DEF UnwindInv

LEMMA UnwindStep ==
    ASSUME Faults \cap {"clear", "zero"} = {}, FileInv, UnwindInv, [Next]_vars
    PROVE  UnwindInv'
<1>1. CASE BlockSegmentFails
  <2>1. phase = "block" /\ UNCHANGED <<byHash, job>>
    BY <1>1 DEF BlockSegmentFails, index
  <2> QED
    BY <2>1 DEF FileInv, JobInv, UnwindInv, Stored
<1>2. CASE \E h \in Hashes : BlockUnwind(h)
  BY <1>2, UnwindNext
<1>3. CASE UNCHANGED vars
  BY <1>3 DEF vars, index, UnwindInv, Stored
<1>4. CASE Next /\ ~BlockSegmentFails /\ ~\E h \in Hashes : BlockUnwind(h)
  <2>1. phase' # "unwind"
    BY <1>4 DEF Next, Calm, PutPacked, PutPackedTears, PutPackedNoSet, PutStandaloneKnown,
       PutStandalone, PutStandaloneFails, PutTimestamps, PutTimestampsFails, RemoveArray,
       RemoveArrayFails, RemoveTimestamps, BlockBegin, BlockSegment, BlockEnd, BlockFailed,
       OpenRefused, Reopen
  <2> QED
    BY <2>1 DEF UnwindInv
<1> QED
  BY <1>1, <1>2, <1>3, <1>4

\* While columns can be removed, put_packed_block is all or nothing for blocks of
\* any number of segments.
THEOREM FailedBlockLeavesNothing ==
    ASSUME Faults \cap {"clear", "zero"} = {}
    PROVE  Spec => BlockIsAllOrNothing
<1> DEFINE I == FileInv /\ UnwindInv
<1>1. Init => I
  BY InitFileInv, InitPlace
<1>2. I /\ [Next]_vars => I'
  BY FileInvStep, UnwindStep
<1>3. I /\ [Next]_vars => [phase = "unwind" /\ phase' = "open" => Stored = job.before]_vars
  <2> SUFFICES ASSUME I, Next, phase = "unwind", phase' = "open"
               PROVE  Stored = job.before
    OBVIOUS
  <2>1. job.done = {}
    BY DEF Next, Calm, PutPacked, PutPackedTears, PutPackedNoSet, PutStandaloneKnown,
       PutStandalone, PutStandaloneFails, PutTimestamps, PutTimestampsFails, RemoveArray,
       RemoveArrayFails, RemoveTimestamps, BlockBegin, BlockSegment, BlockEnd, BlockFailed,
       BlockUnwind, BlockSegmentFails, OpenRefused, Reopen
  <2> QED
    BY <2>1 DEF UnwindInv
<1> QED
  BY <1>1, <1>2, <1>3, PTL DEF Spec, BlockIsAllOrNothing

=============================================================================
