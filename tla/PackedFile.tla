----------------------------- MODULE PackedFile -----------------------------
(***************************************************************************)
(* The HDF5 array backend: what the array file holds and what the backend's *)
(* in-memory index says it holds.                                          *)
(*                                                                         *)
(* An array is one column of a packed dataset shared with other arrays on  *)
(* the same time axis, or a dataset of its own; a time axis is a dataset of *)
(* its own.  A packed dataset is two objects, the columns and a companion  *)
(* of hash rows naming them.  The index is never stored: opening the file   *)
(* rebuilds it from the links and the hash rows.  HDF5 has no transactions, *)
(* so an operation that fails part-way has changed the file, and what the  *)
(* index says afterwards is what the code made of it.                      *)
(*                                                                         *)
(* Every backend call holds the backend's mutex, so calls do not interleave; *)
(* the ones made of several file operations fail at any of them.  A failed *)
(* data write leaves its target undefined (Torn); a failed write of a hash *)
(* row, a few dozen contiguous bytes, leaves the row as it was.            *)
(***************************************************************************)
EXTENDS Naturals, Sequences

CONSTANTS
    Hashes,         \* content hashes of arrays
    Axes,           \* content hashes of explicit time axes
    Pools,          \* packed pools: (dtype, element shape, length, time axis)
    DefaultCols,    \* DEFAULT_COLS_PER_DATASET
    ChunkCols,      \* per pool, the columns MAX_CHUNK_BYTES allows
    MaxCols,        \* the largest of ChunkCols
    MaxBlock,       \* bound: arrays in one block
    MaxSets,        \* bound: datasets of one pool that fit on the disk
    Free, Zero, Torn, Own, Absent,
    Faults          \* the file operations that may fail, see FileOps

\* create: a dataset; companion: the hash rows of a packed one; data: column or
\* dataset content; row: naming a column; clear: un-naming it; zero: blanking a
\* removed column; unlink: removing a dataset; cleanup: the unlinks of half-made
\* datasets, whose own result the code discards.
FileOps == {"create", "companion", "data", "row", "clear", "zero", "unlink", "cleanup"}

ASSUME FileConstants ==
    /\ DefaultCols \in Nat \ {0}
    /\ MaxCols \in Nat
    /\ ChunkCols \in [Pools -> 1..MaxCols]
    /\ MaxBlock \in Nat
    /\ MaxSets \in Nat
    /\ Faults \subseteq FileOps
    /\ Free \notin Hashes
    /\ Zero \notin Hashes
    /\ Torn \notin Hashes
    /\ Own # Absent

\* Column c of the k-th dataset of pool p.  The k-th is named by the number of
\* datasets before it (spill_name), so position and name are the same thing.
Slots == Pools \X (1..MaxSets) \X (1..MaxCols)

ASSUME LocationsDiffer ==
    /\ Own \notin Slots
    /\ Absent \notin Slots

VARIABLES
    made,           \* per pool, how many datasets it has
    width,          \* per pool and position, that dataset's columns
    rows,           \* the hash rows in the file
    data,           \* the columns in the file
    half,           \* pools whose next dataset was left without its companion
    links,          \* the standalone datasets in the file and what they hold
    axisLinks,      \* the time axes in the file and what they hold
    cols,           \* DatasetState::columns of every packed dataset
    byHash,         \* Inner::by_hash
    standaloneVars, \* Inner::standalone_vars
    timestampHashes,\* Inner::timestamp_hashes
    phase,          \* between calls, or inside put_packed_block
    job             \* the block being written

packed == <<made, width, rows, data, half>>
alone  == <<links, axisLinks>>
index  == <<cols, byHash, standaloneVars, timestampHashes>>
vars   == <<packed, alone, index, phase, job>>

LinkStates == {"none", "own", "fill"}
NoJob == [pool |-> Absent, left |-> <<>>, done |-> {}, before |-> {}]

-----------------------------------------------------------------------------

\* resolve_dataset_cols.
ResolveCols(p, requested) ==
    IF requested > ChunkCols[p] THEN ChunkCols[p] ELSE requested

\* The columns of a pool's datasets.
SlotsOf(p) ==
    {s \in Slots : s[1] = p /\ s[2] <= made[p] /\ s[3] <= width[<<p, s[2]>>]}

FreeSlots(p) == {s \in SlotsOf(p) : cols[s] = Free}

\* dataset_groups order, then first_free.
Earlier(s, t) == s[2] < t[2] \/ (s[2] = t[2] /\ s[3] <= t[3])

\* A pool all of whose datasets are full spills into a new one.
Spills(p) == FreeSlots(p) = {}

\* Fault: the first column of the first dataset, free or not.
IsTargetTaken(p, s) ==
    IF Spills(p)
    THEN s = <<p, made[p] + 1, 1>>
    ELSE s \in SlotsOf(p) /\ \A t \in SlotsOf(p) : Earlier(s, t)

\* Where put_packed puts a column: the first free one, or the first of a new
\* dataset.
IsTarget(p, s) ==
    IF Spills(p)
    THEN s = <<p, made[p] + 1, 1>>
    ELSE s \in FreeSlots(p) /\ \A t \in FreeSlots(p) : Earlier(s, t)

\* create_packed_dataset of n columns, when both of its objects are created.
NewSet(p, n) ==
    /\ made' = [made EXCEPT ![p] = @ + 1]
    /\ width' = [width EXCEPT ![<<p, made[p] + 1>>] = n]

\* The set a put needs: an existing one, or a new one of the default width.
EnsureSet(p) ==
    IF Spills(p)
    THEN NewSet(p, ResolveCols(p, DefaultCols))
    ELSE UNCHANGED <<made, width>>

\* The name of the next dataset is free, and there is room for it.
CanCreate(p) == p \notin half /\ made[p] < MaxSets

\* create_packed_dataset fails: its first object, the name being taken or not,
\* or its companion, whereupon the first is unlinked if that works.
CreateFails(p) ==
    \/ /\ "create" \in Faults \/ ~CanCreate(p)
       /\ UNCHANGED half
    \/ /\ "companion" \in Faults
       /\ CanCreate(p)
       /\ \/ UNCHANGED half
          \/ "cleanup" \in Faults /\ half' = half \cup {p}

Stored == {h \in Hashes : byHash[h] # Absent}

Calm == phase = "open"

Init ==
    /\ made = [p \in Pools |-> 0]
    /\ width = [pk \in Pools \X (1..MaxSets) |-> 0]
    /\ rows = [s \in Slots |-> Free]
    /\ data = [s \in Slots |-> Zero]
    /\ half = {}
    /\ links = [h \in Hashes |-> "none"]
    /\ axisLinks = [x \in Axes |-> "none"]
    /\ cols = [s \in Slots |-> Free]
    /\ byHash = [h \in Hashes |-> Absent]
    /\ standaloneVars = {}
    /\ timestampHashes = {}
    /\ phase = "open"
    /\ job = NoJob

-----------------------------------------------------------------------------
(* put_array with the packed layout.                                       *)

PutPacked(h, p) ==
    /\ Calm
    /\ byHash[h] = Absent
    /\ Spills(p) => CanCreate(p)
    /\ \E s \in Slots :
           /\ IsTarget(p, s)
           /\ data' = [data EXCEPT ![s] = h]
           /\ rows' = [rows EXCEPT ![s] = h]
           /\ cols' = [cols EXCEPT ![s] = h]
           /\ byHash' = [byHash EXCEPT ![h] = s]
    /\ EnsureSet(p)
    /\ UNCHANGED <<half, alone, standaloneVars, timestampHashes, phase, job>>

\* put_packed fails once it has its dataset: at the column, or at the row that
\* names it.  The column stays free, and so does the rest of a new dataset.
PutPackedTears(h, p) ==
    /\ Calm
    /\ byHash[h] = Absent
    /\ Spills(p) => CanCreate(p)
    /\ \E s \in Slots :
           /\ IsTarget(p, s)
           /\ \/ "data" \in Faults /\ data' = [data EXCEPT ![s] = Torn]
              \/ "row" \in Faults /\ data' = [data EXCEPT ![s] = h]
    /\ EnsureSet(p)
    /\ UNCHANGED <<rows, half, alone, index, phase, job>>

\* ensure_writable_dataset needs a new dataset and cannot have it.
PutPackedNoSet(h, p) ==
    /\ Calm
    /\ byHash[h] = Absent
    /\ Spills(p)
    /\ CreateFails(p)
    /\ UNCHANGED <<made, width, rows, data, alone, index, phase, job>>

-----------------------------------------------------------------------------
(* put_array with a standalone layout; put_timestamps.                     *)

\* A name standalone_vars knows is indexed again without being written.
PutStandaloneKnown(h) ==
    /\ Calm
    /\ byHash[h] = Absent
    /\ h \in standaloneVars
    /\ byHash' = [byHash EXCEPT ![h] = Own]
    /\ UNCHANGED <<packed, alone, cols, standaloneVars, timestampHashes, phase, job>>

PutStandalone(h) ==
    /\ Calm
    /\ byHash[h] = Absent
    /\ h \notin standaloneVars
    /\ links[h] = "none"
    /\ links' = [links EXCEPT ![h] = "own"]
    /\ standaloneVars' = standaloneVars \cup {h}
    /\ byHash' = [byHash EXCEPT ![h] = Own]
    /\ UNCHANGED <<packed, axisLinks, cols, timestampHashes, phase, job>>

\* Fault: a dataset that could not be filled stays linked.
FillFailsKeepsLink == {"fill"}

\* write_or_unlink after its write has failed.
FillFails == IF "cleanup" \in Faults THEN {"none", "fill"} ELSE {"none"}

\* What is left under a dataset's name when it cannot be created, its name being
\* taken or not, or cannot be filled.
CreateOrFillFails(link) ==
    {link} \cup IF link = "none" /\ "data" \in Faults THEN FillFails ELSE {}

PutStandaloneFails(h) ==
    /\ Calm
    /\ byHash[h] = Absent
    /\ h \notin standaloneVars
    /\ Faults \cap {"create", "data"} # {} \/ links[h] # "none"
    /\ \E left \in CreateOrFillFails(links[h]) : links' = [links EXCEPT ![h] = left]
    /\ UNCHANGED <<packed, axisLinks, index, phase, job>>

PutTimestamps(x) ==
    /\ Calm
    /\ x \notin timestampHashes
    /\ axisLinks[x] = "none"
    /\ axisLinks' = [axisLinks EXCEPT ![x] = "own"]
    /\ timestampHashes' = timestampHashes \cup {x}
    /\ UNCHANGED <<packed, links, cols, byHash, standaloneVars, phase, job>>

PutTimestampsFails(x) ==
    /\ Calm
    /\ x \notin timestampHashes
    /\ Faults \cap {"create", "data"} # {} \/ axisLinks[x] # "none"
    /\ \E left \in CreateOrFillFails(axisLinks[x]) :
           axisLinks' = [axisLinks EXCEPT ![x] = left]
    /\ UNCHANGED <<packed, links, index, phase, job>>

-----------------------------------------------------------------------------
(* remove_array, remove_timestamps.                                        *)

\* remove_array_locked of a stored array: a column loses its hash row, then its
\* content, then its place in the index; a dataset of its own is unlinked.
Remove(h) ==
    \/ /\ byHash[h] \in Slots
       /\ rows' = [rows EXCEPT ![byHash[h]] = Free]
       /\ data' = [data EXCEPT ![byHash[h]] = Zero]
       /\ cols' = [cols EXCEPT ![byHash[h]] = Free]
       /\ byHash' = [byHash EXCEPT ![h] = Absent]
       /\ UNCHANGED <<links, standaloneVars>>
    \/ /\ byHash[h] = Own
       /\ links' = [links EXCEPT ![h] = "none"]
       /\ standaloneVars' = standaloneVars \ {h}
       /\ byHash' = [byHash EXCEPT ![h] = Absent]
       /\ UNCHANGED <<rows, data, cols>>

\* Fault: the column is blanked before it is un-named.
RemoveFailsZeroFirst(h) ==
    /\ byHash[h] \in Slots
    /\ data' = [data EXCEPT ![byHash[h]] = Torn]
    /\ UNCHANGED rows

\* The same, failing: the index is left alone.
RemoveFails(h) ==
    \/ /\ \/ byHash[h] \in Slots /\ "clear" \in Faults
          \/ byHash[h] = Own /\ "unlink" \in Faults
       /\ UNCHANGED <<rows, data>>
    \/ /\ byHash[h] \in Slots
       /\ "zero" \in Faults
       /\ rows' = [rows EXCEPT ![byHash[h]] = Free]
       /\ data' = [data EXCEPT ![byHash[h]] = Torn]

RemoveArray(h) ==
    /\ Calm
    /\ Remove(h)
    /\ UNCHANGED <<made, width, half, axisLinks, timestampHashes, phase, job>>

RemoveArrayFails(h) ==
    /\ Calm
    /\ RemoveFails(h)
    /\ UNCHANGED <<made, width, half, alone, index, phase, job>>

\* The index forgets the axis first; the unlink may fail after that.
RemoveTimestamps(x) ==
    /\ Calm
    /\ x \in timestampHashes
    /\ timestampHashes' = timestampHashes \ {x}
    /\ \/ axisLinks' = [axisLinks EXCEPT ![x] = "none"]
       \/ "unlink" \in Faults /\ UNCHANGED axisLinks
    /\ UNCHANGED <<packed, links, cols, byHash, standaloneVars, phase, job>>

-----------------------------------------------------------------------------
(* put_packed_block.                                                       *)

\* A hash the block has to write.
BlockNew(h) == byHash[h] = Absent

\* What a block can consist of once the known and the repeated are dropped.
Blocks ==
    UNION {{b \in [1..n -> Hashes] :
                /\ \A i \in 1..n : BlockNew(b[i])
                /\ \A i, j \in 1..n : b[i] = b[j] => i = j} : n \in 1..MaxBlock}

BlockBegin(p) ==
    /\ Calm
    /\ \E b \in Blocks :
           job' = [pool |-> p, left |-> b, done |-> {}, before |-> Stored]
    /\ phase' = "block"
    /\ UNCHANGED <<packed, alone, index>>

SegmentWidth == ResolveCols(job.pool, Len(job.left))

\* The columns of the dataset a segment creates for itself.
SegmentSlots ==
    {s \in Slots : s[1] = job.pool /\ s[2] = made[job.pool] + 1 /\ s[3] <= SegmentWidth}

SegmentHashes == {job.left[c] : c \in 1..SegmentWidth}

\* One segment is written and indexed.
BlockSegment ==
    /\ phase = "block"
    /\ job.left # <<>>
    /\ CanCreate(job.pool)
    /\ NewSet(job.pool, SegmentWidth)
    /\ rows' = [s \in Slots |-> IF s \in SegmentSlots THEN job.left[s[3]] ELSE rows[s]]
    /\ data' = [s \in Slots |-> IF s \in SegmentSlots THEN job.left[s[3]] ELSE data[s]]
    /\ cols' = [s \in Slots |-> IF s \in SegmentSlots THEN job.left[s[3]] ELSE cols[s]]
    /\ byHash' = [h \in Hashes |-> IF h \in SegmentHashes
                               THEN CHOOSE s \in SegmentSlots : job.left[s[3]] = h
                               ELSE byHash[h]]
    /\ job' = [job EXCEPT !.left = SubSeq(@, SegmentWidth + 1, Len(@)),
                          !.done = @ \cup SegmentHashes]
    /\ UNCHANGED <<half, alone, standaloneVars, timestampHashes, phase>>

BlockEnd ==
    /\ phase = "block"
    /\ job.left = <<>>
    /\ phase' = "open"
    /\ job' = NoJob
    /\ UNCHANGED <<packed, alone, index>>

\* A segment fails: no dataset; an array shorter than its shape; its columns; or
\* the rows that name them.  Nothing of it is indexed, its columns stay free.
BlockSegmentFails ==
    /\ phase = "block"
    /\ job.left # <<>>
    /\ \/ /\ CreateFails(job.pool)
          /\ UNCHANGED <<made, width, data>>
       \/ /\ CanCreate(job.pool)
          /\ NewSet(job.pool, SegmentWidth)
          /\ \/ UNCHANGED data
             \/ /\ "data" \in Faults
                /\ data' = [s \in Slots |-> IF s \in SegmentSlots THEN Torn ELSE data[s]]
             \/ /\ "row" \in Faults
                /\ data' = [s \in Slots |-> IF s \in SegmentSlots THEN job.left[s[3]]
                                                                 ELSE data[s]]
          /\ UNCHANGED half
    /\ phase' = "unwind"
    /\ UNCHANGED <<rows, alone, index, job>>

\* Fault: the segments before the failing one are kept.
BlockUnwindKeeps(h) ==
    /\ phase = "unwind"
    /\ h \in job.done
    /\ job' = [job EXCEPT !.done = @ \ {h}]
    /\ UNCHANGED <<packed, alone, index, phase>>

\* The unwinding removes what the earlier segments stored, a failure ignored.
BlockUnwind(h) ==
    /\ phase = "unwind"
    /\ h \in job.done
    /\ \/ Remove(h)
       \/ RemoveFails(h) /\ UNCHANGED <<links, cols, byHash, standaloneVars>>
    /\ job' = [job EXCEPT !.done = @ \ {h}]
    /\ UNCHANGED <<made, width, half, axisLinks, timestampHashes, phase>>

BlockFailed ==
    /\ phase = "unwind"
    /\ job.done = {}
    /\ phase' = "open"
    /\ job' = NoJob
    /\ UNCHANGED <<packed, alone, index>>

-----------------------------------------------------------------------------
(* Closing the file and opening it again: Hdf5Backend::open, rebuild_index. *)

\* Everywhere the file names h.
NamedAt(h) ==
    {s \in Slots : rows[s] = h} \cup (IF links[h] # "none" THEN {Own} ELSE {})

\* A column dataset without its companion makes the file unreadable.
OpenRefused ==
    /\ phase \in {"open", "refused"}
    /\ half # {}
    /\ phase' = "refused"
    /\ UNCHANGED <<packed, alone, index, job>>

Places == UNION {NamedAt(h) : h \in Hashes}

\* A hash named twice is indexed at whichever place the scan meets last.
Indexes(f, h) == IF NamedAt(h) = {} THEN f[h] = Absent ELSE f[h] \in NamedAt(h)

Reopen ==
    /\ Calm
    /\ half = {}
    /\ cols' = rows
    /\ byHash' \in {f \in [Hashes -> Places \cup {Absent}] : \A h \in Hashes : Indexes(f, h)}
    /\ standaloneVars' = {h \in Hashes : links[h] # "none"}
    /\ timestampHashes' = {x \in Axes : axisLinks[x] # "none"}
    /\ UNCHANGED <<packed, alone, phase, job>>

Next ==
    \/ \E h \in Hashes, p \in Pools :
           PutPacked(h, p) \/ PutPackedTears(h, p) \/ PutPackedNoSet(h, p)
    \/ \E h \in Hashes :
           \/ PutStandaloneKnown(h) \/ PutStandalone(h) \/ PutStandaloneFails(h)
           \/ RemoveArray(h) \/ RemoveArrayFails(h)
           \/ BlockUnwind(h)
    \/ \E x \in Axes : PutTimestamps(x) \/ PutTimestampsFails(x) \/ RemoveTimestamps(x)
    \/ \E p \in Pools : BlockBegin(p)
    \/ BlockSegment \/ BlockSegmentFails \/ BlockEnd \/ BlockFailed
    \/ OpenRefused \/ Reopen

Spec == Init /\ [][Next]_vars

-----------------------------------------------------------------------------
(* Properties.                                                             *)

\* Every variable has its type.
TypeOK ==
    /\ made \in [Pools -> 0..MaxSets]
    /\ width \in [Pools \X (1..MaxSets) -> 0..MaxCols]
    /\ rows \in [Slots -> Hashes \cup {Free}]
    /\ data \in [Slots -> Hashes \cup {Zero, Torn}]
    /\ half \subseteq Pools
    /\ links \in [Hashes -> LinkStates]
    /\ axisLinks \in [Axes -> LinkStates]
    /\ cols \in [Slots -> Hashes \cup {Free}]
    /\ byHash \in [Hashes -> Slots \cup {Own, Absent}]
    /\ standaloneVars \subseteq Hashes
    /\ timestampHashes \subseteq Axes
    /\ phase \in {"open", "block", "unwind", "refused"}
    /\ job \in [pool : Pools \cup {Absent}, left : Seq(Hashes), done : SUBSET Hashes,
                before : SUBSET Hashes]

\* A hash row never names a column that does not hold that array, whichever file
\* operations fail: put_packed and put_packed_segment write the column first,
\* remove_array_locked clears the row first.
RowsTellTheTruth == \A s \in Slots : rows[s] # Free => data[s] = rows[s]

\* The file names no array in two places, so a removal leaves no second copy for
\* a reopen to find (remove_array_locked keeps the index entry of an array whose
\* removal failed, "a re-add would store it twice" otherwise).
StoredOnce == \A h \in Hashes : \A l, m \in NamedAt(h) : l = m

\* A reopen brings back no array this session has removed or failed to write:
\* everything the file names is indexed, at the place the file names.
NothingResurrected == \A h \in Hashes : \A l \in NamedAt(h) : byHash[h] = l

\* An array the index says is stored can be read: its column, or its dataset,
\* holds it.
ReadsItsContent ==
    \A h \in Hashes :
        /\ byHash[h] \in Slots => data[byHash[h]] = h
        /\ byHash[h] = Own => links[h] = "own"

\* A failed write never makes the file unopenable: rebuild_index refuses a column
\* dataset that has no hash rows, which create_packed_dataset must not leave.
FileOpens == half = {}

\* Closing the file and opening it again changes nothing the index says: which
\* arrays and axes are stored, where, and which columns are free to be written.
ReopenFindsTheSame == [][Reopen => UNCHANGED index]_vars

\* put_packed_block is all or nothing: when it reports an error, exactly the
\* arrays that were stored before it are stored.
BlockIsAllOrNothing ==
    [][phase = "unwind" /\ phase' = "open" => Stored = job.before]_vars

\* contains, storage.rs: "True iff the backend currently stores `hash`".
ContainsIsStored == \A h \in Hashes : byHash[h] # Absent <=> NamedAt(h) # {}

-----------------------------------------------------------------------------
(* What the properties rest on.                                            *)

\* Columns of datasets that do not exist yet are unnamed.
FreshUnnamed == \A s \in Slots : s[2] > made[s[1]] => rows[s] = Free /\ cols[s] = Free

\* The index knows every column the file names; the converse fails only after a
\* removal that could not blank its column.
RowsKnown == \A s \in Slots : rows[s] # Free => cols[s] = rows[s]

\* A block in progress: what is left of it is not stored, and what it has stored
\* is what it has added.
JobInv ==
    /\ phase \in {"block", "unwind"} =>
           /\ job.pool \in Pools
           /\ \A i \in DOMAIN job.left : byHash[job.left[i]] = Absent
           /\ \A i, j \in DOMAIN job.left : job.left[i] = job.left[j] => i = j
    /\ phase = "block" =>
           /\ \A h \in job.done : byHash[h] \in Slots
           /\ job.done \cap job.before = {}
           /\ Stored = job.before \cup job.done

FileInv == TypeOK /\ FreshUnnamed /\ RowsKnown /\ RowsTellTheTruth /\ JobInv

\* While no clean-up fails, every place of an array is known from both sides.
PlaceInv ==
    /\ FileOpens
    /\ \A h \in Hashes : byHash[h] \in Slots => cols[byHash[h]] = h
    /\ \A s \in Slots : cols[s] # Free => byHash[cols[s]] = s
    /\ \A h \in Hashes : byHash[h] = Own <=> links[h] # "none"
    /\ \A h \in Hashes : links[h] # "fill"
    /\ standaloneVars = {h \in Hashes : links[h] # "none"}

\* While no removal half-succeeds either, the index is what the file says.
AgreeInv ==
    /\ cols = rows
    /\ timestampHashes = {x \in Axes : axisLinks[x] # "none"}

\* While no column removal fails, unwinding takes back what the block stored.
UnwindInv ==
    phase = "unwind" =>
        /\ \A h \in job.done : byHash[h] \in Slots
        /\ job.done \cap job.before = {}
        /\ Stored = job.before \cup job.done

=============================================================================
