------------------------------ MODULE StoreTxn ------------------------------
(***************************************************************************)
(* The write path of one open `Store`: the catalog, the array file, the    *)
(* write buffer between them and the bookkeeping of an open transaction.   *)
(*                                                                         *)
(* The two halves of an artifact have unequal machinery.  The catalog is   *)
(* SQLite, so it has savepoints and an atomic commit.  The array file is   *)
(* HDF5, so it has neither: bytes sit in libhdf5's caches until a flush,   *)
(* and whatever has to be undone is undone by hand.  `OpenTxn` is the      *)
(* hand-written half of the transaction.                                   *)
(*                                                                         *)
(* Arrays and explicit time axes are named by content hash; this module    *)
(* only needs to tell them apart, so both are model values, and a          *)
(* `FileObjects` pair of lists is a set of objects.  Which blocks a byte   *)
(* budget pushes out is left open here (any whole pools).                  *)
(***************************************************************************)
EXTENDS Naturals, Sequences, FiniteSets

CONSTANTS
    Owners,         \* owners a series is filed under
    Names,          \* series names
    FeatureSets,    \* content hashes of feature sets
    Arrays,         \* content hashes of arrays
    Axes,           \* content hashes of explicit time axes
    NoAxis,         \* the axis of a series on a regular grid
    Pools,          \* packed pools (dtype, shape, length, time axis)
    Standalone,     \* the layout of an array that is never packed
    Batches,        \* the sets of add requests a caller may issue
    MaxDepth,       \* bound: nesting depth of transactions
    MaxAttempts,    \* bound: failed calls that reached the array file
    IOFaults,       \* may a best-effort removal or reference count fail?
    Crashes         \* may the process die, or drop the store mid-transaction?

Requests == [owner : Owners, name : Names, fs : FeatureSets, arr : Arrays,
             axis : Axes \cup {NoAxis}, pool : Pools \cup {Standalone}]

Rows == [owner : Owners, name : Names, fs : FeatureSets, arr : Arrays,
         axis : Axes \cup {NoAxis}]

Objects == Arrays \cup Axes

ASSUME TxnConstants ==
    /\ Arrays \cap Axes = {}
    /\ FeatureSets \cap Axes = {}
    /\ NoAxis \notin Objects
    /\ Standalone \notin Pools
    /\ Batches \subseteq SUBSET Requests
    /\ MaxDepth \in Nat
    /\ MaxAttempts \in Nat
    /\ IOFaults \in BOOLEAN
    /\ Crashes \in BOOLEAN

VARIABLES
    cat,            \* the catalog as the store's connection sees it
    saved,          \* SQLite's SAVEPOINT stack; empty means autocommit
    marks,          \* OpenTxn::marks, one per open nesting level
    written,        \* OpenTxn::written, what each write call put, in order
    pendingFree,    \* OpenTxn::pending_free
    cache,          \* OpenTxn::shared_sets
    buffer,         \* WriteBuffer: <<array, pool>> accepted, not yet written
    file,           \* what the backend's index says the array file holds
    synced,         \* what the file held at its last flush
    heldAt,         \* history: what was stored when each level opened
    attempts        \* failed calls so far, see MaxAttempts

txn  == <<marks, written, pendingFree, cache, heldAt>>
vars == <<cat, saved, marks, written, pendingFree, cache, buffer, file, synced,
          heldAt, attempts>>

Catalogs == [rows : SUBSET Rows, fsets : SUBSET FeatureSets]

-----------------------------------------------------------------------------
(* What rows refer to, and what is stored.                                 *)

ArraysOf(R) == {r.arr : r \in R}
AxesOf(R)   == {r.axis : r \in R} \ {NoAxis}
FSetsOf(R)  == {r.fs : r \in R}

\* Everything the array file owes a set of rows: an array is referenced through
\* data_hash, an axis through timestamps_hash.
Named(R) == ArraysOf(R) \cup AxesOf(R)

\* The catalog row an add request files.
RowOf(q) == [owner |-> q.owner, name |-> q.name, fs |-> q.fs, arr |-> q.arr,
             axis |-> q.axis]

RowsOf(batch) == {RowOf(q) : q \in batch}

\* The identity the catalog's unique index is over.
Identity(r) == <<r.owner, r.name, r.fs>>

Buffered == {e[1] : e \in buffer}

\* Store::holds_array, and the same question for an axis.
Held == file \cup Buffered

InTxn == marks # <<>>

\* Store::transaction_was_forced_back: marks standing, connection in autocommit.
ForcedBack == InTxn /\ saved = <<>>

\* Store::check_transaction_alive.
Alive == ~ForcedBack

\* The catalog a reader of the file would find: the commit is the RELEASE of
\* the outermost savepoint.
Committed == IF saved = <<>> THEN cat ELSE saved[1]

\* FileObjects::split_off: what the calls after the first m put in the list w.
Since(w, m) == UNION {w[j] : j \in {k \in DOMAIN w : k > m}}

WrittenSince(m) == Since(written, m)

AllWritten == WrittenSince(0)

\* unreferenced: the part of the candidates no catalog row refers to.
Unreferenced(candidates, R) == candidates \ Named(R)

\* The removals that fail leave their object in the file: those of
\* remove_writes, and those a failing block write makes of its own segments.
Stuck(objs) == IF IOFaults THEN SUBSET objs ELSE {{}}

-----------------------------------------------------------------------------
(* Pieces the operations share.                                            *)

\* Fault: the shared-set cache outlives its transaction.
ResetTxnKeepsCache ==
    /\ marks' = <<>>
    /\ written' = <<>>
    /\ pendingFree' = {}
    /\ heldAt' = <<>>
    /\ UNCHANGED cache

\* Everything an OpenTxn forgets when it is replaced by its default.
ResetTxn ==
    /\ marks' = <<>>
    /\ written' = <<>>
    /\ pendingFree' = {}
    /\ cache' = {}
    /\ heldAt' = <<>>

\* Fault: a transaction SQLite ends is taken for one it committed.
CatalogUnwindsToNothing ==
    \/ UNCHANGED <<cat, saved>>
    \/ /\ saved' = <<>>
       /\ UNCHANGED cat

\* A statement of the catalog fails.  Usually only its own savepoint unwinds,
\* but SQLite may roll the whole transaction back, every level included.
CatalogUnwinds ==
    \/ UNCHANGED <<cat, saved>>
    \/ /\ saved # <<>>
       /\ cat' = saved[1]
       /\ saved' = <<>>

\* Store::remove_writes: an array still buffered goes from the buffer alone,
\* anything else from the file, unless the backend refuses.
RemoveWrites(buf, fil, objs, stuck) ==
    /\ buffer' = {e \in buf : e[1] \notin objs}
    /\ file' = fil \ ((objs \ {e[1] : e \in buf}) \ stuck)

\* Store::free_or_defer after a removal has left `garbage` unreferenced.
FreeOrDefer(garbage) ==
    IF InTxn
    THEN /\ pendingFree' = pendingFree \cup garbage
         /\ UNCHANGED <<buffer, file>>
    ELSE /\ \E stuck \in Stuck(garbage) :
                RemoveWrites(buffer, file, garbage, stuck)
         /\ UNCHANGED pendingFree

\* The whole-pool blocks a write may push out: those of `old` go together, the
\* ones that arrive while pools are being written may or may not be in time.
Spills(old, new) ==
    {out \in SUBSET (old \cup new) :
        \A e \in out : {o \in old : o[2] = e[2]} \subseteq out}

\* stage_timestamp_vector: the axes of a batch this call physically writes.
StagedAxes(batch) == (AxesOf(batch) \ cache) \ file

\* The arrays of a batch the store does not hold yet.
StagedArrays(batch) == ArraysOf(batch) \ Held

Staged(batch) == StagedAxes(batch) \cup StagedArrays(batch)

\* Which request's layout an array is stored under: the first to name it, and
\* any request may come first.
Placements(batch) ==
    {pick \in [StagedArrays(batch) -> batch] :
        \A a \in StagedArrays(batch) : pick[a].arr = a}

\* Fault: a call lists its arrays and forgets its time axes.
RecordArraysOnly(staged) ==
    written' = IF staged \cap Arrays = {} THEN written ELSE Append(written, staged \cap Arrays)

\* FileObjects::append of what a successful call staged.
Record(staged) ==
    written' = IF staged = {} THEN written ELSE Append(written, staged)

\* insert_batched for a whole batch: a set the cache remembers is not interned
\* again.
Interned(c, batch) ==
    [rows |-> c.rows \cup RowsOf(batch),
     fsets |-> c.fsets \cup (FSetsOf(batch) \ cache)]

\* No request collides with a stored row, nor with another of the batch.
IdentitiesFree(batch) ==
    /\ \A q \in batch, r \in cat.rows : Identity(q) # Identity(r)
    /\ \A p, q \in batch : Identity(p) = Identity(q) => p = q

-----------------------------------------------------------------------------
(* Transactions.                                                           *)

Begin ==
    /\ Alive
    /\ Len(marks) < MaxDepth
    /\ saved' = Append(saved, cat)
    /\ marks' = Append(marks, Len(written))
    /\ heldAt' = Append(heldAt, Held)
    /\ UNCHANGED <<cat, written, pendingFree, cache, buffer, file, synced, attempts>>

\* An inner commit: the level's writes survive into the enclosing one, so its
\* mark is dropped rather than acted on.
CommitInner ==
    /\ Alive
    /\ Len(marks) > 1
    /\ saved' = SubSeq(saved, 1, Len(saved) - 1)
    /\ marks' = SubSeq(marks, 1, Len(marks) - 1)
    /\ heldAt' = SubSeq(heldAt, 1, Len(heldAt) - 1)
    /\ UNCHANGED <<cat, written, pendingFree, cache, buffer, file, synced, attempts>>

\* Fault: what was queued for freeing is not counted again at the commit.
CommitGarbageUnchecked == pendingFree

\* What the outermost commit will free, decided against the catalog it is about
\* to make permanent.
CommitGarbage == Unreferenced(pendingFree, cat.rows)

\* The buffered arrays the outermost commit writes out before its flush: the
\* garbage stays buffered, for a rollback may still need it.
CommitWrites == {e \in buffer : e[1] \notin CommitGarbage}

CommitOutermost ==
    /\ Alive
    /\ Len(marks) = 1
    /\ saved' = <<>>
    /\ LET garbage == CommitGarbage
           out     == IF written = <<>> THEN {} ELSE CommitWrites
           onFile  == file \cup {e[1] : e \in out}
       IN  /\ synced' = IF written = <<>> THEN synced ELSE onFile
           /\ \E stuck \in Stuck(garbage) :
                  RemoveWrites(buffer \ out, onFile, garbage, stuck)
    /\ ResetTxn
    /\ UNCHANGED <<cat, attempts>>

\* The outermost commit fails before its RELEASE took: some blocks may have
\* been written, the flush may have run; the bookkeeping stays in place.
CommitFails ==
    /\ Alive
    /\ Len(marks) = 1
    /\ attempts < MaxAttempts
    /\ attempts' = attempts + 1
    /\ \/ \E P \in SUBSET Pools :
              LET out == {e \in CommitWrites : e[2] \in P}
              IN  /\ buffer' = buffer \ out
                  /\ \E torn \in Stuck({e[1] : e \in CommitWrites \ out}) :
                         file' = file \cup {e[1] : e \in out} \cup torn
                  /\ UNCHANGED synced
       \/ /\ written # <<>>
          /\ buffer' = buffer \ CommitWrites
          /\ file' = file \cup {e[1] : e \in CommitWrites}
          /\ synced' = file'
    /\ CatalogUnwinds
    /\ UNCHANGED txn

\* Fault: an unwind that only goes to the file.
UnwindFileOnly(undone, R) ==
    RemoveWrites(buffer, file, Unreferenced(undone \ Buffered, R), {})

\* Store::unwind_written of `undone`, counted against the rows R.  A count that
\* cannot be had leaves all of it in the file.
Unwind(undone, R) ==
    \E stuck \in Stuck(undone) :
        RemoveWrites(buffer, file,
                     (undone \cap Buffered)
                       \cup Unreferenced(undone \ Buffered, R), stuck)

\* rollback_transaction of the innermost level of a live transaction.
Rollback ==
    /\ InTxn
    /\ Alive
    /\ LET level == Len(marks)
           found == saved[level]
       IN  /\ Unwind(WrittenSince(marks[level]), found.rows)
           /\ IF level = 1
              THEN /\ cat' = found
                   /\ saved' = <<>>
                   /\ ResetTxn
              ELSE /\ marks' = SubSeq(marks, 1, level - 1)
                   /\ written' = SubSeq(written, 1, marks[level])
                   /\ heldAt' = SubSeq(heldAt, 1, level - 1)
                   /\ cache' = {}
                   /\ UNCHANGED pendingFree
                   /\ \/ /\ cat' = found
                         /\ saved' = SubSeq(saved, 1, level - 1)
                      \* the reference counts made SQLite give up the rest
                      \/ /\ IOFaults
                         /\ cat' = saved[1]
                         /\ saved' = <<>>
    /\ UNCHANGED <<synced, attempts>>

\* rollback_transaction of a transaction SQLite has already rolled back: it is
\* discarded whole, every level at once.
RollbackForced ==
    /\ ForcedBack
    /\ Unwind(AllWritten, cat.rows)
    /\ ResetTxn
    /\ UNCHANGED <<cat, saved, synced, attempts>>

-----------------------------------------------------------------------------
(* Adds: add_requests, add_requests_staged, settle.                        *)

\* Inside a transaction every packed array joins its pool's block, and a block
\* may be written out early; nothing is flushed.
AddInTxn(batch) ==
    /\ InTxn
    /\ Alive
    /\ IdentitiesFree(batch)
    /\ \E pick \in Placements(batch) :
           LET pushed == {<<a, pick[a].pool>> :
                             a \in {b \in StagedArrays(batch) : pick[b].pool # Standalone}}
               direct == {a \in StagedArrays(batch) : pick[a].pool = Standalone}
           IN  \E out \in Spills(buffer, pushed) :
                   /\ buffer' = (buffer \cup pushed) \ out
                   /\ file' = file \cup StagedAxes(batch) \cup direct
                                   \cup {e[1] : e \in out}
    /\ Record(Staged(batch))
    /\ cat' = Interned(cat, batch)
    /\ cache' = cache \cup AxesOf(batch) \cup FSetsOf(batch)
    /\ UNCHANGED <<saved, marks, pendingFree, synced, heldAt, attempts>>

\* Fault: the rows commit before their bytes are flushed.
AddOutsideUnflushed(batch) ==
    /\ ~InTxn
    /\ IdentitiesFree(batch)
    /\ file' = file \cup Staged(batch)
    /\ cat' = Interned(cat, batch)
    /\ UNCHANGED <<saved, txn, buffer, synced, attempts>>

\* Outside one the arrays go straight to the file, and flush_before_commit
\* lands them before the rows commit; a call that staged nothing skips it.
AddOutside(batch) ==
    /\ ~InTxn
    /\ IdentitiesFree(batch)
    /\ file' = file \cup Staged(batch)
    /\ synced' = IF Staged(batch) = {} THEN synced ELSE file'
    /\ cat' = Interned(cat, batch)
    /\ UNCHANGED <<saved, txn, buffer, attempts>>

\* An add that fails after it began writing: settle takes its own writes back,
\* the blocks it pushed out stay in the file, the shared-set cache it had taken
\* is dropped with it, and a lone insert issued without a savepoint may have
\* interned its feature set.
AddFailsInTxn(batch) ==
    /\ InTxn
    /\ Alive
    /\ attempts < MaxAttempts
    /\ attempts' = attempts + 1
    /\ \E out \in Spills(buffer, {}), stuck \in Stuck(Staged(batch) \cup Buffered) :
           /\ buffer' = buffer \ out
           /\ file' = file \cup {e[1] : e \in out} \cup stuck
    /\ cache' = {}
    /\ \/ CatalogUnwinds
       \/ /\ Cardinality(batch) = 1
          /\ cat' = [cat EXCEPT !.fsets = @ \cup FSetsOf(batch)]
          /\ UNCHANGED saved
    /\ UNCHANGED <<marks, written, pendingFree, synced, heldAt>>

AddFailsOutside(batch) ==
    /\ ~InTxn
    /\ Staged(batch) # {}
    /\ attempts < MaxAttempts
    /\ attempts' = attempts + 1
    /\ \E stuck \in Stuck(Staged(batch)) : file' = file \cup stuck
    /\ \/ UNCHANGED synced
       \/ synced' = file \cup Staged(batch)     \* the commit is what failed
    /\ UNCHANGED <<cat, saved, txn, buffer>>

-----------------------------------------------------------------------------
(* Removals, and the rows that appear without new bytes.                   *)

\* remove_by_ids, remove_by_ids_for_owner, remove_by_filter: only arrays are
\* reclaimed, an axis waits for compact or clear_time_series.
Remove(S) ==
    /\ Alive
    /\ cat' = [cat EXCEPT !.rows = @ \ S]
    /\ FreeOrDefer(ArraysOf(S) \ ArraysOf(cat.rows \ S))
    /\ UNCHANGED <<saved, marks, written, cache, synced, heldAt, attempts>>

\* clear_time_series of one owner's rows, or of all of them, which empties
\* feature_sets too.  The axes no row sits on any more go with it.
Clear(S, all) ==
    /\ Alive
    /\ cache' = {}
    /\ cat' = [rows |-> cat.rows \ S,
               fsets |-> IF all THEN {} ELSE cat.fsets]
    /\ \E swept \in IF IOFaults THEN {TRUE, FALSE} ELSE {TRUE} :
           FreeOrDefer((ArraysOf(S) \ ArraysOf(cat'.rows))
                         \cup IF swept THEN (file \cap Axes) \ AxesOf(cat'.rows) ELSE {})
    /\ UNCHANGED <<saved, marks, written, synced, heldAt, attempts>>

\* A removal, a copy or a clear whose catalog statement fails: the clear has
\* already emptied the cache, and SQLite may have ended the transaction.
CatalogCallFails ==
    /\ InTxn
    /\ Alive
    /\ attempts < MaxAttempts
    /\ attempts' = attempts + 1
    /\ cache' \in {cache, {}}
    /\ CatalogUnwinds
    /\ UNCHANGED <<marks, written, pendingFree, heldAt, buffer, file, synced>>

\* copy_time_series, and the view rows of transform_single_time_series: a new
\* row on the same array and axis.
Copy(r, owner) ==
    LET c == [r EXCEPT !.owner = owner]
    IN  /\ Alive
        /\ \A s \in cat.rows : Identity(s) # Identity(c)
        /\ cat' = [cat EXCEPT !.rows = @ \cup {c}]
        /\ UNCHANGED <<saved, txn, buffer, file, synced, attempts>>

\* import_association_rows: rows on whatever the store holds, referenced or not.
\* The shared-set cache is neither consulted nor filled.
Import(batch) ==
    /\ Alive
    /\ IdentitiesFree(batch)
    /\ ArraysOf(batch) \subseteq Held
    /\ AxesOf(batch) \subseteq file
    /\ cat' = [rows |-> cat.rows \cup RowsOf(batch),
               fsets |-> cat.fsets \cup FSetsOf(batch)]
    /\ UNCHANGED <<saved, txn, buffer, file, synced, attempts>>

-----------------------------------------------------------------------------
(* Moving bytes: flush, locate_array, the buffer's budget, compact.        *)

\* locate_array writes out the block that holds the array it is asked for;
\* set_write_buffer_bytes and a failing flush write out some blocks.  A block
\* whose write fails stays buffered, though its own unwind may leave some of it
\* in the file.
WriteBlocks(P) ==
    LET out == {e \in buffer : e[2] \in P}
    IN  /\ buffer # {}
        /\ buffer' = buffer \ out
        /\ \E torn \in Stuck(Buffered) : file' = file \cup {e[1] : e \in out} \cup torn
        /\ UNCHANGED <<cat, saved, txn, synced, attempts>>

Flush ==
    /\ buffer' = {}
    /\ file' = Held
    /\ synced' = file'
    /\ UNCHANGED <<cat, saved, txn, attempts>>

\* compact: sweep what no row refers to, rewrite the live set beside the file,
\* rename it into place and reopen.
Compact ==
    /\ ~InTxn
    /\ cat' = [cat EXCEPT !.fsets = FSetsOf(cat.rows)]
    /\ file' = Named(cat.rows)
    /\ synced' = file'
    /\ UNCHANGED <<saved, txn, buffer, attempts>>

\* A compaction that gives up after its sweeps and before its rename.
CompactFails ==
    /\ ~InTxn
    /\ attempts < MaxAttempts
    /\ attempts' = attempts + 1
    /\ synced' = file
    /\ \E swept \in SUBSET ((file \cap Axes) \ AxesOf(cat.rows)) : file' = file \ swept
    /\ cat' = [cat EXCEPT !.fsets = FSetsOf(cat.rows)]
    /\ UNCHANGED <<saved, txn, buffer>>

-----------------------------------------------------------------------------
(* The end of a process, and the next one to open the artifact.            *)

\* A crash: the catalog is as last committed, the buffer is gone, and of each
\* change since the last flush the file may or may not have received the bytes.
Crash ==
    /\ Crashes
    /\ cat' = Committed
    /\ saved' = <<>>
    /\ ResetTxn
    /\ buffer' = {}
    /\ file' \in {f \in SUBSET (file \cup synced) : file \cap synced \subseteq f}
    /\ synced' = file'
    /\ UNCHANGED attempts

\* The store is dropped, with or without an open transaction, and reopened:
\* closing the file writes libhdf5's caches back.
Reopen ==
    /\ Crashes
    /\ cat' = Committed
    /\ saved' = <<>>
    /\ ResetTxn
    /\ buffer' = {}
    /\ file' = file
    /\ synced' = file
    /\ UNCHANGED attempts

-----------------------------------------------------------------------------
Init ==
    /\ cat = [rows |-> {}, fsets |-> {}]
    /\ saved = <<>>
    /\ marks = <<>>
    /\ written = <<>>
    /\ pendingFree = {}
    /\ cache = {}
    /\ buffer = {}
    /\ file = {}
    /\ synced = {}
    /\ heldAt = <<>>
    /\ attempts = 0

Next ==
    \/ Begin
    \/ CommitInner
    \/ CommitOutermost
    \/ CommitFails
    \/ Rollback
    \/ RollbackForced
    \/ \E batch \in Batches : AddInTxn(batch)
    \/ \E batch \in Batches : AddOutside(batch)
    \/ \E batch \in Batches : AddFailsInTxn(batch)
    \/ \E batch \in Batches : AddFailsOutside(batch)
    \/ \E S \in SUBSET cat.rows : Remove(S)
    \/ \E o \in Owners : Clear({r \in cat.rows : r.owner = o}, FALSE)
    \/ Clear(cat.rows, TRUE)
    \/ CatalogCallFails
    \/ \E r \in cat.rows, o \in Owners : Copy(r, o)
    \/ \E batch \in Batches : Import(batch)
    \/ \E P \in SUBSET Pools : WriteBlocks(P)
    \/ Flush
    \/ Compact
    \/ CompactFails
    \/ Crash
    \/ Reopen

Spec == Init /\ [][Next]_vars

-----------------------------------------------------------------------------
(* Properties.                                                             *)

\* Every variable has its type, and the savepoint stack is either one snapshot
\* per open level or, once SQLite has rolled the transaction back, empty.
TypeOK ==
    /\ cat \in Catalogs
    /\ saved \in Seq(Catalogs)
    /\ marks \in Seq(Nat)
    /\ written \in Seq(SUBSET Objects)
    /\ pendingFree \subseteq Objects
    /\ cache \subseteq FeatureSets \cup Axes
    /\ buffer \subseteq Arrays \X Pools
    /\ file \subseteq Objects
    /\ synced \subseteq Objects
    /\ heldAt \in Seq(SUBSET Objects)
    /\ attempts \in Nat
    /\ saved # <<>> => Len(saved) = Len(marks)
    /\ Len(heldAt) = Len(marks)

\* A row the connection can see always names an array and an axis the store
\* holds, in the file or in the write buffer: no put, removal, unwind or
\* compaction, however it ends, leaves a row without its bytes.
NoDanglingRow == Named(cat.rows) \subseteq Held

\* Every savepoint a rollback could return to is still backed by stored bytes
\* that the rollback itself will not remove: removals inside a transaction are
\* reversible because their frees wait for the outermost commit.
RollbackFindsItsData ==
    \A i \in DOMAIN saved :
        Named(saved[i].rows) \subseteq Held \ WrittenSince(marks[i])

\* A committed row survives a crash at any moment: its bytes are in the file
\* and were flushed before the row committed.
CommittedSurvivesCrash == Named(Committed.rows) \subseteq file \cap synced

\* The write buffer belongs to the transaction: it holds only arrays recorded
\* as written and, unless a block's unwind failed, none the file also holds;
\* and it is empty outside one.
BufferBelongsToTxn ==
    /\ Buffered \subseteq AllWritten
    /\ ~IOFaults => Buffered \cap file = {}
    /\ ~InTxn => buffer = {}

\* Rolling back to a level leaves exactly what the store held when that level
\* began, however much of the span was spilled, freed or written in between.
RollbackIsExact ==
    \A i \in DOMAIN marks : Held \ WrittenSince(marks[i]) = heldAt[i]

\* The shared-set cache never remembers a feature set or a time axis that is no
\* longer there, so an add that trusts it files a complete row; and no row
\* names a feature set the catalog lacks.
SharedSetsPresent ==
    /\ Alive => cache \subseteq cat.fsets \cup file
    /\ FSetsOf(cat.rows) \subseteq cat.fsets

\* All or nothing: while a transaction stays open, whatever its calls, nested
\* levels and failures do, the catalog another connection would read does not
\* change.
AllOrNothing == [][InTxn /\ InTxn' => Committed' = Committed]_vars

-----------------------------------------------------------------------------
(* What makes the properties above inductive.                              *)

\* Marks grow inwards from zero and never point past what was written.
MarksOrdered ==
    /\ InTxn => marks[1] = 0
    /\ ~InTxn => written = <<>>
    /\ \A i \in DOMAIN marks :
          /\ marks[i] <= Len(written)
          /\ \A j \in DOMAIN marks : i <= j => marks[i] <= marks[j]

\* The committed rows lean on nothing an open transaction wrote.
CommittedUntouched == Named(Committed.rows) \subseteq Held \ AllWritten

\* An array is buffered under one pool.
BufferedOnce == \A e, f \in buffer : e[1] = f[1] => e = f

\* An axis the shared-set cache remembers is in the file.
CachedAxesStored ==
    /\ cache \cap Axes \subseteq file
    /\ ~InTxn => cache = {}

\* What the file holds and has not flushed is on the transaction's list.
UnflushedIsListed == ~IOFaults => file \ synced \subseteq AllWritten

TxnInv ==
    /\ TypeOK
    /\ MarksOrdered
    /\ NoDanglingRow
    /\ RollbackFindsItsData
    /\ CommittedUntouched
    /\ BufferBelongsToTxn
    /\ BufferedOnce
    /\ CachedAxesStored
    /\ UnflushedIsListed

\* What the shared-set cache and every savepoint say of the feature sets: a set
\* the cache remembers is interned, and no catalog a rollback could return to
\* has a row without its feature set.
SetsInv ==
    /\ Alive => cache \cap FeatureSets \subseteq cat.fsets
    /\ FSetsOf(cat.rows) \subseteq cat.fsets
    /\ \A i \in DOMAIN saved : FSetsOf(saved[i].rows) \subseteq saved[i].fsets

=============================================================================
