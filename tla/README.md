# TLA+ models of infrastore

infrastore keeps time series in an *artifact* of two files: an HDF5 file of content-addressed
arrays (`path`) and a SQLite catalog of the rows that name them (`path.sqlite`). The catalog has
savepoints and an atomic commit; the array file has neither, and no file system renames two files
at once. The library therefore carries half of every transaction, and the pairing of the two
files, by hand. That hand-written half is the core of these models; around it they follow the readers, the grid and
calendar arithmetic, the catalog queries, the two native bindings and the server.

Paths below are relative to `src/crates/infrastore-core/src/` unless they start with `src/`.

## 1. The system

| Component | State it keeps | Operations | What makes it hard | What makes it correct |
|---|---|---|---|---|
| **Store write path** (`store.rs`) | the open transaction: `marks`, `written`, `pending_free`, `shared_sets`; the catalog connection and its savepoints | begin / commit / rollback (nested), add, bulk add, remove, clear, copy, import, flush, compact | two halves undone separately; deferred frees; caches that outlive the call that filled them; SQLite rolling back on its own; crashes | no row without bytes, every level reversible and exactly so, committed rows flushed, nothing uncommitted visible |
| **Write buffer** (`write_buffer.rs`) | one block per pool, a hash index, byte counts, a budget | push, remove, set_max_bytes, write_all_except, write_holding | `swap_remove`, eviction inside a push, a commit that leaves garbage behind, any write failing | index exact, nothing lost or left over, columns in arrival order, counts and bounds right |
| **HDF5 backend** (`storage/hdf5.rs`) | packed datasets with hash rows, standalone datasets, time axes; an index rebuilt at open | put (packed, block, standalone), time axes, remove, open | every operation is several file operations and none can be rolled back | the index and the file agree, through failures and reopens |
| **Artifact files** (`store.rs`) | array file, database, write-ahead log, generation stamps | create, create_replacing, open, open_copy, close, persist_to, persist_arrays_to, persist_catalog, compact | a crash between any two file operations; a stale log beside a new database | an artifact opens whole or not at all; a save lands entirely or not at all |
| **Open-artifact registry** (`store.rs`) | `OPEN_ARTIFACTS`, the list of held paths | `OpenGuard` acquire / release in every call that touches files | threads interleaving at each file operation | a store's files are touched by nobody else; the registry neither leaks nor forgets |
| **Catalog rows** (`metadata.rs`, `store.rs`, `metadata/migrate.rs`) | rows, `sqlite_sequence`, schema revision | add, remove, clear, replace owner, copy, import, transform, upgrade | rules no index can express, re-checked by hand in each path | families exclusive, views keep their source, committed ids keep their meaning |
| Storage trait, memory backend | map of hash to array | put, contains, remove, flush | none: no failures, no durability | it is the set `file` of `StoreTxn` |
| Schema migration, format stamps | schema_version, format stamp | upgrade at a writable open | the table rebuild drops the id mark | ids keep their meaning through the rebuild (part of `Catalog`) |
| **Readers, bulk reads** (`reader.rs`, `store.rs`) | the groups or slots of a read plan, their buffers and cached blocks | build, read at an instant, read by ids | a read failing part way; the store changing under a reader; arrays in the buffer and in the file | all columns of one instant, nothing served of a removed array, results in the caller's order |
| **Time** (`types/period.rs`, `types/time_series.rs`, `types/time_reference.rs`, `store.rs`) | none | steps, inference, range and window reads, transforms, spellings | month ends, half milliseconds, offsets, the end of the calendar | answers equal definitions that do no arithmetic |
| **Queries, associations, attributes** (`metadata.rs`) | two association tables and a key-value table | list, exists, counts, summaries; add, remove, move | NULL in SQL, one question answered by two statements, labels on a move | the answers are those of set definitions; a failed bulk call leaves nothing |
| **C ABI** (`src/crates/infrastore-ffi`) | handles, owned buffers, batches, `LAST_ERROR` | some 120 exports | who owns an allocation when a call fails half way | delivered or dropped; failures clean; texts inside their buffers |
| **Python extension** (`src/crates/infrastore-py`) | the borrowed `Store`, `with` blocks | the methods of `Store` and the series classes | conversions run Python code, which may call back | nothing changes under a call |
| **Server, client, wire format** (`src/crates/infrastore-server`, `-proto`) | one lock and its queue | the read RPCs | spellings lost on the wire, calls dropped in the queue | a remote answer is the local one, and there is one |
| Julia, CLI, Parquet, OpenAPI, benchmarks, integrity report | none beyond the `Store` they use | marshalling around `Store` calls | none of their own | not modelled |

How they meet: every mutation enters through `Store`. A call opens a savepoint on the catalog, puts
arrays either straight into the backend or, inside a transaction, into the write buffer, and files
its rows. The buffer spills blocks into the backend when a pool is wide enough or the budget is
exceeded. The outermost commit writes the remaining blocks, flushes the backend, releases the
savepoint, and only then frees what nobody names any more. Saves and compactions flush, stage both
halves beside their destination and rename them into place under one generation stamp. Everything is
synchronous inside the core: no background thread, no callback, no message. Concurrency enters at the
edges: several threads making stores in one process, which agree through `OPEN_ARTIFACTS` and nothing
else; Python code called back by a conversion; and the server's tasks, which queue for one lock.

## 2. The modules

One module per component; each header says what the module leaves to the others.

**`StoreTxn`** – the write path of one open store. `cat` is what the connection sees and `saved`
SQLite's savepoint stack; `marks`, `written`, `pendingFree` and `cache` are the fields of `OpenTxn`;
`buffer`, `file` and `synced` are what the buffer holds, what the backend indexes, and what the last
flush made durable. Each action is one `Store` call: `Begin`, `CommitInner`, `CommitOutermost`,
`Rollback`, `AddInTxn`/`AddOutside` and their failing forms, `Remove`, `Clear`, `Copy`, `Import`,
`WriteBlocks` (every early write: budget, `locate_array`, chunk width), `Flush`, `Compact`. `IOFaults`
lets the best-effort removals fail and SQLite give the transaction up at any statement (`CommitFails`,
`CatalogCallFails`, then `RollbackForced`); `Crashes` lets the process die, keeping any subset of what
was written since the last flush, or drop the store. Arrays, axes and feature sets are model values.

**`WriteBuffer`** – the structure behind `StoreTxn`'s set `buffer`: blocks in column order, `byHash`,
`bytes`, `maxBytes`. A call is a sequence of steps, one per block written or array dropped, so each
may fail and end the call where it stands.

**`PackedFile`** – the structure behind `StoreTxn`'s set `file`: datasets of columns with hash rows,
standalone datasets and axes in the file, against `cols`, `byHash`, `standaloneVars` and
`timestampHashes` in memory. `Faults` selects which of the eight kinds of file operation may fail.
`Reopen` rebuilds the index as `rebuild_index` does.

**`Artifact`** – the files at each path through every call that makes, replaces, copies, saves or
compacts them, one file operation per step, with a crash between any two. `wal` is a log to be laid
over its database; `gen` is the generation stamp. A copy is six steps: the array file is begun and filled, the
catalog is begun and filled by `VACUUM INTO`, and the copy is opened; a failure at any of them starts the two
removals of its clean-up, each of which may fail too.

**`Ledger`** – `Artifact` with a history variable: `told` is, for each path, the rows that the calls which came back
left there. It reads no file, stamp or log where a call does something definite: an attached mutation adds or takes
away its
row, a save leaves the rows it was asked to save, a copy those of its source. `NothingCommittedIsLost` compares what
a path shows when opened with it, whatever was cut short before.

**`OpenHandles`** – threads interleaving at each file operation and at each critical section of the
registry's mutex. A file is an identity, so "somebody replaced my file" is visible.

**`Catalog`** – rows with ids, owners, types, intervals, horizons and arrays; `seq` is
`sqlite_sequence`; a savepoint keeps both. `known` is the history of what every committed id named.

**`StoredArrays`, `BufferRefinement`** – what the buffer and the backend promise together, with no block,
index or budget: a set of arrays, the order of the open transaction's puts, what is being put or taken
back, and what the layer below refused to give up. `BufferRefinement` maps `WriteBuffer` onto it
(`kept` is what the store holds less what is still to be taken back or not yet reported), and
`ImplementsPromise` says that every step of a push, an early write, an eviction, a commit or a rollback is
one of its steps or none.

**`Readers`** – static and forecast readers and bulk reads over a catalog, a buffer and a file that change
between reads. A value is its array and its position there, so a misplaced or stale one shows. Any
backend read may fail. It extends `Windows` for the arithmetic.

**`Periods`, `Windows`, `Elements`, `Spellings`, `PySeries`, `Queries`, `Associations`** – pure operators:
calendar arithmetic; how ranges and windows select rows and how a transform derives a view; the codec of
composite values; references and their spellings in the stored text, Python datetimes and Arrow tables; the
constructors of the Python series classes; what each SQL statement selects; the association and attribute
tables. **`TimeReads`** enumerates subjects as initial states and asks one question of them per step; its
invariants compare the code's answer with a definition that does no arithmetic of its own.

**`CAbiExports`, `CAbi`** – every export as the sequence of steps of its body (checks, core call,
allocations, writes through out-pointers), and one C thread that runs them, any fallible step ending the call.
**`PyMethods`, `PyStore`** – the same for the Python `Store`, on a stack, since a step that runs Python code
may call the store again, and with `with` blocks around calls. **`Bindings`** composes the two: a
process uses the store through one of them.

**`Wire`, `Remote`** – each question from `RemoteClient` through the protobuf form, the server's decoding, the
queue for the lock, the store's answer, its protobuf form and back to the caller's value; with calls
dropped while they wait, undecodable requests, a damaged array, a missing key and a restart.

`MC*` modules only give constants their values and define symmetry sets. `*Proofs` modules hold the
theorems.

What the modules take over from each other: `StoreTxn` lets any whole pools be spilled at any moment
and any subset of a failed block be left behind, which is more than `WriteBuffer` and `PackedFile` do
(`OneDatasetPerBlock` shows that a buffered block is one dataset, so it has no half to leave).
`OpenHandles` lets a call fail at any step for any reason, which covers `Artifact`'s refusals.
`Catalog` leaves bytes to `StoreTxn`, `StoreTxn` leaves ids and families to `Catalog`.

## 3. The runs

| Run | Checks | Instance |
|---|---|---|
| `txn` | `NoDanglingRow`, `RollbackIsExact`, `SharedSetsPresent`, `CommittedSurvivesCrash`, `AllOrNothing` | two levels, two owners, two arrays, one axis, one pool, a batch of two, crashes and one failed call |
| `txn_faults` | `TxnInv` | one owner, two names; removals, unwinds and reference counts fail, SQLite rolls back on its own |
| `artifact_crash` | `OpensWhole`, `SaveIsAllOrNothing`, `AttachedAlwaysReopens`, `NothingCommittedIsLost` | `Ledger`: two paths, each possibly unstamped, one array, three stamps; symmetric paths |
| `buffer` | `IndexExact`, `ColumnsInArrivalOrder`, `BudgetKept`, `ImplementsPromise` | two pools of different size, four arrays, two budgets, writes and removals fail |
| `file_writes` | `ReadsItsContent`, `ReopenFindsTheSame`, `BlockIsAllOrNothing` | three arrays, two columns per dataset, up to three datasets, blocks of three; creations and writes fail |
| `file_faults` | `RowsTellTheTruth` | two arrays, up to two datasets, blocks of two; every file operation fails, removals and clean-ups included |
| `handles_private` | `RegistryIsExact`, `HandlesKeepTheirFiles`, `CallsLandWhole` | two threads, two paths, six file identities |
| `catalog` | `FamilyExclusive`, `IdKeepsItsMeaning`, `SourceKept` | two owners, one name, two arrays, two intervals, two horizons, four ids, one open level |
| `time` | `GridsAreExact`, `SpellingsReadBack`, `ValuesReadBack`, `ReadsAreExact`, `ViewsTellTheTruth`, `QueriesAgree`, `AssociationsHold` | six months of one to three days, a day of two milliseconds, half milliseconds; five periods, eight offsets, six zone words; seven catalog rows, three components |
| `readers` | `ReaderHoldsOneInstant`, `NothingServedAfterRemoval`, `BulkReadsInOrder` | five worlds of three to five rows: monthly, daily, step functions, dense forecasts with views, scenarios; one row missing, two ids per bulk read |
| `bindings` | `NothingOrphaned`, `FailureIsClean`, `TextFits`, `NothingChangesUnderACall` | every export and method; three handles, three nested Python calls, two levels, two `with` blocks |
| `server` | `RemoteTellsTheSame`, `EveryCallIsAnswered` | three clients (one asks everything, one only waits its turn, one has no key), five rows, one damaged array |

Why the bounds are enough:

- `txn`: one level inside another is what marks, deferred frees and inner rollbacks are about; a third
  behaves as the second, since every rule mentions only "this level" and "the outermost". Two arrays
  let one be shared and one be freed; a batch of two lets a call fail after its first put. One failed
  call (`MaxAttempts`) is enough because a failed call leaves nothing that tells it from none, apart
  from leftovers the next call meets. The proofs then remove these bounds.
- `artifact_crash`: a save needs a source and a destination, and three stamps give the pair before, the
  one being saved, and one more, so that a stale half can meet each. A copy likewise needs two paths, and its source
a log of committed rows, which a crash leaves.
- `buffer`: three arrays in one pool make `swap_remove` move a survivor; the second pool and the small
  budget make a push evict a block that is not its own.
- `file_*`: two columns per dataset with three arrays force a spill, and a block of three is two
  segments, so the second can fail with the first stored. With every operation failing two arrays
  are enough: one to be left behind and one to take its place. `MaxSets` also stands for a full disk.
- `handles_private`: every conflict is between two callers; the second path is for copies and saves.
- `catalog`: families are per owner and name, so conflicts need two owners (moves, copies) and one
  name; two arrays tell a source from a look-alike; four ids are enough to delete the top row,
  import above it and add again.
- `time`: months of three, two, one and three days make a month end clamp and recover; bounds between two
  milliseconds and at the calendar's end are among the questions. Lengths of up to four put a point before,
  on, between and after every bound.
- `readers`: every world has two groups or slots at least, so a read can fail between them, and rows that
  share an array, so that a removed row's array may live on.
- `bindings`: calls do not share state except the store, the batch, the message and the last listing's length,
  so two calls in a row reach every combination; three nested Python calls are a call, what it called back,
  and what that called.
- `server`: one call holding the lock, one waiting and one that comes or goes.

Each property is also run against a faulty version of the code it depends on, kept beside the definition
it replaces and commented `Fault:`; all of these are caught.

**Fairness.** Only `Remote` has any: weak fairness of `Admit`, `Lock` and `Serve` of each client. The
runtime polls every task that is ready, the handler never awaits with the lock held, and tokio's mutex
hands the lock over in the order of the waiters, which is what makes weak fairness of `Lock` enough (a
lock that could be barged starves a waiter: that is the fault `EveryCallIsAnswered` is tried against).
Callers are not fair: they need not call, collect or hang up. Elsewhere no liveness is claimed: a call
runs on its caller's thread to its end, nothing waits, nothing retries, and `OPEN_ARTIFACTS` refuses
instead of blocking. Deadlock is checked in every run except `artifact_crash`, where the bound
on stamps may stop a behaviour.

## 4. The proofs

Each `Proofs` module proves an inductive invariant and derives the properties from it, for every value
of the constants the module's named assumption allows.

**`StoreTxnProofs`** – from `TxnInv`: `TypeCorrect`, `RowsKeepTheirBytes`, `EveryLevelReversible`,
`BufferIsTransactional`, `CommittedRowsAreDurable`, `NothingLeaksOut`. `NoDanglingRow` is not inductive:
a rollback replaces the rows by a savepoint's and removes what was written since its mark, so what is
needed is that every savepoint's rows survive exactly that (`RollbackFindsItsData`), which in turn needs
marks ordered (`MarksOrdered`). A forced rollback returns to the committed rows, hence
`CommittedUntouched`; a commit's flush covers the row only if all that is unflushed is listed, hence
`UnflushedIsListed`. `CachedAxesStored` is what an add that trusts the cache relies on.
Two more beside it: `RollbacksAreExact` (what is held less what was written since a level's mark is what no
step changes while the level is open) and `CacheTellsTheTruth`, from `SetsInv`, which says of every
savepoint's feature sets what it says of the catalog's; the axes are `CachedAxesStored`.
Hypotheses: `~(IOFaults /\ Crashes)` throughout, and `~IOFaults` for `CommittedRowsAreDurable` and
`RollbacksAreExact` (a removal that fails leaves an array behind, which is then more than the level had).
The exclusion is necessary: see the first observation in section 6.

**`WriteBufferProofs`** – from `BufInv`: `IndexStaysExact`, `NothingLostOrLeftOver`, `ColumnsStayInOrder`,
`OneDatasetPerBlock`, with any write or removal failing. `CallShape`, `WidthInv`, `HeldInv`, `ArrivedInv`
and `OrderInv` say what holds half way through a call: what is "fresh" (in the store but not reported: being
pushed, or about to be undone), that
only the block being pushed may be at the width, and that order is arrival order up to fresh arrays.
Order survives `swap_remove` because a rollback drops a suffix of what arrived: the
array it moves is itself due to be dropped, and those that stay keep their places.
`BufferRefines` is the refinement: every step, under any failure, is a step of `StoredArrays` or a stutter. What
a commit decides to drop must still be held when it takes (`GarbageHeld`), or the promise could not drop it.

`BudgetAlwaysKept`: `evict_over_budget` stops on running counts, so the counts must be the
sums they stand for, half way through a push, an undo, a failed write and an early write too
(`BudgetInv`). `SpareInv` says how far over a buffer may be meanwhile: by the array being pushed, and no
more. The sum over the pools is recursive; that it splits at a pool, and so changes by what one block
changes, is proved by induction on sets of pools written as membership in a set of sets. The proof
also corrected the property: an empty series is accepted, its column has no bytes, and lowering the
budget then evicts nothing, so the width clause excepts columns of no bytes.

**`PackedFileProofs`** – from `FileInv` (any faults): `FileInvariant`, `RowsNeverLie`. Adding `PlaceInv`
(every place known from both sides; `"cleanup" \notin Faults`): `NothingComesBack`. Adding `AgreeInv`
(the index is what the file says; no failing `zero`, `unlink`, `cleanup`): `StoredArraysRead`,
`ReopenChangesNothing`.
With `UnwindInv` (no failing `clear`, `zero`): `FailedBlockLeavesNothing`, for any number of segments.
The hypotheses are what the code needs: each is about a step whose failure the code discards or cannot
undo.

**`CatalogProofs`** – from `CatInv`: `TypeCorrect`, `FamiliesExclusive`, `CommittedIdsAreStable`, and the action
property `ViewsKeepTheirSource`. A rollback restores rows and the id mark together, so the invariant says
of every savepoint what it says of the rows (`SavedSound`), that marks do not fall inwards (`MarksRise`)
and that a committed id is below the mark of *every* level (`KnownIssued`): otherwise a rollback could
lower the mark under a committed id and reissue it.

**`ArtifactProofs`** – from `ArtifactInv`, with a crash or a failure between any two file operations:
`OpensAreWhole`, `SavesAreAllOrNothing`, `CrashesNeverUnpair`, `CommitsAreKept`, for any paths and number of
stamps. The halves of an artifact are told apart by stamps alone, so the argument is that no file has a
stamp still to be minted (`StampsMinted`): after a save's first rename the new arrays meet no catalog that
agrees with them until its last. `CallInv` says of each call, step by step, what it has done to its path;
`StoreInv` that an open store stands on an array file which, unless the path is known to be behind, holds its
rows. One lemma per action.
`CommitsAreKept` is about `Ledger`: each of its steps is a step of `Artifact`, so `ArtifactInv` carries over, and
what the
calls were told is kept step by step (`LedgerKept`: an attached store always has an entry, one being made an empty
one, one being replaced none, a copy the one of its source). A path half copied, half created or half saved
does not open, by its stamps or because a torn file cannot be read; that is where the entry and the files may differ.

**`OpenHandlesProofs`** – `RegistryExact` for any number of threads, with or without private copies, from
`ShapeInv` (how far a call can be, and which guard it has there). Under `PrivateCopies`, `CopyIsAlone` gives every
path one owner, a store or a call, and only the owner writes at a path; so what a call relies on
(`CallsKnow`) is disturbed by no other thread, and `StoresKeepTheirFiles` and `CallsAlwaysLandWhole` follow. The
hypothesis is necessary: section 6.

**`BindingsProofs`** – `BindingsKeepOrder` (`BindingsSpec`) and from it `AllocationsAccounted`, `FailuresAreClean`,
`TextsFit` and
`NoCallIsDisturbed`, for any number of handles, nested calls and blocks. The proofs assume only the
order of steps in the tables of exports and methods (`ExportsInOrder`, `PyMethodsInOrder`: nothing
fallible after an edit or a hand-over, every raw pointer given, no edit under another's borrow), which TLC
evaluates over the complete tables in the `bindings` run. The order is closed under taking the first
step away, so it holds of what is left of every call in progress (`CallInv`, `StackInv`), and that is inductive.

`RemotesAgree`, in the same module: a remote caller is told what a local one would be, for any catalog, requests,
ceiling and number of clients. The argument is about the conversions: field by field, what `convert.rs`
writes reads back; so a request reaches the store as it was asked, or is refused for what is wrong with
it; each kind of answer and of refusal comes back as it was given. It assumes what the types of the code
give: rows and series are what `TimeSeriesMetadata` and the constructors accept (`RowsAreSound`), and a request
is a question or bytes one of the conversions refuses (`RequestsAreEither`). TLC evaluates both in the `server`
run. Of the calls it needs only that a reply is the answer to what was sent, or a code of the
connection's (`RpcInv`).

**`ReadProofs`** – about `Readers`, for any worlds of rows (`WorldsAssumption`: what rows the catalog accepts), moments,
windows and block width:

- `BulkReadsKeepOrder`. A bulk read sorts the ids by row, drops repeats, splits the arrays into those of the buffer
  and those of the file, and puts the answer together in the caller's order. That a position in the sorted
  list and the element there determine each other (`Place`, `InOrder`) is all the proof uses of sorting.
- `ReadsAreWhole` and `RemovedArraysAreNotServed`, from `ReaderInv`. A read fills column after column from cached
  blocks or from the backend, which may fail at each; on a failure `invalidate` empties them all. For that to leave
  nothing, a reader must keep the columns it was built with through every step (`StaticShape`,
  `ForecastShape`), and for a cached block to answer for its array it must hold that array's rows
  (`CacheSound`): neither half is inductive without the other. A read asks the store for every array it has,
  cached or not, which is why a removed one is never served.

and about `TimeReads`, over any calendar (`CalendarAssumption`: months have days, a day has time, nothing else) and any
subjects (`QuestionAssumption`: what subjects the constructors accept):

- `GridArithmeticIsExact`: stepping, floor, ceiling, `steps_between` and the inference of a period agree with a
  search of the grid's points. A month's start is recursive; that it lies where the months before it end follows
  from there being a first month where it does not (`LeastNatural`). From that an instant has one month and one
  day in it (`MonthFound`), and a grid's points rise and end (`Points`), month-end clamping included, since
  stepping goes from the start and never from the last point. The code estimates a count by dividing and corrects it
  by one; the proof shows the estimate is off by one at most (`SpanCounts`, `Quotients`).
- `ViewsAreTruthful`: a plan that `derive` accepts counts only windows that lie inside the series, and their dates are
  those of the rows they cover (`Planned`); a grid of months is anchored at every window's first row, not only
  the first one's (`AnchoredRun`, `Coarser`). The binary search for the first and last window of a range keeps
  both between its bounds (`Searching`), turn by turn, and ends (`SearchFinds`). So the windows a view is read by
  are the ones that begin in the range (`WindowsResolve`), and every cell is the row of its date
  (`CellsAreRows`, `DatesAreRows`). The search may probe a window the calendar does not have, and the code then
  answers `IntegrityError`; that it does so only for a series whose own grid runs past the calendar's end
  (`LeavesCalendar`) is `WindowsDeclined`.
- `ReadsAreAsAsked`: `ReadsAreExact` for every series a constructor accepts. On a grid the rows a range selects
  follow from the floor of its start and the ceiling of its end (`SingleReads`), in a vector of instants from how
  many come before a bound (`NonSequentialReads`, `PersistentReads`), of a forecast from the windows found by the search
  (`WindowsSelected`). A stored forecast is one flat array; cutting windows out of it keeps each value's place
  (`BlockIs`), which takes the product of any number of dimensions (`ProductSplits`), the concatenation of any number
  of runs (`FlattenEven`) and that places grow with their row (`TimesKeepOrder`). Later windows
  begin at dates of the original ones because a forecast that cannot be re-anchored is refused. A window of n steps
  becomes a range, and that range selects n rows from its start (`SteppedWindow`, `StepsInRange`): a step
  of months clamped at a month's end lands between the same two points from either anchor (`ClampedStepsLand`), whatever
  the months' lengths. A read that answers `IntegrityError` computed an instant beyond the calendar, and each place
  where the code does so is traced to the grid (`Declined`, `RunsOut`: `SingleDeclined`, `RunsDeclined`,
  `SteppedDeclined`, `StepsRunOut`) or to a window that is to end after the calendar's last instant
  (`WindowsPastTheEnd`).

Proved and in no run of its own: `RollbackFindsItsData` and `BufferBelongsToTxn` (conjuncts of `TxnInv`),
`HeldAsReported` (which `ImplementsPromise` refines), `NothingResurrected`, `ReadIsWhole` and the types.

The proofs also changed the model where a formula did not say what TLC took it to say: three `CASE`s had arms
that overlap, which leaves their value open (`Size`, `Says`, `into`); their arms are disjoint now. The binary
search of `Windows` and its product of a shape are recursive functions, which a proof can unfold.

Only model-checked:

- `EveryCallIsAnswered`: liveness under fairness.
- `SpellingsReadBack`, `ValuesReadBack`, `QueriesAgree`, `AssociationsHold`: what folds of the library compute over
  a text, a row of
  values or a table. The library's folds take an operator, which the provers cannot instantiate.
- `ReaderHoldsOneInstant`: that what a reader holds is each row's own value or window at the instant read. Its
  all-or-nothing half is `ReadsAreWhole`; the other half adds the gathering of a window from its block.

Induction over data is possible only where it can be written without an operator parameter, as the first
number or the smallest set for which a recursive function would be wrong.

## 5. Assumptions and abstractions

- A hash is a model value: equal content has equal hash, and collisions do not happen.
- A crash is the end of the process with the file system's renames in order; power loss that reorders
  writes inside one object is not modelled. A crash may keep any subset of the objects written since
  the last flush.
- A failed write of a hash row leaves the row as it was (a few dozen contiguous bytes); a failed data
  write leaves its target undefined (`Torn`).
- `StoreTxn`: bulk and per-type adds all reach `add_requests_staged` and are one action; SQL is set
  algebra on rows; reads that change nothing are left out.
- `PackedFile`: every call holds the backend's mutex, so calls do not interleave. A zero-length array
  skips blanking in the code, which is the `zero` step succeeding.
- `Artifact`: one process at a time; read-only opens, which write nothing, are left out. `suspect`
  excepts from `OpensWhole` the paths whose catalog the code knowingly leaves behind its arrays: a
  session with an `InMemory` catalog changes arrays in place, and `persist_catalog` or `create_replacing`
  may stop between removing a log and its database; a copy of such a path is one too. A file half copied is torn and
  cannot be read, and `VACUUM INTO` begins with a file that is torn or, being empty, reads as a catalog without stamp or
  rows. `Ledger` promises nothing for a path while a copy of unstamped arrays is made there, since what it leaves
  when interrupted
  opens (section 6), nor after `create_replacing` began or `persist_catalog` removed a log there. A store left with
  the placeholder backend is not
  followed further.
- `OpenHandles`: paths are `artifact_key`'s results. A second process, which HDF5's own lock refuses, is
  left out; the `read_only` flag takes the same guard. `PrivateCopies` is the callers' proviso that nobody
  else uses the destination of a running `open_copy`; the reopen after a save onto the own path works
  (its failure is `Artifact`'s subject).
- `Periods`: `chrono` is external; the calendar has no leap years or time zones, only months of different
  length and an end. `Elements`: floats are small naturals, so NaN payloads and rounding are left out.
- `Queries`: feature hashes are injective; a listing is a set, since the statements promise no order.
- `CAbi`, `PyStore`: what a core call answers is left open, so each may succeed or fail in every state. One
  handle is used by one thread at a time, as `infrastore-ffi` `lib.rs:10` requires and as PyO3 enforces.
- `Remote`: an instant's or a period's text reads back as what it spelled (checked in `time`). The served
  store is read-only. A row's `Some([])` timestamps and a read's `application_data` are excepted from
  `RemoteTellsTheSame` (section 6).
- `Catalog`: every call runs in a savepoint, so a failing call is not a step. A name stands for (name,
  features) at one resolution, an owner for (id, category). Window arithmetic and the uniform-grid policy
  can only refuse a transform, so which plans are accepted is left open. Rows of a revision-1 catalog were
  written under the same rules.

## 6. Where the code and its documentation disagree

None of these is stated by a run; where a formula is named, it is defined beside the properties and TLC gives a
counterexample when it is added to the run's configuration.

- `CatalogSaveIsAtomic` (`Artifact`) – `persist_catalog` is documented as atomic ("only one rename",
  `store.rs:5777`), but removes the log of the catalog still in place before it renames (`store.rs:5827`). A
  crash in between loses the rows a crashed writer had committed to that log.
- `PlaceholderNeverObserved` (`Artifact`) – compact's in-memory stand-in is "never observed" (`store.rs:5408`),
  but a failing reopen returns with it in place (`store.rs:5420`).
- `ContainsIsStored` (`PackedFile`, with `Faults = {"zero"}`) – `contains` is "true iff the backend currently
  stores" the array (`storage.rs:467`), but after a removal that failed at blanking it is true of an array the
  file no longer names (`storage/hdf5.rs:1590`).
- `HandlesKeepTheirFiles` with `PrivateCopies = FALSE` – a guard is "taken before anything else an open or
  create does" (`store.rs:1154`), but `open_copy` probes, writes and cleans up its destination without one
  (`store.rs:1403`), and can truncate or delete the files of a store opened there meanwhile.
- `EmptyRangeSelectsNothing` (`TimeReads`) – "a zero-width range selects nothing, for every one of the seven
  types" (`src/docs/src/reference/rust-api.md:480`), but a `SingleTimeSeries` floors the start and ceils the end,
  so `[t, t)` between two grid points reads one row (`store.rs:3235`).
- `CorruptMeansDamage` (`TimeReads`) – `IntegrityError` is "on-disk inconsistency detected"
  (`src/docs/src/reference/python-api.md:1675`), but a read of a sound store answers it whenever an instant it
  computes is beyond the calendar: a window's start (`store.rs:7282`), a point of a grid (`store.rs:3257`) or the end
  of a window asked for (`store.rs:406`, `467`, `508`). TLC's example is a forecast of four windows two months
  apart in a
  calendar of six months, which a write accepts and whose last window the binary search probes; a series
  re-described as such a forecast is another. `ReadsAreExact` and `ViewsTellTheTruth` state when it is answered.
- `ArrowKeepsEveryReference` (`TimeReads`) – `from_arrow` inverts `to_arrow`, but a zone named "unspecified" is
  the metadata's word for no reference (`infrastore-py` `lib.rs:986-999`).
- `BlockNeverLeaks` (`PyStore`) – a `with` block never leaves its level open (`infrastore-py` `lib.rs:3998`), but
  when `__exit__`'s commit fails the level stays, for the caller to retry or roll back (`store.rs:1815`).
- `MessageIsTheLastCalls` (`CAbi`) – every export clears the last message first (`infrastore-ffi` `lib.rs:19-21`),
  but `infrastore_init_logging` does not.

Further observations:

- An add that stages nothing skips the flush (`store.rs:6437`). If an earlier failed call could not remove
  what it had put, the next add of that content commits a row over unflushed bytes. This is why
  durability is stated for `~IOFaults`.
- An unstamped catalog beside stamped arrays is refused, although `metadata.rs:1108` says the check is
  skipped.
- `remove_timestamps` forgets the axis before an unlink that may fail (`storage/hdf5.rs:1766`).
- An attached open without a catalog creates one, which stays behind if the open then fails
  (`store.rs:1521`).
- A rollback restores `sqlite_sequence`, so an id handed out in a rolled-back transaction is handed out
  again, while `src/docs/src/explanation/data-model.md:142` says "an assigned id is never handed out twice".
  Of committed ids it is proved (`CommittedIdsAreStable`).
- An irregular series without instants has `Some([])` timestamps locally and `None` through the server: a
  repeated field cannot tell them apart (`convert.rs:172`).
- A copy of unstamped arrays (from before generation stamps) that is cut short during `VACUUM INTO` leaves an empty
  database beside them, which has no stamp either: the next open takes the pair and shows no series
  (`store.rs:1403`). With stamped arrays it is refused.
- The module comment of the C ABI says `buf` is filled "only when `cap` is large enough" (`infrastore-ffi`
  `lib.rs:54-56`), but
  the helper fills a smaller one with as much as fits. `TextFits` holds of both.
- `SingleTimeSeries::timestamps` expects its whole grid to be representable (`types/time_series.rs:479`), which
  `validate_single` does not check of its last point.
- `transform`'s idempotent skip accepts an existing view of the same identity over a different array
  (a copied one), while `store.rs:4421` says each series is re-described as a view of its own array. Import
  likewise accepts a view whose family's series is over another array.

## 7. Plan

Done, in this order: `StoreTxn` with its proofs, `Artifact`, `WriteBuffer` with proofs, `PackedFile` with
proofs, `OpenHandles`, `Catalog` with proofs; then the bindings, the time modules with queries and
associations, the readers, the server, and the buffer's abstract specification; then the proofs of the
refinement, the budget, rollbacks and the shared-set cache, reads from the packed file, `OpenHandles`,
`Artifact`, the bindings and the server's answers; then those of the readers, the bulk reads, the calendar,
the views and the reads by time.

Next:

1. **Server.** In `Remote`, that the queue lists exactly the waiting calls, once each, and that one call at
   most has the lock, for any number of clients.
2. **Values.** The codec of `Elements` over rows of any length, once its one fold is a function.

## 8. Not modelled

- The format re-stamp (`storage/hdf5.rs:1857`): `MIN_UPGRADABLE_VERSION` equals `DATA_FORMAT_VERSION`, so no
  stamp is upgradable and the code that owes a re-stamp is unreachable outside the repository's own tests.
- libhdf5's own write-back order: a crash keeps any subset of whole objects written since the last flush,
  which is as fine as the repository's argument (flush before commit) goes.
- The Julia and Python packages above the native bindings, the command line, Parquet and tabular exchange and
  OpenAPI rows: formatting, parsing and one pass over rows around the calls modelled here, with no state,
  interleaving or recovery of their own.
- The backend's gathering of columns and strips: it changes nothing, and `Readers` starts from what it
  returns or fails to return. SHA-256 and byte order, for which a hash is a model value.
- The integrity report, which evaluates on a live store what `NoDanglingRow` says of every state.
- TLS, the transport and `get_forecast_parameters` of the server; plain getters, reprs and pickling of
  the Python classes. Benchmarks are not part of the product.
