------------------------------ MODULE Artifact ------------------------------
(***************************************************************************)
(* An artifact is two files that are only usable together: the HDF5 arrays *)
(* at `path` and the SQLite catalog at `path.sqlite`, which may have a     *)
(* write-ahead log beside it.  No file system renames two files at once,   *)
(* so every call that makes, replaces, copies or rewrites an artifact has  *)
(* moments at which its halves do not belong together.  A generation       *)
(* stamp, written into both halves by every save, is what an open checks.  *)
(*                                                                         *)
(* This module follows one process at a time through those calls, one file *)
(* operation per step, and lets it fail or die between any two.  What a    *)
(* transaction does inside an open store is StoreTxn's; here a mutation is *)
(* one step.  Staged temporaries have unique names that nothing else ever  *)
(* resolves, so they appear only through the call that holds them.         *)
(***************************************************************************)
EXTENDS Naturals

CONSTANTS
    Paths,          \* where artifacts may live
    Arrays,         \* content hashes
    Absent,         \* no such file, store or call
    LegacyPaths,    \* paths that may hold a pair predating generation stamps
    MaxGen,         \* bound: generations minted
    ReopenFails     \* may reopening the array file after a swap fail?

Modes     == {"Attached", "InMemory"}
Gens      == 0 .. MaxGen
Unstamped == 0

ASSUME ArtifactConstants ==
    /\ LegacyPaths \subseteq Paths
    /\ MaxGen \in Nat
    /\ ReopenFails \in BOOLEAN
    /\ Absent \notin Paths
    /\ Absent \notin Gens

VARIABLES
    h5,             \* the array file at each path
    db,             \* the main database file at each path
    wal,            \* its write-ahead log: commits not yet checkpointed
    st,             \* the open store
    call,           \* the call in progress, between two of its file operations
    gens,           \* generations minted so far
    suspect         \* history: paths whose catalog on disk is knowingly behind
                    \* its arrays (see Remove, CompactRename, DropLog)

vars == <<h5, db, wal, st, call, gens, suspect>>
disk == <<h5, db, wal>>

\* A file without even the stamp of an unstamped one cannot be read at all.
ArrayFiles == [gen : Gens \cup {Absent}, arrays : SUBSET Arrays]
Catalogs   == [gen : Gens \cup {Absent}, rows : SUBSET Arrays]

\* What a copy cut short leaves.
TornArrays  == [gen |-> Absent, arrays |-> {}]
TornCatalog == [gen |-> Absent, rows |-> {}]

\* A database SQLite has made and not yet written reads as an empty catalog
\* without a stamp, which is also what a new one is.
EmptyFile == [gen |-> Unstamped, rows |-> {}]

\* A log holds the pages changed since the last checkpoint: always the rows'
\* here, and the stamp's only if the stamp was written since.
Logs == [gen : Gens \cup {Absent}, rows : SUBSET Arrays]

\* `file` tells the array file from the MemoryBackend that an in-memory store
\* has, and that stands in while a swap has the file closed.  `rows` is the
\* catalog of an InMemory store; an attached one is on disk.
Stores == [path : Paths \cup {Absent}, mode : Modes, rows : SUBSET Arrays,
           file : BOOLEAN, mem : SUBSET Arrays]

Pairs == ArrayFiles \X Catalogs

Calls == [op : {"create", "replace", "copy", "persist", "catalog", "compact"},
          path : Paths, at : {"arrays", "stamp", "wal", "catalog", "vacuum", "open", "undo"},
          mode : Modes, src : Paths \cup {Absent}, gen : Gens,
          rows : SUBSET Arrays, before : SUBSET Pairs]

ASSUME NoneIsAbsent ==
    /\ Absent \notin ArrayFiles
    /\ Absent \notin Catalogs
    /\ Absent \notin Logs
    /\ Absent \notin Stores
    /\ Absent \notin Calls

-----------------------------------------------------------------------------
(* What the files say.                                                     *)

\* The catalog a connection reads: the log laid over the database.
Catalog(p) ==
    [gen  |-> IF wal[p] # Absent /\ wal[p].gen # Absent THEN wal[p].gen ELSE db[p].gen,
     rows |-> IF wal[p] # Absent THEN wal[p].rows ELSE db[p].rows]

\* Fault: a half without a stamp is let through.
StampsAgreeIfBoth(p) ==
    \/ h5[p].gen = Unstamped
    \/ Catalog(p).gen = Unstamped
    \/ h5[p].gen = Catalog(p).gen

\* check_generation_pair: both stamped alike, or neither stamped.
StampsAgree(p) == h5[p].gen = Catalog(p).gen

ArraysReadable(p) == h5[p] # Absent /\ h5[p].gen # Absent

CatalogReadable(p) == db[p] # Absent /\ Catalog(p).gen # Absent

\* An open of this path would succeed and find a catalog there.
Openable(p) == ArraysReadable(p) /\ CatalogReadable(p) /\ StampsAgree(p)

\* What that open would show.
Shown(p) == <<h5[p], Catalog(p)>>

Idle == call = Absent

\* A store whose backend is the one it is meant to have.
Ready == Idle /\ st # Absent /\ (st.path = Absent \/ st.file)

LiveRows == IF st.mode = "Attached" THEN Catalog(st.path).rows ELSE st.rows

Stored == IF st.file THEN h5[st.path].arrays ELSE st.mem

\* Rows committed to the attached catalog at p go to its log.
Commit(p, R) ==
    wal' = [wal EXCEPT ![p] =
               [gen |-> IF wal[p] = Absent THEN Absent ELSE wal[p].gen, rows |-> R]]

\* MetadataStore::set_generation on the attached catalog at p.
Stamp(p, g) == wal' = [wal EXCEPT ![p] = [gen |-> g, rows |-> Catalog(p).rows]]

\* wal_checkpoint(TRUNCATE) of an attached catalog; nothing otherwise.
Checkpoint ==
    IF st.mode = "Attached" /\ wal[st.path] # Absent
    THEN /\ db' = [db EXCEPT ![st.path] = Catalog(st.path)]
         /\ wal' = [wal EXCEPT ![st.path] = Absent]
    ELSE UNCHANGED <<db, wal>>

\* Removing the log of a database that stays in place takes its latest commits
\* away: until the database goes too, what is left is a catalog gone stale.
DropLog(p) ==
    /\ wal' = [wal EXCEPT ![p] = Absent]
    /\ suspect' = IF wal[p] = Absent THEN suspect ELSE suspect \cup {p}

\* Store::from_parts on the two halves at p.
Opened(p, mode, R) ==
    st' = [path |-> p, mode |-> mode, rows |-> IF mode = "Attached" THEN {} ELSE R,
           file |-> TRUE, mem |-> {}]

NewCall(op, p, at, mode) ==
    [op |-> op, path |-> p, at |-> at, mode |-> mode, src |-> Absent,
     gen |-> Unstamped, rows |-> {}, before |-> {}]

At(op, at) == call # Absent /\ call.op = op /\ call.at = at

Advance(at) == call' = [call EXCEPT !.at = at]

-----------------------------------------------------------------------------
(* Making an artifact.                                                     *)

CreateInMemory ==
    /\ Idle
    /\ st = Absent
    /\ st' = [path |-> Absent, mode |-> "InMemory", rows |-> {}, file |-> FALSE, mem |-> {}]
    /\ UNCHANGED <<disk, call, gens, suspect>>

\* create_with_catalog: an attached catalog is created first.
CreateBegin(p, mode) ==
    /\ Idle
    /\ st = Absent
    /\ h5[p] = Absent
    /\ db[p] = Absent
    /\ gens < MaxGen
    /\ db' = IF mode = "Attached"
             THEN [db EXCEPT ![p] = EmptyFile] ELSE db
    /\ call' = NewCall("create", p, "arrays", mode)
    /\ UNCHANGED <<h5, wal, st, gens, suspect>>

CreateArrays ==
    /\ At("create", "arrays")
    /\ h5' = [h5 EXCEPT ![call.path] = [gen |-> Unstamped, arrays |-> {}]]
    /\ Advance("stamp")
    /\ UNCHANGED <<db, wal, st, gens, suspect>>

\* Both halves are stamped at birth, the array file first.
CreateStampArrays ==
    /\ At("create", "stamp")
    /\ gens' = gens + 1
    /\ h5' = [h5 EXCEPT ![call.path].gen = gens']
    /\ Advance("catalog")
    /\ UNCHANGED <<db, wal, st, suspect>>

CreateStampCatalog ==
    /\ At("create", "catalog")
    /\ IF call.mode = "Attached" THEN Stamp(call.path, h5[call.path].gen) ELSE UNCHANGED wal
    /\ Opened(call.path, call.mode, {})
    /\ call' = Absent
    /\ suspect' = suspect \ {call.path}
    /\ UNCHANGED <<h5, db, gens>>

\* create_replacing: the log goes before the database it belongs to, the
\* database before the arrays, and then a plain create runs.
ReplaceBegin(p, mode) ==
    /\ Idle
    /\ st = Absent
    /\ gens < MaxGen
    /\ call' = NewCall("replace", p, "wal", mode)
    /\ UNCHANGED <<disk, st, gens, suspect>>

ReplaceRemoveWal ==
    /\ At("replace", "wal")
    /\ DropLog(call.path)
    /\ Advance("catalog")
    /\ UNCHANGED <<h5, db, st, gens>>

ReplaceRemoveCatalog ==
    /\ At("replace", "catalog")
    /\ db' = [db EXCEPT ![call.path] = Absent]
    /\ Advance("arrays")
    /\ suspect' = suspect \ {call.path}
    /\ UNCHANGED <<h5, wal, st, gens>>

ReplaceRemoveArrays ==
    /\ At("replace", "arrays")
    /\ h5' = [h5 EXCEPT ![call.path] = Absent]
    /\ db' = IF call.mode = "Attached"
             THEN [db EXCEPT ![call.path] = EmptyFile] ELSE db
    /\ call' = NewCall("create", call.path, "arrays", call.mode)
    /\ UNCHANGED <<wal, st, gens, suspect>>

-----------------------------------------------------------------------------
(* Opening one.                                                            *)

\* open_with_catalog of a complete pair.
Open(p, mode) ==
    /\ Idle
    /\ st = Absent
    /\ Openable(p)
    /\ Opened(p, mode, Catalog(p).rows)
    /\ UNCHANGED <<disk, call, gens, suspect>>

\* An attached open of an array file with no catalog creates one, which the
\* check after it refuses unless the arrays are unstamped too; it stays behind.
OpenNoCatalog(p) ==
    /\ Idle
    /\ st = Absent
    /\ ArraysReadable(p)
    /\ db[p] = Absent
    /\ db' = [db EXCEPT ![p] = EmptyFile]
    /\ IF h5[p].gen = Unstamped THEN Opened(p, "Attached", {}) ELSE UNCHANGED st
    /\ UNCHANGED <<h5, wal, call, gens, suspect>>

\* open_without_catalog: the fresh catalog takes the array file's own stamp.
OpenWithoutCatalog(p, mode) ==
    /\ Idle
    /\ st = Absent
    /\ ArraysReadable(p)
    /\ db[p] = Absent
    /\ db' = IF mode = "Attached"
             THEN [db EXCEPT ![p] = [gen |-> h5[p].gen, rows |-> {}]] ELSE db
    /\ Opened(p, mode, {})
    /\ UNCHANGED <<h5, wal, call, gens, suspect>>

\* open_copy copies the arrays byte for byte.
CopyBegin(src, p, mode) ==
    /\ Idle
    /\ st = Absent
    /\ h5[src] # Absent
    /\ h5[p] = Absent
    /\ db[p] = Absent
    /\ h5' = [h5 EXCEPT ![p] = TornArrays]
    /\ call' = [NewCall("copy", p, "arrays", mode) EXCEPT !.src = src]
    /\ suspect' = IF src \in suspect THEN suspect \cup {p} ELSE suspect \ {p}
    /\ UNCHANGED <<db, wal, st, gens>>

CopyArrays ==
    /\ At("copy", "arrays")
    /\ h5' = [h5 EXCEPT ![call.path] = h5[call.src]]
    /\ Advance("catalog")
    /\ UNCHANGED <<db, wal, st, gens, suspect>>

\* A source without a catalog: nothing is copied, and the open decides.
CopyNoCatalog ==
    /\ At("copy", "catalog")
    /\ db[call.src] = Absent
    /\ Advance("open")
    /\ UNCHANGED <<disk, st, gens, suspect>>

CopyCatalogBegin ==
    /\ At("copy", "catalog")
    /\ db[call.src] # Absent
    /\ \E f \in {EmptyFile, TornCatalog} : db' = [db EXCEPT ![call.path] = f]
    /\ Advance("vacuum")
    /\ UNCHANGED <<h5, wal, st, gens, suspect>>

\* Fault: the main database file is copied and its log is not.
CopyMainFileOnly ==
    /\ At("copy", "vacuum")
    /\ CatalogReadable(call.src)
    /\ db' = [db EXCEPT ![call.path] = db[call.src]]
    /\ Advance("open")
    /\ UNCHANGED <<h5, wal, st, gens, suspect>>

\* VACUUM INTO reads the source through its log and writes one file.
CopyCatalog ==
    /\ At("copy", "vacuum")
    /\ CatalogReadable(call.src)
    /\ db' = [db EXCEPT ![call.path] = Catalog(call.src)]
    /\ Advance("open")
    /\ UNCHANGED <<h5, wal, st, gens, suspect>>

\* open_with_catalog on the copy.
CopyOpen ==
    /\ At("copy", "open")
    /\ \/ /\ Openable(call.path)
          /\ Opened(call.path, call.mode, Catalog(call.path).rows)
          /\ UNCHANGED db
       \* no catalog to copy, and arrays from before stamps: as OpenNoCatalog
       \/ /\ db[call.path] = Absent
          /\ call.mode = "Attached"
          /\ h5[call.path].gen = Unstamped
          /\ db' = [db EXCEPT ![call.path] = EmptyFile]
          /\ Opened(call.path, call.mode, {})
    /\ call' = Absent
    /\ UNCHANGED <<h5, wal, gens, suspect>>

\* A failure anywhere in the call removes what it made, the arrays first; a
\* removal that fails as well is not reported.
CopyUndoArrays ==
    /\ call # Absent
    /\ call.op = "copy"
    /\ call.at # "undo"
    /\ \/ h5' = [h5 EXCEPT ![call.path] = Absent]
       \/ UNCHANGED h5
    /\ Advance("undo")
    /\ UNCHANGED <<db, wal, st, gens, suspect>>

CopyUndoCatalog ==
    /\ At("copy", "undo")
    /\ \/ db' = [db EXCEPT ![call.path] = Absent]
       \/ UNCHANGED db
    /\ call' = Absent
    /\ UNCHANGED <<h5, wal, st, gens, suspect>>

-----------------------------------------------------------------------------
(* Using it.                                                               *)

\* The arrays are flushed before the row commits.
Add(a) ==
    /\ Ready
    /\ a \notin LiveRows
    /\ IF st.file
       THEN h5' = [h5 EXCEPT ![st.path].arrays = @ \cup {a}]
       ELSE UNCHANGED h5
    /\ IF st.mode = "Attached" THEN Commit(st.path, LiveRows \cup {a}) ELSE UNCHANGED wal
    /\ st' = [st EXCEPT !.rows = IF st.mode = "Attached" THEN @ ELSE @ \cup {a},
                        !.mem = IF st.file THEN @ ELSE @ \cup {a}]
    /\ UNCHANGED <<db, call, gens, suspect>>

\* The row goes first, then the array nothing names any more.  With the catalog
\* in memory the one on disk still names it.
Remove(a) ==
    /\ Ready
    /\ a \in LiveRows
    /\ IF st.file
       THEN h5' = [h5 EXCEPT ![st.path].arrays = @ \ {a}]
       ELSE UNCHANGED h5
    /\ IF st.mode = "Attached" THEN Commit(st.path, LiveRows \ {a}) ELSE UNCHANGED wal
    /\ st' = [st EXCEPT !.rows = @ \ {a}, !.mem = @ \ {a}]
    /\ suspect' = IF st.mode = "InMemory" /\ st.file THEN suspect \cup {st.path} ELSE suspect
    /\ UNCHANGED <<db, call, gens>>

\* flush, an automatic checkpoint, or a save of an attached store onto itself.
Flush ==
    /\ Ready
    /\ Checkpoint
    /\ UNCHANGED <<h5, st, call, gens, suspect>>

\* The last connection to close checkpoints and removes the log.
Close ==
    /\ Idle
    /\ st # Absent
    /\ Checkpoint
    /\ st' = Absent
    /\ UNCHANGED <<h5, call, gens, suspect>>

-----------------------------------------------------------------------------
(* Saving it: persist_to.                                                  *)

\* Fault: the save carries the stamp of the store it is made from.
PersistReusesStamp(p) ==
    /\ Ready
    /\ st.mode = "Attached"
    /\ st.path # p
    /\ LiveRows \subseteq Stored
    /\ Checkpoint
    /\ call' = [NewCall("persist", p, "arrays", st.mode)
                  EXCEPT !.gen = h5[st.path].gen, !.rows = LiveRows,
                         !.before = IF Openable(p) THEN {Shown(p)} ELSE {}]
    /\ UNCHANGED <<h5, st, gens, suspect>>

\* Both halves are staged and synced beside the destination.  Reading an array
\* the backend lacks fails the staging, and nothing has been touched.
PersistBegin(p) ==
    /\ Ready
    /\ ~(st.mode = "Attached" /\ st.path = p)
    /\ LiveRows \subseteq Stored
    /\ gens < MaxGen
    /\ gens' = gens + 1
    /\ Checkpoint
    /\ call' = [NewCall("persist", p, "arrays", st.mode)
                  EXCEPT !.gen = gens', !.rows = LiveRows,
                         !.before = IF Openable(p) THEN {Shown(p)} ELSE {}]
    \* the destination is the file this handle has open: it is closed first
    /\ st' = IF st.path = p THEN [st EXCEPT !.file = FALSE] ELSE st
    /\ UNCHANGED <<h5, suspect>>

\* swap_into_place, one operation at a time.
PersistRenameArrays ==
    /\ At("persist", "arrays")
    /\ h5' = [h5 EXCEPT ![call.path] = [gen |-> call.gen, arrays |-> call.rows]]
    /\ Advance("wal")
    /\ UNCHANGED <<db, wal, st, gens, suspect>>

PersistRemoveWal ==
    /\ At("persist", "wal")
    /\ wal' = [wal EXCEPT ![call.path] = Absent]
    /\ Advance("catalog")
    /\ UNCHANGED <<h5, db, st, gens, suspect>>

PersistRenameCatalog ==
    /\ At("persist", "catalog")
    /\ db' = [db EXCEPT ![call.path] = [gen |-> call.gen, rows |-> call.rows]]
    /\ Advance("open")
    /\ suspect' = suspect \ {call.path}
    /\ UNCHANGED <<h5, wal, st, gens>>

\* The call comes back, with success once both renames are done: a closed array
\* file is reopened either way, and that itself may fail.
Return ==
    /\ \/ call # Absent /\ call.op = "persist"
       \/ call # Absent /\ call.op = "compact"
    /\ call' = Absent
    /\ \/ st' = IF st.path = call.path THEN [st EXCEPT !.file = TRUE] ELSE st
       \/ /\ ReopenFails
          /\ UNCHANGED st
    /\ UNCHANGED <<disk, gens, suspect>>

-----------------------------------------------------------------------------
(* Saving half of it.                                                      *)

\* persist_arrays_to: one rename, refused beside a catalog.
PersistArrays(p) ==
    /\ Ready
    /\ st.path # p
    /\ db[p] = Absent
    /\ LiveRows \subseteq Stored
    /\ gens < MaxGen
    /\ gens' = gens + 1
    /\ h5' = [h5 EXCEPT ![p] = [gen |-> gens', arrays |-> LiveRows]]
    /\ Checkpoint
    /\ UNCHANGED <<st, call, suspect>>

\* persist_catalog of an in-memory catalog, stamped like the arrays beside it.
CatalogBegin ==
    /\ Ready
    /\ st.mode = "InMemory"
    /\ st.file
    /\ call' = [NewCall("catalog", st.path, "wal", st.mode)
                  EXCEPT !.gen = h5[st.path].gen, !.rows = st.rows,
                         !.before = IF Openable(st.path) THEN {Shown(st.path)} ELSE {}]
    /\ UNCHANGED <<disk, st, gens, suspect>>

CatalogRemoveWal ==
    /\ At("catalog", "wal")
    /\ DropLog(call.path)
    /\ Advance("catalog")
    /\ UNCHANGED <<h5, db, st, gens>>

CatalogRename ==
    /\ At("catalog", "catalog")
    /\ db' = [db EXCEPT ![call.path] = [gen |-> call.gen, rows |-> call.rows]]
    /\ Advance("open")
    /\ suspect' = IF call.rows \subseteq h5[call.path].arrays
                  THEN suspect \ {call.path} ELSE suspect
    /\ UNCHANGED <<h5, wal, st, gens>>

CatalogReturn ==
    /\ call # Absent
    /\ call.op = "catalog"
    /\ call' = Absent
    /\ UNCHANGED <<disk, st, gens, suspect>>

-----------------------------------------------------------------------------
(* Rewriting its arrays: compact.                                          *)

\* Fault: the rewritten file is stamped like a save.
CompactBeginMints ==
    /\ Ready
    /\ st.file
    /\ LiveRows \subseteq Stored
    /\ gens < MaxGen
    /\ gens' = gens + 1
    /\ Checkpoint
    /\ call' = [NewCall("compact", st.path, "arrays", st.mode)
                  EXCEPT !.gen = gens', !.rows = LiveRows]
    /\ st' = [st EXCEPT !.file = FALSE]
    /\ UNCHANGED <<h5, suspect>>

\* The live set is staged beside the file under the existing stamp, and the
\* handle is closed for the rename.
CompactBegin ==
    /\ Ready
    /\ st.file
    /\ LiveRows \subseteq Stored
    /\ Checkpoint
    /\ call' = [NewCall("compact", st.path, "arrays", st.mode)
                  EXCEPT !.gen = h5[st.path].gen, !.rows = LiveRows]
    /\ st' = [st EXCEPT !.file = FALSE]
    /\ UNCHANGED <<h5, gens, suspect>>

CompactRename ==
    /\ At("compact", "arrays")
    /\ h5' = [h5 EXCEPT ![call.path] = [gen |-> call.gen, arrays |-> call.rows]]
    /\ Advance("open")
    /\ suspect' = IF st.mode = "InMemory" THEN suspect \cup {call.path} ELSE suspect
    /\ UNCHANGED <<db, wal, st, gens>>

-----------------------------------------------------------------------------
\* The process dies, or a call that was opening a store gives up.
Crash ==
    /\ st # Absent \/ call # Absent
    /\ st' = Absent
    /\ call' = Absent
    /\ UNCHANGED <<disk, gens, suspect>>

Init ==
    /\ \E old \in [LegacyPaths -> {Absent} \cup SUBSET Arrays] :
           /\ h5 = [p \in Paths |->
                       IF p \in LegacyPaths /\ old[p] # Absent
                       THEN [gen |-> Unstamped, arrays |-> old[p]] ELSE Absent]
           /\ db = [p \in Paths |->
                       IF p \in LegacyPaths /\ old[p] # Absent
                       THEN [gen |-> Unstamped, rows |-> old[p]] ELSE Absent]
    /\ wal = [p \in Paths |-> Absent]
    /\ st = Absent
    /\ call = Absent
    /\ gens = 0
    /\ suspect = {}

Next ==
    \/ CreateInMemory
    \/ \E p \in Paths, m \in Modes :
          \/ CreateBegin(p, m)
          \/ ReplaceBegin(p, m)
          \/ Open(p, m)
          \/ OpenWithoutCatalog(p, m)
          \/ \E src \in Paths : CopyBegin(src, p, m)
    \/ \E p \in Paths : OpenNoCatalog(p) \/ PersistBegin(p) \/ PersistArrays(p)
    \/ \E a \in Arrays : Add(a) \/ Remove(a)
    \/ CreateArrays
    \/ CreateStampArrays
    \/ CreateStampCatalog
    \/ ReplaceRemoveWal
    \/ ReplaceRemoveCatalog
    \/ ReplaceRemoveArrays
    \/ CopyArrays
    \/ CopyNoCatalog
    \/ CopyCatalogBegin
    \/ CopyCatalog
    \/ CopyOpen
    \/ CopyUndoArrays
    \/ CopyUndoCatalog
    \/ Flush
    \/ Close
    \/ PersistRenameArrays
    \/ PersistRemoveWal
    \/ PersistRenameCatalog
    \/ Return
    \/ CatalogBegin
    \/ CatalogRemoveWal
    \/ CatalogRename
    \/ CatalogReturn
    \/ CompactBegin
    \/ CompactRename
    \/ Crash

Spec == Init /\ [][Next]_vars

-----------------------------------------------------------------------------
(* Properties.                                                             *)

\* Every variable has its type, a log always has its database, and a store with
\* its catalog attached has both its files.
TypeOK ==
    /\ h5 \in [Paths -> ArrayFiles \cup {Absent}]
    /\ db \in [Paths -> Catalogs \cup {Absent}]
    /\ wal \in [Paths -> Logs \cup {Absent}]
    /\ st \in Stores \cup {Absent}
    /\ call \in Calls \cup {Absent}
    /\ gens \in Gens
    /\ suspect \subseteq Paths
    /\ \A p \in Paths : wal[p] # Absent => db[p] # Absent
    /\ st # Absent /\ st.mode = "Attached" => st.path # Absent /\ db[st.path] # Absent

\* Whatever call was cut short and wherever, a path that opens is whole: every
\* row the open shows has its array.  Excepted are the paths known to be behind:
\* a session changed the arrays in place with its catalog in memory, or a call
\* stopped between removing a database's log and the database.
OpensWhole ==
    \A p \in Paths \ suspect :
        Openable(p) => Catalog(p).rows \subseteq h5[p].arrays

\* While persist_to is under way its destination either refuses to open or
\* shows one complete pair, the one before or the one being saved; and once the
\* last rename of a save is done it has taken: the destination opens, and on
\* exactly the saved rows, whatever log was left beside it (swap_into_place,
\* persist_catalog).
SaveIsAllOrNothing ==
    call # Absent =>
        /\ call.op = "persist" /\ Openable(call.path)
             => Shown(call.path) \in call.before \cup
                   {<<[gen |-> call.gen, arrays |-> call.rows],
                      [gen |-> call.gen, rows |-> call.rows]>>}
        /\ call.op \in {"persist", "catalog"} /\ call.at = "open"
             => Openable(call.path) /\ Catalog(call.path).rows = call.rows

\* A store with its catalog attached can be reopened after a crash at any
\* moment: no call of its own, compact included, unpairs its halves.
AttachedAlwaysReopens ==
    st # Absent /\ st.mode = "Attached" => Openable(st.path)

\* What persist_catalog's documentation promises, "unlike persist_to this is
\* atomic": at every moment an open shows the catalog before or the one after.
CatalogSaveIsAtomic ==
    call # Absent /\ call.op = "catalog" /\ call.before # {} /\ Openable(call.path)
        => \/ \E b \in call.before : Catalog(call.path) = b[2]
           \/ Catalog(call.path).rows = call.rows

\* What compact and persist_to say of the backend that stands in during a swap,
\* "never observed": no caller ever gets back a store without its array file.
PlaceholderNeverObserved ==
    Idle /\ st # Absent /\ st.path # Absent => st.file

-----------------------------------------------------------------------------
(* Why.                                                                    *)

\* A stamp is minted once, so no file has one that is still to come.
StampsMinted ==
    \A p \in Paths :
        /\ h5[p] # Absent /\ h5[p].gen # Absent => h5[p].gen <= gens
        /\ db[p] # Absent /\ db[p].gen # Absent => db[p].gen <= gens
        /\ wal[p] # Absent /\ wal[p].gen # Absent => wal[p].gen <= gens

\* A store on disk has its array file, and one with its catalog in memory knows
\* of an array that file lacks only if its path is known to be behind.
StoreInv ==
    /\ call # Absent => (st = Absent <=> call.op \in {"create", "replace", "copy"})
    /\ st # Absent /\ st.path = Absent => st.mode = "InMemory" /\ ~st.file
    /\ st # Absent /\ st.path # Absent =>
          /\ ArraysReadable(st.path)
          /\ st.mode = "InMemory" /\ st.path \notin suspect => st.rows \subseteq h5[st.path].arrays

CreateInv ==
    call.op = "create" =>
        /\ call.at \in {"arrays", "stamp", "catalog"}
        /\ call.at # "catalog" => gens < MaxGen
        /\ call.at # "arrays" => ArraysReadable(call.path)
        /\ db[call.path] = IF call.mode = "Attached" THEN EmptyFile ELSE Absent
        /\ wal[call.path] = Absent

ReplaceInv ==
    call.op = "replace" =>
        /\ call.at \in {"wal", "catalog", "arrays"}
        /\ gens < MaxGen
        /\ call.at # "wal" => wal[call.path] = Absent
        /\ call.at = "arrays" => db[call.path] = Absent

\* The copy has the arrays of its source once they are whole, and what the
\* source would show once it has a whole catalog.
CopyInv ==
    call.op = "copy" =>
        /\ call.at \in {"arrays", "catalog", "vacuum", "open", "undo"}
        /\ call.src \in Paths \ {call.path}
        /\ call.src \in suspect => call.path \in suspect
        /\ h5[call.src] # Absent
        /\ wal[call.path] = Absent
        /\ call.at = "arrays" => h5[call.path] = TornArrays
        /\ call.at \in {"catalog", "vacuum", "open"} => h5[call.path] = h5[call.src]
        /\ call.at \in {"arrays", "catalog"} => db[call.path] = Absent
        /\ call.at = "vacuum" => db[call.path] \in {EmptyFile, TornCatalog}
        /\ call.at = "open" =>
              db[call.path] = IF db[call.src] # Absent THEN Catalog(call.src) ELSE Absent

\* Until the last rename no catalog at the destination has the stamp of the save.
PersistInv ==
    call.op = "persist" =>
        /\ call.at \in {"arrays", "wal", "catalog", "open"}
        /\ call.gen <= gens
        /\ st.path = call.path => st.mode = "InMemory" /\ st.rows = call.rows
        /\ call.at = "arrays" /\ Openable(call.path) => Shown(call.path) \in call.before
        /\ call.at # "arrays" => h5[call.path] = [gen |-> call.gen, arrays |-> call.rows]
        /\ call.at # "open" =>
              /\ db[call.path] # Absent => db[call.path].gen # call.gen
              /\ wal[call.path] # Absent => wal[call.path].gen # call.gen
        /\ call.at \in {"catalog", "open"} => wal[call.path] = Absent
        /\ call.at = "open" => db[call.path] = [gen |-> call.gen, rows |-> call.rows]

CatalogInv ==
    call.op = "catalog" =>
        /\ call.at \in {"wal", "catalog", "open"}
        /\ st.path = call.path
        /\ st.mode = "InMemory"
        /\ st.rows = call.rows
        /\ h5[call.path].gen = call.gen
        /\ call.at # "wal" => wal[call.path] = Absent
        /\ call.at = "open" => db[call.path] = [gen |-> call.gen, rows |-> call.rows]

CompactInv ==
    call.op = "compact" =>
        /\ call.at \in {"arrays", "open"}
        /\ st.path = call.path
        /\ call.at = "arrays" =>
              /\ h5[call.path].gen = call.gen
              /\ st.mode = "Attached" => call.rows = Catalog(call.path).rows

CallInv ==
    call # Absent => /\ CreateInv /\ ReplaceInv /\ CopyInv
                     /\ PersistInv /\ CatalogInv /\ CompactInv

ArtifactInv ==
    TypeOK /\ StampsMinted /\ StoreInv /\ CallInv /\ OpensWhole /\ AttachedAlwaysReopens

=============================================================================
