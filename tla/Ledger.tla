------------------------------- MODULE Ledger -------------------------------
(***************************************************************************)
(* Artifact, with a ledger beside it: for each path, the rows the calls    *)
(* that came back have left there.  The ledger is a history variable.  It  *)
(* knows no file, log or stamp: a mutation through an attached catalog     *)
(* adds or takes away its row, a new store has no rows, a save leaves the  *)
(* rows it was asked to save, and a copy leaves the rows of its source.    *)
(* A path from which nothing is promised any more has no entry.            *)
(***************************************************************************)
EXTENDS Artifact

ASSUME NoEntryIsAbsent == \A R \in SUBSET Arrays : R # Absent

VARIABLE told       \* at each path, the rows committed there, or Absent

ledgerVars == <<vars, told>>

Told(p, R) == told' = [told EXCEPT ![p] = R]

\* What an open shows becomes the entry of a path that has none.
OrShown(entry, p) == IF entry = Absent THEN Catalog(p).rows ELSE entry

NewStore ==
    \/ \E p \in Paths, m \in Modes : CreateBegin(p, m) /\ Told(p, {})
    \/ ReplaceRemoveArrays /\ Told(call.path, {})
    \/ \E p \in Paths : /\ OpenNoCatalog(p)
                        /\ IF st' = Absent THEN UNCHANGED told ELSE Told(p, {})
    \/ \E p \in Paths, m \in Modes :
          /\ OpenWithoutCatalog(p, m)
          /\ IF m = "Attached" THEN Told(p, {}) ELSE UNCHANGED told

OpenedStore ==
    \E p \in Paths, m \in Modes : Open(p, m) /\ Told(p, OrShown(told[p], p))

\* A mutation reaches the disk if the catalog is attached.
Mutation ==
    \E a \in Arrays :
        \/ /\ Add(a)
           /\ IF st.mode = "Attached" THEN Told(st.path, told[st.path] \cup {a})
                                      ELSE UNCHANGED told
        \/ /\ Remove(a)
           /\ IF st.mode = "Attached" THEN Told(st.path, told[st.path] \ {a})
                                      ELSE UNCHANGED told

\* A save has taken at its last rename.
Save == (PersistRenameCatalog \/ CatalogRename) /\ Told(call.path, call.rows)

\* The copy promises the rows of its source from the start.  One of arrays
\* without a stamp promises nothing before it opens, since an interrupted copy
\* of those opens on whatever catalog it finds.
Copy ==
    \/ \E src, p \in Paths, m \in Modes :
          /\ CopyBegin(src, p, m)
          /\ Told(p, IF h5[src].gen = Unstamped THEN Absent ELSE told[src])
    \/ /\ CopyOpen
       /\ Told(call.path, IF db[call.src] = Absent THEN {}
                          ELSE OrShown(told[call.src], call.path))

\* Calls that take the rows away on purpose, or drop a log with a crash to fear
\* before its database is replaced (CatalogSaveIsAtomic).
GivingUp ==
    \/ \E p \in Paths, m \in Modes : ReplaceBegin(p, m) /\ Told(p, Absent)
    \/ /\ CatalogRemoveWal
       /\ IF wal[call.path] = Absent THEN UNCHANGED told ELSE Told(call.path, Absent)

\* Everything else moves files about and leaves every promise standing.
Upkeep ==
    /\ \/ CreateInMemory \/ CreateArrays \/ CreateStampArrays \/ CreateStampCatalog
       \/ ReplaceRemoveWal \/ ReplaceRemoveCatalog
       \/ CopyArrays \/ CopyNoCatalog \/ CopyCatalogBegin \/ CopyCatalog
       \/ CopyUndoArrays \/ CopyUndoCatalog
       \/ Flush \/ Close \/ Crash
       \/ \E p \in Paths : PersistBegin(p) \/ PersistArrays(p)
       \/ PersistRenameArrays \/ PersistRemoveWal \/ Return
       \/ CatalogBegin \/ CatalogReturn
       \/ CompactBegin \/ CompactRename
    /\ UNCHANGED told

\* The rows a pair from before generation stamps was left with count as told.
LedgerInit ==
    /\ Init
    /\ told = [p \in Paths |-> IF db[p] = Absent THEN Absent ELSE db[p].rows]

LedgerNext == NewStore \/ OpenedStore \/ Mutation \/ Save \/ Copy \/ GivingUp \/ Upkeep

LedgerSpec == LedgerInit /\ [][LedgerNext]_ledgerVars

-----------------------------------------------------------------------------
(* Properties.                                                             *)

\* An open of this path shows what the ledger has for it.
Agrees(p) == Openable(p) /\ told[p] # Absent => Catalog(p).rows = told[p]

\* Whatever was cut short and wherever, a path that opens shows exactly the rows
\* committed there: those of a crashed writer's log, those of a save that took,
\* all those of a copy's source, and none of a save, a copy or a compaction that
\* did not come to its end (open_with_catalog after add, remove, persist_to,
\* open_copy, compact, flush and close).
NothingCommittedIsLost == \A p \in Paths : Agrees(p)

-----------------------------------------------------------------------------
(* Why.                                                                    *)

LedgerTyped == told \in [Paths -> (SUBSET Arrays) \cup {Absent}]

\* A store with its catalog attached has an entry and one that is being made an
\* empty one; a path being replaced has none, and a copy its source's.
LedgerKept ==
    /\ st # Absent /\ st.mode = "Attached" => told[st.path] # Absent
    /\ call # Absent /\ call.op = "create" => told[call.path] = {}
    /\ call # Absent /\ call.op = "replace" => told[call.path] = Absent
    /\ call # Absent /\ call.op = "copy" =>
          told[call.path] = IF h5[call.src].gen = Unstamped THEN Absent ELSE told[call.src]

LedgerInv == LedgerTyped /\ LedgerKept /\ NothingCommittedIsLost

=============================================================================
