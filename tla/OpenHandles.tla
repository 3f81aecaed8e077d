---------------------------- MODULE OpenHandles ----------------------------
(***************************************************************************)
(* Several threads of one process, each making, opening, copying, saving   *)
(* and closing stores.  A store trusts for its lifetime what it read from  *)
(* its files when it opened them, so nobody else may replace, truncate or  *)
(* remove them meanwhile.  OPEN_ARTIFACTS, a list of paths behind a mutex, *)
(* is what the calls agree through: each takes a guard on the path it is   *)
(* about to touch and a store keeps its guard until it is dropped.         *)
(*                                                                         *)
(* One step is one file operation or one critical section of that mutex.   *)
(* A file is a name for its identity and content as somebody last wrote it *)
(* wholesale; what a store writes inside its own files is StoreTxn's, and  *)
(* whether two halves belong together is Artifact's, so here a call may    *)
(* fail for such reasons, or for any other, at any of its steps.           *)
(***************************************************************************)
EXTENDS Naturals, FiniteSets

CONSTANTS
    Threads,        \* callers, each with at most one store and one call
    Paths,          \* artifact_key's results: canonical paths
    Files,          \* what may be found at a path
    Absent,         \* no such file, store or call
    PrivateCopies   \* does nobody else use the destination of a running open_copy?

ASSUME HandleConstants ==
    /\ PrivateCopies \in BOOLEAN
    /\ Absent \notin Paths
    /\ Absent \notin Files

VARIABLES
    open,           \* OPEN_ARTIFACTS
    h5,             \* the array file at each path
    db,             \* the catalog file at each path, its log included
    store,          \* each thread's store
    call            \* each thread's call, between two of its steps

vars == <<open, h5, db, store, call>>

Modes == {"Attached", "InMemory"}

\* The files a store reads and writes.  `h5` is Absent while a swap has it
\* closed, and `db` when the catalog is in memory.
Stores == [path : Paths \cup {Absent}, mode : Modes,
           h5 : Files \cup {Absent}, db : Files \cup {Absent}]

\* `held`: the call has its guard; `copy`: it is the open inside an open_copy;
\* `h5`, `db`: the files it has opened or put in place; `made`: those it wrote.
Calls == [op : {"create", "replace", "open", "bare", "copy", "persist", "arrays", "close"},
          at : {"acquire", "check", "arrays", "catalog", "stamp", "cleanup", "release"},
          path : Paths, src : Paths, mode : Modes, held : BOOLEAN, copy : BOOLEAN,
          h5 : Files \cup {Absent}, db : Files \cup {Absent}, made : SUBSET Files]

ASSUME NoneIsAbsent == Absent \notin Stores /\ Absent \notin Calls

-----------------------------------------------------------------------------

Known(t) ==
    (IF store[t] = Absent THEN {} ELSE {store[t].h5, store[t].db})
    \cup (IF call[t] = Absent THEN {} ELSE {call[t].h5, call[t].db} \cup call[t].made)

Unused == Files \ ({h5[p] : p \in Paths} \cup {db[p] : p \in Paths}
                     \cup UNION {Known(t) : t \in Threads})

At(t, op, at) == call[t] # Absent /\ call[t].op = op /\ call[t].at = at

Idle(t) == call[t] = Absent

Advance(t, at) == call' = [call EXCEPT ![t].at = at]

NewCall(op, at, p, mode) ==
    [op |-> op, at |-> at, path |-> p, src |-> p, mode |-> mode, held |-> FALSE,
     copy |-> FALSE, h5 |-> Absent, db |-> Absent, made |-> {}]

\* The callers' side of PrivateCopies.
InUse(p) == \E u \in Threads : \/ call[u] # Absent /\ call[u].path = p
                               \/ store[u] # Absent /\ store[u].path = p

CopyingTo(p) == \E u \in Threads :
                   /\ call[u] # Absent
                   /\ call[u].path = p
                   /\ call[u].op = "copy" \/ call[u].copy

MayTarget(p) == PrivateCopies => ~CopyingTo(p)

-----------------------------------------------------------------------------
(* The registry.                                                           *)

\* Fault: the destination of a save is probed, not held.
AcquireProbes(t) ==
    /\ call[t] # Absent
    /\ call[t].at = "acquire"
    /\ call[t].path \notin open
    /\ LET held == call[t].op # "persist"
       IN  /\ open' = IF held THEN open \cup {call[t].path} ELSE open
           /\ call' = [call EXCEPT ![t].held = held,
                            ![t].at = CASE call[t].op = "replace" -> "catalog"
                                        [] call[t].op \in {"open", "persist"} -> "arrays"
                                        [] OTHER -> "check"]
    /\ UNCHANGED <<h5, db, store>>

\* OpenGuard::acquire, and what the call does next.  A refusal is a CallFails.
Acquire(t) ==
    /\ call[t] # Absent
    /\ call[t].at = "acquire"
    /\ call[t].path \notin open
    /\ open' = open \cup {call[t].path}
    /\ call' = [call EXCEPT ![t].held = TRUE,
                            ![t].at = CASE call[t].op = "replace" -> "catalog"
                                        [] call[t].op \in {"open", "persist"} -> "arrays"
                                        [] OTHER -> "check"]
    /\ UNCHANGED <<h5, db, store>>

Released(t) == IF call[t].held THEN open \ {call[t].path} ELSE open

\* from_parts: the guard moves into the store.
Opens(t, a, c) ==
    /\ store' = [store EXCEPT ![t] = [path |-> call[t].path, mode |-> call[t].mode,
                                      h5 |-> a, db |-> c]]
    /\ call' = [call EXCEPT ![t] = Absent]

\* Dropping a store closes its files; its guard, the last field, goes after.
Close(t) ==
    /\ Idle(t)
    /\ store[t] # Absent
    /\ store' = [store EXCEPT ![t] = Absent]
    /\ call' = IF store[t].path = Absent THEN call
               ELSE [call EXCEPT ![t] = [NewCall("close", "release", store[t].path, store[t].mode)
                                           EXCEPT !.held = TRUE]]
    /\ UNCHANGED <<open, h5, db>>

CloseReleases(t) ==
    /\ At(t, "close", "release")
    /\ open' = Released(t)
    /\ call' = [call EXCEPT ![t] = Absent]
    /\ UNCHANGED <<h5, db, store>>

\* The cleanup of an open_copy: what is at its destination is removed.
Cleaning(t) == At(t, "copy", "cleanup") \/ At(t, "copy", "release")

\* Fault: the guard of a failed call is forgotten, not dropped.
CallFailsHolding(t) ==
    /\ call[t] # Absent
    /\ call[t].op # "close"
    /\ ~Cleaning(t)
    /\ call' = [call EXCEPT ![t] = Absent]
    /\ UNCHANGED <<open, h5, db, store>>

\* Any error, StoreInUse and StoreExists included, drops the guard if the call
\* had one.  An open_copy past its check goes on to its cleanup, which the open
\* of the copy is inside of too; a save onto the store's own path reopens the
\* file that is there now.
CallFails(t) ==
    /\ call[t] # Absent
    /\ call[t].op # "close"
    /\ ~Cleaning(t)
    /\ open' = Released(t)
    /\ call' = [call EXCEPT ![t] =
                  IF call[t].copy /\ call[t].at # "check"
                  THEN [call[t] EXCEPT !.op = "copy", !.at = "cleanup", !.held = FALSE]
                  ELSE Absent]
    /\ store' = IF store[t] # Absent /\ store[t].path = call[t].path
                THEN [store EXCEPT ![t].h5 = h5[call[t].path]] ELSE store
    /\ UNCHANGED <<h5, db>>

-----------------------------------------------------------------------------
(* Making a store.                                                         *)

\* A store in memory has no path and takes no guard.
CreateInMemory(t) ==
    /\ Idle(t)
    /\ store[t] = Absent
    /\ store' = [store EXCEPT ![t] = [path |-> Absent, mode |-> "InMemory",
                                      h5 |-> Absent, db |-> Absent]]
    /\ UNCHANGED <<open, h5, db, call>>

\* Fault: create_replacing leaves the guard to the create it ends in.
BeginReplaceUnguarded(t, op, p, mode) ==
    /\ Idle(t)
    /\ store[t] = Absent
    /\ MayTarget(p)
    /\ call' = [call EXCEPT ![t] =
                  NewCall(op, IF op = "replace" THEN "catalog" ELSE "acquire", p, mode)]
    /\ UNCHANGED <<open, h5, db, store>>

\* create_with_catalog, create_replacing, open_with_catalog, open_without_catalog
Begin(t, op, p, mode) ==
    /\ Idle(t)
    /\ store[t] = Absent
    /\ MayTarget(p)
    /\ call' = [call EXCEPT ![t] = NewCall(op, "acquire", p, mode)]
    /\ UNCHANGED <<open, h5, db, store>>

\* reject_existing_artifact
CreateChecks(t) ==
    /\ At(t, "create", "check")
    /\ h5[call[t].path] = Absent
    /\ db[call[t].path] = Absent
    /\ Advance(t, "catalog")
    /\ UNCHANGED <<open, h5, db, store>>

\* An attached catalog is opened at its path, and created if nothing is there.
OpenCatalog(t, f, at) ==
    LET p   == call[t].path
        new == call[t].mode = "Attached" /\ db[p] = Absent
    IN  /\ db' = IF new THEN [db EXCEPT ![p] = f] ELSE db
        /\ call' = [call EXCEPT ![t].db = IF call[t].mode = "Attached" THEN db'[p] ELSE Absent,
                                ![t].made = IF new THEN @ \cup {f} ELSE @,
                                ![t].at = at]

CreateCatalog(t) ==
    /\ At(t, "create", "catalog")
    /\ \E f \in Unused : OpenCatalog(t, f, "arrays")
    /\ UNCHANGED <<open, h5, store>>

\* Hdf5Backend::create refuses a file that is there.
CreateArrays(t) ==
    /\ At(t, "create", "arrays")
    /\ h5[call[t].path] = Absent
    /\ \E f \in Unused :
          /\ h5' = [h5 EXCEPT ![call[t].path] = f]
          /\ call' = [call EXCEPT ![t].h5 = f, ![t].made = @ \cup {f}, ![t].at = "stamp"]
    /\ UNCHANGED <<open, db, store>>

\* The stamps are written, or found to agree, through the open handles.
StampAndReturn(t) ==
    /\ call[t] # Absent
    /\ call[t].at = "stamp"
    /\ Opens(t, call[t].h5, call[t].db)
    /\ UNCHANGED <<open, h5, db>>

\* create_replacing removes the old catalog with its log, then the arrays ...
ReplaceRemovesCatalog(t) ==
    /\ At(t, "replace", "catalog")
    /\ db' = [db EXCEPT ![call[t].path] = Absent]
    /\ Advance(t, "arrays")
    /\ UNCHANGED <<open, h5, store>>

\* ... and gives its guard back before the create it ends in takes its own.
ReplaceRemovesArrays(t) ==
    /\ At(t, "replace", "arrays")
    /\ h5' = [h5 EXCEPT ![call[t].path] = Absent]
    /\ open' = Released(t)
    /\ call' = [call EXCEPT ![t] = NewCall("create", "acquire", call[t].path, call[t].mode)]
    /\ UNCHANGED <<db, store>>

-----------------------------------------------------------------------------
(* Opening one.                                                            *)

OpenArrays(t) ==
    /\ At(t, "open", "arrays") \/ At(t, "bare", "arrays")
    /\ h5[call[t].path] # Absent
    /\ call' = [call EXCEPT ![t].h5 = h5[call[t].path], ![t].at = "catalog"]
    /\ UNCHANGED <<open, h5, db, store>>

\* An attached open makes a missing catalog; one into memory needs it there.
OpensCatalog(t) ==
    /\ At(t, "open", "catalog")
    /\ call[t].mode = "InMemory" => db[call[t].path] # Absent
    /\ \E f \in Unused : OpenCatalog(t, f, "stamp")
    /\ UNCHANGED <<open, h5, store>>

\* open_without_catalog refuses a catalog that is there and mints its own.
BareChecks(t) ==
    /\ At(t, "bare", "check")
    /\ db[call[t].path] = Absent
    /\ Advance(t, "arrays")
    /\ UNCHANGED <<open, h5, db, store>>

BareCatalog(t) ==
    /\ At(t, "bare", "catalog")
    /\ \E f \in Unused : OpenCatalog(t, f, "stamp")
    /\ UNCHANGED <<open, h5, store>>

-----------------------------------------------------------------------------
(* Copying one: open_copy takes no guard until it opens the copy.          *)

CopyBegin(t, src, p, mode) ==
    /\ Idle(t)
    /\ store[t] = Absent
    /\ src # p
    /\ PrivateCopies => ~InUse(p)
    /\ call' = [call EXCEPT ![t] = [NewCall("copy", "check", p, mode)
                                      EXCEPT !.src = src, !.copy = TRUE]]
    /\ UNCHANGED <<open, h5, db, store>>

\* reject_existing_artifact
CopyChecks(t) ==
    /\ At(t, "copy", "check")
    /\ h5[call[t].path] = Absent
    /\ db[call[t].path] = Absent
    /\ Advance(t, "arrays")
    /\ UNCHANGED <<open, h5, db, store>>

\* fs::copy truncates whatever is at the destination by now.
CopyArrays(t) ==
    /\ At(t, "copy", "arrays")
    /\ h5[call[t].src] # Absent
    /\ \E f \in Unused :
          /\ h5' = [h5 EXCEPT ![call[t].path] = f]
          /\ call' = [call EXCEPT ![t].made = @ \cup {f}, ![t].at = "catalog"]
    /\ UNCHANGED <<open, db, store>>

\* VACUUM INTO refuses a file that is there; a source without a catalog is
\* copied without one.
CopyCatalog(t) ==
    LET opening == [call[t] EXCEPT !.op = "open", !.at = "acquire"]
    IN  /\ At(t, "copy", "catalog")
        /\ \/ /\ db[call[t].src] # Absent
              /\ db[call[t].path] = Absent
              /\ \E f \in Unused :
                    /\ db' = [db EXCEPT ![call[t].path] = f]
                    /\ call' = [call EXCEPT ![t] = [opening EXCEPT !.made = @ \cup {f}]]
           \/ /\ db[call[t].src] = Absent
              /\ call' = [call EXCEPT ![t] = opening]
              /\ UNCHANGED db
        /\ UNCHANGED <<open, h5, store>>

CleanupArrays(t) ==
    /\ At(t, "copy", "cleanup")
    /\ h5' = [h5 EXCEPT ![call[t].path] = Absent]
    /\ Advance(t, "release")
    /\ UNCHANGED <<open, db, store>>

CleanupCatalog(t) ==
    /\ At(t, "copy", "release")
    /\ db' = [db EXCEPT ![call[t].path] = Absent]
    /\ call' = [call EXCEPT ![t] = Absent]
    /\ UNCHANGED <<open, h5, store>>

-----------------------------------------------------------------------------
(* Saving one.  The temporaries have names nobody else resolves.           *)

\* persist_to another path, and persist_arrays_to: the destination is held for
\* the whole save.
SaveBegin(t, op, p) ==
    /\ Idle(t)
    /\ store[t] # Absent
    /\ store[t].path # p
    /\ MayTarget(p)
    /\ call' = [call EXCEPT ![t] = NewCall(op, "acquire", p, store[t].mode)]
    /\ UNCHANGED <<open, h5, db, store>>

\* persist_to the store's own path: nothing to do with an attached catalog;
\* with one in memory the pair is staged and the file closed for the swap.
SaveOwnBegin(t) ==
    /\ Idle(t)
    /\ store[t] # Absent
    /\ store[t].path # Absent
    /\ store[t].mode = "InMemory"
    /\ call' = [call EXCEPT ![t] = NewCall("persist", "arrays", store[t].path, "InMemory")]
    /\ store' = [store EXCEPT ![t].h5 = Absent]
    /\ UNCHANGED <<open, h5, db>>

\* swap_into_place renames the arrays ...
SaveArrays(t) ==
    /\ At(t, "persist", "arrays")
    /\ \E f \in Unused :
          /\ h5' = [h5 EXCEPT ![call[t].path] = f]
          /\ call' = [call EXCEPT ![t].h5 = f, ![t].made = {f}, ![t].at = "catalog"]
    /\ UNCHANGED <<open, db, store>>

\* ... and then the catalog.
SaveCatalog(t) ==
    /\ At(t, "persist", "catalog")
    /\ \E f \in Unused :
          /\ db' = [db EXCEPT ![call[t].path] = f]
          /\ call' = [call EXCEPT ![t].db = f, ![t].made = @ \cup {f}, ![t].at = "release"]
    /\ UNCHANGED <<open, h5, store>>

\* A closed array file is reopened, and a guard on another path given back.
SaveReturns(t) ==
    /\ At(t, "persist", "release") \/ At(t, "arrays", "release")
    /\ open' = Released(t)
    /\ call' = [call EXCEPT ![t] = Absent]
    /\ store' = IF store[t].path = call[t].path
                THEN [store EXCEPT ![t].h5 = h5[call[t].path]] ELSE store
    /\ UNCHANGED <<h5, db>>

\* persist_arrays_to refuses a destination with a catalog ...
BundleChecks(t) ==
    /\ At(t, "arrays", "check")
    /\ db[call[t].path] = Absent
    /\ Advance(t, "arrays")
    /\ UNCHANGED <<open, h5, db, store>>

\* ... and renames one file.
BundleArrays(t) ==
    /\ At(t, "arrays", "arrays")
    /\ \E f \in Unused :
          /\ h5' = [h5 EXCEPT ![call[t].path] = f]
          /\ call' = [call EXCEPT ![t].h5 = f, ![t].made = {f}, ![t].at = "release"]
    /\ UNCHANGED <<open, db, store>>

\* persist_catalog: a catalog in memory replaces the file at the store's path.
PersistCatalog(t) ==
    /\ Idle(t)
    /\ store[t] # Absent
    /\ store[t].path # Absent
    /\ store[t].mode = "InMemory"
    /\ \E f \in Unused : db' = [db EXCEPT ![store[t].path] = f]
    /\ UNCHANGED <<open, h5, store, call>>

\* compact: the rewritten file is renamed over the store's own and reopened.
Compact(t) ==
    /\ Idle(t)
    /\ store[t] # Absent
    /\ store[t].path # Absent
    /\ \E f \in Unused :
          /\ h5' = [h5 EXCEPT ![store[t].path] = f]
          /\ store' = [store EXCEPT ![t].h5 = f]
    /\ UNCHANGED <<open, db, call>>

-----------------------------------------------------------------------------

\* A fresh process over whatever files are there.
Init ==
    /\ open = {}
    /\ h5 \in [Paths -> Files \cup {Absent}]
    /\ db \in [Paths -> Files \cup {Absent}]
    /\ \A p \in Paths, q \in Paths : h5[p] = db[q] => h5[p] = Absent
    /\ \A p \in Paths, q \in Paths : p # q => /\ h5[p] = h5[q] => h5[p] = Absent
                                              /\ db[p] = db[q] => db[p] = Absent
    /\ store = [t \in Threads |-> Absent]
    /\ call = [t \in Threads |-> Absent]

ThreadStep(t) ==
    \/ Acquire(t)
    \/ Close(t) \/ CloseReleases(t)
    \/ CallFails(t)
    \/ CreateInMemory(t)
    \/ \E p \in Paths, mode \in Modes, op \in {"create", "replace", "open", "bare"} :
          Begin(t, op, p, mode)
    \/ CreateChecks(t) \/ CreateCatalog(t) \/ CreateArrays(t) \/ StampAndReturn(t)
    \/ ReplaceRemovesCatalog(t) \/ ReplaceRemovesArrays(t)
    \/ OpenArrays(t) \/ OpensCatalog(t)
    \/ BareChecks(t) \/ BareCatalog(t)
    \/ \E src \in Paths, p \in Paths, mode \in Modes : CopyBegin(t, src, p, mode)
    \/ CopyChecks(t) \/ CopyArrays(t) \/ CopyCatalog(t)
    \/ CleanupArrays(t) \/ CleanupCatalog(t)
    \/ \E p \in Paths, op \in {"persist", "arrays"} : SaveBegin(t, op, p)
    \/ SaveOwnBegin(t)
    \/ SaveArrays(t) \/ SaveCatalog(t) \/ SaveReturns(t)
    \/ BundleChecks(t) \/ BundleArrays(t)
    \/ PersistCatalog(t)
    \/ Compact(t)

Next == \E t \in Threads : ThreadStep(t)

Spec == Init /\ [][Next]_vars

-----------------------------------------------------------------------------
(* What the calls promise.                                                 *)

\* Every variable has its type.
TypeOK ==
    /\ open \subseteq Paths
    /\ h5 \in [Paths -> Files \cup {Absent}]
    /\ db \in [Paths -> Files \cup {Absent}]
    /\ store \in [Threads -> Stores \cup {Absent}]
    /\ call \in [Threads -> Calls \cup {Absent}]

StoreHolds(t, p) == store[t] # Absent /\ store[t].path = p

CallHolds(t, p) == call[t] # Absent /\ call[t].held /\ call[t].path = p

\* A path is registered exactly while one store, or one call on its way to one
\* or saving over it, answers for it: no call that fails or ends leaks its
\* registration, and no two handles share an artifact.
RegistryIsExact ==
    /\ \A p \in open : \E t \in Threads : StoreHolds(t, p) \/ CallHolds(t, p)
    /\ \A t \in Threads, p \in Paths :
          /\ StoreHolds(t, p) \/ CallHolds(t, p) => p \in open
          /\ ~(StoreHolds(t, p) /\ CallHolds(t, p))
          /\ \A u \in Threads \ {t} :
                ~(/\ StoreHolds(t, p) \/ CallHolds(t, p)
                  /\ StoreHolds(u, p) \/ CallHolds(u, p))

\* The files a store opened are the ones at its path for as long as it lives:
\* no other thread's create, copy, save or removal reaches them.
HandlesKeepTheirFiles ==
    \A t \in Threads : store[t] # Absent /\ store[t].path # Absent =>
       /\ store[t].h5 # Absent => h5[store[t].path] = store[t].h5
       /\ store[t].db # Absent => db[store[t].path] = store[t].db

\* When persist_to returns with success, both halves at its destination are the
\* ones it staged, whatever the other threads did between its two renames.
SaveLandsWhole ==
    \A t \in Threads : At(t, "persist", "release") =>
       /\ h5[call[t].path] = call[t].h5
       /\ db[call[t].path] = call[t].db

\* A store that create returns is new: no half at its path was there before the
\* call, so fresh arrays are never paired with an old catalog.
NewStoreIsNew ==
    \A t \in Threads : At(t, "create", "stamp") =>
       /\ h5[call[t].path] \in call[t].made
       /\ db[call[t].path] \in call[t].made \cup {Absent}

\* What a failed open_copy removes from its destination is what it put there.
CleanupRemovesOwnCopy ==
    \A t \in Threads : Cleaning(t) =>
       /\ h5[call[t].path] \in call[t].made \cup {Absent}
       /\ db[call[t].path] \in call[t].made \cup {Absent}

\* What a call reports is so whatever the other threads did between its steps: a
\* save landed whole, a new store is new, and a failed copy's cleanup took back
\* only its own files (persist_to, create_with_catalog, open_copy).
CallsLandWhole == SaveLandsWhole /\ NewStoreIsNew /\ CleanupRemovesOwnCopy

-----------------------------------------------------------------------------
(* Why: what every call knows between two of its steps.                    *)

\* How far call `c` of a thread with store `s` can be.  Past "acquire" it has its
\* guard, but for an open_copy, which has none, and a save of a store over itself,
\* whose store has the guard.
CallShape(c, s) ==
    /\ c.op = "create" => c.at \in {"acquire", "check", "catalog", "arrays", "stamp"}
    /\ c.op = "replace" => c.at \in {"acquire", "catalog", "arrays"}
    /\ c.op = "open" => c.at \in {"acquire", "arrays", "catalog", "stamp"}
    /\ c.op = "bare" => c.at \in {"acquire", "check", "arrays", "catalog", "stamp"}
    /\ c.op = "copy" => c.at \in {"check", "arrays", "catalog", "cleanup", "release"}
    /\ c.op = "persist" => c.at \in {"acquire", "arrays", "catalog", "release"}
    /\ c.op = "arrays" => c.at \in {"acquire", "check", "arrays", "release"}
    /\ c.op = "close" => c.at = "release"
    /\ s # Absent <=> c.op \in {"persist", "arrays"}
    /\ c.op = "copy" => c.copy
    /\ c.copy => c.op \in {"open", "copy"}
    /\ c.held => c.at # "acquire" /\ c.op # "copy"
    /\ s # Absent /\ (c.held \/ c.at = "acquire") => s.path # c.path
    /\ c.at = "acquire" \/ (c.op = "copy" /\ c.at \in {"check", "arrays", "catalog"})
          => c.h5 = Absent /\ c.db = Absent
    /\ c.op \in {"create", "open", "bare"} /\ c.mode = "InMemory" => c.db = Absent
    /\ ~c.held /\ c.at # "acquire" /\ c.op # "copy" =>
          /\ c.op = "persist"
          /\ s.path = c.path
          /\ s.h5 = Absent
          /\ s.mode = "InMemory"

\* A store whose catalog is in memory has no catalog file open.
ShapeInv ==
    \A t \in Threads :
       /\ call[t] # Absent => CallShape(call[t], store[t])
       /\ store[t] # Absent /\ store[t].mode = "InMemory" => store[t].db = Absent

\* Nobody else is at the destination of a running open_copy.
CopyIsAlone ==
    \A t \in Threads, u \in Threads :
       call[t] # Absent /\ call[t].copy /\ t # u =>
          /\ call[u] # Absent => call[u].path # call[t].path
          /\ store[u] # Absent => store[u].path # call[t].path

\* What is at the path of call `c`, as far as the call relies on it.
CallKnows(c) ==
    /\ c.op \in {"create", "open", "bare"} =>
          /\ c.h5 # Absent => h5[c.path] = c.h5
          /\ c.db # Absent => db[c.path] = c.db
    /\ c.op = "create" /\ c.at = "catalog" => h5[c.path] = Absent /\ db[c.path] = Absent
    /\ c.op = "create" /\ c.at \in {"arrays", "stamp"} => db[c.path] \in c.made \cup {Absent}
    /\ c.op = "create" /\ c.at = "stamp" => h5[c.path] \in c.made
    /\ c.op = "persist" /\ c.at \in {"catalog", "release"} => h5[c.path] = c.h5
    /\ c.op = "persist" /\ c.at = "release" => db[c.path] = c.db
    /\ c.copy /\ c.at # "check" => /\ h5[c.path] \in c.made \cup {Absent}
                                   /\ db[c.path] \in c.made \cup {Absent}

CallsKnow == \A t \in Threads : call[t] # Absent => CallKnows(call[t])

=============================================================================
