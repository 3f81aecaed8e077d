--------------------------- MODULE ArtifactProofs ---------------------------
(***************************************************************************)
(* Proofs about Artifact, for every number of paths, arrays and            *)
(* generations, and for every point at which a call may be cut short.      *)
(*                                                                         *)
(* No property of the files is inductive by itself, because what keeps the *)
(* halves of an artifact apart is a stamp: two halves agree only if one    *)
(* save wrote both.  ArtifactInv adds to the properties                    *)
(*   StampsMinted   no file has a stamp that is still to be minted, so the *)
(*                  stamp of a save under way is on no other file;         *)
(*   StoreInv       an open store has its array file, which holds the rows *)
(*                  it knows unless its path is known to be behind;        *)
(*   CallInv        what each call has already done to its path, as a      *)
(*                  function of the step it is at.                         *)
(* One lemma per action, one step per part of the invariant.               *)
(***************************************************************************)
EXTENDS Ledger, TLAPS

\* The catalog a connection reads is one.
LEMMA CatalogTyped ==
    ASSUME TypeOK, NEW p \in Paths, db[p] # Absent
    PROVE  /\ Catalog(p) \in Catalogs
           /\ Catalog(p).gen \in Gens \cup {Absent}
           /\ Catalog(p).rows \subseteq Arrays
<1>1. db[p] \in Catalogs /\ wal[p] \in Logs \cup {Absent}
  BY DEF TypeOK
<1>2. Catalog(p).gen \in Gens \cup {Absent} /\ Catalog(p).rows \subseteq Arrays
  BY <1>1 DEF Catalog, Catalogs, Logs
<1> QED
  BY <1>2 DEF Catalog, Catalogs

\* The rows of the open store are arrays.
LEMMA LiveRowsTyped ==
    ASSUME TypeOK, st # Absent
    PROVE  st \in Stores /\ LiveRows \subseteq Arrays
<1>1. st \in Stores
  BY DEF TypeOK
<1>2. CASE st.mode = "Attached"
  BY <1>1, <1>2, CatalogTyped DEF LiveRows, TypeOK, Stores
<1>3. CASE st.mode # "Attached"
  BY <1>1, <1>3 DEF LiveRows, Stores
<1> QED
  BY <1>1, <1>2, <1>3

\* A checkpoint changes no catalog as a connection reads it.
LEMMA CheckpointKeeps ==
    ASSUME TypeOK, st # Absent, Checkpoint
    PROVE  /\ db' \in [Paths -> Catalogs \cup {Absent}]
           /\ wal' \in [Paths -> Logs \cup {Absent}]
           /\ \A p \in Paths : /\ db'[p] = Absent <=> db[p] = Absent
                               /\ wal'[p] # Absent => db'[p] # Absent
                               /\ st.mode # "Attached" \/ p # st.path
                                     => db'[p] = db[p] /\ wal'[p] = wal[p]
<1>1. CASE st.mode = "Attached" /\ wal[st.path] # Absent
  <2>1. st.path \in Paths /\ db[st.path] # Absent
    BY <1>1 DEF TypeOK, Stores
  <2>2. Catalog(st.path) \in Catalogs
    BY <2>1, CatalogTyped
  <2>3. /\ db' = [db EXCEPT ![st.path] = Catalog(st.path)]
        /\ wal' = [wal EXCEPT ![st.path] = Absent]
    BY <1>1 DEF Checkpoint
  <2> QED
    <3>1. /\ db' \in [Paths -> Catalogs \cup {Absent}]
          /\ wal' \in [Paths -> Logs \cup {Absent}]
      BY <2>1, <2>2, <2>3 DEF TypeOK
    <3>2. \A p \in Paths : p # st.path => db'[p] = db[p] /\ wal'[p] = wal[p]
      BY <2>1, <2>3 DEF TypeOK
    <3>3. db'[st.path] # Absent /\ wal'[st.path] = Absent
      BY <2>1, <2>2, <2>3, NoneIsAbsent DEF TypeOK
    <3> QED
      BY <1>1, <2>1, <3>1, <3>2, <3>3 DEF TypeOK
<1>2. CASE ~(st.mode = "Attached" /\ wal[st.path] # Absent)
  <2>1. db' = db /\ wal' = wal
    BY <1>2 DEF Checkpoint
  <2> QED
    BY <2>1 DEF TypeOK
<1> QED
  BY <1>1, <1>2

\* from_parts makes a store on the path it is given.
LEMMA OpenedTyped ==
    ASSUME NEW p \in Paths, NEW m \in Modes, NEW R \in SUBSET Arrays, Opened(p, m, R)
    PROVE  st' \in Stores /\ st'.path = p /\ st'.mode = m /\ st'.file
<1> DEFINE r == IF m = "Attached" THEN {} ELSE R
<1>1. r \in SUBSET Arrays
  OBVIOUS
<1>2. st' = [path |-> p, mode |-> m, rows |-> r, file |-> TRUE, mem |-> {}]
  BY DEF Opened
<1> HIDE DEF r
<1> QED
  BY <1>1, <1>2 DEF Stores

\* A commit or a stamp leaves a log beside the database it belongs to.
LEMMA LogTyped ==
    ASSUME TypeOK, NEW p \in Paths, db[p] # Absent, NEW l, l \in Logs,
           wal' = [wal EXCEPT ![p] = l]
    PROVE  /\ wal' \in [Paths -> Logs \cup {Absent}]
           /\ \A q \in Paths : wal'[q] # Absent => db[q] # Absent
  BY DEF TypeOK

\* What a commit to the open store's catalog writes is a log.
LEMMA CommitTyped ==
    ASSUME TypeOK, st # Absent, st.mode = "Attached",
           NEW R \in SUBSET Arrays, Commit(st.path, R)
    PROVE  /\ wal' \in [Paths -> Logs \cup {Absent}]
           /\ \A q \in Paths : wal'[q] # Absent => db[q] # Absent
<1> DEFINE l == [gen  |-> IF wal[st.path] = Absent THEN Absent ELSE wal[st.path].gen,
                 rows |-> R]
<1>1. st.path \in Paths /\ db[st.path] # Absent
  BY DEF TypeOK, Stores
<1>2. wal[st.path] \in Logs \cup {Absent}
  BY <1>1 DEF TypeOK
<1>3. l \in Logs
  BY <1>2 DEF Logs
<1>4. wal' = [wal EXCEPT ![st.path] = l]
  BY DEF Commit
<1> QED
  BY <1>1, <1>3, <1>4, LogTyped

-----------------------------------------------------------------------------
(* The invariant holds at first and every action keeps it.                 *)

\* A path holds nothing, or a pair that predates stamps and is whole.
LEMMA InitKeeps ==
    ASSUME Init
    PROVE  ArtifactInv
<1>1. PICK old \in [LegacyPaths -> {Absent} \cup SUBSET Arrays] :
         /\ h5 = [p \in Paths |-> IF p \in LegacyPaths /\ old[p] # Absent
                                  THEN [gen |-> Unstamped, arrays |-> old[p]] ELSE Absent]
         /\ db = [p \in Paths |-> IF p \in LegacyPaths /\ old[p] # Absent
                                  THEN [gen |-> Unstamped, rows |-> old[p]] ELSE Absent]
  BY DEF Init
<1>2. \A p \in Paths :
         \/ h5[p] = Absent /\ db[p] = Absent
         \/ \E R \in SUBSET Arrays : /\ h5[p] = [gen |-> Unstamped, arrays |-> R]
                                     /\ db[p] = [gen |-> Unstamped, rows |-> R]
  BY <1>1
<1>3. /\ wal = [p \in Paths |-> Absent]
      /\ st = Absent /\ call = Absent /\ gens = 0 /\ suspect = {}
  BY DEF Init
<1>4. \A R \in SUBSET Arrays : /\ [gen |-> Unstamped, arrays |-> R] \in ArrayFiles
                               /\ [gen |-> Unstamped, rows |-> R] \in Catalogs
  BY ArtifactConstants DEF ArrayFiles, Catalogs, Gens, Unstamped, EmptyFile
<1>5. TypeOK
  <2>1. h5 \in [Paths -> ArrayFiles \cup {Absent}]
    BY <1>1, <1>2, <1>4
  <2>2. db \in [Paths -> Catalogs \cup {Absent}]
    BY <1>1, <1>2, <1>4
  <2> QED
    BY <1>3, <2>1, <2>2, ArtifactConstants DEF TypeOK, Gens
<1>6. StampsMinted
  <2> SUFFICES ASSUME NEW p \in Paths
               PROVE  /\ h5[p] # Absent => h5[p].gen <= 0
                      /\ db[p] # Absent => db[p].gen <= 0
    BY <1>3 DEF StampsMinted
  <2>1. CASE h5[p] = Absent /\ db[p] = Absent
    BY <2>1
  <2>2. CASE \E R \in SUBSET Arrays : /\ h5[p] = [gen |-> Unstamped, arrays |-> R]
                                      /\ db[p] = [gen |-> Unstamped, rows |-> R]
    BY <2>2 DEF Unstamped, EmptyFile
  <2> QED
    BY <1>2, <2>1, <2>2
<1>7. StoreInv /\ CallInv /\ AttachedAlwaysReopens
  BY <1>3 DEF StoreInv, CallInv, AttachedAlwaysReopens, ArraysReadable
<1>8. OpensWhole
  <2> SUFFICES ASSUME NEW p \in Paths, h5[p] # Absent
               PROVE  Catalog(p).rows \subseteq h5[p].arrays
    BY DEF OpensWhole, Openable, ArraysReadable, CatalogReadable
  <2>1. PICK R \in SUBSET Arrays : /\ h5[p] = [gen |-> Unstamped, arrays |-> R]
                                   /\ db[p] = [gen |-> Unstamped, rows |-> R]
    BY <1>2
  <2> QED
    BY <1>3, <2>1 DEF Catalog
<1> QED
  BY <1>5, <1>6, <1>7, <1>8 DEF ArtifactInv

\* A store in memory touches no file.
LEMMA CreateInMemoryKeeps ==
    ASSUME ArtifactInv, CreateInMemory
    PROVE  ArtifactInv'
<1>1. TypeOK'
  BY DEF ArtifactInv, CreateInMemory, disk, Idle, TypeOK, Stores, Modes
<1>2. StampsMinted'
  BY DEF ArtifactInv, CreateInMemory, disk, Idle, StampsMinted
<1>3. StoreInv'
  BY DEF ArtifactInv, CreateInMemory, Idle, StoreInv, ArraysReadable
<1>4. CallInv'
  BY DEF ArtifactInv, CreateInMemory, Idle, CallInv
<1>5. OpensWhole'
  BY DEF ArtifactInv, CreateInMemory, disk, Idle, OpensWhole, Catalog, Openable,
         StampsAgree, ArraysReadable, CatalogReadable
<1>6. AttachedAlwaysReopens'
  BY DEF ArtifactInv, CreateInMemory, Idle, AttachedAlwaysReopens
<1> QED
  BY <1>1, <1>2, <1>3, <1>4, <1>5, <1>6 DEF ArtifactInv

\* create_with_catalog starts on a path that is free; an attached store first gets an
\* empty, unstamped database.
LEMMA CreateBeginKeeps ==
    ASSUME ArtifactInv, NEW p \in Paths, NEW m \in Modes, CreateBegin(p, m)
    PROVE  ArtifactInv'
<1>1. TypeOK'
  BY ArtifactConstants
     DEF ArtifactInv, CreateBegin, Idle, NewCall, Unstamped, TypeOK, Catalogs, Calls,
         Gens, EmptyFile
<1>2. StampsMinted'
  BY DEF ArtifactInv, CreateBegin, Idle, Unstamped, StampsMinted, TypeOK, Gens,
         EmptyFile
<1>3. StoreInv'
  BY DEF ArtifactInv, CreateBegin, Idle, NewCall, StoreInv, EmptyFile, ArraysReadable
<1>4. CallInv'
  BY DEF ArtifactInv, CreateBegin, Idle, NewCall, CallInv, CreateInv, ReplaceInv,
         CopyInv, PersistInv, CatalogInv, CompactInv, TypeOK, EmptyFile,
         ArraysReadable, TornArrays, TornCatalog
<1>5. OpensWhole'
  BY DEF ArtifactInv, CreateBegin, Idle, OpensWhole, Catalog, Openable, StampsAgree,
         EmptyFile, ArraysReadable, CatalogReadable
<1>6. AttachedAlwaysReopens'
  BY DEF ArtifactInv, CreateBegin, Idle, AttachedAlwaysReopens, EmptyFile
<1> QED
  BY <1>1, <1>2, <1>3, <1>4, <1>5, <1>6 DEF ArtifactInv

\* The array file a create makes is empty and unstamped.
LEMMA CreateArraysKeeps ==
    ASSUME ArtifactInv, CreateArrays
    PROVE  ArtifactInv'
<1>1. TypeOK'
  BY ArtifactConstants
     DEF ArtifactInv, CreateArrays, At, Advance, Unstamped, TypeOK, ArrayFiles, Calls,
         Gens, EmptyFile
<1>2. StampsMinted'
  BY DEF ArtifactInv, CreateArrays, Advance, Unstamped, StampsMinted, TypeOK, Gens,
         EmptyFile
<1>3. StoreInv'
  BY DEF ArtifactInv, CreateArrays, At, Advance, StoreInv, ArraysReadable
<1>4. CallInv'
  BY ArtifactConstants, NoneIsAbsent
     DEF ArtifactInv, CreateArrays, At, Advance, Unstamped, CallInv, CreateInv,
         ReplaceInv, CopyInv, PersistInv, CatalogInv, CompactInv, TypeOK, ArrayFiles,
         Calls, Gens, EmptyFile, ArraysReadable, TornArrays, TornCatalog
<1>5. OpensWhole'
  BY DEF ArtifactInv, CreateArrays, At, Advance, OpensWhole, Catalog, Openable,
         StampsAgree, CallInv, CreateInv, ArraysReadable, CatalogReadable, EmptyFile
<1>6. AttachedAlwaysReopens'
  BY DEF ArtifactInv, CreateArrays, At, Advance, AttachedAlwaysReopens, StoreInv,
         ArraysReadable
<1> QED
  BY <1>1, <1>2, <1>3, <1>4, <1>5, <1>6 DEF ArtifactInv

\* The stamp a create writes into the arrays is new, so no catalog has it yet.
LEMMA CreateStampArraysKeeps ==
    ASSUME ArtifactInv, CreateStampArrays
    PROVE  ArtifactInv'
<1>1. TypeOK'
  BY ArtifactConstants
     DEF ArtifactInv, CreateStampArrays, At, Advance, TypeOK, ArrayFiles, Calls, Gens,
         CallInv, CreateInv, ArraysReadable, EmptyFile
<1>2. StampsMinted'
  BY DEF ArtifactInv, CreateStampArrays, Advance, StampsMinted, TypeOK, ArrayFiles,
         Catalogs, Logs, Gens
<1>3. StoreInv'
  BY DEF ArtifactInv, CreateStampArrays, At, Advance, StoreInv, ArraysReadable
<1>4. CallInv'
  BY ArtifactConstants, NoneIsAbsent
     DEF ArtifactInv, CreateStampArrays, At, Advance, CallInv, CreateInv, ReplaceInv,
         CopyInv, PersistInv, CatalogInv, CompactInv, TypeOK, ArrayFiles, Gens,
         ArraysReadable, EmptyFile, TornArrays, TornCatalog
<1>5. OpensWhole'
  BY DEF ArtifactInv, CreateStampArrays, At, Advance, OpensWhole, Catalog, Openable,
         StampsAgree, CallInv, CreateInv, ArraysReadable, CatalogReadable, EmptyFile
<1>6. AttachedAlwaysReopens'
  BY DEF ArtifactInv, CreateStampArrays, At, Advance, AttachedAlwaysReopens, StoreInv,
         ArraysReadable
<1> QED
  BY <1>1, <1>2, <1>3, <1>4, <1>5, <1>6 DEF ArtifactInv

\* The last step of a create pairs the halves and hands out the store.
LEMMA CreateStampCatalogKeeps ==
    ASSUME ArtifactInv, CreateStampCatalog
    PROVE  ArtifactInv'
<1>1. TypeOK'
  <2>1. /\ call \in Calls /\ call.path \in Paths /\ call.mode \in Modes
        /\ h5[call.path] \in ArrayFiles
    BY DEF ArtifactInv, CreateStampCatalog, At, TypeOK, CallInv, CreateInv, Calls,
           ArraysReadable, EmptyFile
  <2>2. st' \in Stores /\ st'.path = call.path /\ st'.mode = call.mode
    BY <2>1 DEF CreateStampCatalog, Opened, Stores
  <2>3. call.mode = "Attached" => db[call.path] # Absent
    BY NoneIsAbsent, ArtifactConstants
       DEF ArtifactInv, CreateStampCatalog, At, CallInv, CreateInv, Catalogs, Gens,
           Unstamped, ArraysReadable, EmptyFile
  <2>4. /\ wal' \in [Paths -> Logs \cup {Absent}]
        /\ \A q \in Paths : wal'[q] # Absent => db[q] # Absent
    <3>1. CASE call.mode = "Attached"
      <4>1. [gen |-> h5[call.path].gen, rows |-> Catalog(call.path).rows] \in Logs
        BY <2>1, <2>3, <3>1, CatalogTyped DEF ArtifactInv, Logs, ArrayFiles
      <4> QED
        BY <2>1, <2>3, <3>1, <4>1, LogTyped DEF ArtifactInv, CreateStampCatalog, Stamp
    <3>2. CASE call.mode # "Attached"
      BY <3>2 DEF ArtifactInv, CreateStampCatalog, TypeOK
    <3> QED
      BY <3>1, <3>2
  <2>5. call' = Absent /\ suspect' \subseteq Paths /\ UNCHANGED <<h5, db, gens>>
    BY DEF ArtifactInv, CreateStampCatalog, TypeOK
  <2> QED
    BY <2>1, <2>2, <2>3, <2>4, <2>5, ArtifactConstants DEF ArtifactInv, TypeOK
<1>2. StampsMinted'
  BY DEF ArtifactInv, CreateStampCatalog, Stamp, Opened, At, StampsMinted, TypeOK,
         CallInv, CreateInv, ArraysReadable, EmptyFile
<1>3. StoreInv'
  BY ArtifactConstants
     DEF ArtifactInv, CreateStampCatalog, Stamp, Opened, At, StoreInv, TypeOK, Calls,
         CallInv, CreateInv, ArraysReadable, EmptyFile
<1>4. CallInv'
  BY DEF ArtifactInv, CreateStampCatalog, CallInv
<1>5. OpensWhole'
  BY DEF ArtifactInv, CreateStampCatalog, Stamp, Opened, At, Catalog, OpensWhole,
         Openable, StampsAgree, TypeOK, CallInv, CreateInv, ArraysReadable,
         CatalogReadable, EmptyFile
<1>6. AttachedAlwaysReopens'
  <2>1. call.path \in Paths /\ h5[call.path] \in ArrayFiles /\ call.mode \in Modes
    BY DEF ArtifactInv, CreateStampCatalog, At, TypeOK, CallInv, CreateInv, Calls,
           ArraysReadable, EmptyFile
  <2>2. PICK q \in Paths : q = call.path
    BY <2>1
  <2>3. st'.path = q /\ st'.mode = call.mode
    BY <2>1, <2>2, OpenedTyped DEF CreateStampCatalog
  <2>4. ASSUME call.mode = "Attached"
        PROVE  Openable(q)'
    <3>1. db[q] # Absent /\ h5[q] # Absent
      BY <2>1, <2>2, <2>4, NoneIsAbsent, ArtifactConstants
         DEF ArtifactInv, CreateStampCatalog, At, CallInv, CreateInv, Catalogs, Gens,
             Unstamped, ArraysReadable, EmptyFile
    <3>2. /\ wal' = [wal EXCEPT ![q] = [gen |-> h5[q].gen, rows |-> Catalog(q).rows]]
          /\ UNCHANGED <<h5, db>>
      BY <2>2, <2>4 DEF CreateStampCatalog, Stamp
    <3>3. h5[q].gen \in Gens /\ Catalog(q).rows \subseteq Arrays
      BY <2>1, <2>2, <3>1, CatalogTyped
         DEF ArtifactInv, CreateStampCatalog, At, CallInv, CreateInv, ArraysReadable, ArrayFiles
    <3>4. [gen |-> h5[q].gen, rows |-> Catalog(q).rows] \in Logs
      BY <3>3 DEF Logs
    <3>5. wal'[q] # Absent /\ wal'[q].gen = h5[q].gen /\ wal'[q].gen # Absent
      BY <3>2, <3>3, <3>4, NoneIsAbsent, ArtifactConstants DEF ArtifactInv, TypeOK
    <3> QED
      BY <3>1, <3>2, <3>5
         DEF Openable, StampsAgree, Catalog, ArraysReadable, CatalogReadable
  <2> QED
    BY <2>3, <2>4 DEF AttachedAlwaysReopens
<1> QED
  BY <1>1, <1>2, <1>3, <1>4, <1>5, <1>6 DEF ArtifactInv

\* Replacing an artifact starts without touching a file.
LEMMA ReplaceBeginKeeps ==
    ASSUME ArtifactInv, NEW p \in Paths, NEW m \in Modes, ReplaceBegin(p, m)
    PROVE  ArtifactInv'
<1>1. TypeOK'
  BY ArtifactConstants
     DEF ArtifactInv, ReplaceBegin, disk, Idle, NewCall, Unstamped, TypeOK, Calls,
         Gens, EmptyFile
<1>2. StampsMinted'
  BY DEF ArtifactInv, ReplaceBegin, disk, Idle, StampsMinted
<1>3. StoreInv'
  BY DEF ArtifactInv, ReplaceBegin, Idle, NewCall, StoreInv, ArraysReadable
<1>4. CallInv'
  BY DEF ArtifactInv, ReplaceBegin, Idle, NewCall, CallInv, CreateInv, ReplaceInv,
         CopyInv, PersistInv, CatalogInv, CompactInv, ArraysReadable, EmptyFile,
         TornArrays, TornCatalog
<1>5. OpensWhole'
  BY DEF ArtifactInv, ReplaceBegin, disk, Idle, OpensWhole, Catalog, Openable,
         StampsAgree, ArraysReadable, CatalogReadable
<1>6. AttachedAlwaysReopens'
  BY DEF ArtifactInv, ReplaceBegin, Idle, AttachedAlwaysReopens
<1> QED
  BY <1>1, <1>2, <1>3, <1>4, <1>5, <1>6 DEF ArtifactInv

\* With the log gone the database may show fewer rows than the path had; that
\* is what `suspect` remembers.
LEMMA ReplaceRemoveWalKeeps ==
    ASSUME ArtifactInv, ReplaceRemoveWal
    PROVE  ArtifactInv'
<1>1. TypeOK'
  BY DEF ArtifactInv, ReplaceRemoveWal, DropLog, At, Advance, TypeOK, Calls
<1>2. StampsMinted'
  BY DEF ArtifactInv, ReplaceRemoveWal, DropLog, Advance, StampsMinted
<1>3. StoreInv'
  BY DEF ArtifactInv, ReplaceRemoveWal, DropLog, At, Advance, StoreInv, ArraysReadable
<1>4. CallInv'
  BY DEF ArtifactInv, ReplaceRemoveWal, DropLog, At, Advance, CallInv, CreateInv,
         ReplaceInv, CopyInv, PersistInv, CatalogInv, CompactInv, TypeOK, Calls,
         ArraysReadable, EmptyFile, TornArrays, TornCatalog
<1>5. OpensWhole'
  BY DEF ArtifactInv, ReplaceRemoveWal, DropLog, Advance, OpensWhole, Catalog,
         Openable, StampsAgree, ArraysReadable, CatalogReadable
<1>6. AttachedAlwaysReopens'
  BY DEF ArtifactInv, ReplaceRemoveWal, DropLog, At, Advance, AttachedAlwaysReopens,
         StoreInv, ArraysReadable
<1> QED
  BY <1>1, <1>2, <1>3, <1>4, <1>5, <1>6 DEF ArtifactInv

\* Without its database a path opens on nothing.
LEMMA ReplaceRemoveCatalogKeeps ==
    ASSUME ArtifactInv, ReplaceRemoveCatalog
    PROVE  ArtifactInv'
<1>1. TypeOK'
  BY DEF ArtifactInv, ReplaceRemoveCatalog, At, Advance, TypeOK, Calls, CallInv,
         ReplaceInv, StoreInv, ArraysReadable
<1>2. StampsMinted'
  BY DEF ArtifactInv, ReplaceRemoveCatalog, Advance, StampsMinted
<1>3. StoreInv'
  BY DEF ArtifactInv, ReplaceRemoveCatalog, At, Advance, StoreInv, ArraysReadable
<1>4. CallInv'
  BY DEF ArtifactInv, ReplaceRemoveCatalog, At, Advance, CallInv, CreateInv,
         ReplaceInv, CopyInv, PersistInv, CatalogInv, CompactInv, TypeOK, Calls,
         ArraysReadable, EmptyFile, TornArrays, TornCatalog
<1>5. OpensWhole'
  BY DEF ArtifactInv, ReplaceRemoveCatalog, Advance, OpensWhole, Catalog, Openable,
         StampsAgree, TypeOK, ArraysReadable, CatalogReadable
<1>6. AttachedAlwaysReopens'
  BY DEF ArtifactInv, ReplaceRemoveCatalog, At, Advance, AttachedAlwaysReopens,
         StoreInv, ArraysReadable
<1> QED
  BY <1>1, <1>2, <1>3, <1>4, <1>5, <1>6 DEF ArtifactInv

\* The arrays go last, and the create that follows finds the path free.
LEMMA ReplaceRemoveArraysKeeps ==
    ASSUME ArtifactInv, ReplaceRemoveArrays
    PROVE  ArtifactInv'
<1>1. TypeOK'
  BY ArtifactConstants, NoneIsAbsent
     DEF ArtifactInv, ReplaceRemoveArrays, NewCall, At, Unstamped, TypeOK, Catalogs,
         Calls, Gens, EmptyFile
<1>2. StampsMinted'
  BY DEF ArtifactInv, ReplaceRemoveArrays, Unstamped, StampsMinted, TypeOK, Gens,
         EmptyFile
<1>3. StoreInv'
  BY DEF ArtifactInv, ReplaceRemoveArrays, NewCall, At, StoreInv, EmptyFile,
         ArraysReadable
<1>4. CallInv'
  BY DEF ArtifactInv, ReplaceRemoveArrays, NewCall, At, CallInv, CreateInv,
         ReplaceInv, CopyInv, PersistInv, CatalogInv, CompactInv, TypeOK, Calls,
         EmptyFile, ArraysReadable, TornArrays, TornCatalog
<1>5. OpensWhole'
  BY DEF ArtifactInv, ReplaceRemoveArrays, OpensWhole, Catalog, Openable, StampsAgree,
         TypeOK, EmptyFile, ArraysReadable, CatalogReadable
<1>6. AttachedAlwaysReopens'
  BY DEF ArtifactInv, ReplaceRemoveArrays, At, AttachedAlwaysReopens, Openable,
         StampsAgree, Catalog, CallInv, ReplaceInv, EmptyFile, ArraysReadable,
         CatalogReadable
<1> QED
  BY <1>1, <1>2, <1>3, <1>4, <1>5, <1>6 DEF ArtifactInv

\* An open changes no file: the store it hands out stands on what was there.
LEMMA OpenKeeps ==
    ASSUME ArtifactInv, NEW p \in Paths, NEW m \in Modes, Open(p, m)
    PROVE  ArtifactInv'
<1>1. TypeOK'
  BY ArtifactConstants
     DEF ArtifactInv, Open, disk, Catalog, Openable, Idle, Opened, TypeOK, Catalogs,
         Logs, Stores, ArraysReadable, CatalogReadable
<1>2. StampsMinted'
  BY DEF ArtifactInv, Open, disk, Idle, Opened, StampsMinted
<1>3. StoreInv'
  BY ArtifactConstants
     DEF ArtifactInv, Open, disk, Openable, Idle, Opened, StoreInv, OpensWhole,
         ArraysReadable, CatalogReadable
<1>4. CallInv'
  BY DEF ArtifactInv, Open, Idle, CallInv
<1>5. OpensWhole'
  BY DEF ArtifactInv, Open, disk, Catalog, Openable, Idle, Opened, StampsAgree,
         OpensWhole, ArraysReadable, CatalogReadable
<1>6. AttachedAlwaysReopens'
  BY DEF ArtifactInv, Open, disk, Catalog, Openable, Idle, Opened, StampsAgree,
         AttachedAlwaysReopens, ArraysReadable, CatalogReadable
<1> QED
  BY <1>1, <1>2, <1>3, <1>4, <1>5, <1>6 DEF ArtifactInv

\* Opening arrays that have no catalog makes an empty one, whose stamp agrees
\* only with unstamped arrays.
LEMMA OpenNoCatalogKeeps ==
    ASSUME ArtifactInv, NEW p \in Paths, OpenNoCatalog(p)
    PROVE  ArtifactInv'
<1>1. TypeOK'
  <2>1. EmptyFile \in Catalogs
    BY ArtifactConstants DEF Catalogs, Gens, Unstamped, EmptyFile
  <2>2. st' = st \/ (st' \in Stores /\ st'.path = p)
    BY OpenedTyped DEF OpenNoCatalog, Modes, ArraysReadable, EmptyFile
  <2>3. db' \in [Paths -> Catalogs \cup {Absent}] /\ db'[p] # Absent
    BY <2>1, NoneIsAbsent
       DEF ArtifactInv, OpenNoCatalog, TypeOK, ArraysReadable, EmptyFile
  <2> QED
    BY <2>1, <2>2, <2>3, ArtifactConstants
       DEF ArtifactInv, OpenNoCatalog, TypeOK, ArraysReadable, EmptyFile
<1>2. StampsMinted'
  BY DEF ArtifactInv, OpenNoCatalog, Idle, Opened, Unstamped, StampsMinted, TypeOK,
         Gens, ArraysReadable, EmptyFile
<1>3. StoreInv'
  BY ArtifactConstants
     DEF ArtifactInv, OpenNoCatalog, Idle, Opened, StoreInv, ArraysReadable, EmptyFile
<1>4. CallInv'
  BY DEF ArtifactInv, OpenNoCatalog, Idle, CallInv, ArraysReadable, EmptyFile
<1>5. OpensWhole'
  BY DEF ArtifactInv, OpenNoCatalog, Idle, Opened, OpensWhole, Catalog, Openable,
         StampsAgree, TypeOK, ArraysReadable, EmptyFile, CatalogReadable
<1>6. AttachedAlwaysReopens'
  BY NoneIsAbsent
     DEF ArtifactInv, OpenNoCatalog, Idle, Opened, AttachedAlwaysReopens, Openable,
         StampsAgree, Catalog, TypeOK, ArrayFiles, Catalogs, ArraysReadable,
         EmptyFile, CatalogReadable
<1> QED
  BY <1>1, <1>2, <1>3, <1>4, <1>5, <1>6 DEF ArtifactInv

\* open_without_catalog makes a catalog with the stamp of the arrays and no row.
LEMMA OpenWithoutCatalogKeeps ==
    ASSUME ArtifactInv, NEW p \in Paths, NEW m \in Modes, OpenWithoutCatalog(p, m)
    PROVE  ArtifactInv'
<1>1. TypeOK'
  BY ArtifactConstants, NoneIsAbsent
     DEF ArtifactInv, OpenWithoutCatalog, Idle, Opened, TypeOK, ArrayFiles, Catalogs,
         Stores, ArraysReadable
<1>2. StampsMinted'
  BY DEF ArtifactInv, OpenWithoutCatalog, Idle, Opened, StampsMinted, ArraysReadable
<1>3. StoreInv'
  BY ArtifactConstants
     DEF ArtifactInv, OpenWithoutCatalog, Idle, Opened, StoreInv, ArraysReadable
<1>4. CallInv'
  BY DEF ArtifactInv, OpenWithoutCatalog, Idle, CallInv, ArraysReadable
<1>5. OpensWhole'
  BY DEF ArtifactInv, OpenWithoutCatalog, Idle, Opened, OpensWhole, Catalog, Openable,
         StampsAgree, TypeOK, ArraysReadable, CatalogReadable
<1>6. AttachedAlwaysReopens'
  BY NoneIsAbsent
     DEF ArtifactInv, OpenWithoutCatalog, Idle, Opened, AttachedAlwaysReopens,
         Openable, StampsAgree, Catalog, TypeOK, ArrayFiles, Catalogs, ArraysReadable,
         CatalogReadable
<1> QED
  BY <1>1, <1>2, <1>3, <1>4, <1>5, <1>6 DEF ArtifactInv

\* A copy starts with an array file nobody can read, on a path with no catalog.
LEMMA CopyBeginKeeps ==
    ASSUME ArtifactInv, NEW src \in Paths, NEW p \in Paths, NEW m \in Modes, CopyBegin(src, p, m)
    PROVE  ArtifactInv'
<1>1. TypeOK'
  BY ArtifactConstants
     DEF ArtifactInv, CopyBegin, Idle, NewCall, TornArrays, Unstamped, TypeOK,
         ArrayFiles, Calls, Gens, EmptyFile
<1>2. StampsMinted'
  BY DEF ArtifactInv, CopyBegin, Idle, TornArrays, StampsMinted, TypeOK
<1>3. StoreInv'
  BY DEF ArtifactInv, CopyBegin, Idle, NewCall, StoreInv, ArraysReadable
<1>4. CallInv'
  BY NoneIsAbsent
     DEF ArtifactInv, CopyBegin, Idle, NewCall, TornArrays, TypeOK, ArrayFiles,
         CallInv, CreateInv, ReplaceInv, CopyInv, PersistInv, CatalogInv, CompactInv,
         ArraysReadable, EmptyFile, TornCatalog
<1>5. OpensWhole'
  BY DEF ArtifactInv, CopyBegin, Idle, TornArrays, OpensWhole, Catalog, Openable,
         StampsAgree, TypeOK, ArraysReadable, CatalogReadable
<1>6. AttachedAlwaysReopens'
  BY DEF ArtifactInv, CopyBegin, Idle, AttachedAlwaysReopens
<1> QED
  BY <1>1, <1>2, <1>3, <1>4, <1>5, <1>6 DEF ArtifactInv

\* Whole, the arrays are those of the source.
LEMMA CopyArraysKeeps ==
    ASSUME ArtifactInv, CopyArrays
    PROVE  ArtifactInv'
<1>1. TypeOK'
  BY DEF ArtifactInv, CopyArrays, At, Advance, TypeOK, ArrayFiles, Catalogs, Calls,
         CallInv, CopyInv, EmptyFile, TornArrays, TornCatalog
<1>2. StampsMinted'
  BY DEF ArtifactInv, CopyArrays, At, Advance, StampsMinted, CallInv, CopyInv,
         EmptyFile, TornArrays, TornCatalog
<1>3. StoreInv'
  BY DEF ArtifactInv, CopyArrays, At, Advance, StoreInv, ArraysReadable
<1>4. CallInv'
  BY DEF ArtifactInv, CopyArrays, At, Advance, Catalog, TypeOK, Calls, CallInv,
         CreateInv, ReplaceInv, CopyInv, PersistInv, CatalogInv, CompactInv,
         ArraysReadable, EmptyFile, TornArrays, TornCatalog
<1>5. OpensWhole'
  BY DEF ArtifactInv, CopyArrays, At, Advance, OpensWhole, Catalog, Openable,
         StampsAgree, TypeOK, Calls, CallInv, CopyInv, ArraysReadable,
         CatalogReadable, EmptyFile, TornArrays, TornCatalog
<1>6. AttachedAlwaysReopens'
  BY DEF ArtifactInv, CopyArrays, At, Advance, AttachedAlwaysReopens, StoreInv,
         ArraysReadable
<1> QED
  BY <1>1, <1>2, <1>3, <1>4, <1>5, <1>6 DEF ArtifactInv

\* A source without a catalog leaves the copy without one.
LEMMA CopyNoCatalogKeeps ==
    ASSUME ArtifactInv, CopyNoCatalog
    PROVE  ArtifactInv'
<1>1. TypeOK'
  BY DEF ArtifactInv, CopyNoCatalog, At, Advance, TypeOK, ArrayFiles, Catalogs, Calls,
         CallInv, CopyInv, disk, EmptyFile, TornArrays, TornCatalog
<1>2. StampsMinted'
  BY DEF ArtifactInv, CopyNoCatalog, At, Advance, StampsMinted, CallInv, CopyInv,
         disk, EmptyFile, TornArrays, TornCatalog
<1>3. StoreInv'
  BY DEF ArtifactInv, CopyNoCatalog, disk, At, Advance, StoreInv, ArraysReadable
<1>4. CallInv'
  BY DEF ArtifactInv, CopyNoCatalog, disk, At, Advance, Catalog, TypeOK, Calls, CallInv,
         CreateInv, ReplaceInv, CopyInv, PersistInv, CatalogInv, CompactInv,
         ArraysReadable, EmptyFile, TornArrays, TornCatalog
<1>5. OpensWhole'
  BY DEF ArtifactInv, CopyNoCatalog, At, Advance, OpensWhole, Catalog, Openable,
         StampsAgree, TypeOK, Calls, CallInv, CopyInv, disk, ArraysReadable,
         CatalogReadable, EmptyFile, TornArrays, TornCatalog
<1>6. AttachedAlwaysReopens'
  BY DEF ArtifactInv, CopyNoCatalog, disk, At, Advance, AttachedAlwaysReopens, StoreInv,
         ArraysReadable
<1> QED
  BY <1>1, <1>2, <1>3, <1>4, <1>5, <1>6 DEF ArtifactInv

\* The catalog of a copy starts as a file that is empty or cannot be read.
LEMMA CopyCatalogBeginKeeps ==
    ASSUME ArtifactInv, CopyCatalogBegin
    PROVE  ArtifactInv'
<1>1. TypeOK'
  BY ArtifactConstants
     DEF ArtifactInv, CopyCatalogBegin, At, Advance, TypeOK, ArrayFiles, Catalogs,
         Calls, CallInv, CopyInv, EmptyFile, TornCatalog, Unstamped, Gens, TornArrays
<1>2. StampsMinted'
  BY DEF ArtifactInv, CopyCatalogBegin, At, Advance, StampsMinted, TypeOK, Calls, CallInv, CopyInv,
         EmptyFile, TornCatalog, Unstamped, Gens, TornArrays
<1>3. StoreInv'
  BY DEF ArtifactInv, CopyCatalogBegin, At, Advance, StoreInv, ArraysReadable
<1>4. CallInv'
  BY ArtifactConstants
     DEF ArtifactInv, CopyCatalogBegin, At, Advance, Catalog, TypeOK, Calls, CallInv,
         CreateInv, ReplaceInv, CopyInv, PersistInv, CatalogInv, CompactInv,
         ArraysReadable, EmptyFile, TornArrays, TornCatalog
<1>5. OpensWhole'
  BY DEF ArtifactInv, CopyCatalogBegin, At, Advance, OpensWhole, Catalog, Openable,
         StampsAgree, TypeOK, Calls, CallInv, CopyInv, EmptyFile, TornCatalog,
         Unstamped, Gens, ArraysReadable, CatalogReadable, TornArrays
<1>6. AttachedAlwaysReopens'
  BY DEF ArtifactInv, CopyCatalogBegin, At, Advance, AttachedAlwaysReopens, StoreInv,
         ArraysReadable
<1> QED
  BY <1>1, <1>2, <1>3, <1>4, <1>5, <1>6 DEF ArtifactInv

\* The catalog a copy takes is the one a connection to the source reads.
LEMMA CopyCatalogKeeps ==
    ASSUME ArtifactInv, CopyCatalog
    PROVE  ArtifactInv'
<1>1. TypeOK'
  <2>1. /\ call \in Calls /\ call.path \in Paths /\ call.src \in Paths
        /\ db[call.src] # Absent /\ wal[call.path] = Absent /\ st = Absent
    BY DEF ArtifactInv, CopyCatalog, At, TypeOK, Calls, CallInv, CopyInv, StoreInv,
           CatalogReadable
  <2>2. Catalog(call.src) \in Catalogs
    BY <2>1, CatalogTyped DEF ArtifactInv
  <2>3. /\ db' = [db EXCEPT ![call.path] = Catalog(call.src)]
        /\ call' = [call EXCEPT !.at = "open"] /\ UNCHANGED <<h5, wal, st, gens, suspect>>
    BY DEF CopyCatalog, Advance
  <2>4. call' \in Calls
    BY <2>1, <2>3 DEF Calls
  <2>5. db' \in [Paths -> Catalogs \cup {Absent}]
    BY <2>1, <2>2, <2>3 DEF ArtifactInv, TypeOK
  <2> QED
    BY <2>1, <2>3, <2>4, <2>5 DEF ArtifactInv, TypeOK
<1>2. StampsMinted'
  BY DEF ArtifactInv, CopyCatalog, Catalog, At, Advance, StampsMinted, CallInv,
         CopyInv, CatalogReadable, EmptyFile, TornArrays, TornCatalog
<1>3. StoreInv'
  BY DEF ArtifactInv, CopyCatalog, At, Advance, StoreInv, CatalogReadable,
         ArraysReadable
<1>4. CallInv'
  BY DEF ArtifactInv, CopyCatalog, Catalog, At, Advance, CallInv, CreateInv,
         ReplaceInv, CopyInv, PersistInv, CatalogInv, CompactInv, TypeOK, Calls,
         CatalogReadable, ArraysReadable, EmptyFile, TornArrays, TornCatalog
<1>5. OpensWhole'
  BY DEF ArtifactInv, CopyCatalog, Catalog, At, Advance, OpensWhole, Openable,
         StampsAgree, CallInv, CopyInv, CatalogReadable, ArraysReadable, EmptyFile,
         TornArrays, TornCatalog
<1>6. AttachedAlwaysReopens'
  BY DEF ArtifactInv, CopyCatalog, At, Advance, AttachedAlwaysReopens, StoreInv
<1> QED
  BY <1>1, <1>2, <1>3, <1>4, <1>5, <1>6 DEF ArtifactInv

\* The copy is opened on the pair it was given.
LEMMA CopyOpenKeeps ==
    ASSUME ArtifactInv, CopyOpen
    PROVE  ArtifactInv'
<1>1. TypeOK'
  <2>1. call \in Calls /\ call.path \in Paths /\ call.mode \in Modes
    BY DEF ArtifactInv, CopyOpen, At, TypeOK, Calls, EmptyFile
  <2>2. EmptyFile \in Catalogs
    BY ArtifactConstants DEF Catalogs, Gens, Unstamped, EmptyFile
  <2>3. /\ db' \in [Paths -> Catalogs \cup {Absent}]
        /\ db'[call.path] # Absent
        /\ \A q \in Paths : db[q] # Absent => db'[q] # Absent
    BY <2>1, <2>2, NoneIsAbsent
       DEF ArtifactInv, CopyOpen, Openable, TypeOK, EmptyFile, ArraysReadable,
           CatalogReadable
  <2>4. st' \in Stores /\ st'.path = call.path
    <3>1. Openable(call.path) => Catalog(call.path).rows \subseteq Arrays
      BY <2>1, CatalogTyped DEF ArtifactInv, Openable, ArraysReadable, CatalogReadable
    <3> QED
      BY <2>1, <3>1, OpenedTyped DEF CopyOpen, EmptyFile
  <2>5. call' = Absent /\ UNCHANGED <<h5, wal, gens, suspect>>
    BY DEF CopyOpen, EmptyFile
  <2> QED
    BY <2>1, <2>3, <2>4, <2>5, ArtifactConstants DEF ArtifactInv, TypeOK
<1>2. StampsMinted'
  BY DEF ArtifactInv, CopyOpen, Opened, Unstamped, StampsMinted, TypeOK, Gens,
         EmptyFile
<1>3. StoreInv'
  BY ArtifactConstants
     DEF ArtifactInv, CopyOpen, Opened, At, StoreInv, Openable, Unstamped, Gens, TypeOK, Calls, CallInv, CopyInv,
         OpensWhole, EmptyFile, ArraysReadable, TornArrays, TornCatalog
<1>4. CallInv'
  BY DEF ArtifactInv, CopyOpen, CallInv, EmptyFile
<1>5. OpensWhole'
  BY DEF ArtifactInv, CopyOpen, Catalog, Openable, Opened, StampsAgree, OpensWhole,
         TypeOK, EmptyFile, ArraysReadable, CatalogReadable
<1>6. AttachedAlwaysReopens'
  BY NoneIsAbsent, ArtifactConstants
     DEF ArtifactInv, CopyOpen, Catalog, Openable, Opened, At, StampsAgree,
         AttachedAlwaysReopens, TypeOK, ArrayFiles, Catalogs, Calls, CallInv, CopyInv, Unstamped, Gens,
         EmptyFile, ArraysReadable, CatalogReadable, TornArrays, TornCatalog
<1> QED
  BY <1>1, <1>2, <1>3, <1>4, <1>5, <1>6 DEF ArtifactInv

\* A failed copy removes the arrays, or fails to.
LEMMA CopyUndoArraysKeeps ==
    ASSUME ArtifactInv, CopyUndoArrays
    PROVE  ArtifactInv'
<1>1. TypeOK'
  BY DEF ArtifactInv, CopyUndoArrays, At, Advance, TypeOK, ArrayFiles, Catalogs,
         Calls, CallInv, CopyInv, EmptyFile, TornArrays, TornCatalog
<1>2. StampsMinted'
  BY DEF ArtifactInv, CopyUndoArrays, At, Advance, StampsMinted, TypeOK, Calls, CallInv, CopyInv,
         EmptyFile, TornArrays, TornCatalog
<1>3. StoreInv'
  BY DEF ArtifactInv, CopyUndoArrays, At, Advance, StoreInv, ArraysReadable
<1>4. CallInv'
  BY DEF ArtifactInv, CopyUndoArrays, At, Advance, Catalog, TypeOK, Calls, CallInv,
         CreateInv, ReplaceInv, CopyInv, PersistInv, CatalogInv, CompactInv,
         ArraysReadable, EmptyFile, TornArrays, TornCatalog
<1>5. OpensWhole'
  BY DEF ArtifactInv, CopyUndoArrays, At, Advance, OpensWhole, Catalog, Openable,
         StampsAgree, TypeOK, Calls, CallInv, CopyInv, ArraysReadable,
         CatalogReadable, EmptyFile, TornArrays, TornCatalog
<1>6. AttachedAlwaysReopens'
  BY DEF ArtifactInv, CopyUndoArrays, At, Advance, AttachedAlwaysReopens, StoreInv,
         ArraysReadable
<1> QED
  BY <1>1, <1>2, <1>3, <1>4, <1>5, <1>6 DEF ArtifactInv

\* It then removes the catalog, or fails to.
LEMMA CopyUndoCatalogKeeps ==
    ASSUME ArtifactInv, CopyUndoCatalog
    PROVE  ArtifactInv'
<1>1. TypeOK'
  BY DEF ArtifactInv, CopyUndoCatalog, At, Advance, TypeOK, ArrayFiles, Catalogs,
         Calls, StoreInv, ArraysReadable, CallInv, CopyInv, EmptyFile, TornArrays, TornCatalog
<1>2. StampsMinted'
  BY DEF ArtifactInv, CopyUndoCatalog, At, Advance, StampsMinted, TypeOK, Calls, CallInv, CopyInv,
         EmptyFile, TornArrays, TornCatalog
<1>3. StoreInv'
  BY DEF ArtifactInv, CopyUndoCatalog, At, Advance, StoreInv, ArraysReadable
<1>4. CallInv'
  BY DEF ArtifactInv, CopyUndoCatalog, At, Advance, Catalog, TypeOK, Calls, CallInv,
         CreateInv, ReplaceInv, CopyInv, PersistInv, CatalogInv, CompactInv,
         ArraysReadable, EmptyFile, TornArrays, TornCatalog
<1>5. OpensWhole'
  BY DEF ArtifactInv, CopyUndoCatalog, At, Advance, OpensWhole, Catalog, Openable,
         StampsAgree, TypeOK, Calls, CallInv, CopyInv, ArraysReadable,
         CatalogReadable, EmptyFile, TornArrays, TornCatalog
<1>6. AttachedAlwaysReopens'
  BY DEF ArtifactInv, CopyUndoCatalog, At, Advance, AttachedAlwaysReopens, StoreInv,
         ArraysReadable
<1> QED
  BY <1>1, <1>2, <1>3, <1>4, <1>5, <1>6 DEF ArtifactInv

\* An added array reaches the file before its row is committed.
LEMMA AddKeeps ==
    ASSUME ArtifactInv, NEW a \in Arrays, Add(a)
    PROVE  ArtifactInv'
<1>1. TypeOK'
  <2>1. /\ st \in Stores /\ LiveRows \subseteq Arrays /\ st # Absent
        /\ st.file => st.path \in Paths /\ h5[st.path] \in ArrayFiles
    BY LiveRowsTyped
       DEF ArtifactInv, Add, Ready, TypeOK, StoreInv, Stores, ArraysReadable
  <2>2. h5' \in [Paths -> ArrayFiles \cup {Absent}]
    BY <2>1 DEF ArtifactInv, Add, TypeOK, ArrayFiles
  <2>3. /\ wal' \in [Paths -> Logs \cup {Absent}]
        /\ \A q \in Paths : wal'[q] # Absent => db[q] # Absent
    <3>1. CASE st.mode = "Attached"
      BY <2>1, <3>1, CommitTyped DEF ArtifactInv, Add
    <3>2. CASE st.mode # "Attached"
      BY <3>2 DEF ArtifactInv, Add, TypeOK
    <3> QED
      BY <3>1, <3>2
  <2>4. st' \in Stores /\ st'.path = st.path /\ st'.mode = st.mode
    BY <2>1 DEF Add, Stores
  <2>5. suspect' \subseteq Paths /\ UNCHANGED <<db, call, gens>>
    BY <2>1 DEF ArtifactInv, Add, TypeOK
  <2> QED
    BY <2>1, <2>2, <2>3, <2>4, <2>5 DEF ArtifactInv, TypeOK
<1>2. StampsMinted'
  BY DEF ArtifactInv, Add, Ready, Commit, Idle, StampsMinted, TypeOK, ArrayFiles,
         StoreInv, ArraysReadable
<1>3. StoreInv'
  BY NoneIsAbsent
     DEF ArtifactInv, Add, Ready, Commit, Idle, StoreInv, TypeOK, ArrayFiles, Stores,
         ArraysReadable
<1>4. CallInv'
  BY DEF ArtifactInv, Add, Ready, Idle, CallInv
<1>5. OpensWhole'
  BY NoneIsAbsent
     DEF ArtifactInv, Add, Ready, LiveRows, Commit, Idle, Catalog, OpensWhole,
         Openable, StampsAgree, TypeOK, ArrayFiles, Logs, StoreInv, ArraysReadable,
         CatalogReadable
<1>6. AttachedAlwaysReopens'
  BY NoneIsAbsent
     DEF ArtifactInv, Add, Ready, LiveRows, Commit, Idle, Catalog,
         AttachedAlwaysReopens, Openable, StampsAgree, TypeOK, ArrayFiles, Logs,
         ArraysReadable, CatalogReadable
<1> QED
  BY <1>1, <1>2, <1>3, <1>4, <1>5, <1>6 DEF ArtifactInv

\* A row is gone before its array; with the catalog in memory the one on disk is
\* behind from here on.
LEMMA RemoveKeeps ==
    ASSUME ArtifactInv, NEW a \in Arrays, Remove(a)
    PROVE  ArtifactInv'
<1>1. TypeOK'
  <2>1. /\ st \in Stores /\ LiveRows \subseteq Arrays /\ st # Absent
        /\ st.file => st.path \in Paths /\ h5[st.path] \in ArrayFiles
    BY LiveRowsTyped
       DEF ArtifactInv, Remove, Ready, TypeOK, StoreInv, Stores, ArraysReadable
  <2>2. h5' \in [Paths -> ArrayFiles \cup {Absent}]
    BY <2>1 DEF ArtifactInv, Remove, TypeOK, ArrayFiles
  <2>3. /\ wal' \in [Paths -> Logs \cup {Absent}]
        /\ \A q \in Paths : wal'[q] # Absent => db[q] # Absent
    <3>1. CASE st.mode = "Attached"
      BY <2>1, <3>1, CommitTyped DEF ArtifactInv, Remove
    <3>2. CASE st.mode # "Attached"
      BY <3>2 DEF ArtifactInv, Remove, TypeOK
    <3> QED
      BY <3>1, <3>2
  <2>4. st' \in Stores /\ st'.path = st.path /\ st'.mode = st.mode
    BY <2>1 DEF Remove, Stores
  <2>5. suspect' \subseteq Paths /\ UNCHANGED <<db, call, gens>>
    BY <2>1 DEF ArtifactInv, Remove, TypeOK
  <2> QED
    BY <2>1, <2>2, <2>3, <2>4, <2>5 DEF ArtifactInv, TypeOK
<1>2. StampsMinted'
  BY DEF ArtifactInv, Remove, Ready, Commit, Idle, StampsMinted, TypeOK, ArrayFiles,
         StoreInv, ArraysReadable
<1>3. StoreInv'
  BY NoneIsAbsent
     DEF ArtifactInv, Remove, Ready, Commit, Idle, StoreInv, TypeOK, ArrayFiles,
         ArraysReadable
<1>4. CallInv'
  BY DEF ArtifactInv, Remove, Ready, Idle, CallInv
<1>5. OpensWhole'
  BY NoneIsAbsent
     DEF ArtifactInv, Remove, Ready, LiveRows, Commit, Idle, Catalog, OpensWhole,
         Openable, StampsAgree, TypeOK, ArrayFiles, Logs, Stores,
         AttachedAlwaysReopens, Modes, ArraysReadable, CatalogReadable
<1>6. AttachedAlwaysReopens'
  BY NoneIsAbsent
     DEF ArtifactInv, Remove, Ready, LiveRows, Commit, Idle, Catalog,
         AttachedAlwaysReopens, Openable, StampsAgree, TypeOK, ArrayFiles, Logs,
         ArraysReadable, CatalogReadable
<1> QED
  BY <1>1, <1>2, <1>3, <1>4, <1>5, <1>6 DEF ArtifactInv

\* A flush checkpoints, which changes nothing a connection reads.
LEMMA FlushKeeps ==
    ASSUME ArtifactInv, Flush
    PROVE  ArtifactInv'
<1>1. TypeOK'
  BY NoneIsAbsent
     DEF ArtifactInv, Flush, Ready, Checkpoint, Idle, Catalog, TypeOK, Catalogs,
         Logs
<1>2. StampsMinted'
  BY DEF ArtifactInv, Flush, Ready, Checkpoint, Idle, Catalog, StampsMinted, TypeOK
<1>3. StoreInv'
  BY DEF ArtifactInv, Flush, Ready, Idle, StoreInv, ArraysReadable
<1>4. CallInv'
  BY DEF ArtifactInv, Flush, Ready, Idle, CallInv
<1>5. OpensWhole'
  BY DEF ArtifactInv, Flush, Ready, Checkpoint, Idle, Catalog, OpensWhole, Openable,
         StampsAgree, TypeOK, ArraysReadable, CatalogReadable
<1>6. AttachedAlwaysReopens'
  BY NoneIsAbsent
     DEF ArtifactInv, Flush, Ready, Checkpoint, Idle, Catalog, AttachedAlwaysReopens,
         Openable, StampsAgree, TypeOK, ArrayFiles, Logs, ArraysReadable,
         CatalogReadable
<1> QED
  BY <1>1, <1>2, <1>3, <1>4, <1>5, <1>6 DEF ArtifactInv

\* Closing a store checkpoints, which changes nothing a connection reads.
LEMMA CloseKeeps ==
    ASSUME ArtifactInv, Close
    PROVE  ArtifactInv'
<1>1. TypeOK'
  BY DEF ArtifactInv, Close, Idle, Checkpoint, Catalog, TypeOK, Catalogs, Logs
<1>2. StampsMinted'
  BY DEF ArtifactInv, Close, Idle, Checkpoint, Catalog, StampsMinted, TypeOK
<1>3. StoreInv'
  BY DEF ArtifactInv, Close, Idle, StoreInv, ArraysReadable
<1>4. CallInv'
  BY DEF ArtifactInv, Close, Idle, CallInv
<1>5. OpensWhole'
  BY DEF ArtifactInv, Close, Idle, Checkpoint, Catalog, OpensWhole, Openable,
         StampsAgree, TypeOK, ArraysReadable, CatalogReadable
<1>6. AttachedAlwaysReopens'
  BY DEF ArtifactInv, Close, Idle, AttachedAlwaysReopens
<1> QED
  BY <1>1, <1>2, <1>3, <1>4, <1>5, <1>6 DEF ArtifactInv

\* A save mints its stamp, checkpoints, and remembers the pair it replaces.
LEMMA PersistBeginKeeps ==
    ASSUME ArtifactInv, NEW p \in Paths, PersistBegin(p)
    PROVE  ArtifactInv'
<1>1. TypeOK'
  <2> DEFINE pairs == IF Openable(p) THEN {Shown(p)} ELSE {}
             c == [NewCall("persist", p, "arrays", st.mode)
                     EXCEPT !.gen = gens', !.rows = LiveRows, !.before = pairs]
  <2>1. st \in Stores /\ st # Absent /\ LiveRows \subseteq Arrays
    BY LiveRowsTyped DEF ArtifactInv, PersistBegin, Ready
  <2>2. pairs \subseteq Pairs
    BY CatalogTyped
       DEF ArtifactInv, TypeOK, Openable, Shown, Pairs, ArraysReadable,
           CatalogReadable
  <2>3. gens' \in Gens
    BY ArtifactConstants DEF ArtifactInv, PersistBegin, TypeOK, Gens
  <2>4. c \in Calls
    <3> HIDE DEF pairs
    <3> QED
      BY <2>1, <2>2, <2>3, ArtifactConstants
         DEF NewCall, Calls, Stores, Gens, Unstamped, EmptyFile
  <2>5. st' \in Stores /\ st'.path = st.path /\ st'.mode = st.mode
    BY <2>1 DEF PersistBegin, Stores
  <2>6. call' = c /\ Checkpoint /\ UNCHANGED <<h5, suspect>>
    BY DEF PersistBegin
  <2> HIDE DEF c
  <2> QED
    BY <2>1, <2>3, <2>4, <2>5, <2>6, CheckpointKeeps DEF ArtifactInv, TypeOK
<1>2. StampsMinted'
  BY DEF ArtifactInv, PersistBegin, Ready, Checkpoint, Catalog, Idle, StampsMinted,
         TypeOK, ArrayFiles, Catalogs, Logs, Gens
<1>3. StoreInv'
  <2>1. st \in Stores /\ st # Absent
    BY LiveRowsTyped DEF ArtifactInv, PersistBegin, Ready
  <2>2. /\ st' \in Stores /\ st'.path = st.path /\ st'.mode = st.mode /\ st'.rows = st.rows
        /\ st'.file => st.file
    BY <2>1 DEF PersistBegin, Stores
  <2>3. call'.op = "persist" /\ UNCHANGED <<h5, suspect>>
    BY DEF PersistBegin, NewCall
  <2> QED
    BY <2>1, <2>2, <2>3, NoneIsAbsent DEF ArtifactInv, StoreInv, ArraysReadable
<1>4. CallInv'
  BY ArtifactConstants
     DEF ArtifactInv, PersistBegin, Openable, Shown, Ready, LiveRows, Checkpoint,
         NewCall, StampsAgree, Catalog, Idle, CallInv, CreateInv, ReplaceInv, CopyInv,
         PersistInv, CatalogInv, CompactInv, TypeOK, Stores, Gens, StampsMinted,
         Modes, ArraysReadable, CatalogReadable, EmptyFile, TornArrays, TornCatalog
<1>5. OpensWhole'
  BY DEF ArtifactInv, PersistBegin, Openable, Ready, Checkpoint, StampsAgree, Catalog,
         Idle, OpensWhole, TypeOK, ArraysReadable, CatalogReadable
<1>6. AttachedAlwaysReopens'
  BY NoneIsAbsent
     DEF ArtifactInv, PersistBegin, Openable, Ready, LiveRows, Stored, Checkpoint,
         StampsAgree, Catalog, Idle, AttachedAlwaysReopens, TypeOK, ArrayFiles,
         Catalogs, ArraysReadable, CatalogReadable
<1> QED
  BY <1>1, <1>2, <1>3, <1>4, <1>5, <1>6 DEF ArtifactInv

\* Once the new arrays are in place no catalog at the destination agrees with
\* them.
LEMMA PersistRenameArraysKeeps ==
    ASSUME ArtifactInv, PersistRenameArrays
    PROVE  ArtifactInv'
<1>1. TypeOK'
  BY DEF ArtifactInv, PersistRenameArrays, At, Advance, TypeOK, ArrayFiles, Calls
<1>2. StampsMinted'
  BY DEF ArtifactInv, PersistRenameArrays, At, Advance, StampsMinted, CallInv,
         PersistInv
<1>3. StoreInv'
  BY NoneIsAbsent, ArtifactConstants
     DEF ArtifactInv, PersistRenameArrays, At, Advance, StoreInv, TypeOK, ArrayFiles,
         Calls, Gens, CallInv, PersistInv, ArraysReadable
<1>4. CallInv'
  BY DEF ArtifactInv, PersistRenameArrays, At, Advance, CallInv, CreateInv,
         ReplaceInv, CopyInv, PersistInv, CatalogInv, CompactInv, TypeOK, Calls,
         ArraysReadable, EmptyFile, TornArrays, TornCatalog
<1>5. OpensWhole'
  BY DEF ArtifactInv, PersistRenameArrays, At, Advance, OpensWhole, Catalog, Openable,
         StampsAgree, CallInv, PersistInv, ArraysReadable, CatalogReadable
<1>6. AttachedAlwaysReopens'
  BY DEF ArtifactInv, PersistRenameArrays, At, Advance, AttachedAlwaysReopens,
         Openable, StampsAgree, Catalog, CallInv, PersistInv, ArraysReadable,
         CatalogReadable
<1> QED
  BY <1>1, <1>2, <1>3, <1>4, <1>5, <1>6 DEF ArtifactInv

\* The log the destination had goes before the catalog arrives.
LEMMA PersistRemoveWalKeeps ==
    ASSUME ArtifactInv, PersistRemoveWal
    PROVE  ArtifactInv'
<1>1. TypeOK'
  BY DEF ArtifactInv, PersistRemoveWal, At, Advance, TypeOK, Calls
<1>2. StampsMinted'
  BY DEF ArtifactInv, PersistRemoveWal, Advance, StampsMinted
<1>3. StoreInv'
  BY DEF ArtifactInv, PersistRemoveWal, At, Advance, StoreInv, ArraysReadable
<1>4. CallInv'
  BY DEF ArtifactInv, PersistRemoveWal, At, Advance, CallInv, CreateInv, ReplaceInv,
         CopyInv, PersistInv, CatalogInv, CompactInv, TypeOK, Calls, ArraysReadable,
         EmptyFile, TornArrays, TornCatalog
<1>5. OpensWhole'
  BY DEF ArtifactInv, PersistRemoveWal, At, Advance, OpensWhole, Catalog, Openable,
         StampsAgree, CallInv, PersistInv, ArraysReadable, CatalogReadable
<1>6. AttachedAlwaysReopens'
  BY DEF ArtifactInv, PersistRemoveWal, At, Advance, AttachedAlwaysReopens, Openable,
         StampsAgree, Catalog, CallInv, PersistInv, ArraysReadable, CatalogReadable
<1> QED
  BY <1>1, <1>2, <1>3, <1>4, <1>5, <1>6 DEF ArtifactInv

\* The last rename pairs the halves of the save.
LEMMA PersistRenameCatalogKeeps ==
    ASSUME ArtifactInv, PersistRenameCatalog
    PROVE  ArtifactInv'
<1>1. TypeOK'
  BY NoneIsAbsent
     DEF ArtifactInv, PersistRenameCatalog, At, Advance, TypeOK, Catalogs, Calls
<1>2. StampsMinted'
  BY DEF ArtifactInv, PersistRenameCatalog, At, Advance, StampsMinted, CallInv,
         PersistInv
<1>3. StoreInv'
  BY DEF ArtifactInv, PersistRenameCatalog, At, Advance, StoreInv, CallInv,
         PersistInv, ArraysReadable
<1>4. CallInv'
  BY DEF ArtifactInv, PersistRenameCatalog, At, Advance, CallInv, CreateInv,
         ReplaceInv, CopyInv, PersistInv, CatalogInv, CompactInv, TypeOK, Calls,
         ArraysReadable, EmptyFile, TornArrays, TornCatalog
<1>5. OpensWhole'
  BY DEF ArtifactInv, PersistRenameCatalog, At, Advance, OpensWhole, Catalog,
         Openable, StampsAgree, CallInv, PersistInv, ArraysReadable, CatalogReadable
<1>6. AttachedAlwaysReopens'
  BY DEF ArtifactInv, PersistRenameCatalog, At, Advance, AttachedAlwaysReopens,
         Openable, StampsAgree, Catalog, CallInv, PersistInv, ArraysReadable,
         CatalogReadable
<1> QED
  BY <1>1, <1>2, <1>3, <1>4, <1>5, <1>6 DEF ArtifactInv

\* A call that swapped the array file returns with the store on it, or with the
\* stand-in.
LEMMA ReturnKeeps ==
    ASSUME ArtifactInv, Return
    PROVE  ArtifactInv'
<1>1. TypeOK'
  <2>1. st \in Stores
    BY DEF ArtifactInv, Return, TypeOK, StoreInv, ArraysReadable
  <2>2. st' \in Stores /\ st'.path = st.path /\ st'.mode = st.mode
    BY <2>1 DEF Return, Stores
  <2> QED
    BY <2>1, <2>2, NoneIsAbsent DEF ArtifactInv, Return, TypeOK, disk
<1>2. StampsMinted'
  BY DEF ArtifactInv, Return, disk, StampsMinted
<1>3. StoreInv'
  BY ArtifactConstants
     DEF ArtifactInv, Return, disk, StoreInv, TypeOK, Stores, Calls, ArraysReadable
<1>4. CallInv'
  BY DEF ArtifactInv, Return, CallInv
<1>5. OpensWhole'
  BY DEF ArtifactInv, Return, disk, OpensWhole, Catalog, Openable, StampsAgree,
         ArraysReadable, CatalogReadable
<1>6. AttachedAlwaysReopens'
  BY DEF ArtifactInv, Return, disk, AttachedAlwaysReopens, Openable, StampsAgree,
         Catalog, TypeOK, Stores, StoreInv, ArraysReadable, CatalogReadable
<1> QED
  BY <1>1, <1>2, <1>3, <1>4, <1>5, <1>6 DEF ArtifactInv

\* persist_arrays_to writes an array file where there is no catalog: the path
\* does not open.
LEMMA PersistArraysKeeps ==
    ASSUME ArtifactInv, NEW p \in Paths, PersistArrays(p)
    PROVE  ArtifactInv'
<1>1. TypeOK'
  BY ArtifactConstants, NoneIsAbsent
     DEF ArtifactInv, PersistArrays, Ready, LiveRows, Checkpoint, Idle, Catalog,
         TypeOK, ArrayFiles, Catalogs, Logs, Stores, Gens
<1>2. StampsMinted'
  BY DEF ArtifactInv, PersistArrays, Ready, Checkpoint, Idle, Catalog, StampsMinted,
         TypeOK, ArrayFiles, Catalogs, Logs, Gens
<1>3. StoreInv'
  BY DEF ArtifactInv, PersistArrays, Ready, Idle, StoreInv, ArraysReadable
<1>4. CallInv'
  BY DEF ArtifactInv, PersistArrays, Ready, Idle, CallInv
<1>5. OpensWhole'
  BY DEF ArtifactInv, PersistArrays, Ready, Checkpoint, Idle, Catalog, OpensWhole,
         Openable, StampsAgree, TypeOK, ArraysReadable, CatalogReadable
<1>6. AttachedAlwaysReopens'
  BY NoneIsAbsent
     DEF ArtifactInv, PersistArrays, Ready, LiveRows, Stored, Checkpoint, Idle,
         Catalog, AttachedAlwaysReopens, Openable, StampsAgree, TypeOK, ArrayFiles,
         Catalogs, ArraysReadable, CatalogReadable
<1> QED
  BY <1>1, <1>2, <1>3, <1>4, <1>5, <1>6 DEF ArtifactInv

\* Saving a catalog alone keeps the arrays and their stamp.
LEMMA CatalogBeginKeeps ==
    ASSUME ArtifactInv, CatalogBegin
    PROVE  ArtifactInv'
<1>1. TypeOK'
  <2> DEFINE pairs == IF Openable(st.path) THEN {Shown(st.path)} ELSE {}
             c == [NewCall("catalog", st.path, "wal", st.mode)
                     EXCEPT !.gen = h5[st.path].gen, !.rows = st.rows, !.before = pairs]
  <2>1. /\ st \in Stores /\ st.path \in Paths
        /\ h5[st.path] \in ArrayFiles /\ h5[st.path].gen \in Gens
    BY DEF ArtifactInv, CatalogBegin, Ready, TypeOK, StoreInv, Stores, ArraysReadable,
           ArrayFiles
  <2>2. pairs \subseteq Pairs
    BY <2>1, CatalogTyped
       DEF ArtifactInv, Openable, Shown, Pairs, ArraysReadable, CatalogReadable
  <2>3. c \in Calls
    <3> HIDE DEF pairs
    <3> QED
      BY <2>1, <2>2, ArtifactConstants
         DEF NewCall, Calls, ArrayFiles, Stores, Gens, Unstamped, EmptyFile
  <2>4. call' = c /\ UNCHANGED <<disk, st, gens, suspect>>
    BY DEF CatalogBegin
  <2> QED
    BY <2>3, <2>4 DEF ArtifactInv, TypeOK, disk
<1>2. StampsMinted'
  BY DEF ArtifactInv, CatalogBegin, disk, Ready, Idle, StampsMinted
<1>3. StoreInv'
  BY DEF ArtifactInv, CatalogBegin, disk, Ready, NewCall, Idle, StoreInv,
         ArraysReadable
<1>4. CallInv'
  BY DEF ArtifactInv, CatalogBegin, disk, Ready, NewCall, Idle, CallInv, CreateInv,
         ReplaceInv, CopyInv, PersistInv, CatalogInv, CompactInv, ArraysReadable,
         EmptyFile, TornArrays, TornCatalog
<1>5. OpensWhole'
  BY DEF ArtifactInv, CatalogBegin, disk, Openable, Ready, StampsAgree, Catalog, Idle,
         OpensWhole, ArraysReadable, CatalogReadable
<1>6. AttachedAlwaysReopens'
  BY DEF ArtifactInv, CatalogBegin, Ready, Idle, AttachedAlwaysReopens
<1> QED
  BY <1>1, <1>2, <1>3, <1>4, <1>5, <1>6 DEF ArtifactInv

\* The log goes before the new catalog arrives; a crash here leaves the path
\* behind its arrays.
LEMMA CatalogRemoveWalKeeps ==
    ASSUME ArtifactInv, CatalogRemoveWal
    PROVE  ArtifactInv'
<1>1. TypeOK'
  BY DEF ArtifactInv, CatalogRemoveWal, DropLog, At, Advance, TypeOK, Calls
<1>2. StampsMinted'
  BY DEF ArtifactInv, CatalogRemoveWal, DropLog, Advance, StampsMinted
<1>3. StoreInv'
  BY DEF ArtifactInv, CatalogRemoveWal, DropLog, At, Advance, StoreInv, ArraysReadable
<1>4. CallInv'
  BY DEF ArtifactInv, CatalogRemoveWal, DropLog, At, Advance, CallInv, CreateInv,
         ReplaceInv, CopyInv, PersistInv, CatalogInv, CompactInv, TypeOK, Calls,
         ArraysReadable, EmptyFile, TornArrays, TornCatalog
<1>5. OpensWhole'
  BY DEF ArtifactInv, CatalogRemoveWal, DropLog, Advance, OpensWhole, Catalog,
         Openable, StampsAgree, ArraysReadable, CatalogReadable
<1>6. AttachedAlwaysReopens'
  BY DEF ArtifactInv, CatalogRemoveWal, DropLog, At, Advance, AttachedAlwaysReopens,
         CallInv, CatalogInv
<1> QED
  BY <1>1, <1>2, <1>3, <1>4, <1>5, <1>6 DEF ArtifactInv

\* The saved catalog has the stamp of the arrays, and the path is up to date if
\* they hold its rows.
LEMMA CatalogRenameKeeps ==
    ASSUME ArtifactInv, CatalogRename
    PROVE  ArtifactInv'
<1>1. TypeOK'
  BY NoneIsAbsent DEF ArtifactInv, CatalogRename, At, Advance, TypeOK, Catalogs, Calls
<1>2. StampsMinted'
  BY ArtifactConstants
     DEF ArtifactInv, CatalogRename, At, Advance, StampsMinted, CallInv, CatalogInv,
         StoreInv, ArraysReadable
<1>3. StoreInv'
  BY DEF ArtifactInv, CatalogRename, At, Advance, StoreInv, CallInv, CatalogInv,
         ArraysReadable
<1>4. CallInv'
  BY DEF ArtifactInv, CatalogRename, At, Advance, CallInv, CreateInv, ReplaceInv,
         CopyInv, PersistInv, CatalogInv, CompactInv, TypeOK, Calls, ArraysReadable,
         EmptyFile, TornArrays, TornCatalog
<1>5. OpensWhole'
  BY ArtifactConstants
     DEF ArtifactInv, CatalogRename, At, Advance, OpensWhole, Catalog, Openable,
         StampsAgree, TypeOK, CallInv, CatalogInv, StoreInv, ArraysReadable,
         CatalogReadable
<1>6. AttachedAlwaysReopens'
  BY DEF ArtifactInv, CatalogRename, At, Advance, AttachedAlwaysReopens, CallInv,
         CatalogInv
<1> QED
  BY <1>1, <1>2, <1>3, <1>4, <1>5, <1>6 DEF ArtifactInv

\* Nothing is left to do after the rename.
LEMMA CatalogReturnKeeps ==
    ASSUME ArtifactInv, CatalogReturn
    PROVE  ArtifactInv'
<1>1. TypeOK'
  BY DEF ArtifactInv, CatalogReturn, disk, TypeOK
<1>2. StampsMinted'
  BY DEF ArtifactInv, CatalogReturn, disk, StampsMinted
<1>3. StoreInv'
  BY DEF ArtifactInv, CatalogReturn, disk, StoreInv, ArraysReadable
<1>4. CallInv'
  BY DEF ArtifactInv, CatalogReturn, CallInv
<1>5. OpensWhole'
  BY DEF ArtifactInv, CatalogReturn, disk, OpensWhole, Catalog, Openable, StampsAgree,
         ArraysReadable, CatalogReadable
<1>6. AttachedAlwaysReopens'
  BY DEF ArtifactInv, CatalogReturn, disk, AttachedAlwaysReopens, Openable,
         StampsAgree, Catalog, ArraysReadable, CatalogReadable
<1> QED
  BY <1>1, <1>2, <1>3, <1>4, <1>5, <1>6 DEF ArtifactInv

\* Compaction checkpoints, then works from the rows of the catalog.
LEMMA CompactBeginKeeps ==
    ASSUME ArtifactInv, CompactBegin
    PROVE  ArtifactInv'
<1>1. TypeOK'
  <2> DEFINE c == [NewCall("compact", st.path, "arrays", st.mode)
                     EXCEPT !.gen = h5[st.path].gen, !.rows = LiveRows]
  <2>1. /\ st \in Stores /\ st # Absent /\ st.path \in Paths /\ h5[st.path].gen \in Gens
        /\ LiveRows \subseteq Arrays
    BY LiveRowsTyped
       DEF ArtifactInv, CompactBegin, Ready, TypeOK, StoreInv, Stores, ArraysReadable,
           ArrayFiles
  <2>2. c \in Calls
    BY <2>1, ArtifactConstants
       DEF NewCall, Calls, ArrayFiles, Stores, Gens, Unstamped, EmptyFile
  <2>3. st' \in Stores /\ st'.path = st.path /\ st'.mode = st.mode
    BY <2>1 DEF CompactBegin, Stores
  <2>4. call' = c /\ Checkpoint /\ UNCHANGED <<h5, gens, suspect>>
    BY DEF CompactBegin
  <2> HIDE DEF c
  <2> QED
    BY <2>1, <2>2, <2>3, <2>4, CheckpointKeeps DEF ArtifactInv, TypeOK
<1>2. StampsMinted'
  BY DEF ArtifactInv, CompactBegin, Ready, Checkpoint, Idle, Catalog, StampsMinted,
         TypeOK
<1>3. StoreInv'
  BY ZenonT(30), ArtifactConstants, NoneIsAbsent
     DEF ArtifactInv, CompactBegin, Ready, LiveRows, Stored, Checkpoint, NewCall,
         Idle, Catalog, Unstamped, StoreInv, TypeOK, ArrayFiles, Catalogs, Logs,
         Stores, Calls, Gens, EmptyFile, ArraysReadable
<1>4. CallInv'
  BY DEF ArtifactInv, CompactBegin, Ready, LiveRows, Checkpoint, NewCall, Idle,
         Catalog, CallInv, CreateInv, ReplaceInv, CopyInv, PersistInv, CatalogInv,
         CompactInv, TypeOK, ArraysReadable, EmptyFile, TornArrays, TornCatalog
<1>5. OpensWhole'
  BY DEF ArtifactInv, CompactBegin, Ready, Checkpoint, Idle, Catalog, OpensWhole,
         Openable, StampsAgree, TypeOK, ArraysReadable, CatalogReadable
<1>6. AttachedAlwaysReopens'
  BY NoneIsAbsent
     DEF ArtifactInv, CompactBegin, Ready, LiveRows, Stored, Checkpoint, Idle,
         Catalog, AttachedAlwaysReopens, Openable, StampsAgree, TypeOK, ArrayFiles,
         Catalogs, ArraysReadable, CatalogReadable
<1> QED
  BY <1>1, <1>2, <1>3, <1>4, <1>5, <1>6 DEF ArtifactInv

\* The compacted file has the same stamp and every array a row names.
LEMMA CompactRenameKeeps ==
    ASSUME ArtifactInv, CompactRename
    PROVE  ArtifactInv'
<1>1. TypeOK'
  BY DEF ArtifactInv, CompactRename, At, Advance, TypeOK, ArrayFiles, Calls
<1>2. StampsMinted'
  BY ArtifactConstants
     DEF ArtifactInv, CompactRename, At, Advance, StampsMinted, CallInv, CompactInv,
         StoreInv, ArraysReadable
<1>3. StoreInv'
  BY NoneIsAbsent, ArtifactConstants
     DEF ArtifactInv, CompactRename, At, Advance, StoreInv, TypeOK, ArrayFiles, Calls, Gens, CallInv, CompactInv,
         ArraysReadable
<1>4. CallInv'
  BY DEF ArtifactInv, CompactRename, At, Advance, CallInv, CreateInv, ReplaceInv,
         CopyInv, PersistInv, CatalogInv, CompactInv, ArraysReadable, EmptyFile,
         TornArrays, TornCatalog
<1>5. OpensWhole'
  BY DEF ArtifactInv, CompactRename, At, Advance, OpensWhole, Catalog, Openable,
         StampsAgree, TypeOK, Stores, CallInv, CompactInv, StoreInv, Modes,
         ArraysReadable, CatalogReadable
<1>6. AttachedAlwaysReopens'
  BY NoneIsAbsent
     DEF ArtifactInv, CompactRename, At, Advance, AttachedAlwaysReopens, Openable,
         StampsAgree, Catalog, TypeOK, ArrayFiles, Calls, CallInv, CompactInv,
         ArraysReadable, CatalogReadable
<1> QED
  BY <1>1, <1>2, <1>3, <1>4, <1>5, <1>6 DEF ArtifactInv

\* A crash loses the store and the call and leaves the files.
LEMMA CrashKeeps ==
    ASSUME ArtifactInv, Crash
    PROVE  ArtifactInv'
<1>1. TypeOK'
  BY DEF ArtifactInv, Crash, disk, TypeOK
<1>2. StampsMinted'
  BY DEF ArtifactInv, Crash, disk, StampsMinted
<1>3. StoreInv'
  BY DEF ArtifactInv, Crash, StoreInv, ArraysReadable
<1>4. CallInv'
  BY DEF ArtifactInv, Crash, CallInv
<1>5. OpensWhole'
  BY DEF ArtifactInv, Crash, disk, OpensWhole, Catalog, Openable, StampsAgree,
         ArraysReadable, CatalogReadable
<1>6. AttachedAlwaysReopens'
  BY DEF ArtifactInv, Crash, AttachedAlwaysReopens
<1> QED
  BY <1>1, <1>2, <1>3, <1>4, <1>5, <1>6 DEF ArtifactInv

\* The invariant speaks of nothing but the variables.
LEMMA StutterKeeps ==
    ASSUME ArtifactInv, UNCHANGED vars
    PROVE  ArtifactInv'
<1>1. TypeOK'
  BY DEF ArtifactInv, vars, TypeOK
<1>2. StampsMinted'
  BY DEF ArtifactInv, vars, StampsMinted
<1>3. StoreInv'
  BY DEF ArtifactInv, vars, StoreInv, ArraysReadable
<1>4. CallInv'
  BY DEF ArtifactInv, vars, CallInv, CreateInv, ReplaceInv, CopyInv, PersistInv,
         CatalogInv, CompactInv, Catalog, Openable, StampsAgree, Shown,
         ArraysReadable, EmptyFile, TornArrays, TornCatalog, CatalogReadable
<1>5. OpensWhole'
  BY DEF ArtifactInv, vars, OpensWhole, Openable, StampsAgree, Catalog,
         ArraysReadable, CatalogReadable
<1>6. AttachedAlwaysReopens'
  BY DEF ArtifactInv, vars, AttachedAlwaysReopens, Openable, StampsAgree, Catalog,
         ArraysReadable, CatalogReadable
<1> QED
  BY <1>1, <1>2, <1>3, <1>4, <1>5, <1>6 DEF ArtifactInv

\* Every step of the program keeps the invariant.
LEMMA NextKeeps ==
    ASSUME ArtifactInv, [Next]_vars
    PROVE  ArtifactInv'
<1>1. CASE UNCHANGED vars
  BY <1>1, StutterKeeps
<1>2. ASSUME NEW p \in Paths, NEW m \in Modes,
            CreateBegin(p, m) \/ ReplaceBegin(p, m) \/ Open(p, m) \/ OpenWithoutCatalog(p, m)
     PROVE  ArtifactInv'
  BY <1>2, CreateBeginKeeps, ReplaceBeginKeeps, OpenKeeps, OpenWithoutCatalogKeeps
<1>3. ASSUME NEW p \in Paths, NEW m \in Modes, NEW src \in Paths, CopyBegin(src, p, m)
     PROVE  ArtifactInv'
  BY <1>3, CopyBeginKeeps
<1>4. ASSUME NEW p \in Paths, OpenNoCatalog(p) \/ PersistBegin(p) \/ PersistArrays(p)
     PROVE  ArtifactInv'
  BY <1>4, OpenNoCatalogKeeps, PersistBeginKeeps, PersistArraysKeeps
<1>5. ASSUME NEW a \in Arrays, Add(a) \/ Remove(a)
     PROVE  ArtifactInv'
  BY <1>5, AddKeeps, RemoveKeeps
<1>6. CASE CreateInMemory \/ CreateArrays \/ CreateStampArrays \/ CreateStampCatalog
  BY <1>6, CreateInMemoryKeeps, CreateArraysKeeps, CreateStampArraysKeeps,
     CreateStampCatalogKeeps
<1>7. CASE ReplaceRemoveWal \/ ReplaceRemoveCatalog \/ ReplaceRemoveArrays
  BY <1>7, ReplaceRemoveWalKeeps, ReplaceRemoveCatalogKeeps,
     ReplaceRemoveArraysKeeps
<1>8. CASE \/ CopyArrays \/ CopyNoCatalog \/ CopyCatalogBegin \/ CopyCatalog
           \/ CopyOpen \/ CopyUndoArrays \/ CopyUndoCatalog
  BY <1>8, CopyArraysKeeps, CopyNoCatalogKeeps, CopyCatalogBeginKeeps, CopyCatalogKeeps,
     CopyOpenKeeps, CopyUndoArraysKeeps, CopyUndoCatalogKeeps
<1>9. CASE PersistRenameArrays \/ PersistRemoveWal \/ PersistRenameCatalog \/ Return
  BY <1>9, PersistRenameArraysKeeps, PersistRemoveWalKeeps,
     PersistRenameCatalogKeeps, ReturnKeeps
<1>10. CASE CatalogBegin \/ CatalogRemoveWal \/ CatalogRename \/ CatalogReturn
  BY <1>10, CatalogBeginKeeps, CatalogRemoveWalKeeps, CatalogRenameKeeps,
     CatalogReturnKeeps
<1>11. CASE CompactBegin \/ CompactRename \/ Flush \/ Close \/ Crash
  BY <1>11, CompactBeginKeeps, CompactRenameKeeps, FlushKeeps, CloseKeeps,
     CrashKeeps
<1> QED
  BY <1>1, <1>2, <1>3, <1>4, <1>5, <1>6, <1>7, <1>8, <1>9, <1>10, <1>11 DEF Next

-----------------------------------------------------------------------------
(* What follows for the files.                                             *)

\* At every moment the stamps, the open store and the call under way are as
\* ArtifactInv says.
THEOREM ArtifactInvariant == Spec => []ArtifactInv
<1>1. Init => ArtifactInv
  BY InitKeeps
<1>2. ArtifactInv /\ [Next]_vars => ArtifactInv'
  BY NextKeeps
<1> QED
  BY <1>1, <1>2, PTL DEF Spec

\* Whatever call was cut short and wherever, a path that opens shows no row
\* without its array, the paths known to be behind excepted.
THEOREM OpensAreWhole == Spec => []OpensWhole
<1>1. ArtifactInv => OpensWhole
  BY DEF ArtifactInv
<1> QED
  BY <1>1, ArtifactInvariant, PTL

\* A store with its catalog attached can be reopened after a crash at any
\* moment of any of its calls.
THEOREM CrashesNeverUnpair == Spec => []AttachedAlwaysReopens
<1>1. ArtifactInv => AttachedAlwaysReopens
  BY DEF ArtifactInv
<1> QED
  BY <1>1, ArtifactInvariant, PTL

\* persist_to and persist_catalog: until the last rename the destination
\* refuses to open or shows the pair before; after it the path opens on exactly
\* the saved rows.
THEOREM SavesAreAllOrNothing == Spec => []SaveIsAllOrNothing
<1>1. ASSUME ArtifactInv, call # Absent, call.op = "persist", Openable(call.path)
      PROVE  Shown(call.path) \in call.before \cup
                {<<[gen |-> call.gen, arrays |-> call.rows],
                   [gen |-> call.gen, rows |-> call.rows]>>}
  <2>1. PersistInv
    BY <1>1 DEF ArtifactInv, CallInv
  <2>2. CASE call.at = "arrays"
    BY <1>1, <2>1, <2>2 DEF PersistInv
  <2>3. CASE call.at = "open"
    BY <1>1, <2>1, <2>3 DEF PersistInv, Shown, Catalog
  <2>4. CASE call.at \in {"wal", "catalog"}
    \* the arrays have the new stamp and no catalog there does
    BY <1>1, <2>1, <2>4
       DEF PersistInv, Openable, StampsAgree, Catalog, ArraysReadable, CatalogReadable
  <2> QED
    BY <1>1, <2>1, <2>2, <2>3, <2>4 DEF PersistInv
<1>2. ASSUME ArtifactInv, call # Absent, call.op = "persist", call.at = "open"
      PROVE  Openable(call.path) /\ Catalog(call.path).rows = call.rows
  <2>1. call \in Calls /\ PersistInv
    BY <1>2 DEF ArtifactInv, CallInv, TypeOK
  <2>2. [gen |-> call.gen, rows |-> call.rows] \in Catalogs
        /\ [gen |-> call.gen, arrays |-> call.rows] \in ArrayFiles
    BY <2>1 DEF Calls, Catalogs, ArrayFiles
  <2> QED
    BY <1>2, <2>1, <2>2, NoneIsAbsent, ArtifactConstants
       DEF Calls, PersistInv, Openable, StampsAgree, Catalog, ArraysReadable, CatalogReadable
<1>3. ASSUME ArtifactInv, call # Absent, call.op = "catalog", call.at = "open"
      PROVE  Openable(call.path) /\ Catalog(call.path).rows = call.rows
  <2>1. call \in Calls /\ CatalogInv
    BY <1>3 DEF ArtifactInv, CallInv, TypeOK
  <2>2. [gen |-> call.gen, rows |-> call.rows] \in Catalogs
    BY <2>1 DEF Calls, Catalogs
  <2>3. ArraysReadable(call.path)
    BY <1>3, <2>1, ArtifactConstants
       DEF ArtifactInv, StoreInv, CatalogInv, Calls, ArraysReadable
  <2> QED
    BY <1>3, <2>1, <2>2, <2>3, NoneIsAbsent, ArtifactConstants
       DEF Calls, CatalogInv, Openable, StampsAgree, Catalog, ArraysReadable, CatalogReadable
<1>4. ArtifactInv => SaveIsAllOrNothing
  BY <1>1, <1>2, <1>3 DEF SaveIsAllOrNothing
<1> QED
  BY <1>4, ArtifactInvariant, PTL

-----------------------------------------------------------------------------
(* The ledger.  One lemma per group of actions, under ArtifactInv, which   *)
(* every step of LedgerNext keeps because it is a step of Next.            *)

\* A path whose files and entry stay as they are agrees as before.
LEMMA UntouchedAgrees ==
    ASSUME NEW p, Agrees(p), h5'[p] = h5[p], db'[p] = db[p], wal'[p] = wal[p],
           told'[p] = told[p]
    PROVE  Agrees(p)'
  BY DEF Agrees, Openable, ArraysReadable, CatalogReadable, StampsAgree, Catalog

\* So does one that was only checkpointed.
LEMMA CheckpointAgrees ==
    ASSUME TypeOK, st # Absent, Checkpoint, NEW p \in Paths, Agrees(p),
           h5'[p] = h5[p], told'[p] = told[p]
    PROVE  Agrees(p)'
<1>1. CASE st.mode = "Attached" /\ wal[st.path] # Absent /\ p = st.path
  <2>1. db[p] # Absent /\ db'[p] = Catalog(p) /\ wal'[p] = Absent
    BY <1>1 DEF Checkpoint, TypeOK
  <2>2. db'[p] # Absent /\ Catalog(p)' = Catalog(p)
    BY <2>1, CatalogTyped, NoneIsAbsent DEF Catalog
  <2> QED
    BY <2>1, <2>2 DEF Agrees, Openable, ArraysReadable, CatalogReadable, StampsAgree
<1>2. CASE ~(st.mode = "Attached" /\ wal[st.path] # Absent /\ p = st.path)
  <2>1. db'[p] = db[p] /\ wal'[p] = wal[p]
    BY <1>2 DEF Checkpoint, TypeOK, Stores
  <2> QED
    BY <2>1, UntouchedAgrees
<1> QED
  BY <1>1, <1>2

\* Every step with the ledger is a step of the artifact.
LEMMA LedgerStepIsStep ==
    ASSUME [LedgerNext]_ledgerVars
    PROVE  [Next]_vars
<1>1. CASE UNCHANGED ledgerVars
  BY <1>1 DEF ledgerVars
<1>2. CASE NewStore \/ OpenedStore \/ Mutation
  BY <1>2 DEF NewStore, OpenedStore, Mutation, Next
<1>3. CASE Save \/ Copy \/ GivingUp
  BY <1>3 DEF Save, Copy, GivingUp, Next
<1>4. CASE Upkeep
  BY <1>4 DEF Upkeep, Next
<1> QED
  BY <1>1, <1>2, <1>3, <1>4 DEF LedgerNext

\* An entry is a set of arrays or none.
LEMMA ToldTyped ==
    ASSUME LedgerTyped, NEW p \in Paths, NEW R, R \in SUBSET Arrays \/ R = Absent, Told(p, R)
    PROVE  /\ LedgerTyped'
           /\ told'[p] = R
           /\ \A q \in Paths : q # p => told'[q] = told[q]
<1> DEFINE E == (SUBSET Arrays) \cup {Absent}
<1>1. R \in E
  OBVIOUS
<1>2. told \in [Paths -> E] /\ told' = [told EXCEPT ![p] = R]
  BY DEF LedgerTyped, Told
<1> HIDE DEF E
<1>3. told' \in [Paths -> E] /\ told'[p] = R /\ \A q \in Paths : q # p => told'[q] = told[q]
  BY <1>1, <1>2
<1> QED
  BY <1>3 DEF E, LedgerTyped

\* The ledger starts with the rows of the pairs that are there.
LEMMA LedgerInitKeeps ==
    ASSUME LedgerInit
    PROVE  LedgerInv
<1>1. ArtifactInv
  BY InitKeeps DEF LedgerInit
<1>2. \A p \in Paths : told[p] = IF db[p] = Absent THEN Absent ELSE db[p].rows
  BY DEF LedgerInit
<1>3. LedgerTyped
  <2>1. \A p \in Paths : db[p] # Absent => db[p].rows \in SUBSET Arrays
    BY <1>1 DEF ArtifactInv, TypeOK, Catalogs
  <2>2. \A p \in Paths : told[p] \in (SUBSET Arrays) \cup {Absent}
    BY <1>2, <2>1
  <2> QED
    BY <2>2 DEF LedgerInit, LedgerTyped
<1>4. LedgerKept
  BY DEF LedgerInit, Init, LedgerKept
<1>5. ASSUME NEW p \in Paths PROVE Agrees(p)
  BY <1>2 DEF LedgerInit, Init, Agrees, Openable, CatalogReadable, Catalog
<1> QED
  BY <1>3, <1>4, <1>5 DEF LedgerInv, NothingCommittedIsLost

\* A new store has an empty catalog, or none that opens.
LEMMA NewStoreKeeps ==
    ASSUME ArtifactInv, LedgerInv, NewStore
    PROVE  LedgerInv'
<1> USE NoEntryIsAbsent
<1>1. ASSUME NEW p \in Paths, NEW m \in Modes, CreateBegin(p, m), Told(p, {})
      PROVE  LedgerInv'
  <2>1. LedgerTyped'
    BY <1>1 DEF LedgerInv, LedgerTyped, Told
  <2>2. LedgerKept'
    BY <1>1 DEF LedgerInv, LedgerTyped, LedgerKept, Told, CreateBegin, NewCall
  <2>3. ASSUME NEW q \in Paths PROVE Agrees(q)'
    <3>1. CASE q = p
      BY <1>1, <3>1 DEF CreateBegin, Agrees, Openable, ArraysReadable
    <3>2. CASE q # p
      BY <1>1, <3>2, UntouchedAgrees
         DEF ArtifactInv, TypeOK, LedgerInv, LedgerTyped, NothingCommittedIsLost, Told, CreateBegin
    <3> QED
      BY <3>1, <3>2
  <2> QED
    BY <2>1, <2>2, <2>3 DEF LedgerInv, NothingCommittedIsLost
<1>2. ASSUME ReplaceRemoveArrays, Told(call.path, {})
      PROVE  LedgerInv'
  <2>0. call.path \in Paths /\ call.op = "replace" /\ call # Absent
    BY <1>2 DEF ArtifactInv, TypeOK, Calls, ReplaceRemoveArrays, At
  <2>1. LedgerTyped'
    BY <1>2 DEF LedgerInv, LedgerTyped, Told
  <2>2. LedgerKept'
    BY <1>2, <2>0
       DEF ArtifactInv, StoreInv, LedgerInv, LedgerTyped, LedgerKept, Told, ReplaceRemoveArrays, NewCall
  <2>3. ASSUME NEW q \in Paths PROVE Agrees(q)'
    <3>1. CASE q = call.path
      BY <1>2, <3>1 DEF ArtifactInv, TypeOK, ReplaceRemoveArrays, Agrees, Openable, ArraysReadable
    <3>2. CASE q # call.path
      BY <1>2, <3>2, UntouchedAgrees
         DEF ArtifactInv, TypeOK, LedgerInv, LedgerTyped, NothingCommittedIsLost, Told,
             ReplaceRemoveArrays
    <3> QED
      BY <3>1, <3>2
  <2> QED
    BY <2>1, <2>2, <2>3 DEF LedgerInv, NothingCommittedIsLost
<1>3. ASSUME NEW p \in Paths, OpenNoCatalog(p),
             IF st' = Absent THEN UNCHANGED told ELSE Told(p, {})
      PROVE  LedgerInv'
  <2>0. /\ wal[p] = Absent /\ st = Absent /\ db'[p] = EmptyFile
        /\ wal' = wal /\ h5' = h5 /\ call = Absent /\ call' = Absent
        /\ \A q \in Paths : q # p => db'[q] = db[q]
    BY <1>3 DEF ArtifactInv, TypeOK, OpenNoCatalog, Idle
  <2>1. LedgerTyped'
    BY <1>3 DEF LedgerInv, LedgerTyped, Told
  <2>2. st' # Absent => st'.path = p
    BY <1>3, <2>0 DEF OpenNoCatalog, Opened
  <2>3. LedgerKept'
    BY <1>3, <2>0, <2>2 DEF LedgerInv, LedgerTyped, LedgerKept, Told
  <2>4. ASSUME NEW q \in Paths PROVE Agrees(q)'
    <3>1. CASE q # p
      BY <1>3, <2>0, <3>1, UntouchedAgrees
         DEF LedgerInv, LedgerTyped, NothingCommittedIsLost, Told
    <3>2. CASE q = p /\ st' # Absent
      <4>1. told'[p] = {}
        BY <1>3, <3>2, ToldTyped DEF LedgerInv
      <4>2. Catalog(p)'.rows = {}
        BY <2>0 DEF Catalog, EmptyFile
      <4> QED
        BY <3>2, <4>1, <4>2 DEF Agrees
    <3>3. CASE q = p /\ st' = Absent
      <4>1. st' # Absent \/ h5[p].gen # Unstamped
        BY <1>3, OpenedTyped, NoneIsAbsent DEF OpenNoCatalog, Modes
      <4> QED
        BY <2>0, <3>3, <4>1 DEF Agrees, Openable, StampsAgree, Catalog, EmptyFile
    <3> QED
      BY <3>1, <3>2, <3>3
  <2> QED
    BY <2>1, <2>3, <2>4 DEF LedgerInv, NothingCommittedIsLost
<1>4. ASSUME NEW p \in Paths, NEW m \in Modes, OpenWithoutCatalog(p, m),
             IF m = "Attached" THEN Told(p, {}) ELSE UNCHANGED told
      PROVE  LedgerInv'
  <2>0. /\ wal[p] = Absent /\ db[p] = Absent /\ wal' = wal /\ h5' = h5
        /\ call = Absent /\ call' = Absent /\ st'.path = p /\ st'.mode = m
        /\ \A q \in Paths : q # p => db'[q] = db[q]
    BY <1>4, OpenedTyped DEF ArtifactInv, TypeOK, OpenWithoutCatalog, Idle
  <2>1. LedgerTyped'
    BY <1>4 DEF LedgerInv, LedgerTyped, Told
  <2>2. LedgerKept'
    BY <1>4, <2>0 DEF LedgerInv, LedgerTyped, LedgerKept, Told
  <2>3. ASSUME NEW q \in Paths PROVE Agrees(q)'
    <3>1. CASE q # p
      BY <1>4, <2>0, <3>1, UntouchedAgrees
         DEF LedgerInv, LedgerTyped, NothingCommittedIsLost, Told
    <3>2. CASE q = p /\ m = "Attached"
      <4>1. db'[p] = [gen |-> h5[p].gen, rows |-> {}]
        BY <1>4, <3>2 DEF ArtifactInv, TypeOK, OpenWithoutCatalog
      <4> QED
        BY <1>4, <2>0, <3>2, <4>1 DEF LedgerInv, LedgerTyped, Told, Agrees, Catalog
    <3>3. CASE q = p /\ m # "Attached"
      BY <1>4, <2>0, <3>3 DEF OpenWithoutCatalog, Agrees, Openable, CatalogReadable
    <3> QED
      BY <3>1, <3>2, <3>3
  <2> QED
    BY <2>1, <2>2, <2>3 DEF LedgerInv, NothingCommittedIsLost
<1> QED
  BY <1>1, <1>2, <1>3, <1>4 DEF NewStore

\* An open changes no file.
LEMMA OpenedStoreKeeps ==
    ASSUME ArtifactInv, LedgerInv, OpenedStore
    PROVE  LedgerInv'
<1>1. PICK p \in Paths, m \in Modes : Open(p, m) /\ Told(p, OrShown(told[p], p))
  BY DEF OpenedStore
<1>2. /\ h5' = h5 /\ db' = db /\ wal' = wal /\ call = Absent /\ call' = Absent
      /\ st'.path = p /\ Openable(p)
  BY <1>1 DEF Open, disk, Idle, Opened
<1>3. OrShown(told[p], p) \in SUBSET Arrays
  <2>1. Catalog(p).rows \in SUBSET Arrays
    BY <1>2, CatalogTyped DEF ArtifactInv, Openable, CatalogReadable
  <2>2. told[p] \in SUBSET Arrays \/ told[p] = Absent
    BY <1>1 DEF LedgerInv, LedgerTyped
  <2>3. CASE told[p] = Absent
    BY <2>1, <2>3 DEF OrShown
  <2>4. CASE told[p] # Absent
    BY <2>2, <2>4 DEF OrShown
  <2> QED
    BY <2>3, <2>4
<1>4. LedgerTyped'
  BY <1>1, <1>3 DEF LedgerInv, LedgerTyped, Told
<1>5. LedgerKept'
  BY <1>1, <1>2, <1>3, NoEntryIsAbsent DEF LedgerInv, LedgerTyped, LedgerKept, Told
<1>6. ASSUME NEW q \in Paths PROVE Agrees(q)'
  <2>1. CASE q # p
    BY <1>1, <1>2, <2>1, UntouchedAgrees
       DEF LedgerInv, LedgerTyped, NothingCommittedIsLost, Told
  <2>2. CASE q = p
    BY <1>1, <1>2, <2>2
       DEF LedgerInv, LedgerTyped, NothingCommittedIsLost, Told, OrShown, Agrees, Catalog
  <2> QED
    BY <2>1, <2>2
<1> QED
  BY <1>4, <1>5, <1>6 DEF LedgerInv, NothingCommittedIsLost

\* A mutation through an attached catalog commits its row to the log and to the
\* ledger; one through a catalog in memory changes the rows of no file.
LEMMA MutationKeeps ==
    ASSUME ArtifactInv, LedgerInv, NEW a \in Arrays, NEW R, R \in SUBSET Arrays,
           NEW E, E \in SUBSET Arrays,
           Ready, call' = call, db' = db,
           st'.path = st.path, st'.mode = st.mode,
           \A q \in Paths : /\ h5'[q] = Absent <=> h5[q] = Absent
                            /\ h5[q] # Absent => h5'[q].gen = h5[q].gen,
           IF st.mode = "Attached" THEN Commit(st.path, R) ELSE UNCHANGED wal,
           IF st.mode = "Attached" THEN Told(st.path, E) ELSE UNCHANGED told,
           st.mode = "Attached" /\ told[st.path] = Catalog(st.path).rows => R = E
    PROVE  LedgerInv'
<1>1. call = Absent /\ st # Absent
  BY DEF Ready, Idle
<1>2. LedgerTyped'
  BY DEF LedgerInv, LedgerTyped, Told
<1>3. LedgerKept'
  BY <1>1, NoEntryIsAbsent DEF ArtifactInv, TypeOK, Stores, LedgerInv, LedgerTyped, LedgerKept, Told
<1>4. ASSUME NEW q \in Paths PROVE Agrees(q)'
  <2>1. CASE st.mode = "Attached" /\ q = st.path
    <3>1. Openable(q) /\ told[q] # Absent
      BY <1>1, <2>1 DEF ArtifactInv, AttachedAlwaysReopens, LedgerInv, LedgerKept
    <3>2. told[q] = Catalog(q).rows
      BY <3>1 DEF LedgerInv, NothingCommittedIsLost, Agrees
    <3>3. told'[q] = R
      BY <2>1, <3>2 DEF LedgerInv, LedgerTyped, Told
    <3>4. wal'[q] # Absent /\ wal'[q].rows = R
      <4> DEFINE l == [gen |-> IF wal[q] = Absent THEN Absent ELSE wal[q].gen, rows |-> R]
      <4>1. l \in Logs
        BY DEF ArtifactInv, TypeOK, Logs
      <4>2. wal'[q] = l
        BY <2>1 DEF ArtifactInv, TypeOK, Commit
      <4> QED
        BY <4>1, <4>2, NoneIsAbsent
    <3> QED
      BY <3>3, <3>4 DEF Agrees, Catalog
  <2>2. CASE ~(st.mode = "Attached" /\ q = st.path)
    <3>1. wal'[q] = wal[q] /\ told'[q] = told[q]
      BY <2>2 DEF ArtifactInv, TypeOK, LedgerInv, LedgerTyped, Commit, Told
    <3>2. Agrees(q)
      BY DEF LedgerInv, NothingCommittedIsLost
    <3> QED
      BY <3>1, <3>2
         DEF Agrees, Openable, ArraysReadable, CatalogReadable, StampsAgree, Catalog
  <2> QED
    BY <2>1, <2>2
<1> QED
  BY <1>2, <1>3, <1>4 DEF LedgerInv, NothingCommittedIsLost

\* The last rename of a save puts the rows it was asked to save into a database
\* that has no log.
LEMMA SaveKeeps ==
    ASSUME ArtifactInv, LedgerInv, Save
    PROVE  LedgerInv'
<1>1. /\ call \in Calls /\ call.path \in Paths /\ call.rows \in SUBSET Arrays
      /\ call.op \in {"persist", "catalog"} /\ call' = [call EXCEPT !.at = "open"]
      /\ wal[call.path] = Absent /\ wal' = wal /\ h5' = h5 /\ st' = st /\ st # Absent
      /\ db' = [db EXCEPT ![call.path] = [gen |-> call.gen, rows |-> call.rows]]
      /\ Told(call.path, call.rows)
  BY DEF Save, PersistRenameCatalog, CatalogRename, At, Advance, ArtifactInv, TypeOK, Calls,
         CallInv, PersistInv, CatalogInv, StoreInv
<1>2. LedgerTyped'
  BY <1>1 DEF LedgerInv, LedgerTyped, Told
<1>3. LedgerKept'
  BY <1>1, NoEntryIsAbsent
     DEF ArtifactInv, TypeOK, Calls, Stores, LedgerInv, LedgerTyped, LedgerKept, Told
<1>4. ASSUME NEW q \in Paths PROVE Agrees(q)'
  <2>1. CASE q # call.path
    BY <1>1, <2>1, UntouchedAgrees
       DEF ArtifactInv, TypeOK, LedgerInv, LedgerTyped, NothingCommittedIsLost, Told
  <2>2. CASE q = call.path
    BY <1>1, <2>2 DEF ArtifactInv, TypeOK, LedgerInv, LedgerTyped, Told, Agrees, Catalog
  <2> QED
    BY <2>1, <2>2
<1> QED
  BY <1>2, <1>3, <1>4 DEF LedgerInv, NothingCommittedIsLost

\* A copy under way shows what its source shows.
LEMMA CopyShowsSource ==
    ASSUME ArtifactInv, LedgerInv, call # Absent, call.op = "copy", Openable(call.src),
           told[call.path] # Absent
    PROVE  told[call.path] = Catalog(call.src).rows
<1>1. call.src \in Paths
  BY DEF ArtifactInv, CallInv, CopyInv
<1>2. told[call.path] = told[call.src]
  BY DEF LedgerInv, LedgerKept
<1> QED
  BY <1>1, <1>2 DEF LedgerInv, NothingCommittedIsLost, Agrees

\* Its first step leaves a file nobody can open, its last opens the copy.
LEMMA CopyKeeps ==
    ASSUME ArtifactInv, LedgerInv, Copy
    PROVE  LedgerInv'
<1>1. ASSUME NEW src \in Paths, NEW p \in Paths, NEW m \in Modes, CopyBegin(src, p, m),
             Told(p, IF h5[src].gen = Unstamped THEN Absent ELSE told[src])
      PROVE  LedgerInv'
  <2>0. /\ h5[src] # Absent /\ h5[p] = Absent /\ h5' = [h5 EXCEPT ![p] = TornArrays]
        /\ db' = db /\ wal' = wal /\ st = Absent /\ st' = Absent
        /\ call'.op = "copy" /\ call'.path = p /\ call'.src = src
    BY <1>1 DEF CopyBegin, NewCall
  <2>1. LedgerTyped'
    <3>1. told[src] \in SUBSET Arrays \/ told[src] = Absent
      BY <1>1 DEF LedgerInv, LedgerTyped
    <3>2. CASE h5[src].gen = Unstamped
      BY <1>1, <3>2, ToldTyped DEF LedgerInv
    <3>3. CASE h5[src].gen # Unstamped
      BY <1>1, <3>1, <3>3, ToldTyped DEF LedgerInv
    <3> QED
      BY <3>2, <3>3
  <2>2. LedgerKept'
    <3>1. src # p /\ h5'[src] = h5[src] /\ told'[src] = told[src]
      BY <1>1, <2>0 DEF ArtifactInv, TypeOK, LedgerInv, LedgerTyped, Told
    <3>2. told'[p] = IF h5[src].gen = Unstamped THEN Absent ELSE told[src]
      BY <1>1 DEF LedgerInv, LedgerTyped, Told
    <3> QED
      BY <2>0, <3>1, <3>2 DEF LedgerKept
  <2>3. ASSUME NEW q \in Paths PROVE Agrees(q)'
    <3>1. CASE q # p
      BY <1>1, <2>0, <3>1, UntouchedAgrees
         DEF ArtifactInv, TypeOK, LedgerInv, LedgerTyped, NothingCommittedIsLost, Told
    <3>2. CASE q = p
      BY <2>0, <3>2 DEF ArtifactInv, TypeOK, TornArrays, Agrees, Openable, ArraysReadable
    <3> QED
      BY <3>1, <3>2
  <2> QED
    BY <2>1, <2>2, <2>3 DEF LedgerInv, NothingCommittedIsLost
<1>2. ASSUME CopyOpen,
             Told(call.path, IF db[call.src] = Absent THEN {}
                             ELSE OrShown(told[call.src], call.path))
      PROVE  LedgerInv'
  <2> DEFINE E == IF db[call.src] = Absent THEN {} ELSE OrShown(told[call.src], call.path)
  <2>0. /\ call # Absent /\ call \in Calls /\ call.path \in Paths /\ call.src \in Paths
        /\ call.op = "copy" /\ call.at = "open" /\ CopyInv
        /\ call' = Absent /\ h5' = h5 /\ wal' = wal /\ wal[call.path] = Absent
    BY <1>2 DEF CopyOpen, At, ArtifactInv, TypeOK, Calls, CallInv, CopyInv
  <2>1. st'.path = call.path
    BY <1>2 DEF CopyOpen, Opened
  <2>2. CASE Openable(call.path) /\ UNCHANGED db
    <3>1. db[call.src] # Absent /\ db[call.path] = Catalog(call.src)
      BY <2>0, <2>2 DEF CopyInv, Openable, CatalogReadable
    <3>2. /\ Catalog(call.path).rows = Catalog(call.src).rows
          /\ Catalog(call.path).gen = Catalog(call.src).gen
          /\ h5[call.path] = h5[call.src]
      BY <2>0, <3>1 DEF CopyInv, Catalog
    <3>3. Openable(call.src)
      BY <2>2, <3>1, <3>2
         DEF Openable, ArraysReadable, CatalogReadable, StampsAgree
    <3>4. E = Catalog(call.path).rows
      BY <2>0, <3>1, <3>2, <3>3 DEF OrShown, LedgerInv, NothingCommittedIsLost, Agrees
    <3>5. E \in SUBSET Arrays
      BY <2>0, <2>2, <3>4, CatalogTyped DEF ArtifactInv, Openable, CatalogReadable
    <3> HIDE DEF E
    <3>6. told' = [told EXCEPT ![call.path] = E]
      BY <1>2 DEF Told, E
    <3>7. LedgerTyped' /\ LedgerKept'
      BY <2>0, <2>1, <3>5, <3>6, NoEntryIsAbsent DEF LedgerInv, LedgerTyped, LedgerKept
    <3>8. ASSUME NEW q \in Paths PROVE Agrees(q)'
      <4>1. CASE q # call.path
        BY <2>0, <2>2, <3>6, <4>1, UntouchedAgrees
           DEF LedgerInv, LedgerTyped, NothingCommittedIsLost
      <4>2. CASE q = call.path
        BY <2>0, <2>2, <3>4, <3>6, <4>2 DEF LedgerInv, LedgerTyped, Agrees, Catalog
      <4> QED
        BY <4>1, <4>2
    <3> QED
      BY <3>7, <3>8 DEF LedgerInv, NothingCommittedIsLost
  <2>3. CASE db[call.path] = Absent /\ db' = [db EXCEPT ![call.path] = EmptyFile]
    <3>1. db[call.src] = Absent
      <4>1. CASE db[call.src] # Absent
        BY <2>0, <2>3, <4>1, CatalogTyped, NoneIsAbsent DEF ArtifactInv, CopyInv
      <4> QED
        BY <4>1
    <3>2. told' = [told EXCEPT ![call.path] = {}]
      BY <1>2, <3>1 DEF Told
    <3>3. LedgerTyped' /\ LedgerKept'
      BY <2>0, <2>1, <3>2, NoEntryIsAbsent DEF LedgerInv, LedgerTyped, LedgerKept
    <3>4. ASSUME NEW q \in Paths PROVE Agrees(q)'
      <4>1. CASE q # call.path
        BY <2>0, <2>3, <3>2, <4>1, UntouchedAgrees
           DEF ArtifactInv, TypeOK, LedgerInv, LedgerTyped, NothingCommittedIsLost
      <4>2. CASE q = call.path
        BY <2>0, <2>3, <3>2, <4>2
           DEF ArtifactInv, TypeOK, LedgerInv, LedgerTyped, Agrees, Catalog, EmptyFile
      <4> QED
        BY <4>1, <4>2
    <3> QED
      BY <3>3, <3>4 DEF LedgerInv, NothingCommittedIsLost
  <2> QED
    BY <1>2, <2>2, <2>3 DEF CopyOpen
<1> QED
  BY <1>1, <1>2 DEF Copy

\* A path that is given up has no entry.
LEMMA GivingUpKeeps ==
    ASSUME ArtifactInv, LedgerInv, GivingUp
    PROVE  LedgerInv'
<1>1. ASSUME NEW p \in Paths, NEW m \in Modes, ReplaceBegin(p, m), Told(p, Absent)
      PROVE  LedgerInv'
  <2>0. /\ h5' = h5 /\ db' = db /\ wal' = wal /\ st = Absent /\ st' = Absent
        /\ call'.op = "replace" /\ call'.path = p
        /\ told' = [told EXCEPT ![p] = Absent]
    BY <1>1 DEF ReplaceBegin, disk, NewCall, Told
  <2>1. LedgerTyped' /\ told'[p] = Absent /\ LedgerKept'
    BY <1>1, <2>0, ToldTyped DEF LedgerInv, LedgerKept
  <2>2. ASSUME NEW q \in Paths PROVE Agrees(q)'
    <3>1. CASE q = p
      BY <2>0, <3>1 DEF LedgerInv, LedgerTyped, Agrees
    <3>2. CASE q # p
      BY <2>0, <3>2, UntouchedAgrees DEF LedgerInv, LedgerTyped, NothingCommittedIsLost
    <3> QED
      BY <3>1, <3>2
  <2> QED
    BY <2>1, <2>2 DEF LedgerInv, NothingCommittedIsLost
<1>2. ASSUME CatalogRemoveWal,
             IF wal[call.path] = Absent THEN UNCHANGED told ELSE Told(call.path, Absent)
      PROVE  LedgerInv'
  <2>0. /\ call # Absent /\ call.path \in Paths /\ call.op = "catalog"
        /\ call'.op = "catalog" /\ st' = st /\ st.path = call.path /\ st.mode = "InMemory"
        /\ h5' = h5 /\ db' = db /\ wal' = [wal EXCEPT ![call.path] = Absent]
    BY <1>2 DEF CatalogRemoveWal, DropLog, At, Advance, ArtifactInv, TypeOK, Calls, CallInv,
                CatalogInv
  <2>1. LedgerTyped' /\ LedgerKept'
    <3>1. CASE wal[call.path] = Absent
      BY <1>2, <2>0, <3>1 DEF LedgerInv, LedgerTyped, LedgerKept
    <3>2. CASE wal[call.path] # Absent
      BY <1>2, <2>0, <3>2, ToldTyped DEF LedgerInv, LedgerKept
    <3> QED
      BY <3>1, <3>2
  <2>2. ASSUME NEW q \in Paths PROVE Agrees(q)'
    <3>1. CASE q = call.path /\ wal[q] # Absent
      BY <1>2, <2>0, <3>1 DEF LedgerInv, LedgerTyped, Told, Agrees
    <3>2. CASE ~(q = call.path /\ wal[q] # Absent)
      BY <1>2, <2>0, <3>2, UntouchedAgrees
         DEF ArtifactInv, TypeOK, LedgerInv, LedgerTyped, NothingCommittedIsLost, Told
    <3> QED
      BY <3>1, <3>2
  <2> QED
    BY <2>1, <2>2 DEF LedgerInv, NothingCommittedIsLost
<1> QED
  BY <1>1, <1>2 DEF GivingUp

\* No other step changes an entry, and each leaves every path as it was, shut, or
\* with the rows its entry has.
LEMMA UpkeepKeeps ==
    ASSUME ArtifactInv, LedgerInv, Upkeep
    PROVE  LedgerInv'
<1>1. told' = told /\ LedgerTyped' /\ \A q \in Paths : Agrees(q)
  BY DEF Upkeep, LedgerInv, LedgerTyped, NothingCommittedIsLost
<1>2. CASE Crash \/ CreateInMemory \/ CopyNoCatalog \/ Return \/ CatalogBegin \/ CatalogReturn
  <2>1. h5' = h5 /\ db' = db /\ wal' = wal
    BY <1>2 DEF Crash, CreateInMemory, CopyNoCatalog, Return, CatalogBegin, CatalogReturn, disk
  <2>2. LedgerKept'
    <3>1. CASE Crash \/ CreateInMemory
      BY <1>1, <3>1 DEF Crash, CreateInMemory, Idle, LedgerKept
    <3>2. CASE CopyNoCatalog
      <4>1. st' = st /\ call \in Calls /\ call' = [call EXCEPT !.at = "open"]
        BY <3>2 DEF CopyNoCatalog, At, Advance, ArtifactInv, TypeOK
      <4>2. call'.op = call.op /\ call'.path = call.path /\ call'.src = call.src
        BY <4>1 DEF Calls
      <4> QED
        BY <1>1, <2>1, <3>2, <4>1, <4>2 DEF CopyNoCatalog, At, LedgerInv, LedgerKept
    <3>3. CASE Return
      BY <1>1, <3>3
         DEF Return, ArtifactInv, StoreInv, TypeOK, Stores, LedgerInv, LedgerKept
    <3>4. CASE CatalogBegin \/ CatalogReturn
      BY <1>1, <3>4 DEF CatalogBegin, CatalogReturn, NewCall, LedgerInv, LedgerKept
    <3> QED
      BY <1>2, <3>1, <3>2, <3>3, <3>4
  <2>3. ASSUME NEW q \in Paths PROVE Agrees(q)'
    BY <1>1, <2>1, UntouchedAgrees
  <2> QED
    BY <1>1, <2>2, <2>3 DEF LedgerInv, NothingCommittedIsLost
<1>3. CASE Flush \/ Close \/ CompactBegin \/ \E p \in Paths : PersistBegin(p)
  <2>1. st # Absent /\ Checkpoint /\ h5' = h5
    BY <1>3 DEF Flush, Close, CompactBegin, PersistBegin, Ready
  <2>2. LedgerKept'
    BY <1>1, <1>3, <2>1
       DEF Flush, Close, CompactBegin, PersistBegin, LedgerInv, LedgerKept, Ready, Idle, NewCall,
           ArtifactInv, TypeOK, Stores
  <2>3. ASSUME NEW q \in Paths PROVE Agrees(q)'
    BY <1>1, <2>1, CheckpointAgrees DEF ArtifactInv
  <2> QED
    BY <1>1, <2>2, <2>3 DEF LedgerInv, NothingCommittedIsLost
<1>4. ASSUME NEW p \in Paths, PersistArrays(p) PROVE LedgerInv'
  <2>1. /\ st # Absent /\ Checkpoint /\ db[p] = Absent /\ st' = st /\ call' = call /\ call = Absent
        /\ \A q \in Paths : q # p => h5'[q] = h5[q]
    BY <1>4 DEF PersistArrays, Ready, Idle, ArtifactInv, TypeOK
  <2>2. LedgerKept'
    BY <1>1, <2>1 DEF LedgerInv, LedgerKept
  <2>3. ASSUME NEW q \in Paths PROVE Agrees(q)'
    <3>1. CASE q # p
      BY <1>1, <2>1, <3>1, CheckpointAgrees DEF ArtifactInv
    <3>2. CASE q = p
      <4>1. db'[p] = Absent
        BY <2>1, CheckpointKeeps DEF ArtifactInv
      <4> QED
        BY <3>2, <4>1 DEF Agrees, Openable, CatalogReadable
    <3> QED
      BY <3>1, <3>2
  <2> QED
    BY <1>1, <2>2, <2>3 DEF LedgerInv, NothingCommittedIsLost
<1>5. CASE CreateArrays \/ CreateStampArrays \/ CreateStampCatalog
  <2>1. /\ call # Absent /\ call.op = "create" /\ call.path \in Paths /\ CreateInv
        /\ st = Absent /\ told[call.path] = {} /\ db' = db
        /\ Catalog(call.path).rows = {} \/ db[call.path] = Absent
    BY <1>5
       DEF CreateArrays, CreateStampArrays, CreateStampCatalog, At, ArtifactInv, TypeOK, Calls,
           StoreInv, CallInv, CreateInv, Catalog, EmptyFile, LedgerInv, LedgerKept
  <2>2. LedgerKept'
    <3>1. st' # Absent => st'.path = call.path /\ call' = Absent
      BY <1>5, <2>1
         DEF CreateArrays, CreateStampArrays, CreateStampCatalog, Opened
    <3>2. call' # Absent => call'.op = "create" /\ call'.path = call.path
      BY <1>5, <2>1
         DEF CreateArrays, CreateStampArrays, CreateStampCatalog, Advance, ArtifactInv, TypeOK, Calls
    <3> QED
      BY <1>1, <2>1, <3>1, <3>2, NoEntryIsAbsent DEF LedgerKept
  <2>3. \A q \in Paths : q # call.path => h5'[q] = h5[q] /\ wal'[q] = wal[q]
    BY <1>5
       DEF CreateArrays, CreateStampArrays, CreateStampCatalog, Stamp, ArtifactInv, TypeOK
  <2>4. ASSUME NEW q \in Paths PROVE Agrees(q)'
    <3>1. CASE q # call.path
      BY <1>1, <2>1, <2>3, <3>1, UntouchedAgrees
    <3>2. CASE q = call.path /\ db[q] = Absent
      BY <2>1, <3>2 DEF Agrees, Openable, CatalogReadable
    <3>3. CASE q = call.path /\ db[q] # Absent
      <4>1. db[q].rows = {} /\ wal[q] = Absent
        BY <2>1, <3>3 DEF CreateInv, EmptyFile
      <4>2. wal'[q] = Absent \/ wal'[q].rows = {}
        BY <1>5, <2>1, <3>3, <4>1
           DEF CreateArrays, CreateStampArrays, CreateStampCatalog, Stamp, Catalog, ArtifactInv, TypeOK
      <4>3. Catalog(q)'.rows = {}
        BY <2>1, <4>1, <4>2 DEF Catalog
      <4> QED
        BY <1>1, <2>1, <3>3, <4>3 DEF Agrees
    <3> QED
      BY <3>1, <3>2, <3>3
  <2> QED
    BY <1>1, <2>2, <2>4 DEF LedgerInv, NothingCommittedIsLost
<1>6. CASE ReplaceRemoveWal \/ ReplaceRemoveCatalog
  <2>1. /\ call # Absent /\ call.op = "replace" /\ call.path \in Paths /\ st = Absent /\ st' = st
        /\ told[call.path] = Absent /\ h5' = h5
        /\ \A q \in Paths : q # call.path => db'[q] = db[q] /\ wal'[q] = wal[q]
        /\ call'.op = "replace" /\ call'.path = call.path
    BY <1>6
       DEF ReplaceRemoveWal, ReplaceRemoveCatalog, DropLog, At, Advance, ArtifactInv, TypeOK, Calls,
           StoreInv, LedgerInv, LedgerKept
  <2>2. LedgerKept'
    BY <1>1, <2>1 DEF LedgerKept
  <2>3. ASSUME NEW q \in Paths PROVE Agrees(q)'
    <3>1. CASE q # call.path
      BY <1>1, <2>1, <3>1, UntouchedAgrees
    <3>2. CASE q = call.path
      BY <1>1, <2>1, <3>2 DEF Agrees
    <3> QED
      BY <3>1, <3>2
  <2> QED
    BY <1>1, <2>2, <2>3 DEF LedgerInv, NothingCommittedIsLost
<1>7. CASE CopyArrays \/ CopyCatalogBegin \/ CopyCatalog \/ CopyUndoArrays \/ CopyUndoCatalog
  <2>1. /\ call # Absent /\ call \in Calls /\ call.op = "copy" /\ CopyInv
        /\ call.path \in Paths /\ call.src \in Paths /\ call.src # call.path
        /\ st = Absent /\ st' = Absent /\ wal' = wal /\ wal[call.path] = Absent
        /\ call' = Absent \/ (/\ call'.op = "copy" /\ call'.path = call.path
                              /\ call'.src = call.src)
        /\ \A q \in Paths : q # call.path => h5'[q] = h5[q] /\ db'[q] = db[q]
    BY <1>7
       DEF CopyArrays, CopyCatalogBegin, CopyCatalog, CopyUndoArrays, CopyUndoCatalog, At, Advance,
           ArtifactInv, TypeOK, Calls, StoreInv, CallInv, CopyInv
  <2>p. PICK p \in Paths : p = call.path
    BY <2>1
  <2>2. told[call.path] = IF h5[call.src].gen = Unstamped THEN Absent ELSE told[call.src]
    BY <2>1 DEF LedgerInv, LedgerKept
  <2>3. LedgerKept'
    BY <1>1, <2>1, <2>2 DEF LedgerKept
  <2>4. Agrees(p)'
    <3>1. CASE CopyArrays
      BY <2>1, <2>p, <3>1 DEF CopyArrays, At, CopyInv, Agrees, Openable, CatalogReadable
    <3>2. CASE CopyCatalogBegin
      <4>1. /\ db'[p] \in {EmptyFile, TornCatalog} /\ h5' = h5
            /\ h5[p] = h5[call.src]
        BY <2>1, <2>p, <3>2 DEF CopyCatalogBegin, At, CopyInv, ArtifactInv, TypeOK
      <4>2. Openable(p)' => h5[p].gen = Unstamped
        BY <2>1, <2>p, <4>1
           DEF Openable, ArraysReadable, CatalogReadable, StampsAgree, Catalog, EmptyFile, TornCatalog
      <4> QED
        BY <1>1, <2>2, <2>p, <4>1, <4>2 DEF Agrees
    <3>3. CASE CopyCatalog
      <4>1. /\ db'[p] = Catalog(call.src) /\ h5' = h5 /\ db[call.src] # Absent
            /\ h5[p] = h5[call.src]
        BY <2>1, <2>p, <3>3 DEF CopyCatalog, CatalogReadable, At, CopyInv, ArtifactInv, TypeOK
      <4>2. /\ Catalog(p)'.rows = Catalog(call.src).rows
            /\ Catalog(p)'.gen = Catalog(call.src).gen
        BY <2>1, <2>p, <4>1 DEF Catalog
      <4>3. Openable(p)' => Openable(call.src)
        BY <4>1, <4>2 DEF Openable, ArraysReadable, CatalogReadable, StampsAgree
      <4> QED
        BY <1>1, <2>1, <2>p, <4>2, <4>3, CopyShowsSource DEF Agrees
    <3>4. CASE CopyUndoArrays
      <4>1. db' = db /\ (h5'[p] = Absent \/ h5'[p] = h5[p])
        BY <2>1, <2>p, <3>4 DEF CopyUndoArrays, ArtifactInv, TypeOK
      <4> QED
        BY <1>1, <2>1, <2>p, <4>1, UntouchedAgrees DEF Agrees, Openable, ArraysReadable
    <3>5. CASE CopyUndoCatalog
      <4>1. h5' = h5 /\ (db'[p] = Absent \/ db'[p] = db[p])
        BY <2>1, <2>p, <3>5 DEF CopyUndoCatalog, ArtifactInv, TypeOK
      <4> QED
        BY <1>1, <2>1, <2>p, <4>1, UntouchedAgrees DEF Agrees, Openable, CatalogReadable
    <3> QED
      BY <1>7, <3>1, <3>2, <3>3, <3>4, <3>5
  <2>5. ASSUME NEW q \in Paths PROVE Agrees(q)'
    <3>1. CASE q # p
      BY <1>1, <2>1, <2>p, <3>1, UntouchedAgrees
    <3> QED
      BY <2>4, <3>1
  <2> QED
    BY <1>1, <2>3, <2>5 DEF LedgerInv, NothingCommittedIsLost
<1>8. CASE PersistRenameArrays \/ PersistRemoveWal
  <2>1. /\ call # Absent /\ call.op = "persist" /\ call.path \in Paths /\ PersistInv
        /\ st' = st /\ call'.op = "persist" /\ db' = db
        /\ \A q \in Paths : q # call.path => h5'[q] = h5[q] /\ wal'[q] = wal[q]
        /\ h5'[call.path].gen = call.gen
        /\ wal'[call.path] = Absent \/ wal'[call.path] = wal[call.path]
        /\ call.at \in {"arrays", "wal"}
    BY <1>8
       DEF PersistRenameArrays, PersistRemoveWal, At, Advance, ArtifactInv, TypeOK, Calls, CallInv,
           PersistInv
  <2>p. PICK p \in Paths : p = call.path
    BY <2>1
  <2>2. LedgerKept'
    BY <1>1, <2>1 DEF LedgerInv, LedgerKept
  <2>3. Agrees(p)'
    \* the arrays have the new stamp and no catalog there does
    BY <2>1, <2>p DEF PersistInv, Agrees, Openable, CatalogReadable, StampsAgree, Catalog
  <2>4. ASSUME NEW q \in Paths PROVE Agrees(q)'
    <3>1. CASE q # p
      BY <1>1, <2>1, <2>p, <3>1, UntouchedAgrees
    <3> QED
      BY <2>3, <3>1
  <2> QED
    BY <1>1, <2>2, <2>4 DEF LedgerInv, NothingCommittedIsLost
<1>9. CASE CompactRename
  <2>1. /\ call # Absent /\ call.op = "compact" /\ call.path \in Paths
        /\ st' = st /\ call'.op = "compact" /\ db' = db /\ wal' = wal
        /\ \A q \in Paths : q # call.path => h5'[q] = h5[q]
        /\ h5[call.path] # Absent /\ h5'[call.path].gen = h5[call.path].gen
        /\ ArraysReadable(call.path)
    BY <1>9, ArtifactConstants
       DEF CompactRename, At, Advance, ArtifactInv, TypeOK, Calls, CallInv, CompactInv, StoreInv,
           ArraysReadable
  <2>p. PICK p \in Paths : p = call.path
    BY <2>1
  <2>2. LedgerKept'
    BY <1>1, <2>1 DEF LedgerInv, LedgerKept
  <2>3. Agrees(p)'
    BY <1>1, <2>1, <2>p
       DEF Agrees, Openable, ArraysReadable, CatalogReadable, StampsAgree, Catalog
  <2>4. ASSUME NEW q \in Paths PROVE Agrees(q)'
    <3>1. CASE q # p
      BY <1>1, <2>1, <2>p, <3>1, UntouchedAgrees
    <3> QED
      BY <2>3, <3>1
  <2> QED
    BY <1>1, <2>2, <2>4 DEF LedgerInv, NothingCommittedIsLost
<1> QED
  BY <1>2, <1>3, <1>4, <1>5, <1>6, <1>7, <1>8, <1>9 DEF Upkeep

\* Every step keeps the ledger true.
LEMMA LedgerNextKeeps ==
    ASSUME ArtifactInv, LedgerInv, [LedgerNext]_ledgerVars
    PROVE  LedgerInv'
<1>1. CASE UNCHANGED ledgerVars
  <2>1. LedgerTyped' /\ LedgerKept'
    BY <1>1 DEF ledgerVars, vars, LedgerInv, LedgerTyped, LedgerKept
  <2>2. ASSUME NEW q \in Paths PROVE Agrees(q)'
    BY <1>1, UntouchedAgrees DEF ledgerVars, vars, LedgerInv, NothingCommittedIsLost
  <2> QED
    BY <2>1, <2>2 DEF LedgerInv, NothingCommittedIsLost
<1>2. CASE Mutation
  <2>1. PICK a \in Arrays :
           \/ /\ Add(a)
              /\ IF st.mode = "Attached" THEN Told(st.path, told[st.path] \cup {a})
                                         ELSE UNCHANGED told
           \/ /\ Remove(a)
              /\ IF st.mode = "Attached" THEN Told(st.path, told[st.path] \ {a})
                                         ELSE UNCHANGED told
    BY <1>2 DEF Mutation
  <2>2. /\ Ready /\ st # Absent /\ st \in Stores /\ LiveRows \subseteq Arrays
        /\ st.mode = "Attached" => /\ LiveRows = Catalog(st.path).rows
                                   /\ told[st.path] \in SUBSET Arrays
    BY <2>1, LiveRowsTyped
       DEF Add, Remove, Ready, ArtifactInv, TypeOK, LiveRows, Stores, LedgerInv, LedgerTyped, LedgerKept
  <2>3. /\ call' = call /\ db' = db /\ st'.path = st.path /\ st'.mode = st.mode
        /\ \A q \in Paths : /\ h5'[q] = Absent <=> h5[q] = Absent
                            /\ h5[q] # Absent => h5'[q].gen = h5[q].gen
    <3>1. call' = call /\ db' = db /\ st'.path = st.path /\ st'.mode = st.mode
      BY <2>1, <2>2 DEF Add, Remove, Stores
    <3>2. ASSUME NEW q \in Paths
          PROVE  /\ h5'[q] = Absent <=> h5[q] = Absent
                 /\ h5[q] # Absent => h5'[q].gen = h5[q].gen
      <4>1. CASE h5' = h5
        BY <4>1
      <4>2. CASE st.file /\ q # st.path
        BY <2>1, <4>2 DEF Add, Remove, ArtifactInv, TypeOK
      <4>3. CASE st.file /\ q = st.path
        <5>1. h5[q] # Absent /\ h5[q] \in ArrayFiles
          BY <2>2, <4>3, ArtifactConstants DEF ArtifactInv, TypeOK, StoreInv, ArraysReadable
        <5>2. /\ h5'[q] = [h5[q] EXCEPT !.arrays = @ \cup {a}]
                 \/ h5'[q] = [h5[q] EXCEPT !.arrays = @ \ {a}]
          BY <2>1, <4>3 DEF Add, Remove, ArtifactInv, TypeOK
        <5>3. h5'[q] \in ArrayFiles /\ h5'[q].gen = h5[q].gen
          BY <5>1, <5>2 DEF ArrayFiles
        <5> QED
          BY <5>1, <5>3, NoneIsAbsent
      <4> QED
        BY <2>1, <4>1, <4>2, <4>3 DEF Add, Remove
    <3> QED
      BY <3>1, <3>2
  <2>4. CASE Add(a) /\ IF st.mode = "Attached" THEN Told(st.path, told[st.path] \cup {a})
                                               ELSE UNCHANGED told
    <3> DEFINE R == LiveRows \cup {a}
               E == IF st.mode = "Attached" THEN told[st.path] \cup {a} ELSE {}
    <3>1. R \in SUBSET Arrays /\ E \in SUBSET Arrays
      BY <2>2
    <3>2. /\ IF st.mode = "Attached" THEN Commit(st.path, R) ELSE UNCHANGED wal
          /\ IF st.mode = "Attached" THEN Told(st.path, E) ELSE UNCHANGED told
          /\ st.mode = "Attached" /\ told[st.path] = Catalog(st.path).rows => R = E
      BY <2>2, <2>4 DEF Add
    <3> HIDE DEF R, E
    <3> QED
      BY <2>2, <2>3, <3>1, <3>2, MutationKeeps
  <2>5. CASE Remove(a) /\ IF st.mode = "Attached" THEN Told(st.path, told[st.path] \ {a})
                                                  ELSE UNCHANGED told
    <3> DEFINE R == LiveRows \ {a}
               E == IF st.mode = "Attached" THEN told[st.path] \ {a} ELSE {}
    <3>1. R \in SUBSET Arrays /\ E \in SUBSET Arrays
      BY <2>2
    <3>2. /\ IF st.mode = "Attached" THEN Commit(st.path, R) ELSE UNCHANGED wal
          /\ IF st.mode = "Attached" THEN Told(st.path, E) ELSE UNCHANGED told
          /\ st.mode = "Attached" /\ told[st.path] = Catalog(st.path).rows => R = E
      BY <2>2, <2>5 DEF Remove
    <3> HIDE DEF R, E
    <3> QED
      BY <2>2, <2>3, <3>1, <3>2, MutationKeeps
  <2> QED
    BY <2>1, <2>4, <2>5
<1> QED
  BY <1>1, <1>2, NewStoreKeeps, OpenedStoreKeeps, SaveKeeps, CopyKeeps, GivingUpKeeps,
     UpkeepKeeps DEF LedgerNext

\* A path that opens shows exactly the rows committed there, whatever was cut
\* short: the log of a crashed writer is read, a copy has all of its source, and
\* an unfinished save, copy or compaction shows nothing of its own.
THEOREM CommitsAreKept == LedgerSpec => []NothingCommittedIsLost
<1>1. LedgerInit => ArtifactInv /\ LedgerInv
  BY InitKeeps, LedgerInitKeeps DEF LedgerInit
<1>2. ArtifactInv /\ LedgerInv /\ [LedgerNext]_ledgerVars => ArtifactInv' /\ LedgerInv'
  BY LedgerStepIsStep, NextKeeps, LedgerNextKeeps
<1>3. LedgerInv => NothingCommittedIsLost
  BY DEF LedgerInv
<1> QED
  BY <1>1, <1>2, <1>3, PTL DEF LedgerSpec

=============================================================================
