------------------------------ MODULE Catalog ------------------------------
(***************************************************************************)
(* The rows of `time_series_associations`: the ids they are filed under,   *)
(* the owners they move between and the forecast families they form.       *)
(*                                                                         *)
(* A family is (owner, name, resolution, features).  A SingleTimeSeries    *)
(* ("STS") may be re-described as a DeterministicSingleTimeSeries ("DST"), *)
(* a view that shares its array; a family holds such views or a real       *)
(* Deterministic ("DET"), never both.  The unique index keys on the type   *)
(* and so cannot say that: each path that writes a row checks it, and each *)
(* path that deletes one has to think of the views it may strand.          *)
(*                                                                         *)
(* A name stands here for (name, features) at one resolution, an owner for *)
(* (owner_id, owner_category).  Every call below runs in a savepoint, so a *)
(* call that fails leaves the rows as they were and is not a step.         *)
(* Whether the arrays behind the rows are stored is StoreTxn's subject.    *)
(***************************************************************************)
EXTENDS Naturals, Sequences

CONSTANTS
    Owners,
    Categories,     \* owner categories, as a partition of Owners
    Names,
    Resolutions,    \* resolutions, as a partition of Names
    Arrays,
    Intervals,      \* forecast intervals, ZeroInterval among them
    ZeroInterval,   \* the interval a single window may be normalized to
    Horizons,
    NoPeriod,       \* the interval and horizon of a series that is no forecast
    Addable,        \* the drafts a caller may add
    Documents,      \* the sets of drafts a caller may import
    MaxId,          \* bound: the highest id ever filed
    MaxDepth        \* bound: nesting depth of transactions

Types == {"STS", "DST", "DET"}

\* A row before it is filed: TimeSeriesMetadata with no id.
Drafts == [owner : Owners, name : Names, type : Types,
           interval : Intervals \cup {NoPeriod},
           horizon : Horizons \cup {NoPeriod}, arr : Arrays]

Rows == [id : 1 .. MaxId, owner : Owners, name : Names, type : Types,
         interval : Intervals \cup {NoPeriod},
         horizon : Horizons \cup {NoPeriod}, arr : Arrays]

ASSUME CatalogConstants ==
    /\ ZeroInterval \in Intervals
    /\ \A c \in Categories : c \subseteq Owners
    /\ \A n \in Names : \E res \in Resolutions : n \in res
    /\ Addable \subseteq {d \in Drafts : d.type # "DST"}
    /\ Documents \subseteq SUBSET Drafts
    /\ MaxId \in Nat
    /\ MaxDepth \in Nat

VARIABLES
    rows,       \* the rows as the store's connection sees them
    seq,        \* sqlite_sequence.seq: the highest id the table ever issued
    revision,   \* schema_version, behind 2 until a writable open upgrades it
    saved,      \* SQLite's SAVEPOINT stack, with the rows and seq at each level
    known       \* history: <<id, series>> for every row that was ever committed

vars == <<rows, seq, revision, saved, known>>

-----------------------------------------------------------------------------
(* What two rows have in common.                                           *)

\* The abstract-deterministic family, interval and type left out.
Family(r) == <<r.owner, r.name>>

\* The catalog's unique index, uq_ts_assoc_coalesced.
Identity(r) == <<r.owner, r.type, r.name, r.interval>>

\* The part of a row no operation may change while it keeps its id.
Series(r) == <<r.name, r.type, r.interval, r.horizon, r.arr>>

RowOf(d, id) ==
    [id |-> id, owner |-> d.owner, name |-> d.name, type |-> d.type,
     interval |-> d.interval, horizon |-> d.horizon, arr |-> d.arr]

\* forecast_family_conflict: is there a row of this type in this family?
FamilyHas(R, fam, type) == \E r \in R : Family(r) = fam /\ r.type = type

\* exclusive_counterpart.
Counterpart(type) == CASE type = "DET" -> {"DST"}
                       [] type = "DST" -> {"DET"}
                       [] OTHER -> {}

\* check_forecast_family_free.
FamilyFree(R, d) == \A t \in Counterpart(d.type) : ~FamilyHas(R, Family(d), t)

\* The unique index lets d in.
Vacant(R, d) == \A r \in R : Identity(r) # Identity(d)

\* forecast_family_conflict_on_array, for a source.
HasSource(v, R) ==
    \E s \in R : s.type = "STS" /\ Family(s) = Family(v) /\ s.arr = v.arr

-----------------------------------------------------------------------------
(* Filing rows.                                                            *)

\* What a reader of the file knows once the call, or its transaction, commits.
Learn == known' = IF saved = <<>> THEN known \cup {<<r.id, Series(r)>> : r \in rows'}
                                  ELSE known

\* The ids new drafts D may be filed under, up to the new high-water mark:
\* AUTOINCREMENT continues from the mark, in whatever order the call inserts.
Assigned(D, last) ==
    {f \in [D -> (seq + 1) .. last] :
        /\ \A d, e \in D : f[d] = f[e] => d = e
        /\ \A i \in (seq + 1) .. last : \E d \in D : f[d] = i}

\* check_explicit_time_series_ids: a document's own ids, all above the mark, in
\* any order and with gaps; the insert raises the mark to the highest.
Explicit(D, last) ==
    {f \in [D -> (seq + 1) .. last] :
        /\ \A d, e \in D : f[d] = f[e] => d = e
        /\ \E d \in D : f[d] = last}

\* Insert the drafts of D into R under the ids f.
Filed(R, D, f) == R \cup {RowOf(d, f[d]) : d \in D}

\* insert_batched for each draft of D, ids assigned by the catalog.
FileAssigned(D) ==
    \E last \in seq .. MaxId : \E f \in Assigned(D, last) :
        /\ rows' = Filed(rows, D, f)
        /\ seq' = last

FileExplicit(D) ==
    \E last \in seq .. MaxId : \E f \in Explicit(D, last) :
        /\ rows' = Filed(rows, D, f)
        /\ seq' = last

-----------------------------------------------------------------------------
(* Calls on the store.                                                     *)

Init ==
    /\ rows = {}
    /\ seq = 0
    /\ revision \in 1 .. 2
    /\ saved = <<>>
    /\ known = {}

\* add_time_series and its bulk and per-type forms, through insert_association:
\* a caller's data is never a view.
Add(d) ==
    /\ FamilyFree(rows, d)
    /\ Vacant(rows, d)
    /\ FileAssigned({d})
    /\ Learn
    /\ UNCHANGED <<revision, saved>>

\* Fault: the guard looks the source up by array alone, so another owner's
\* byte-identical series stands in for it.
NoOrphanedViewOnArray(gone, left) ==
    \A s \in gone : s.type = "STS" /\ FamilyHas(left, Family(s), "DST")
                        => \E r \in left : r.type = "STS" /\ r.arr = s.arr

\* check_no_orphaned_dst, after all deletes: each removed source either leaves
\* no view of its array in its family or leaves another source of it there.
NoOrphanedView(gone, left) ==
    \A s \in gone : s.type = "STS" =>
        \/ ~\E v \in left : v.type = "DST" /\ Family(v) = Family(s) /\ v.arr = s.arr
        \/ HasSource(s, left)

\* remove_by_ids, and remove_by_filter with the ids its listing found.
RemoveByIds(gone) ==
    /\ gone # {}
    /\ NoOrphanedView(gone, rows \ gone)
    /\ rows' = rows \ gone
    /\ Learn
    /\ UNCHANGED <<seq, revision, saved>>

\* remove_by_ids_for_owner: one row of another owner refuses the whole batch.
RemoveByIdsForOwner(gone, o) ==
    /\ \A r \in gone : r.owner = o
    /\ RemoveByIds(gone)

\* clear_time_series of one owner or of everything: no guard, since it takes a
\* family's views with their source.
Clear(owners) ==
    /\ rows' = {r \in rows : r.owner \notin owners}
    /\ Learn
    /\ UNCHANGED <<seq, revision, saved>>

Moved(r, new) == [r EXCEPT !.owner = new]

\* Fault: only a Deterministic on the move is looked at.
MoveConflictOneWay(moving, staying, new) ==
    \E m \in moving : m.type = "DET" /\ FamilyHas(staying, <<new, m.name>>, "DST")

\* forecast_family_conflict_on_owner_move, over the whole moved set.
MoveConflict(moving, staying, new) ==
    \E m \in moving : \E t \in Counterpart(m.type) :
        FamilyHas(staying, <<new, m.name>>, t)

\* replace_owner, within one category: one UPDATE, so the index sees the moved
\* rows against the rows already there.
ReplaceOwner(old, new) ==
    LET moving  == {r \in rows : r.owner = old}
        staying == {r \in rows : r.owner # old}
    IN  /\ old # new
        /\ ~MoveConflict(moving, staying, new)
        /\ \A m \in moving : Vacant(staying, Moved(m, new))
        /\ rows' = staying \cup {Moved(m, new) : m \in moving}
        /\ Learn
        /\ UNCHANGED <<seq, revision, saved>>

\* copy_time_series: the row as it is, type included, under an owner of the
\* same category and perhaps another name.  A view is copied without its source.
Copy(src, o, n) ==
    LET d == [owner |-> o, name |-> n, type |-> src.type,
              interval |-> src.interval, horizon |-> src.horizon, arr |-> src.arr]
    IN  /\ Vacant(rows, d)
        /\ FamilyFree(rows, d)
        /\ FileAssigned({d})
        /\ Learn
        /\ UNCHANGED <<revision, saved>>

\* import_association_rows: plain rows first, then the views, each of which
\* needs a SingleTimeSeries in its family by then.
Importable(doc) ==
    LET views == {d \in doc : d.type = "DST"}
        plain == doc \ views
        first == rows \cup plain
    IN  /\ \A d \in plain : Vacant(rows, d) /\ FamilyFree(rows, d)
        /\ \A d \in views :
              /\ FamilyHas(first, Family(d), "STS")
              /\ Vacant(rows, d) /\ FamilyFree(first, d)
        /\ \A d, e \in doc : Identity(d) = Identity(e) => d = e

\* Ids for every row of the document or for none.
Import(doc) ==
    /\ doc # {}
    /\ Importable(doc)
    /\ FileAssigned(doc) \/ FileExplicit(doc)
    /\ Learn
    /\ UNCHANGED <<revision, saved>>

\* derived_view_row.
ViewOf(s, horizon, plan) ==
    [owner |-> s.owner, name |-> s.name, type |-> "DST",
     interval |-> plan[CHOOSE res \in Resolutions : s.name \in res],
     horizon |-> horizon, arr |-> s.arr]

\* The checks over the rows to be written: a Deterministic in the family, or a
\* view of the same identity with another horizon.
TransformRefused(sources, horizon, plan) ==
    \E s \in sources :
        \/ FamilyHas(rows, Family(s), "DET")
        \/ \E r \in rows : /\ Identity(r) = Identity(ViewOf(s, horizon, plan))
                           /\ r.horizon # horizon

\* transform_single_time_series over a scope.  A source whose view is there is
\* skipped.  The plan gives each resolution its stored interval: the one asked
\* for, or zero where a single window was normalized.  Which windows fit the
\* series is left open, so is the uniform-grid policy: both only refuse.
Transform(owners, names, horizon, plan) ==
    LET sources == {r \in rows : r.type = "STS" /\ r.owner \in owners /\ r.name \in names}
        views   == {ViewOf(s, horizon, plan) : s \in sources}
        fresh   == {v \in views : Vacant(rows, v)}
    IN  /\ ~TransformRefused(sources, horizon, plan)
        /\ fresh # {}
        /\ FileAssigned(fresh)
        /\ Learn
        /\ UNCHANGED <<revision, saved>>

Plans == UNION {[Resolutions -> {i, ZeroInterval}] : i \in Intervals}

\* begin_transaction, also nested.
Begin ==
    /\ Len(saved) < MaxDepth
    /\ saved' = Append(saved, [rows |-> rows, seq |-> seq])
    /\ UNCHANGED <<rows, seq, revision, known>>

\* commit_transaction: the outermost RELEASE publishes the rows.
Commit ==
    /\ saved # <<>>
    /\ saved' = SubSeq(saved, 1, Len(saved) - 1)
    /\ known' = IF Len(saved) = 1 THEN known \cup {<<r.id, Series(r)>> : r \in rows}
                                  ELSE known
    /\ UNCHANGED <<rows, seq, revision>>

\* rollback_transaction.  sqlite_sequence is a table like any other: it goes
\* back with the rows.
Rollback ==
    /\ saved # <<>>
    /\ rows' = saved[Len(saved)].rows
    /\ seq' = saved[Len(saved)].seq
    /\ saved' = SubSeq(saved, 1, Len(saved) - 1)
    /\ UNCHANGED <<revision, known>>

\* Fault: the rebuilt table keeps the mark its copied rows gave it.
UpgradeResetsMark ==
    /\ revision < 2 /\ saved = <<>>
    /\ revision' = 2
    /\ seq' \in 0 .. seq
    /\ \A r \in rows : r.id <= seq'
    /\ seq' = 0 \/ \E r \in rows : r.id = seq'
    /\ UNCHANGED <<rows, saved, known>>

\* relax_time_series_type_check, run by the first writable open: the table is
\* rebuilt row by row and the high-water mark carried over by hand.  The copy
\* sets a mark of its own, which the carried one only ever raises.
Upgrade ==
    /\ revision < 2 /\ saved = <<>>
    /\ revision' = 2
    /\ \E copied \in 0 .. seq :
          /\ \A r \in rows : r.id <= copied
          /\ copied = 0 \/ \E r \in rows : r.id = copied
          /\ seq' = IF copied < seq THEN seq ELSE copied
    /\ UNCHANGED <<rows, saved, known>>

Next ==
    \/ \E d \in Addable : Add(d)
    \/ \E gone \in SUBSET rows : RemoveByIds(gone)
    \/ \E gone \in SUBSET rows, o \in Owners : RemoveByIdsForOwner(gone, o)
    \/ \E o \in Owners : Clear({o})
    \/ Clear(Owners)
    \/ \E c \in Categories : \E old, new \in c : ReplaceOwner(old, new)
    \/ \E c \in Categories : \E src \in rows, o \in c, n \in Names :
          src.owner \in c /\ Copy(src, o, n)
    \/ \E doc \in Documents : Import(doc)
    \/ \E owners \in Categories \cup {Owners}, names \in Resolutions \cup {Names},
          horizon \in Horizons, plan \in Plans : Transform(owners, names, horizon, plan)
    \/ Begin
    \/ Commit
    \/ Rollback
    \/ Upgrade

Spec == Init /\ [][Next]_vars

-----------------------------------------------------------------------------
(* Properties.                                                             *)

WellFiled(R, mark) ==
    /\ \A r \in R : r.id <= mark
    /\ \A r, s \in R : r.id = s.id => r = s

\* Ids are the primary key and never above the mark; the savepoints stand one
\* per open level.
TypeOK ==
    /\ rows \subseteq Rows
    /\ seq \in 0 .. MaxId
    /\ revision \in 1 .. 2
    /\ saved \in Seq([rows : SUBSET Rows, seq : 0 .. MaxId])
    /\ Len(saved) <= MaxDepth
    /\ WellFiled(rows, seq)

FamilyExclusiveIn(R) ==
    \A r, s \in R : r.type = "DET" /\ s.type = "DST" => Family(r) # Family(s)

\* No family ever holds a Deterministic and a view of a SingleTimeSeries,
\* whichever call brought the second of them: an add, a copy under another
\* name, an owner's move, a document or a transform, with rollbacks between
\* (check_forecast_family_free, forecast_family_conflict_on_owner_move).
FamilyExclusive == FamilyExclusiveIn(rows)

\* A view that has its source beside it keeps one for as long as it stands: no
\* removal, clear, move or import takes the source from under it, however the
\* rows are batched and whoever else holds the same array
\* (check_no_orphaned_dst).  A rollback may, back to a state without it.
SourceKept ==
    [][\/ Len(saved') < Len(saved)
       \/ \A v \in rows, w \in rows' :
             v.id = w.id /\ v.type = "DST" /\ HasSource(v, rows)
                 => HasSource(w, rows')]_vars

Agrees(R) == \A r \in R : \A k \in known : k[1] = r.id => k[2] = Series(r)

\* An id that a committed row was filed under means that series for ever: it is
\* never reissued after a removal, an import, a rollback of later work or the
\* table rebuild of an upgrade (the contract of TimeSeriesId).
IdKeepsItsMeaning == Agrees(rows)

-----------------------------------------------------------------------------
(* What makes the properties above inductive.                              *)

\* What each savepoint would bring back is as sound as what stands.
SavedSound ==
    \A i \in DOMAIN saved :
        /\ WellFiled(saved[i].rows, saved[i].seq)
        /\ FamilyExclusiveIn(saved[i].rows)
        /\ Agrees(saved[i].rows)

\* The mark only rises inwards, so a rollback never raises it.
MarksRise ==
    \A i \in DOMAIN saved :
        /\ saved[i].seq <= seq
        /\ \A j \in DOMAIN saved : i <= j => saved[i].seq <= saved[j].seq

\* A committed id is below the mark every open level started from.
KnownIssued ==
    \A k \in known :
        /\ k[1] \in 1 .. seq
        /\ \A i \in DOMAIN saved : k[1] <= saved[i].seq

CatInv ==
    /\ TypeOK
    /\ FamilyExclusive
    /\ IdKeepsItsMeaning
    /\ SavedSound
    /\ MarksRise
    /\ KnownIssued

=============================================================================
