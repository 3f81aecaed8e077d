----------------------------- MODULE MCCatalog -----------------------------
(***************************************************************************)
(* Two owners of one category, one name at one resolution, two arrays.     *)
(***************************************************************************)
EXTENDS Catalog, TLC

CONSTANTS o1, o2, n1, a1, a2, i1, h1, h2

MCOwners == {o1, o2}
MCCategories == {{o1, o2}}
MCNames == {n1}
MCResolutions == {{n1}}
MCArrays == {a1, a2}
MCIntervals == {i1, ZeroInterval}
MCHorizons == {h1, h2}

Draft(o, t, i, h, a) ==
    [owner |-> o, name |-> n1, type |-> t, interval |-> i, horizon |-> h, arr |-> a]

\* Any SingleTimeSeries, and a Deterministic at either interval.
MCAddable ==
    {Draft(o, "STS", NoPeriod, NoPeriod, a) : o \in MCOwners, a \in MCArrays}
        \cup {Draft(o, "DET", i1, h1, a1) : o \in MCOwners}

\* A view with its source, a view whose source is over another array, a view on
\* its own, and a Deterministic.
MCDocuments ==
    {{Draft(o1, "DST", i1, h1, a1), Draft(o1, "STS", NoPeriod, NoPeriod, a)} :
        a \in MCArrays}
        \cup {{Draft(o1, "DST", i1, h1, a1)}, {Draft(o1, "DET", i1, h1, a1)}}

=============================================================================
