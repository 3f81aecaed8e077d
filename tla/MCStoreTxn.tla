----------------------------- MODULE MCStoreTxn -----------------------------
(***************************************************************************)
(* Model values for StoreTxn: two arrays of one pool, one of them on an    *)
(* explicit time axis; the other is also filed under a standalone layout.  *)
(***************************************************************************)
EXTENDS StoreTxn

CONSTANTS o1, o2, n1, n2, f1, a1, a2, t1, p1

MCOwners == {o1, o2}
MCNames == {n1, n2}
MCOneName == {n1}
MCFeatureSets == {f1}
MCArrays == {a1, a2}
MCAxes == {t1}
MCPools == {p1}

Req(o, n, a, t, p) ==
    [owner |-> o, name |-> n, fs |-> f1, arr |-> a, axis |-> t, pool |-> p]

\* A regular series on its own, and a call that files an irregular series and,
\* for another owner and under another layout, the first one's values.
MCBatches ==
    { {Req(o1, n1, a1, NoAxis, p1)},
      {Req(o1, n1, a2, t1, p1), Req(o2, n1, a1, NoAxis, Standalone)} }

\* One owner, for the runs that spend their states on failures instead.
MCOneOwner == {o1}
MCSmallBatches ==
    { {Req(o1, n1, a1, NoAxis, p1)},
      {Req(o1, n2, a1, t1, Standalone)} }

=============================================================================
