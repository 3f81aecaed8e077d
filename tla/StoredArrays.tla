---------------------------- MODULE StoredArrays ----------------------------
(***************************************************************************)
(* What a store promises of the arrays it is given, with no buffer, block, *)
(* index or budget: a set of arrays and the order in which the open        *)
(* transaction put its own.  A put is accepted or refused as a whole; a    *)
(* rollback takes back the latest puts and a commit drops its garbage, one *)
(* array after the other; and the one thing that can be left over is an    *)
(* array that the layer below would not give up.                           *)
(***************************************************************************)
EXTENDS Naturals, Sequences

CONSTANTS
    Arrays,         \* what can be stored
    Refusals        \* may the layer below refuse to remove an array?

VARIABLES
    kept,           \* the arrays stored
    log,            \* those the open transaction put, in order
    putting,        \* the arrays being put: at most one
    dropping,       \* the arrays being taken back
    leftover        \* those the layer below has refused to give up

vars == <<kept, log, putting, dropping, leftover>>

Elements(s) == {s[i] : i \in DOMAIN s}

Quiet == putting = {} /\ dropping = {}

\* An array is taken back, or the layer below refuses and is on record for it.
TakeBack(h) ==
    \/ UNCHANGED <<kept, leftover>>
    \/ /\ Refusals
       /\ kept' = kept \cup {h}
       /\ leftover' = leftover \cup {h}

Put(h) ==
    /\ Quiet
    /\ h \notin kept
    /\ putting' = {h}
    /\ UNCHANGED <<kept, log, dropping, leftover>>

Accept(h) ==
    /\ h \in putting
    /\ kept' = kept \cup {h}
    /\ log' = Append(log, h)
    /\ putting' = {}
    /\ UNCHANGED <<dropping, leftover>>

\* A refused put stores nothing, as far as the layer below gives it back.
Refuse(h) ==
    /\ h \in putting
    /\ TakeBack(h)
    /\ putting' = {}
    /\ UNCHANGED <<log, dropping>>

Rollback(mark) ==
    /\ Quiet
    /\ log' = SubSeq(log, 1, mark)
    /\ dropping' = Elements(SubSeq(log, mark + 1, Len(log)))
    /\ kept' = kept \ dropping'
    /\ UNCHANGED <<putting, leftover>>

Commit(garbage) ==
    /\ Quiet
    /\ log' = <<>>
    /\ dropping' = garbage
    /\ kept' = kept \ garbage
    /\ UNCHANGED <<putting, leftover>>

Drop(h) ==
    /\ h \in dropping
    /\ dropping' = dropping \ {h}
    /\ TakeBack(h)
    /\ UNCHANGED <<log, putting>>

Init ==
    /\ kept \in SUBSET Arrays
    /\ log = <<>>
    /\ putting = {}
    /\ dropping = {}
    /\ leftover = {}

Next ==
    \/ \E h \in Arrays : Put(h) \/ Accept(h) \/ Refuse(h) \/ Drop(h)
    \/ \E mark \in 0 .. Len(log) : Rollback(mark)
    \/ \E garbage \in SUBSET kept : Commit(garbage)

Spec == Init /\ [][Next]_vars

=============================================================================
