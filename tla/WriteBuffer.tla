----------------------------- MODULE WriteBuffer -----------------------------
(***************************************************************************)
(* The write buffer of an open transaction (write_buffer.rs): the packed   *)
(* arrays it has accepted and not yet written, in one block per pool, with *)
(* an index from content hash to position, a running byte count and two    *)
(* bounds.  StoreTxn treats the buffer as a set; this module is the data   *)
(* structure behind that set.                                              *)
(*                                                                         *)
(* A call is a sequence of steps, one per block written or array dropped,  *)
(* because any of them may fail and end the call where it stands.  The     *)
(* arrays of a pool have one dtype, shape and length, hence one size.      *)
(* Positions count from 1.                                                 *)
(***************************************************************************)
EXTENDS Naturals, Sequences, FiniteSets

CONSTANTS
    Hashes,         \* content hashes of packed arrays
    Pools,          \* pool keys: dtype, element shape, length and time axis
    PoolOf,         \* the pool each array belongs to
    ColBytes,       \* the bytes of one column of each pool
    ChunkCols,      \* resolve_dataset_cols: columns in one chunk of each pool
    Budgets,        \* the byte budgets a caller may set
    WriteFaults,    \* may writing a block fail?
    RemoveFaults,   \* may the backend refuse to remove an array?
    NoHash

ASSUME BufferConstants ==
    /\ PoolOf \in [Hashes -> Pools]
    /\ ColBytes \in [Pools -> Nat]
    /\ ChunkCols \in [Pools -> Nat \ {0}]
    /\ Budgets \subseteq Nat \ {0}
    /\ WriteFaults \in BOOLEAN
    /\ RemoveFaults \in BOOLEAN
    /\ NoHash \notin Hashes

\* The pools of a store are the keys of a map.
ASSUME PoolsAreFinite == IsFiniteSet(Pools)

VARIABLES
    blocks,         \* each pool's hashes in column order; <<>> is no block
    blockBytes,     \* Block::bytes
    byHash,         \* the pool and position of every buffered hash
    bytes,          \* WriteBuffer::bytes
    maxBytes,       \* WriteBuffer::max_bytes
    disk,           \* the hashes the backend contains
    call,           \* the call in progress
    arrived,        \* OpenTxn::written: what the transaction put, in order
    owed,           \* history: what the calls so far reported as stored
    refused,        \* history: what the backend would not remove
    overdue         \* history: lowering the budget failed part way

buf  == <<blocks, blockBytes, byHash, bytes>>
vars == <<blocks, blockBytes, byHash, bytes, maxBytes, disk, call, arrived,
          owed, refused, overdue>>

Calls == [op   : {"idle", "push", "budget", "write", "commit", "free", "undo"},
          hash : Hashes \cup {NoHash},      \* the array being pushed
          todo : SUBSET Pools,              \* the blocks still to write
          skip : SUBSET Hashes,             \* the arrays to leave buffered
          undo : Seq(Hashes)]               \* the arrays still to drop

Idle == [op |-> "idle", hash |-> NoHash, todo |-> {}, skip |-> {}, undo |-> <<>>]

Items(s) == {s[i] : i \in DOMAIN s}

Buffered == DOMAIN byHash

Held == disk \cup Buffered

\* usize::saturating_sub
Less(a, b) == IF a >= b THEN a - b ELSE 0

AtLeastOne(n) == IF n = 0 THEN 1 ELSE n

Lower(a, b) == IF a <= b THEN a ELSE b

\* The width at which a pool's block is written out.
WidthCap(p) == Lower(ChunkCols[p], AtLeastOne(maxBytes \div AtLeastOne(ColBytes[p])))

-----------------------------------------------------------------------------
(* Dropping one buffered array, and writing one block.                     *)

\* The position a block's next array takes.
Position(p) == Len(blocks[p]) + 1

\* Vec::swap_remove: the last of a block takes the place of the one dropped.
SwapRemove(s, i) == [j \in 1 .. Len(s) - 1 |-> IF j = i THEN s[Len(s)] ELSE s[j]]

\* Fault: the array that swap_remove moved keeps its old position.
ReindexNothing(p, i) == [g \in Buffered \ {blocks[p][i]} |-> byHash[g]]

\* by_hash after the i-th array of pool p is dropped.
Reindex(p, i) ==
    [g \in Buffered \ {blocks[p][i]} |->
        IF g = blocks[p][Len(blocks[p])] THEN [pool |-> p, idx |-> i] ELSE byHash[g]]

\* WriteBuffer::remove of a buffered hash.
DropBuffered(h) ==
    LET p == byHash[h].pool
        i == byHash[h].idx
    IN  /\ blocks' = [blocks EXCEPT ![p] = SwapRemove(blocks[p], i)]
        /\ byHash' = Reindex(p, i)
        /\ blockBytes' = [blockBytes EXCEPT ![p] = Less(@, ColBytes[p])]
        /\ bytes' = Less(bytes, ColBytes[p])

\* Fault: an array is only ever looked for in the buffer.
DropFromBufferOnly(h) ==
    IF h \in Buffered
    THEN DropBuffered(h) /\ UNCHANGED <<disk, refused>>
    ELSE UNCHANGED <<buf, disk, refused>>

\* An array goes from the buffer if it is there, otherwise from the backend,
\* whose refusal is ignored.
Drop(h) ==
    IF h \in Buffered
    THEN DropBuffered(h) /\ UNCHANGED <<disk, refused>>
    ELSE /\ UNCHANGED buf
         /\ \/ disk' = disk \ {h} /\ UNCHANGED refused
            \/ /\ RemoveFaults
               /\ h \in disk
               /\ refused' = refused \cup {h}
               /\ UNCHANGED disk

\* Fault: the kept arrays are put back in any order.
PicksUnordered(s, keep) ==
    LET I == {i \in DOMAIN s : s[i] \in keep}
    IN  {f \in [1 .. Cardinality(I) -> I] :
            \A i \in I : \E j \in DOMAIN f : f[j] = i}

\* The order-preserving enumeration of the positions of s that hold an element
\* of `keep` (there is exactly one).
Picks(s, keep) ==
    LET I == {i \in DOMAIN s : s[i] \in keep}
    IN  {f \in [1 .. Cardinality(I) -> I] :
            /\ \A j, k \in DOMAIN f : j < k => f[j] < f[k]
            /\ \A i \in I : \E j \in DOMAIN f : f[j] = i}

\* The running byte count once pool p's block weighs `kept`.
Recount(p, kept) == Less(bytes, blockBytes[p]) + kept

\* write_block_except: the arrays outside `skip` go to the backend, the others
\* stay as the pool's block in their relative order.
WriteBlock(p, skip) ==
    \E f \in Picks(blocks[p], skip) :
        LET gone == Items(blocks[p]) \ skip
            kept == [j \in DOMAIN f |-> blocks[p][f[j]]]
        IN  /\ blocks' = [blocks EXCEPT ![p] = kept]
            /\ byHash' = [g \in Buffered \ gone |->
                            IF byHash[g].pool = p
                            THEN [pool |-> p, idx |-> CHOOSE j \in DOMAIN f : f[j] = byHash[g].idx]
                            ELSE byHash[g]]
            /\ blockBytes' = [blockBytes EXCEPT ![p] = Len(kept) * ColBytes[p]]
            /\ bytes' = Recount(p, Len(kept) * ColBytes[p])
            /\ disk' = disk \cup gone
            /\ UNCHANGED refused

\* put_packed_block writes a block wider than one chunk as several datasets, and
\* on an error takes the earlier ones back out as far as the backend lets it:
\* what may stay behind of a block that fails.
Torn(p, skip) ==
    LET new == (Items(blocks[p]) \ skip) \ disk
    IN  IF RemoveFaults /\ Cardinality(new) > ChunkCols[p] THEN SUBSET new ELSE {{}}

-----------------------------------------------------------------------------
(* The calls of the store.                                                 *)

\* Is a block of n columns due?
Full(p, n) == n >= WidthCap(p)

\* WriteBuffer::push accepts the array; its pool's block is due if it is full.
Push(h) ==
    LET p == PoolOf[h]
    IN  /\ call.op = "idle"
        /\ h \notin Held
        /\ blocks' = [blocks EXCEPT ![p] = Append(@, h)]
        /\ byHash' = [g \in Buffered \cup {h} |->
                        IF g = h THEN [pool |-> p, idx |-> Position(p)] ELSE byHash[g]]
        /\ blockBytes' = [blockBytes EXCEPT ![p] = @ + ColBytes[p]]
        /\ bytes' = bytes + ColBytes[p]
        /\ call' = [Idle EXCEPT !.op = "push", !.hash = h,
                                !.todo = IF Full(p, Len(blocks[p]) + 1) THEN {p} ELSE {}]
        /\ UNCHANGED <<maxBytes, disk, arrived, owed, refused, overdue>>

\* Store::set_write_buffer_bytes
SetMaxBytes(b) ==
    /\ call.op = "idle"
    /\ maxBytes' = b
    /\ call' = [Idle EXCEPT !.op = "budget"]
    /\ UNCHANGED <<buf, disk, arrived, owed, refused, overdue>>

\* write_holding, for a caller that needs the physical position of some arrays.
WriteHolding(hs) ==
    /\ call.op = "idle"
    /\ call' = [Idle EXCEPT !.op = "write", !.todo = {byHash[h].pool : h \in hs \cap Buffered}]
    /\ UNCHANGED <<buf, maxBytes, disk, arrived, owed, refused, overdue>>

\* The outermost commit: write_all_except of what it has decided to free.
Commit(garbage) ==
    /\ call.op = "idle"
    /\ call' = [Idle EXCEPT !.op = "commit", !.todo = {p \in Pools : blocks[p] # <<>>},
                            !.skip = garbage]
    /\ UNCHANGED <<buf, maxBytes, disk, arrived, owed, refused, overdue>>

\* A rollback, or the clean-up of a failed batch: the arrays put since a mark
\* go, oldest first.
Rollback(mark) ==
    /\ call.op = "idle"
    /\ call' = [Idle EXCEPT !.op = "undo", !.undo = SubSeq(arrived, mark + 1, Len(arrived))]
    /\ arrived' = SubSeq(arrived, 1, mark)
    /\ owed' = owed \ Items(SubSeq(arrived, mark + 1, Len(arrived)))
    /\ UNCHANGED <<buf, maxBytes, disk, refused, overdue>>

-----------------------------------------------------------------------------
(* The steps of a call in progress.                                        *)

\* The next block of a call that writes blocks it chose at the start.
DueNow == call.todo

\* Fault: a new budget only takes effect at the next push.
EvictAfterPush ==
    IF call.op = "push" /\ call.todo = {} /\ bytes > maxBytes
    THEN {p \in Pools : /\ blocks[p] # <<>>
                        /\ \A q \in Pools : blocks[q] # <<>> => blockBytes[q] <= blockBytes[p]}
    ELSE {}

\* evict_over_budget: the widest block is next, if there is one.
EvictNow ==
    IF call.op \in {"push", "budget"} /\ call.todo = {} /\ bytes > maxBytes
    THEN {p \in Pools : /\ blocks[p] # <<>>
                        /\ \A q \in Pools : blocks[q] # <<>> => blockBytes[q] <= blockBytes[p]}
    ELSE {}

WriteNext ==
    \E p \in DueNow \cup EvictNow :
        /\ WriteBlock(p, call.skip)
        /\ call' = [call EXCEPT !.todo = @ \ {p}]
        /\ UNCHANGED <<maxBytes, arrived, owed, overdue>>

\* Writing a block fails: it goes back into the buffer as it was.
BlockFails(torn) ==
    \E p \in DueNow \cup EvictNow :
        /\ (Items(blocks[p]) \ call.skip) \ disk # {}
        /\ torn \in Torn(p, call.skip)

\* A push that fails takes its array back from wherever it ended up.
PushFails ==
    /\ call.op = "push"
    /\ WriteFaults
    /\ \E torn \in SUBSET Hashes :
           /\ BlockFails(torn)
           /\ IF call.hash \in Buffered
              THEN /\ DropBuffered(call.hash)
                   /\ disk' = disk \cup torn
                   /\ UNCHANGED refused
              ELSE /\ UNCHANGED buf
                   /\ \/ /\ disk' = (disk \cup torn) \ {call.hash}
                         /\ UNCHANGED refused
                      \/ /\ RemoveFaults
                         /\ disk' = disk \cup torn
                         /\ refused' = refused \cup {call.hash}
    /\ call' = Idle
    /\ UNCHANGED <<maxBytes, arrived, owed, overdue>>

CallFails ==
    /\ call.op \in {"budget", "write", "commit"}
    /\ WriteFaults
    /\ \E torn \in SUBSET Hashes :
           /\ BlockFails(torn)
           /\ disk' = disk \cup torn
    /\ call' = Idle
    /\ overdue' = (overdue \/ call.op = "budget")
    /\ UNCHANGED <<buf, maxBytes, arrived, owed, refused>>

\* A call that writes blocks returns, and `put_array` reports a new array.
Return ==
    /\ call.op \in {"push", "budget", "write"}
    /\ call.todo = {}
    /\ EvictNow = {}
    /\ IF call.op = "push"
       THEN /\ arrived' = Append(arrived, call.hash)
            /\ owed' = owed \cup {call.hash}
       ELSE UNCHANGED <<arrived, owed>>
    /\ overdue' = IF call.op = "write" THEN overdue ELSE FALSE
    /\ call' = Idle
    /\ UNCHANGED <<buf, maxBytes, disk, refused>>

\* The blocks of a commit are written: its RELEASE takes, and the garbage goes,
\* or it fails and the transaction stands as it was.
CommitDecided ==
    /\ call.op = "commit"
    /\ call.todo = {}
    /\ \/ /\ call' = [call EXCEPT !.op = "free"]
          /\ arrived' = <<>>
       \/ /\ call' = Idle
          /\ UNCHANGED arrived
    /\ UNCHANGED <<buf, maxBytes, disk, owed, refused, overdue>>

\* remove_writes after the commit, in whatever order the frees were queued.
FreeNext ==
    /\ call.op = "free"
    /\ IF call.skip = {}
       THEN call' = Idle /\ UNCHANGED <<buf, disk, owed, refused>>
       ELSE \E h \in call.skip :
                /\ Drop(h)
                /\ owed' = owed \ {h}
                /\ call' = [call EXCEPT !.skip = @ \ {h}]
    /\ UNCHANGED <<maxBytes, arrived, overdue>>

\* unwind_written, one array at a time.
UndoNext ==
    /\ call.op = "undo"
    /\ IF call.undo = <<>>
       THEN call' = Idle /\ UNCHANGED <<buf, disk, refused>>
       ELSE /\ Drop(Head(call.undo))
            /\ call' = [call EXCEPT !.undo = Tail(@)]
    /\ UNCHANGED <<maxBytes, arrived, owed, overdue>>

Init ==
    /\ blocks = [p \in Pools |-> <<>>]
    /\ blockBytes = [p \in Pools |-> 0]
    /\ byHash = [h \in {} |-> NoHash]
    /\ bytes = 0
    /\ maxBytes \in Budgets
    /\ disk \in SUBSET Hashes
    /\ call = Idle
    /\ arrived = <<>>
    /\ owed = disk
    /\ refused = {}
    /\ overdue = FALSE

Next ==
    \/ \E h \in Hashes : Push(h)
    \/ \E b \in Budgets : SetMaxBytes(b)
    \/ \E hs \in SUBSET Hashes : WriteHolding(hs)
    \/ \E garbage \in SUBSET Held : Commit(garbage)
    \/ \E mark \in 0 .. Len(arrived) : Rollback(mark)
    \/ WriteNext
    \/ PushFails
    \/ CallFails
    \/ Return
    \/ CommitDecided
    \/ FreeNext
    \/ UndoNext

Spec == Init /\ [][Next]_vars

-----------------------------------------------------------------------------
(* What the buffer promises.                                               *)

\* Every variable has its type.
TypeOK ==
    /\ blocks \in [Pools -> Seq(Hashes)]
    /\ blockBytes \in [Pools -> Nat]
    /\ DOMAIN byHash \subseteq Hashes
    /\ \A h \in DOMAIN byHash : byHash[h] \in [pool : Pools, idx : Nat \ {0}]
    /\ bytes \in Nat
    /\ maxBytes \in Budgets
    /\ disk \subseteq Hashes
    /\ call \in Calls
    /\ arrived \in Seq(Hashes)
    /\ owed \subseteq Hashes
    /\ refused \subseteq Hashes
    /\ overdue \in BOOLEAN

\* The index and the blocks say the same: every buffered hash is where by_hash
\* puts it and every column of a block is indexed, through any mix of pushes,
\* swap_removes, early writes and commits that leave some arrays behind.
IndexExact ==
    /\ \A h \in Buffered : LET e == byHash[h]
                           IN  /\ e.pool = PoolOf[h]
                               /\ e.idx \in DOMAIN blocks[e.pool]
                               /\ blocks[e.pool][e.idx] = h
    /\ \A p \in Pools : \A i \in DOMAIN blocks[p] :
           /\ blocks[p][i] \in Buffered
           /\ byHash[blocks[p][i]] = [pool |-> p, idx |-> i]

\* Once a call has returned, the store holds exactly what its calls reported:
\* a push that fails has stored nothing, wherever its array had got to, and no
\* failure loses an array an earlier call accepted.  The one thing left over is
\* what the backend refused to remove; a block that fails leaves nothing.
HeldAsReported ==
    call.op = "idle" =>
        /\ owed \subseteq Held
        /\ Held \ owed \subseteq refused

\* The arrays put by the open transaction that are still buffered lie in their
\* block in the order they arrived, so a loop of single adds fills the columns a
\* bulk add would.  swap_remove reorders a block in the middle of a rollback,
\* and what a rollback leaves must still be in order.
ColumnsInArrivalOrder ==
    call.op = "idle" =>
        \A p \in Pools : \A i, j \in DOMAIN blocks[p] :
            i < j => \E a, b \in DOMAIN arrived :
                         /\ a < b
                         /\ arrived[a] = blocks[p][i]
                         /\ arrived[b] = blocks[p][j]

Total[S \in SUBSET Pools] ==
    IF S = {} THEN 0
    ELSE LET p == CHOOSE q \in S : TRUE
         IN  Len(blocks[p]) * ColBytes[p] + Total[S \ {p}]

\* The maintained byte counts are the sums they stand for.
BytesExact ==
    /\ \A p \in Pools : blockBytes[p] = Len(blocks[p]) * ColBytes[p]
    /\ bytes = Total[Pools]

\* Between calls a block is narrower than a chunk, so writing it makes one
\* dataset, which is there or not: put_packed_block has no earlier one to unwind.
BlocksFitOneChunk ==
    call.op = "idle" => \A p \in Pools : Len(blocks[p]) < ChunkCols[p]

\* Blocks and buffer are inside the bounds their widths and the byte budget set,
\* unless lowering the budget has failed and no later call has brought the
\* buffer back inside.  Columns of no bytes (a series of no rows is accepted) are
\* never evicted: a lower budget leaves their block as wide as its chunk allows.
WithinBounds ==
    /\ BlocksFitOneChunk
    /\ call.op = "idle" /\ ~overdue =>
           /\ bytes <= maxBytes
           /\ \A p \in Pools : Len(blocks[p]) <= WidthCap(p) \/ ColBytes[p] = 0

\* The byte budget is kept, and by counts that are exact: evict_over_budget stops
\* on the maintained numbers, which pushes, early writes, skipped garbage and
\* failed calls all adjust.
BudgetKept == BytesExact /\ WithinBounds

-----------------------------------------------------------------------------
(* The inductive invariant behind IndexExact, HeldAsReported,              *)
(* ColumnsInArrivalOrder and BlocksFitOneChunk: what holds half way        *)
(* through a call.                                                         *)

\* What the call in progress has accepted and not yet reported, or has still to
\* drop.
Fresh == Items(call.undo) \cup (IF call.op = "push" THEN {call.hash} ELSE {})

CallShape ==
    /\ call.op \notin {"commit", "free"} => call.skip = {}
    /\ call.op \in {"idle", "budget", "free", "undo"} => call.todo = {}
    /\ call.op = "push" => /\ call.hash \in Held
                           /\ call.todo # {} => /\ call.todo = {PoolOf[call.hash]}
                                                /\ call.hash \in Buffered
    /\ call.op = "commit" =>
           \A p \in Pools \ call.todo : Items(blocks[p]) \subseteq call.skip
    /\ call.op = "free" => arrived = <<>> /\ Buffered \subseteq call.skip
    /\ call.op # "undo" => call.undo = <<>>
    /\ \A i, j \in DOMAIN call.undo : call.undo[i] = call.undo[j] => i = j

\* A block reaches its chunk's width only while it is about to be written.
WidthInv ==
    \A p \in Pools :
        \/ Len(blocks[p]) < ChunkCols[p]
        \/ /\ Len(blocks[p]) = ChunkCols[p]
           /\ call.op = "push"
           /\ p \in call.todo

HeldInv ==
    /\ disk \cap Buffered = {}
    /\ Fresh \cap owed = {}
    /\ owed \subseteq Held
    /\ Held \ owed \subseteq refused \cup Fresh

\* arrived lists the transaction's arrays once each, all of them reported, and
\* every buffered array is one of them or is fresh.
ArrivedInv ==
    /\ \A a, b \in DOMAIN arrived : arrived[a] = arrived[b] => a = b
    /\ Items(arrived) \subseteq owed
    /\ call.op # "free" => Buffered \subseteq Items(arrived) \cup Fresh

\* Of two arrays of a block the later one is fresh, or both arrived in that
\* order.
OrderInv ==
    call.op # "free" =>
        \A p \in Pools : \A i, j \in DOMAIN blocks[p] :
            i < j => \/ blocks[p][j] \in Fresh
                     \/ \E a, b \in DOMAIN arrived :
                            /\ a < b
                            /\ arrived[a] = blocks[p][i]
                            /\ arrived[b] = blocks[p][j]

BufInv == /\ TypeOK
          /\ IndexExact
          /\ CallShape
          /\ WidthInv
          /\ HeldInv
          /\ ArrivedInv
          /\ OrderInv

\* The budget half way through a call.  A push may be over by its own array, which
\* goes if the push fails; a new budget may be over until its call returns.
SpareInv ==
    ~overdue =>
        /\ call.op \notin {"push", "budget"} => bytes <= maxBytes
        /\ call.op = "push" =>
               bytes <= maxBytes + IF call.hash \in Buffered THEN ColBytes[PoolOf[call.hash]]
                                   ELSE 0

BudgetInv == BytesExact /\ SpareInv

=============================================================================
