-------------------------- MODULE BufferRefinement --------------------------
(* The write buffer and the backend below it, seen as the one set of arrays *)
(* that StoredArrays promises.                                              *)
EXTENDS WriteBuffer

\* What the call in progress has still to take back.
Doomed == Items(call.undo) \cup (IF call.op = "free" THEN call.skip ELSE {})

\* The array of a put that has not been reported.
Unreported == IF call.op = "push" THEN {call.hash} ELSE {}

Promise == INSTANCE StoredArrays WITH
    Arrays   <- Hashes,
    Refusals <- RemoveFaults,
    kept     <- Held \ (Doomed \cup Unreported),
    log      <- arrived,
    putting  <- Unreported,
    dropping <- Doomed,
    leftover <- refused

\* The buffer implements that promise: writing a full block, evicting the widest
\* one over budget, writing early for a reader, a block that fails and is put
\* back, and the reindexing after each, are all invisible to the caller
\* (write_buffer.rs; store.rs buffer_array, commit, unwind_written).
ImplementsPromise == Promise!Spec

\* What the mapping needs beyond BufInv: the garbage of a commit in progress is
\* still held, in the buffer or below it.
GarbageHeld == call.op = "commit" => call.skip \subseteq Held

=============================================================================
