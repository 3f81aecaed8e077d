--------------------------- MODULE MCOpenHandles ---------------------------
(* Small instances of OpenHandles for TLC. *)
EXTENDS OpenHandles, TLC

\* Threads, paths and file names carry no meaning of their own.
HandleSymmetry == Permutations(Threads) \cup Permutations(Files) \cup Permutations(Paths)

=============================================================================
