---------------------------- MODULE MCPackedFile ----------------------------
(* PackedFile for TLC: two columns to a dataset in every pool.              *)
EXTENDS PackedFile, TLC

MCChunkCols == [p \in Pools |-> 2]

\* No action or property tells one array from another.
HashSymmetry == Permutations(Hashes)

=============================================================================
