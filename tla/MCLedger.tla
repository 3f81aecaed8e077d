------------------------------ MODULE MCLedger ------------------------------
(***************************************************************************)
(* Ledger on two paths, either of which may hold a pair from before        *)
(* generation stamps.  Nothing tells the paths apart, so a state and the   *)
(* one with its paths exchanged are checked once.                          *)
(***************************************************************************)
EXTENDS Ledger, TLC

PathSymmetry == Permutations(Paths)

=============================================================================
