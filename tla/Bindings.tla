---------------------------- MODULE Bindings ----------------------------
(* The two native bindings over one core Store: a process uses the store   *)
(* through the C ABI (Julia does) or through the Python extension, never   *)
(* both on the same handle.                                                *)
EXTENDS CAbi

CONSTANTS MaxStack,    \* bound on nested Python calls
          MaxDepth,    \* bound on open transaction levels
          MaxBlocks    \* bound on nested with blocks

ASSUME PyBounds == {MaxStack, MaxDepth, MaxBlocks} \subseteq Nat \ {0}

VARIABLES open, depth, stack, blocks, ended,   \* PyStore's state
          side                                 \* the binding this process uses

Py == INSTANCE PyStore

\* The order of every method's steps.
ASSUME PyMethodsInOrder == Py!MethodsInOrder

pyVars  == <<open, depth, stack, blocks, ended>>
allVars == <<vars, pyVars, side>>

BindingsInit ==
  /\ Init
  /\ Py!Init
  /\ side \in {"c", "python"}

FromC ==
  /\ side = "c"
  /\ Next
  /\ UNCHANGED <<pyVars, side>>

FromPython ==
  /\ side = "python"
  /\ Py!Next
  /\ UNCHANGED <<vars, side>>

BindingsNext == FromC \/ FromPython

BindingsSpec == BindingsInit /\ [][BindingsNext]_allVars

-----------------------------------------------------------------------------
\* Python code that a call runs (a conversion, a rendering, a warning hook) never
\* changes or closes the store under that call: what a method took from store() is
\* what it uses until it returns (infrastore-py lib.rs:3305-3317, 3637, 3263-3289).
NothingChangesUnderACall == Py!NothingChangesUnderACall

\* A call that fails leaves nothing but its own error: the store is unedited, in C
\* because no fallible step follows the core call, in Python because every
\* conversion precedes it, and the C message is never one an earlier call left
\* (infrastore-ffi lib.rs:2676-3595, infrastore-py lib.rs:3705-3799, 4389-4451).
FailureIsClean == FailureLeavesStore /\ MessageIsNotStale /\ Py!RaiseLeavesStore

\* Both bindings between two of their steps.
BindingsInv == CallInv /\ Py!StackInv

=============================================================================
