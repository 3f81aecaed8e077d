----------------------------- MODULE PyStore -----------------------------
(* A Python program on one thread using one Store (the class is            *)
(* unsendable).  A call runs its method's steps; where a step runs Python  *)
(* code, that code may call the Store again, so calls nest on a stack.     *)
(* `with store.transaction()` blocks are entered and left around calls.    *)
EXTENDS PyMethods

CONSTANTS MaxStack,    \* bound on nested calls
          MaxDepth,    \* bound on open transaction levels
          MaxBlocks    \* bound on nested with blocks

VARIABLES open,      \* inner is Some
          depth,     \* open transaction levels of the store
          stack,     \* calls in progress, innermost last
          blocks,    \* with blocks in progress, innermost last
          ended      \* how the last call ended

vars == <<open, depth, stack, blocks, ended>>

Running == [raised |-> FALSE, wrote |-> FALSE, leaked |-> FALSE]

Init ==
  /\ open = TRUE
  /\ depth = 0
  /\ stack = <<>>
  /\ blocks = <<>>
  /\ ended = Running

Height == Len(stack)
Top    == stack[Height]
Step   == Top.rest[1]
At(op) == Height > 0 /\ Top.rest # <<>> /\ Step.op = op

\* Python code runs: between calls, or inside a step of the innermost one.
PythonRuns ==
  \/ Height = 0
  \/ Height \in 1..(MaxStack - 1) /\ Top.rest # <<>> /\ Step \in {RunsPy, Warn}

Push(program, block) ==
  /\ stack' = Append(stack, [rest |-> program, guard |-> "none", opened |-> FALSE,
                             wrote |-> FALSE, changed |-> FALSE, block |-> block,
                             before |-> IF block = "exit" THEN depth ELSE 0])
  /\ ended' = Running

Call(m) ==
  /\ PythonRuns
  /\ Push(Method[m], "none")
  /\ UNCHANGED <<open, depth, blocks>>

\* A block is left where it was entered: with no call of its body in progress.
EnterBlock ==
  /\ PythonRuns /\ Len(blocks) < MaxBlocks
  /\ Push(transaction_enter, "enter")
  /\ UNCHANGED <<open, depth, blocks>>

ExitBlock ==
  /\ blocks # <<>> /\ blocks[Len(blocks)].height = Height
  /\ PythonRuns
  /\ \/ Push(transaction_exit, "exit")
     \/ Push(transaction_unwind, "exit")
  /\ UNCHANGED <<open, depth, blocks>>

WithTop(frame) == [stack EXCEPT ![Height] = frame]
Advanced       == [Top EXCEPT !.rest = Tail(@)]

\* The other calls that have taken the store see it change under them.
Disturbing(frame) ==
  [i \in DOMAIN stack |->
     IF i = Height THEN frame ELSE [stack[i] EXCEPT !.changed = @ \/ stack[i].opened]]

\* PyO3's run-time borrow check (PyRef and PyRefMut).
Free(mode) ==
  \A i \in 1..(Height - 1) :
    stack[i].guard = "none" \/ (mode = "shared" /\ stack[i].guard = "shared")

\* A call ends, by returning or by raising; a with block is settled by its
\* __enter__ and its __exit__ either way.
End(raised) ==
  LET b == Top.block IN
  /\ stack' = SubSeq(stack, 1, Height - 1)
  /\ blocks' = IF b = "enter" /\ ~raised
               THEN Append(blocks, [depth |-> depth - 1, height |-> Height - 1])
               ELSE IF b = "exit" THEN SubSeq(blocks, 1, Len(blocks) - 1) ELSE blocks
  /\ ended' = [raised |-> raised, wrote |-> Top.wrote,
               leaked |-> /\ b = "exit" /\ open
                          /\ Top.before = blocks[Len(blocks)].depth + 1
                          /\ depth > blocks[Len(blocks)].depth]

Borrow ==
  /\ At("borrow") /\ Free(Step.mode)
  /\ stack' = WithTop([Advanced EXCEPT !.guard = Step.mode])
  /\ UNCHANGED <<open, depth, blocks, ended>>

\* Fault: a conversion lets go of the receiver.
ConvertDropsBorrow ==
  /\ At("arg") \/ At("warn")
  /\ stack' = WithTop([Advanced EXCEPT !.guard = "none"])
  /\ UNCHANGED <<open, depth, blocks, ended>>

Convert ==
  /\ At("arg") \/ At("warn")
  /\ stack' = WithTop(Advanced)
  /\ UNCHANGED <<open, depth, blocks, ended>>

TakeStore ==
  /\ At("open") /\ open
  /\ stack' = WithTop([Advanced EXCEPT !.opened = TRUE])
  /\ UNCHANGED <<open, depth, blocks, ended>>

CoreQuery ==
  /\ At("core") /\ Step.effect = "none"
  /\ stack' = WithTop(Advanced)
  /\ UNCHANGED <<open, depth, blocks, ended>>

DepthAfter(effect) ==
  CASE effect = "begin"                 -> depth + 1
    [] effect \in {"commit", "rollback"} -> depth - 1
    [] OTHER                            -> depth

\* A core call that changes the store; with no level open, commit and rollback fail.
CoreEdit ==
  /\ At("core") /\ Step.effect # "none"
  /\ DepthAfter(Step.effect) \in 0..MaxDepth
  /\ depth' = DepthAfter(Step.effect)
  /\ stack' = Disturbing([Advanced EXCEPT !.wrote = TRUE])
  /\ UNCHANGED <<open, blocks, ended>>

\* close(): dropping the core Store abandons its open transaction.
Close ==
  /\ At("close")
  /\ open' = FALSE
  /\ depth' = 0
  /\ stack' = Disturbing([Advanced EXCEPT !.wrote = TRUE])
  /\ UNCHANGED <<blocks, ended>>

\* __exit__ after an exception: the rollback works, or fails and is reported
\* once the borrow is gone.
Unwind ==
  /\ At("unwind") /\ open /\ depth > 0
  /\ depth' = depth - 1
  /\ stack' = Disturbing([Advanced EXCEPT !.wrote = TRUE])
  /\ UNCHANGED <<open, blocks, ended>>

UnwindFails ==
  /\ At("unwind")
  /\ stack' = WithTop([Top EXCEPT !.rest = <<Warn>>, !.guard = "none"])
  /\ UNCHANGED <<open, depth, blocks, ended>>

\* Any fallible step raises: a borrow that is not free, a conversion, a closed
\* store, the core's error, a warning turned into an error.
Raise ==
  /\ \/ At("borrow") /\ ~Free(Step.mode)
     \/ At("arg") \/ At("warn")
     \/ At("open") /\ ~open
     \/ At("core")
  /\ End(TRUE)
  /\ UNCHANGED <<open, depth>>

Return ==
  /\ Height > 0 /\ Top.rest = <<>>
  /\ End(FALSE)
  /\ UNCHANGED <<open, depth>>

\* The program opens another store once it has closed this one.
Reopen ==
  /\ Height = 0 /\ blocks = <<>> /\ ~open
  /\ open' = TRUE
  /\ UNCHANGED <<depth, stack, blocks, ended>>

Next ==
  \/ \E m \in DOMAIN Method : Call(m)
  \/ EnterBlock
  \/ ExitBlock
  \/ Borrow
  \/ Convert
  \/ TakeStore
  \/ CoreQuery
  \/ CoreEdit
  \/ Close
  \/ Unwind
  \/ UnwindFails
  \/ Raise
  \/ Return
  \/ Reopen

Spec == Init /\ [][Next]_vars

-----------------------------------------------------------------------------
\* Python code that a call runs (a conversion, a rendering, a warning hook) never
\* changes or closes the store under that call: what a method took from store() is
\* what it uses until it returns (lib.rs:3305-3317, 3637, 3263-3289).
NothingChangesUnderACall == \A i \in DOMAIN stack : ~stack[i].changed

\* A method that raises has not edited the store: every conversion precedes the
\* core call and nothing fallible follows it (lib.rs:3705-3799, 4389-4451).
RaiseLeavesStore == ended.raised => ~ended.wrote

\* What the docstring of begin_transaction says of the context manager
\* (lib.rs:3998-3999): a block whose body kept its levels balanced does not leave
\* its own level open.
BlockNeverLeaks == ~ended.leaked

-----------------------------------------------------------------------------
(* Why.                                                                    *)

Programs == {Method[m] : m \in DOMAIN Method}
            \cup {transaction_enter, transaction_exit, transaction_unwind}
Steps    == {Warn} \cup UNION {{p[i] : i \in DOMAIN p} : p \in Programs}

Changes(s)  == s.op \in {"close", "unwind"} \/ (s.op = "core" /\ s.effect # "none")
MayRaise(s) == s.op \in {"borrow", "arg", "warn", "open", "core"}

\* What is left of a body, under the borrow the call has: it borrows first or has
\* borrowed, exclusively if it changes the store, before it takes the store; nothing
\* that may raise follows a change; and nothing but the borrow precedes an unwind.
InOrder(rest, guard) ==
  \A k \in DOMAIN rest :
    LET s == rest[k] IN
    /\ s.op = "borrow" => k = 1 /\ guard = "none" /\ s.mode \in {"shared", "exclusive"}
    /\ Changes(s) => /\ \/ guard = "exclusive"
                        \/ k > 1 /\ rest[1].op = "borrow" /\ rest[1].mode = "exclusive"
                     /\ \A j \in DOMAIN rest : k < j => ~MayRaise(rest[j])
    /\ s.op = "open" => guard # "none" \/ (k > 1 /\ rest[1].op = "borrow")
    /\ s.op = "unwind" => \A j \in DOMAIN rest : j < k => rest[j].op = "borrow"

MethodsInOrder == \A p \in Programs : p \in Seq(Steps) /\ InOrder(p, "none")

Frames ==
  [rest : Seq(Steps), guard : {"none", "shared", "exclusive"}, opened : BOOLEAN,
   wrote : BOOLEAN, changed : BOOLEAN, block : {"none", "enter", "exit"}, before : Nat]

\* A call that has the store has its borrow, and one that changed it cannot raise.
FrameInv(f) ==
  /\ InOrder(f.rest, f.guard)
  /\ f.opened => f.guard # "none"
  /\ f.wrote => \A k \in DOMAIN f.rest : ~MayRaise(f.rest[k])
  /\ \A k \in DOMAIN f.rest : f.rest[k].op = "unwind" => ~f.opened /\ ~f.wrote
  /\ ~f.changed

\* Two calls on the stack have borrowed only if both did so shared.
StackInv ==
  /\ depth \in Nat
  /\ stack \in Seq(Frames)
  /\ \A i \in DOMAIN stack : FrameInv(stack[i])
  /\ \A i \in DOMAIN stack, j \in DOMAIN stack :
       i # j /\ stack[i].guard # "none" => stack[j].guard \in {"none", "shared"}
                                         /\ (stack[j].guard = "none" \/ stack[i].guard = "shared")

=============================================================================
