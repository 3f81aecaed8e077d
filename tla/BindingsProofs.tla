--------------------------- MODULE BindingsProofs ---------------------------
(***************************************************************************)
(* What a caller outside the core is promised: through the C ABI, through  *)
(* Python and over the wire.                                               *)
(*                                                                         *)
(* The bindings, for every bound on the batch, the handles, the text, the  *)
(* nesting of Python calls and of blocks, from the order of the exports'   *)
(* and methods' steps (ExportsInOrder, PyMethodsInOrder).  The order is    *)
(* closed under taking the first step away, which makes it an invariant of *)
(* a call in progress: CallInv for the C ABI, where one call runs at a     *)
(* time, and StackInv for Python, where calls nest.                        *)
(*                                                                         *)
(* A remote caller is told what a local one would be, for any catalog of   *)
(* sound rows, any questions, any ceiling and any number of clients.       *)
(* Field by field, what convert.rs writes reads back; so a request reaches *)
(* the store as it was asked, or is refused for what is wrong with it, and *)
(* each kind of answer, refusals included, comes back as it was given.     *)
(* The calls' own invariant is small (RpcInv): a reply is the server's     *)
(* answer to the request that was sent, or one of three codes for the      *)
(* connection.                                                             *)
(***************************************************************************)
EXTENDS Bindings, Remote, TLAPS

-----------------------------------------------------------------------------
(* The C ABI.                                                              *)

\* What is left after the first step of a body in order.
LEMMA TailInOrder ==
    ASSUME NEW S, NEW body \in Seq(S), body # <<>>, InOrder(body)
    PROVE  /\ Tail(body) \in Seq(S)
           /\ InOrder(Tail(body))
           /\ \A i \in DOMAIN Tail(body) : i + 1 \in DOMAIN body /\ Tail(body)[i] = body[i + 1]
           /\ Commits(body[1]) => \A i \in DOMAIN Tail(body) : ~Fallible(Tail(body)[i])
           /\ body[1].op = "raw" => \E i \in DOMAIN Tail(body) : Tail(body)[i].op = "give"
           /\ (\E i \in DOMAIN body : body[i].op = "give") /\ body[1].op # "give" =>
                 \E i \in DOMAIN Tail(body) : Tail(body)[i].op = "give"
           /\ (\A i \in DOMAIN body : ~Fallible(body[i])) =>
                 \A i \in DOMAIN Tail(body) : ~Fallible(Tail(body)[i])
<1> DEFINE T == Tail(body)
<1>1. T \in Seq(S) /\ Len(T) = Len(body) - 1 /\ Len(body) \in Nat \ {0}
  OBVIOUS
<1>2. DOMAIN T = 1 .. Len(T) /\ DOMAIN body = 1 .. Len(body)
  BY <1>1
<1>3. \A i \in DOMAIN T : i + 1 \in DOMAIN body /\ T[i] = body[i + 1]
  BY <1>1, <1>2
<1>4. \A j \in DOMAIN body : j > 1 => j - 1 \in DOMAIN T /\ T[j - 1] = body[j]
  BY <1>1, <1>2
<1>5. 1 \in DOMAIN body
  BY <1>1, <1>2
<1> HIDE DEF T
<1>6. Commits(body[1]) => \A i \in DOMAIN T : ~Fallible(T[i])
  BY <1>2, <1>3, <1>5 DEF InOrder
<1>7. body[1].op = "raw" => \E i \in DOMAIN T : T[i].op = "give"
  BY <1>2, <1>4, <1>5 DEF InOrder
<1>8. (\E i \in DOMAIN body : body[i].op = "give") /\ body[1].op # "give" =>
         \E i \in DOMAIN T : T[i].op = "give"
  BY <1>1, <1>2, <1>4
<1>9. InOrder(T)
  <2> SUFFICES ASSUME NEW i \in DOMAIN T
               PROVE  /\ Commits(T[i]) => \A j \in DOMAIN T : i < j => ~Fallible(T[j])
                      /\ T[i].op = "raw" => \E j \in DOMAIN T : i < j /\ T[j].op = "give"
    BY DEF InOrder
  <2>1. i + 1 \in DOMAIN body /\ T[i] = body[i + 1]
    BY <1>3
  <2>2. Commits(T[i]) => \A j \in DOMAIN T : i < j => ~Fallible(T[j])
    BY <1>1, <1>2, <1>3, <2>1 DEF InOrder
  <2>3. ASSUME T[i].op = "raw"
        PROVE  \E j \in DOMAIN T : i < j /\ T[j].op = "give"
    <3>1. PICK k \in DOMAIN body : i + 1 < k /\ body[k].op = "give"
      BY <2>1, <2>3 DEF InOrder
    <3> QED
      BY <1>1, <1>2, <1>4, <3>1
  <2> QED
    BY <2>2, <2>3
<1> QED
  BY <1>1, <1>3, <1>6, <1>7, <1>8, <1>9 DEF T

\* A call moves on by one step.
LEMMA AdvanceKeeps ==
    ASSUME CallInv, call # Idle, call.rest # <<>>
    PROVE  /\ call \in Calls
           /\ Step \in Steps(call.fn)
           /\ Step = call.rest[1]
           /\ Advance(call) \in Calls
           /\ Advance(call) = [call EXCEPT !.rest = Tail(call.rest)]
           /\ \A i \in DOMAIN Tail(call.rest) : Tail(call.rest)[i] \in Steps(call.fn)
           /\ InOrder(Tail(call.rest))
           /\ Commits(Step) \/ call.raw # {} \/ call.given # {} \/ call.wrote =>
                \A i \in DOMAIN Tail(call.rest) : ~Fallible(Tail(call.rest)[i])
           /\ Step.op = "raw" \/ (call.raw # {} /\ Step.op # "give") =>
                \E i \in DOMAIN Tail(call.rest) : Tail(call.rest)[i].op = "give"
<1> DEFINE S == UNION {Steps(f) : f \in DOMAIN Program}
<1>1. call \in Calls /\ call.rest \in Seq(S)
  BY DEF CallInv, Calls
<1>2. 1 \in DOMAIN call.rest
  BY <1>1
<1> HIDE DEF S
<1>3. /\ Tail(call.rest) \in Seq(S)
      /\ InOrder(Tail(call.rest))
      /\ \A i \in DOMAIN Tail(call.rest) : /\ i + 1 \in DOMAIN call.rest
                                           /\ Tail(call.rest)[i] = call.rest[i + 1]
      /\ Commits(call.rest[1]) =>
            \A i \in DOMAIN Tail(call.rest) : ~Fallible(Tail(call.rest)[i])
      /\ call.rest[1].op = "raw" =>
            \E i \in DOMAIN Tail(call.rest) : Tail(call.rest)[i].op = "give"
      /\ (\E i \in DOMAIN call.rest : call.rest[i].op = "give") /\ call.rest[1].op # "give" =>
            \E i \in DOMAIN Tail(call.rest) : Tail(call.rest)[i].op = "give"
      /\ (\A i \in DOMAIN call.rest : ~Fallible(call.rest[i])) =>
            \A i \in DOMAIN Tail(call.rest) : ~Fallible(Tail(call.rest)[i])
  BY <1>1, TailInOrder DEF CallInv
<1>4. Advance(call) \in Calls
  BY <1>1, <1>3 DEF Advance, Calls, S
<1>5. \A i \in DOMAIN call.rest : call.rest[i] \in Steps(call.fn)
  BY DEF CallInv
<1> QED
  BY <1>1, <1>2, <1>3, <1>4, <1>5 DEF CallInv, Step, Advance

\* A step under way is one the table of exports lists.
LEMMA StepIsListed ==
    ASSUME CallInv, call # Idle, call.rest # <<>>
    PROVE  /\ Step.op \in {"raw", "guard"} => Step.of \in OwnedKind
           /\ Step.op = "text" => Step.nul = Nul(call.fn)
<1>1. call.fn \in DOMAIN Program
  BY AdvanceKeeps DEF Calls
<1> PICK f \in DOMAIN Program : f = call.fn
  BY <1>1
<1>2. \A s \in Steps(f) : /\ s.op \in {"raw", "guard"} => s.of \in OwnedKind
                          /\ s.op = "text" => s.nul = Nul(f)
  BY ExportsInOrder, Zenon
<1>3. Step \in Steps(f)
  BY AdvanceKeeps
<1>4. /\ Step.op \in {"raw", "guard"} => Step.of \in OwnedKind
      /\ Step.op = "text" => Step.nul = Nul(f)
  BY <1>2, <1>3, Zenon
<1> QED
  BY <1>4

\* Every action of the C ABI keeps CallInv.
LEMMA CallInvStep ==
    ASSUME CallInv, Next
    PROVE  CallInv'
<1> DEFINE R == Tail(call.rest)
           Calm(c) == /\ \A i \in DOMAIN c.rest : c.rest[i] \in Steps(c.fn)
                      /\ InOrder(c.rest)
           Safe(c) == /\ c.raw # {} \/ c.given # {} \/ c.wrote =>
                            \A i \in DOMAIN c.rest : ~Fallible(c.rest[i])
                      /\ c.raw # {} => \E i \in DOMAIN c.rest : c.rest[i].op = "give"
           Fits(c) == c.needed > 0 => c.got = Copied(c.needed, c.cap, Nul(c.fn))
           Said(c) == clear_error \in Steps(c.fn) => lastError' # "earlier"
<1>1. CASE \E f \in DOMAIN Program : Begin(f)
  <2> PICK f \in DOMAIN Program : Begin(f)
    BY <1>1
  <2>1. PICK asked \in Asks(f), cap \in Caps(f) : call' = NewCall(f, asked, cap)
    BY DEF Begin
  <2>2. asked \in BOOLEAN /\ cap \in Nat
    <3>1. Asks(f) \subseteq BOOLEAN
      BY DEF Asks
    <3>2. probed \in Nat
      BY DEF CallInv
    <3>3. Caps(f) \subseteq Nat
      BY <3>2 DEF Caps
    <3> QED
      BY <2>1, <3>1, <3>3
  <2>3. Program[f] \in Seq(UNION {Steps(g) : g \in DOMAIN Program})
    <3>1. Steps(f) \subseteq UNION {Steps(g) : g \in DOMAIN Program}
      OBVIOUS
    <3>2. Program[f] \in Seq(Steps(f))
      BY ExportsInOrder
    <3> QED
      BY <3>1, <3>2
  <2>4. /\ call' \in Calls
        /\ call'.fn = f /\ call'.rest = Program[f] /\ call'.raw = {} /\ call'.given = {}
        /\ call'.wrote = FALSE /\ call'.needed = 0
    BY <2>1, <2>2, <2>3 DEF NewCall, Calls
  <2>5. \A i \in DOMAIN Program[f] : Program[f][i] \in Steps(f)
    BY DEF Steps
  <2>6. /\ InOrder(Program[f])
        /\ clear_error \in Steps(f) => Program[f] # <<>> /\ Program[f][1].op = "clear"
    BY ExportsInOrder
  <2>7. size' = size /\ probed' = probed
    BY DEF Begin
  <2> QED
    BY <2>4, <2>5, <2>6, <2>7 DEF CallInv
<1>2. CASE call' = Idle /\ size' = size /\ probed' \in Nat
  BY <1>2 DEF CallInv
<1>3. ASSUME call # Idle, call.rest # <<>>, call.rest[1].op # "clear"
      PROVE  /\ clear_error \in Steps(call.fn) => lastError # "earlier"
  BY <1>3 DEF CallInv
<1>4. ASSUME call # Idle, call.rest # <<>>, Step.op # "clear" \/ lastError' = "none",
             lastError' = lastError \/ lastError' = "none",
             call' \in Calls, call'.fn = call.fn, call'.rest = R, Safe(call'), Fits(call'),
             size' \in Nat, probed' = probed
      PROVE  CallInv'
  <2>1. Calm(call')
    BY <1>4, AdvanceKeeps
  <2>2. Said(call')
    BY <1>4, <1>3 DEF Step
  <2> QED
    BY <1>4, <2>1, <2>2 DEF CallInv
<1>5. ASSUME call # Idle, call.rest # <<>>
      PROVE  Safe(Advance(call)) \/ Step.op = "give"
  <2>1. /\ Advance(call).rest = R /\ Advance(call).raw = call.raw
        /\ Advance(call).given = call.given /\ Advance(call).wrote = call.wrote
    BY <1>5, AdvanceKeeps DEF Calls
  <2> QED
    BY <1>5, <2>1, AdvanceKeeps
<1>6. CASE \/ ClearError \/ Pass \/ Drain \/ Push \/ OpenHandle \/ ReleaseHeld
  <2>1. /\ call # Idle /\ call.rest # <<>> /\ Step.op # "give"
        /\ Step.op # "clear" \/ lastError' = "none"
        /\ lastError' = lastError \/ lastError' = "none"
        /\ call' = Advance(call) /\ size' = size /\ probed' = probed
    BY <1>6 DEF ClearError, Pass, Drain, Push, OpenHandle, ReleaseHeld, Running
  <2>2. /\ call' \in Calls /\ call'.fn = call.fn /\ call'.rest = R
        /\ call'.needed = call.needed /\ call'.got = call.got /\ call'.cap = call.cap
    BY <2>1, AdvanceKeeps DEF Calls
  <2>3. Safe(call') /\ Fits(call')
    BY <1>5, <2>1, <2>2 DEF CallInv
  <2> QED
    BY <1>4, <2>1, <2>2, <2>3 DEF CallInv
<1>7. CASE Core
  <2>1. /\ call # Idle /\ call.rest # <<>> /\ Step.op = "core" /\ lastError' = lastError
        /\ call' = [Advance(call) EXCEPT !.wrote = @ \/ Step.effect = "edit"]
        /\ size' \in Nat /\ probed' = probed
    BY <1>7, CAbiBounds DEF Core, Running, CallInv
  <2>2. /\ call' \in Calls /\ call'.fn = call.fn /\ call'.rest = R
        /\ call'.raw = call.raw /\ call'.given = call.given
        /\ call'.wrote => call.wrote \/ Step.effect = "edit"
        /\ call'.needed = call.needed /\ call'.got = call.got /\ call'.cap = call.cap
    BY <2>1, AdvanceKeeps DEF Calls
  <2>3. Safe(call')
    BY <2>1, <2>2, AdvanceKeeps DEF Commits, Edits
  <2>4. Fits(call')
    BY <2>1, <2>2 DEF CallInv
  <2> QED
    BY <1>4, <2>1, <2>2, <2>3, <2>4
<1>8. CASE AllocRaw
  <2>1. /\ call # Idle /\ call.rest # <<>> /\ Step.op = "raw" /\ lastError' = lastError
        /\ call' = [Advance(call) EXCEPT
                      !.raw = IF Step.opt /\ ~call.asked THEN @ ELSE @ \cup {Step.of}]
        /\ size' = size /\ probed' = probed
    BY <1>8 DEF AllocRaw, Running
  <2>2. Step.of \in OwnedKind
    BY <2>1, StepIsListed
  <2>3. /\ call' \in Calls /\ call'.fn = call.fn /\ call'.rest = R
        /\ call'.needed = call.needed /\ call'.got = call.got /\ call'.cap = call.cap
    BY <2>1, <2>2, AdvanceKeeps DEF Calls
  <2>4. Safe(call')
    BY <2>1, <2>3, AdvanceKeeps DEF Commits
  <2> QED
    BY <1>4, <2>1, <2>3, <2>4 DEF CallInv
<1>9. CASE HoldString
  <2>1. /\ call # Idle /\ call.rest # <<>> /\ Step.op = "guard" /\ lastError' = lastError
        /\ call' = [Advance(call) EXCEPT !.held = IF call.asked THEN @ \cup {Step.of} ELSE @]
        /\ size' = size /\ probed' = probed
    BY <1>9 DEF HoldString, Running
  <2>2. Step.of \in OwnedKind
    BY <2>1, StepIsListed
  <2>3. /\ call' \in Calls /\ call'.fn = call.fn /\ call'.rest = R
        /\ call'.raw = call.raw /\ call'.given = call.given /\ call'.wrote = call.wrote
        /\ call'.needed = call.needed /\ call'.got = call.got /\ call'.cap = call.cap
    BY <2>1, <2>2, AdvanceKeeps DEF Calls
  <2>4. Safe(call')
    BY <2>1, <2>3, AdvanceKeeps
  <2> QED
    BY <1>4, <2>1, <2>3, <2>4 DEF CallInv
<1>10. CASE Give
  <2>1. /\ call # Idle /\ call.rest # <<>> /\ Step.op = "give" /\ lastError' = lastError
        /\ call' = [Advance(call) EXCEPT !.given = @ \cup call.raw \cup call.held,
                                         !.raw = {}, !.held = {}]
        /\ size' = size /\ probed' = probed
    BY <1>10 DEF Give, Running
  <2>2. /\ call' \in Calls /\ call'.fn = call.fn /\ call'.rest = R /\ call'.raw = {}
        /\ call'.needed = call.needed /\ call'.got = call.got /\ call'.cap = call.cap
    BY <2>1, AdvanceKeeps DEF Calls
  <2>3. Safe(call')
    BY <2>1, <2>2, AdvanceKeeps DEF Commits
  <2> QED
    BY <1>4, <2>1, <2>2, <2>3 DEF CallInv
<1>11. CASE WriteText
  <2>1. /\ call # Idle /\ call.rest # <<>> /\ Step.op = "text" /\ lastError' = lastError
        /\ call' = [Advance(call) EXCEPT !.needed = size, !.got = Copied(size, call.cap, Step.nul)]
        /\ size' = size /\ probed' = probed
    BY <1>11 DEF WriteText, Running
  <2>2. Step.nul = Nul(call.fn) /\ Nul(call.fn) \in {0, 1}
    BY <2>1, StepIsListed DEF Nul
  <2>3. call.cap \in Nat /\ size \in Nat /\ Copied(size, call.cap, Step.nul) \in Nat
    BY <2>1, <2>2, AdvanceKeeps DEF CallInv, Calls, Copied
  <2>4. /\ call' \in Calls /\ call'.fn = call.fn /\ call'.rest = R /\ call'.cap = call.cap
        /\ call'.raw = call.raw /\ call'.given = call.given /\ call'.wrote = call.wrote
        /\ call'.needed = size /\ call'.got = Copied(size, call.cap, Step.nul)
    BY <2>1, <2>3, AdvanceKeeps DEF Calls
  <2>5. Safe(call')
    BY <2>1, <2>4, AdvanceKeeps
  <2>6. Fits(call')
    BY <2>2, <2>4
  <2> QED
    BY <1>4, <2>1, <2>3, <2>4, <2>5, <2>6
<1>12. CASE Fail
  BY <1>2, <1>12 DEF Fail, CallInv
<1>13. CASE Return
  <2>1. probed' \in Nat
    BY <1>13 DEF Return, CallInv, Calls
  <2> QED
    BY <1>2, <1>13, <2>1 DEF Return
<1> QED
  BY <1>1, <1>6, <1>7, <1>8, <1>9, <1>10, <1>11, <1>12, <1>13 DEF Next

\* What the last finished call left behind, which is what the caller can observe.
OutcomeInv ==
  /\ outcome.lost = {}
  /\ ~outcome.ok => outcome.given = {} /\ ~outcome.wrote
  /\ call = Idle /\ ~outcome.ok /\ outcome.clears => lastError # "earlier"
  /\ /\ outcome.cap \in Nat
     /\ outcome.needed \in Nat
     /\ outcome.nul \in {0, 1}
     /\ outcome.needed > 0 => outcome.got = Copied(outcome.needed, outcome.cap, outcome.nul)

\* The fields a finished call leaves.
LEMMA FinishIs ==
    ASSUME NEW ok \in BOOLEAN, CallInv, call # Idle
    PROVE  LET o == Finish(ok) IN
           /\ o.ok = ok /\ o.lost = call.raw /\ o.given = call.given /\ o.wrote = call.wrote
           /\ o.clears = (clear_error \in Steps(call.fn))
           /\ o.cap \in Nat /\ o.needed \in Nat /\ o.nul \in {0, 1}
           /\ o.needed > 0 => o.got = Copied(o.needed, o.cap, o.nul)
<1>1. call \in Calls /\ (call.needed > 0 => call.got = Copied(call.needed, call.cap, Nul(call.fn)))
  BY DEF CallInv
<1>2. call.cap \in Nat /\ call.needed \in Nat
  BY <1>1 DEF Calls
<1>3. Nul(call.fn) \in {0, 1}
  BY DEF Nul
<1> QED
  BY <1>1, <1>2, <1>3 DEF Finish

\* A call that fails has nothing raw or given and has edited nothing; one that
\* returns has given whatever it allocated.
LEMMA OutcomeStep ==
    ASSUME CallInv, OutcomeInv, Next
    PROVE  OutcomeInv'
<1>1. CASE \E f \in DOMAIN Program : Begin(f)
  <2>1. outcome' = NoOutcome
    BY <1>1 DEF Begin
  <2> QED
    BY <2>1 DEF OutcomeInv, NoOutcome
<1>2. CASE outcome' = outcome /\ call # Idle /\ call' # Idle
  BY <1>2 DEF OutcomeInv
<1>3. CASE \/ ClearError \/ Pass \/ Drain \/ Push \/ OpenHandle \/ ReleaseHeld
           \/ Core \/ AllocRaw \/ HoldString \/ Give \/ WriteText
  <2>1. outcome' = outcome /\ call # Idle /\ call.rest # <<>>
    BY <1>3 DEF ClearError, Pass, Drain, Push, OpenHandle, ReleaseHeld, Core, AllocRaw,
                HoldString, Give, WriteText, Running
  <2>2. Advance(call) \in Calls
    BY <2>1, AdvanceKeeps
  <2>3. "rest" \in DOMAIN Advance(call) /\ "rest" \notin DOMAIN Idle
    BY <2>2 DEF Calls, Idle
  <2>4. call' # Idle
    <3>1. CASE ClearError \/ Pass \/ Drain \/ Push \/ OpenHandle \/ ReleaseHeld
      BY <2>3, <3>1 DEF ClearError, Pass, Drain, Push, OpenHandle, ReleaseHeld
    <3>2. CASE Core
      BY <2>3, <3>2 DEF Core
    <3>3. CASE AllocRaw \/ HoldString
      BY <2>3, <3>3 DEF AllocRaw, HoldString
    <3>4. CASE Give \/ WriteText
      BY <2>3, <3>4 DEF Give, WriteText
    <3> QED
      BY <1>3, <3>1, <3>2, <3>3, <3>4
  <2> QED
    BY <1>2, <2>1, <2>4
<1>4. CASE Fail
  <2>1. /\ call # Idle /\ call.rest # <<>> /\ Fallible(Step)
        /\ outcome' = Finish(FALSE) /\ call' = Idle
        /\ lastError' = IF Step.says THEN "this" ELSE lastError
        /\ Step.op # "clear"
    BY <1>4 DEF Fail, Running, Fallible
  <2>2. call.raw = {} /\ call.given = {} /\ ~call.wrote
    <3>1. Step = call.rest[1] /\ 1 \in DOMAIN call.rest
      BY <2>1 DEF Step, CallInv, Calls
    <3> QED
      BY <2>1, <3>1 DEF CallInv
  <2>3. clear_error \in Steps(call.fn) => lastError' # "earlier"
    BY <2>1 DEF CallInv, Step
  <2> QED
    BY <2>1, <2>2, <2>3, FinishIs DEF OutcomeInv
<1>5. CASE Return
  <2>1. call # Idle /\ call.rest = <<>> /\ outcome' = Finish(TRUE)
    BY <1>5 DEF Return
  <2>2. call.raw = {}
    BY <2>1 DEF CallInv
  <2> QED
    BY <2>1, <2>2, FinishIs DEF OutcomeInv
<1> QED
  BY <1>1, <1>3, <1>4, <1>5 DEF Next

-----------------------------------------------------------------------------
(* The Python extension.                                                   *)

\* The borrow a call has after the first step of what is left of its body.
Borrowed(rest, guard) == IF rest[1].op = "borrow" THEN rest[1].mode ELSE guard

\* What is left of a method's body after its first step is in order, under the borrow
\* the step took.
LEMMA PyTailInOrder ==
    ASSUME NEW S, NEW rest \in Seq(S), rest # <<>>, NEW guard, Py!InOrder(rest, guard)
    PROVE  /\ Tail(rest) \in Seq(S)
           /\ 1 \in DOMAIN rest
           /\ Py!InOrder(Tail(rest), Borrowed(rest, guard))
           /\ Py!Changes(rest[1]) =>
                /\ guard = "exclusive"
                /\ \A k \in DOMAIN Tail(rest) : ~Py!MayRaise(Tail(rest)[k])
           /\ rest[1].op = "borrow" => guard = "none" /\ rest[1].mode \in {"shared", "exclusive"}
           /\ rest[1].op = "open" => guard # "none"
           /\ \A k \in DOMAIN Tail(rest) : Tail(rest)[k].op = "unwind" => rest[1].op = "borrow"
           /\ (\A k \in DOMAIN rest : ~Py!MayRaise(rest[k])) =>
                \A k \in DOMAIN Tail(rest) : ~Py!MayRaise(Tail(rest)[k])
<1> DEFINE T == Tail(rest)
           g == Borrowed(rest, guard)
<1>1. T \in Seq(S) /\ Len(T) = Len(rest) - 1 /\ Len(rest) \in Nat \ {0}
  OBVIOUS
<1>2. DOMAIN T = 1 .. Len(T) /\ DOMAIN rest = 1 .. Len(rest)
  BY <1>1
<1>3. \A k \in DOMAIN T : k \in Nat \ {0} /\ k + 1 \in DOMAIN rest /\ T[k] = rest[k + 1]
  BY <1>1, <1>2
<1>4. 1 \in DOMAIN rest
  BY <1>1, <1>2
<1> HIDE DEF T
<1>5. \A k \in DOMAIN rest :
        /\ rest[k].op = "borrow" =>
             k = 1 /\ guard = "none" /\ rest[k].mode \in {"shared", "exclusive"}
        /\ Py!Changes(rest[k]) =>
             /\ \/ guard = "exclusive"
                \/ k > 1 /\ rest[1].op = "borrow" /\ rest[1].mode = "exclusive"
             /\ \A j \in DOMAIN rest : k < j => ~Py!MayRaise(rest[j])
        /\ rest[k].op = "open" => guard # "none" \/ (k > 1 /\ rest[1].op = "borrow")
        /\ rest[k].op = "unwind" => \A j \in DOMAIN rest : j < k => rest[j].op = "borrow"
  BY DEF Py!InOrder
<1>6. rest[1].op = "borrow" => g = rest[1].mode /\ g \in {"shared", "exclusive"} /\ guard = "none"
  BY <1>4, <1>5 DEF Borrowed
<1>7. rest[1].op # "borrow" => g = guard
  BY DEF Borrowed
<1> HIDE DEF g
<1>8. Py!InOrder(T, g)
  <2> SUFFICES ASSUME NEW k \in DOMAIN T
               PROVE  /\ T[k].op = "borrow" =>
                           k = 1 /\ g = "none" /\ T[k].mode \in {"shared", "exclusive"}
                      /\ Py!Changes(T[k]) =>
                           /\ \/ g = "exclusive"
                              \/ k > 1 /\ T[1].op = "borrow" /\ T[1].mode = "exclusive"
                           /\ \A j \in DOMAIN T : k < j => ~Py!MayRaise(T[j])
                      /\ T[k].op = "open" => g # "none" \/ (k > 1 /\ T[1].op = "borrow")
                      /\ T[k].op = "unwind" => \A j \in DOMAIN T : j < k => T[j].op = "borrow"
    BY DEF Py!InOrder
  <2>1. k \in Nat \ {0} /\ k + 1 \in DOMAIN rest /\ T[k] = rest[k + 1]
    BY <1>3
  <2>2. T[k].op # "borrow"
    BY <1>5, <2>1
  <2>3. Py!Changes(T[k]) => g = "exclusive"
    BY <1>5, <1>6, <1>7, <2>1
  <2>4. Py!Changes(T[k]) => \A j \in DOMAIN T : k < j => ~Py!MayRaise(T[j])
    BY <1>3, <1>5, <2>1
  <2>5. T[k].op = "open" => g # "none"
    BY <1>5, <1>6, <1>7, <2>1
  <2>6. T[k].op = "unwind" => \A j \in DOMAIN T : j < k => T[j].op = "borrow"
    BY <1>3, <1>5, <2>1
  <2> QED
    BY <2>2, <2>3, <2>4, <2>5, <2>6
<1>9. Py!Changes(rest[1]) => /\ guard = "exclusive"
                            /\ \A k \in DOMAIN T : ~Py!MayRaise(T[k])
  BY <1>2, <1>3, <1>4, <1>5
<1>10. \A k \in DOMAIN T : T[k].op = "unwind" => rest[1].op = "borrow"
  BY <1>3, <1>4, <1>5
<1>11. rest[1].op = "open" => guard # "none"
  BY <1>4, <1>5
<1>12. (\A k \in DOMAIN rest : ~Py!MayRaise(rest[k])) => \A k \in DOMAIN T : ~Py!MayRaise(T[k])
  BY <1>3
<1> QED
  BY <1>1, <1>4, <1>6, <1>8, <1>9, <1>10, <1>11, <1>12 DEF T, g

\* The innermost call moves on by one step.
LEMMA PyAdvances ==
    ASSUME Py!StackInv, Py!Height > 0
    PROVE  /\ stack \in Seq(Py!Frames)
           /\ DOMAIN stack = 1 .. Py!Height /\ Py!Height \in Nat
           /\ Py!Height \in DOMAIN stack
           /\ Py!Top = stack[Py!Height]
           /\ Py!Top \in Py!Frames /\ Py!FrameInv(Py!Top)
           /\ Py!Top.rest # <<>> =>
                /\ Py!Step = Py!Top.rest[1] /\ 1 \in DOMAIN Py!Top.rest
                /\ Tail(Py!Top.rest) \in Seq(Py!Steps)
                /\ Py!Advanced = [Py!Top EXCEPT !.rest = Tail(Py!Top.rest)]
                /\ Py!Advanced \in Py!Frames
<1>1. stack \in Seq(Py!Frames) /\ \A i \in DOMAIN stack : Py!FrameInv(stack[i])
  BY DEF Py!StackInv
<1>2. /\ DOMAIN stack = 1 .. Py!Height /\ Py!Height \in Nat /\ Py!Height \in DOMAIN stack
      /\ Py!Top = stack[Py!Height]
  BY <1>1 DEF Py!Height, Py!Top
<1>3. Py!Top \in Py!Frames /\ Py!FrameInv(Py!Top)
  BY <1>1, <1>2
<1>4. ASSUME Py!Top.rest # <<>>
      PROVE  /\ Py!Step = Py!Top.rest[1] /\ 1 \in DOMAIN Py!Top.rest
             /\ Tail(Py!Top.rest) \in Seq(Py!Steps)
             /\ Py!Advanced = [Py!Top EXCEPT !.rest = Tail(Py!Top.rest)]
             /\ Py!Advanced \in Py!Frames
  <2>1. Py!Top.rest \in Seq(Py!Steps)
    BY <1>3 DEF Py!Frames
  <2>2. 1 \in DOMAIN Py!Top.rest /\ Tail(Py!Top.rest) \in Seq(Py!Steps)
    BY <1>4, <2>1
  <2>3. Py!Advanced = [Py!Top EXCEPT !.rest = Tail(Py!Top.rest)]
    BY DEF Py!Advanced
  <2>4. Py!Advanced \in Py!Frames
    BY <1>3, <2>2, <2>3 DEF Py!Frames
  <2> QED
    BY <2>2, <2>3, <2>4 DEF Py!Step
<1> QED
  BY <1>1, <1>2, <1>3, <1>4

\* Two calls' borrows are compatible.
Compatible(f, g) == f = "none" \/ g = "none" \/ (f = "shared" /\ g = "shared")

\* Replacing the innermost frame by one that satisfies the invariant keeps it.
LEMMA PyReplaceTop ==
    ASSUME Py!StackInv, Py!Height > 0, NEW frame \in Py!Frames, Py!FrameInv(frame),
           \A i \in DOMAIN stack : i # Py!Height => Compatible(stack[i].guard, frame.guard),
           stack' = Py!WithTop(frame), depth' \in Nat
    PROVE  Py!StackInv'
<1>1. /\ stack \in Seq(Py!Frames) /\ DOMAIN stack = 1 .. Py!Height
      /\ Py!Height \in Nat /\ Py!Height \in DOMAIN stack
  BY PyAdvances
<1>2. stack' = [stack EXCEPT ![Py!Height] = frame]
  BY DEF Py!WithTop
<1>3. stack' \in Seq(Py!Frames) /\ DOMAIN stack' = DOMAIN stack
  BY <1>1, <1>2
<1>4. \A i \in DOMAIN stack : stack'[i] = IF i = Py!Height THEN frame ELSE stack[i]
  BY <1>1, <1>2
<1> HIDE DEF Py!FrameInv
<1>5. \A i \in DOMAIN stack : Py!FrameInv(stack'[i])
  BY <1>4 DEF Py!StackInv
<1>6. \A i \in DOMAIN stack, j \in DOMAIN stack :
         i # j => Compatible(stack[i].guard, stack[j].guard)
  BY DEF Py!StackInv, Compatible
<1>7. \A i \in DOMAIN stack, j \in DOMAIN stack :
         i # j => Compatible(stack'[i].guard, stack'[j].guard)
  <2> SUFFICES ASSUME NEW i \in DOMAIN stack, NEW j \in DOMAIN stack, i # j
               PROVE  Compatible(stack'[i].guard, stack'[j].guard)
    OBVIOUS
  <2>1. CASE i = Py!Height
    BY <1>4, <2>1 DEF Compatible
  <2>2. CASE j = Py!Height
    BY <1>4, <2>2 DEF Compatible
  <2>3. CASE i # Py!Height /\ j # Py!Height
    BY <1>4, <1>6, <2>3
  <2> QED
    BY <2>1, <2>2, <2>3
<1>8. \A i \in DOMAIN stack', j \in DOMAIN stack' :
         i # j /\ stack'[i].guard # "none" =>
           /\ stack'[j].guard \in {"none", "shared"}
           /\ stack'[j].guard = "none" \/ stack'[i].guard = "shared"
  BY <1>3, <1>7 DEF Compatible
<1> QED
  BY <1>3, <1>5, <1>8 DEF Py!StackInv

\* A frame after its first step, in the three ways the actions change it: it takes a
\* borrow, takes the store, or changes it.
LEMMA PyAdvancedFrame ==
    ASSUME Py!StackInv, Py!Height > 0, Py!Top.rest # <<>>
    PROVE  /\ Py!Step.op = "borrow" =>
                LET f == [Py!Advanced EXCEPT !.guard = Py!Step.mode] IN
                f \in Py!Frames /\ Py!FrameInv(f) /\ f.guard = Py!Step.mode
           /\ Py!Step.op \in {"arg", "warn", "core"} =>
                LET f == Py!Advanced IN
                f \in Py!Frames /\ Py!FrameInv(f) /\ f.guard = Py!Top.guard
           /\ Py!Step.op = "open" =>
                LET f == [Py!Advanced EXCEPT !.opened = TRUE] IN
                f \in Py!Frames /\ Py!FrameInv(f) /\ f.guard = Py!Top.guard
           /\ Py!Changes(Py!Step) =>
                LET f == [Py!Advanced EXCEPT !.wrote = TRUE] IN
                /\ f \in Py!Frames /\ Py!FrameInv(f) /\ f.guard = "exclusive"
                /\ Py!Top.guard = "exclusive"
<1> DEFINE R == Py!Top.rest
           T == Tail(R)
           g == Py!Top.guard
<1>1. /\ Py!Top \in Py!Frames /\ Py!FrameInv(Py!Top) /\ Py!Step = R[1] /\ 1 \in DOMAIN R
      /\ Py!Advanced = [Py!Top EXCEPT !.rest = T] /\ Py!Advanced \in Py!Frames
      /\ R \in Seq(Py!Steps)
  BY PyAdvances DEF Py!Frames
<1>2. /\ Py!InOrder(R, g)
      /\ Py!Top.opened => g # "none"
      /\ ~Py!Top.changed
      /\ Py!Top.wrote => \A k \in DOMAIN R : ~Py!MayRaise(R[k])
      /\ \A k \in DOMAIN R : R[k].op = "unwind" => ~Py!Top.opened /\ ~Py!Top.wrote
  BY <1>1 DEF Py!FrameInv
<1>3. /\ Py!InOrder(T, Borrowed(R, g))
      /\ Py!Changes(R[1]) => /\ g = "exclusive"
                             /\ \A k \in DOMAIN T : ~Py!MayRaise(T[k])
      /\ R[1].op = "borrow" => g = "none" /\ R[1].mode \in {"shared", "exclusive"}
      /\ R[1].op = "open" => g # "none"
      /\ \A k \in DOMAIN T : T[k].op = "unwind" => R[1].op = "borrow"
      /\ (\A k \in DOMAIN R : ~Py!MayRaise(R[k])) => \A k \in DOMAIN T : ~Py!MayRaise(T[k])
  BY <1>1, <1>2, PyTailInOrder
<1>4. \A k \in DOMAIN T : T[k].op = "unwind" => ~Py!Top.opened /\ ~Py!Top.wrote
  <2>1. T \in Seq(Py!Steps) /\ \A k \in DOMAIN T : k + 1 \in DOMAIN R /\ T[k] = R[k + 1]
    BY <1>1
  <2> HIDE DEF T, R
  <2> QED
    BY <1>2, <2>1
<1>5. Py!Top.wrote => \A k \in DOMAIN T : ~Py!MayRaise(T[k])
  BY <1>2, <1>3
<1>6. R[1].op # "borrow" => Borrowed(R, g) = g
  BY DEF Borrowed
<1>7. R[1].op = "borrow" => Borrowed(R, g) = R[1].mode
  BY DEF Borrowed
<1>8. /\ Py!Advanced.rest = T /\ Py!Advanced.guard = g /\ Py!Advanced.opened = Py!Top.opened
      /\ Py!Advanced.wrote = Py!Top.wrote /\ Py!Advanced.changed = Py!Top.changed
  BY <1>1 DEF Py!Frames
<1> HIDE DEF T, R, g
<1>9. ASSUME R[1].op = "borrow"
      PROVE  LET f == [Py!Advanced EXCEPT !.guard = R[1].mode] IN
             f \in Py!Frames /\ Py!FrameInv(f) /\ f.guard = R[1].mode
  <2> DEFINE f == [Py!Advanced EXCEPT !.guard = R[1].mode]
  <2>1. f \in Py!Frames /\ f.guard = R[1].mode
    BY <1>1, <1>3, <1>9 DEF Py!Frames
  <2>2. f.rest = T /\ f.opened = Py!Top.opened /\ f.wrote = Py!Top.wrote /\ f.changed = Py!Top.changed
    BY <1>1, <1>8 DEF Py!Frames
  <2> HIDE DEF f
  <2>3. Py!FrameInv(f)
    BY <1>2, <1>3, <1>4, <1>5, <1>7, <1>9, <2>1, <2>2 DEF Py!FrameInv
  <2> QED
    BY <2>1, <2>3 DEF f
<1>10. ASSUME R[1].op \in {"arg", "warn", "core"}
       PROVE  Py!FrameInv(Py!Advanced)
  BY <1>2, <1>3, <1>4, <1>5, <1>6, <1>8, <1>10 DEF Py!FrameInv
<1>11. ASSUME R[1].op = "open"
       PROVE  LET f == [Py!Advanced EXCEPT !.opened = TRUE] IN
              f \in Py!Frames /\ Py!FrameInv(f) /\ f.guard = g
  <2> DEFINE f == [Py!Advanced EXCEPT !.opened = TRUE]
  <2>1. f \in Py!Frames /\ f.guard = g /\ f.opened
    BY <1>1, <1>8 DEF Py!Frames
  <2>2. f.rest = T /\ f.wrote = Py!Top.wrote /\ f.changed = Py!Top.changed
    BY <1>1, <1>8 DEF Py!Frames
  <2> HIDE DEF f
  <2>3. Py!FrameInv(f)
    BY <1>2, <1>3, <1>4, <1>5, <1>6, <1>11, <2>1, <2>2 DEF Py!FrameInv
  <2> QED
    BY <2>1, <2>3 DEF f
<1>12. ASSUME Py!Changes(R[1])
       PROVE  LET f == [Py!Advanced EXCEPT !.wrote = TRUE] IN
              f \in Py!Frames /\ Py!FrameInv(f) /\ f.guard = g
  <2> DEFINE f == [Py!Advanced EXCEPT !.wrote = TRUE]
  <2>1. f \in Py!Frames /\ f.guard = g /\ f.wrote
    BY <1>1, <1>8 DEF Py!Frames
  <2>2. f.rest = T /\ f.opened = Py!Top.opened /\ f.changed = Py!Top.changed
    BY <1>1, <1>8 DEF Py!Frames
  <2>3. R[1].op # "borrow"
    BY <1>12 DEF Py!Changes
  <2> HIDE DEF f
  <2>4. Py!FrameInv(f)
    BY <1>2, <1>3, <1>4, <1>6, <1>12, <2>1, <2>2, <2>3 DEF Py!FrameInv
  <2> QED
    BY <2>1, <2>4 DEF f
<1> QED
  BY <1>1, <1>3, <1>8, <1>9, <1>10, <1>11, <1>12 DEF g

\* A call that changes the store has it to itself: no other call on the stack has it.
LEMMA PyDisturbsNobody ==
    ASSUME Py!StackInv, Py!Height > 0, Py!Top.guard = "exclusive", NEW frame
    PROVE  /\ Py!Disturbing(frame) = Py!WithTop(frame)
           /\ \A i \in DOMAIN stack : i # Py!Height => stack[i].guard = "none"
<1>1. /\ stack \in Seq(Py!Frames) /\ DOMAIN stack = 1 .. Py!Height
      /\ Py!Height \in DOMAIN stack /\ Py!Top = stack[Py!Height]
  BY PyAdvances
<1>2. \A i \in DOMAIN stack : i # Py!Height => stack[i].guard = "none"
  <2> SUFFICES ASSUME NEW i \in DOMAIN stack, i # Py!Height, stack[i].guard # "none"
               PROVE  FALSE
    OBVIOUS
  <2>1. stack[Py!Height].guard \in {"none", "shared"}
    BY <1>1 DEF Py!StackInv
  <2> QED
    BY <1>1, <2>1
<1>3. \A i \in DOMAIN stack : i # Py!Height =>
         [stack[i] EXCEPT !.changed = stack[i].changed \/ stack[i].opened] = stack[i]
  <2> SUFFICES ASSUME NEW i \in DOMAIN stack, i # Py!Height
               PROVE  [stack[i] EXCEPT !.changed = stack[i].changed \/ stack[i].opened] = stack[i]
    OBVIOUS
  <2>1. stack[i] \in Py!Frames /\ Py!FrameInv(stack[i])
    BY <1>1 DEF Py!StackInv
  <2>2. stack[i].opened = FALSE /\ stack[i].changed = FALSE
    BY <1>2, <2>1 DEF Py!FrameInv, Py!Frames
  <2>3. (stack[i].changed \/ stack[i].opened) = stack[i].changed
    BY <2>2
  <2> QED
    BY <2>1, <2>3 DEF Py!Frames
<1> QED
  BY <1>1, <1>2, <1>3 DEF Py!Disturbing, Py!WithTop

\* A call begins with nothing borrowed.
LEMMA PyPushKeeps ==
    ASSUME Py!StackInv, NEW program \in Py!Programs, NEW block \in {"none", "enter", "exit"},
           Py!Push(program, block), depth' = depth
    PROVE  Py!StackInv'
<1> DEFINE f == [rest |-> program, guard |-> "none", opened |-> FALSE, wrote |-> FALSE,
                 changed |-> FALSE, block |-> block,
                 before |-> IF block = "exit" THEN depth ELSE 0]
<1>1. program \in Seq(Py!Steps) /\ Py!InOrder(program, "none")
  BY PyMethodsInOrder DEF Py!MethodsInOrder
<1>2. stack \in Seq(Py!Frames) /\ depth \in Nat
  BY DEF Py!StackInv
<1>3. f \in Py!Frames
  BY <1>1, <1>2 DEF Py!Frames
<1>4. Py!FrameInv(f) /\ f.guard = "none"
  BY <1>1 DEF Py!FrameInv
<1>5. stack' = Append(stack, f)
  BY DEF Py!Push
<1> HIDE DEF f
<1>6. /\ stack' \in Seq(Py!Frames)
      /\ DOMAIN stack = 1 .. Len(stack) /\ Len(stack) \in Nat
      /\ DOMAIN stack' = 1 .. (Len(stack) + 1)
  BY <1>2, <1>3, <1>5
<1>7. \A i \in DOMAIN stack' :
         \/ i \in DOMAIN stack /\ stack'[i] = stack[i]
         \/ i \notin DOMAIN stack /\ i = Len(stack) + 1 /\ stack'[i] = f
  BY <1>2, <1>3, <1>5, <1>6
<1>8. \A i \in DOMAIN stack' : Py!FrameInv(stack'[i])
  <2> HIDE DEF Py!FrameInv
  <2> QED
    BY <1>4, <1>7 DEF Py!StackInv
<1>9. \A i \in DOMAIN stack', j \in DOMAIN stack' :
         i # j /\ stack'[i].guard # "none" =>
           /\ stack'[j].guard \in {"none", "shared"}
           /\ stack'[j].guard = "none" \/ stack'[i].guard = "shared"
  BY <1>4, <1>7 DEF Py!StackInv
<1> QED
  BY <1>2, <1>6, <1>8, <1>9 DEF Py!StackInv

\* A call that ends takes its borrow with it.
LEMMA PyPopKeeps ==
    ASSUME Py!StackInv, Py!Height > 0, stack' = SubSeq(stack, 1, Py!Height - 1), depth' = depth
    PROVE  Py!StackInv'
<1>1. stack \in Seq(Py!Frames) /\ DOMAIN stack = 1 .. Py!Height /\ Py!Height \in Nat
  BY PyAdvances
<1>2. /\ stack' \in Seq(Py!Frames)
      /\ DOMAIN stack' \subseteq DOMAIN stack
      /\ \A i \in DOMAIN stack' : stack'[i] = stack[i]
  BY <1>1 DEF Py!Height
<1> HIDE DEF Py!FrameInv
<1> QED
  BY <1>2 DEF Py!StackInv

\* Every step of the Python side keeps StackInv.
LEMMA StackInvStep ==
    ASSUME Py!StackInv, Py!Next
    PROVE  Py!StackInv'
<1>1. CASE \E m \in DOMAIN Py!Method : Py!Call(m)
  <2> PICK m \in DOMAIN Py!Method : Py!Call(m)
    BY <1>1
  <2>1. Py!Push(Py!Method[m], "none") /\ depth' = depth
    BY DEF Py!Call
  <2>2. Py!Method[m] \in Py!Programs
    BY DEF Py!Programs
  <2> QED
    BY <2>1, <2>2, PyPushKeeps
<1>2. CASE Py!EnterBlock
  <2>1. Py!Push(Py!transaction_enter, "enter") /\ depth' = depth
    BY <1>2 DEF Py!EnterBlock
  <2>2. Py!transaction_enter \in Py!Programs
    BY DEF Py!Programs
  <2> QED
    BY <2>1, <2>2, PyPushKeeps
<1>3. CASE Py!ExitBlock
  <2>1. PICK p \in {Py!transaction_exit, Py!transaction_unwind} : Py!Push(p, "exit")
    BY <1>3 DEF Py!ExitBlock
  <2>2. p \in Py!Programs /\ depth' = depth
    BY <1>3, <2>1 DEF Py!Programs, Py!ExitBlock
  <2> QED
    BY <2>1, <2>2, PyPushKeeps
<1>4. \A i \in DOMAIN stack : i # Py!Height /\ Py!Height > 0 =>
         Compatible(stack[i].guard, Py!Top.guard)
  BY PyAdvances DEF Py!StackInv, Compatible
<1>5. CASE Py!Borrow
  <2> DEFINE f == [Py!Advanced EXCEPT !.guard = Py!Step.mode]
  <2>1. /\ Py!Height > 0 /\ Py!Top.rest # <<>> /\ Py!Step.op = "borrow" /\ Py!Free(Py!Step.mode)
        /\ stack' = Py!WithTop(f) /\ depth' = depth
    BY <1>5 DEF Py!Borrow, Py!At
  <2>2. f \in Py!Frames /\ Py!FrameInv(f) /\ f.guard = Py!Step.mode
    BY <2>1, PyAdvancedFrame
  <2>3. \A i \in DOMAIN stack : i # Py!Height => i \in 1 .. (Py!Height - 1)
    BY <2>1, PyAdvances
  <2> HIDE DEF f
  <2>4. \A i \in DOMAIN stack : i # Py!Height => Compatible(stack[i].guard, f.guard)
    BY <2>1, <2>2, <2>3 DEF Py!Free, Compatible
  <2>5. depth' \in Nat
    BY <2>1 DEF Py!StackInv
  <2> QED
    BY <2>1, <2>2, <2>4, <2>5, PyReplaceTop
<1>6. CASE Py!Convert \/ Py!CoreQuery
  <2>1. /\ Py!Height > 0 /\ Py!Top.rest # <<>> /\ Py!Step.op \in {"arg", "warn", "core"}
        /\ stack' = Py!WithTop(Py!Advanced) /\ depth' = depth
    BY <1>6 DEF Py!Convert, Py!CoreQuery, Py!At
  <2>2. /\ Py!Advanced \in Py!Frames /\ Py!FrameInv(Py!Advanced)
        /\ Py!Advanced.guard = Py!Top.guard
    BY <2>1, PyAdvancedFrame
  <2>3. \A i \in DOMAIN stack : i # Py!Height => Compatible(stack[i].guard, Py!Advanced.guard)
    BY <1>4, <2>1, <2>2
  <2>4. depth' \in Nat
    BY <2>1 DEF Py!StackInv
  <2> QED
    BY <2>1, <2>2, <2>3, <2>4, PyReplaceTop
<1>7. CASE Py!TakeStore
  <2> DEFINE f == [Py!Advanced EXCEPT !.opened = TRUE]
  <2>1. /\ Py!Height > 0 /\ Py!Top.rest # <<>> /\ Py!Step.op = "open"
        /\ stack' = Py!WithTop(f) /\ depth' = depth
    BY <1>7 DEF Py!TakeStore, Py!At
  <2>2. f \in Py!Frames /\ Py!FrameInv(f) /\ f.guard = Py!Top.guard
    BY <2>1, PyAdvancedFrame
  <2> HIDE DEF f
  <2>3. \A i \in DOMAIN stack : i # Py!Height => Compatible(stack[i].guard, f.guard)
    BY <1>4, <2>1, <2>2
  <2>4. depth' \in Nat
    BY <2>1 DEF Py!StackInv
  <2> QED
    BY <2>1, <2>2, <2>3, <2>4, PyReplaceTop
<1>8. CASE Py!CoreEdit \/ Py!Close \/ Py!Unwind
  <2> DEFINE f == [Py!Advanced EXCEPT !.wrote = TRUE]
  <2>1. /\ Py!Height > 0 /\ Py!Top.rest # <<>> /\ Py!Changes(Py!Step)
        /\ stack' = Py!Disturbing(f)
    BY <1>8 DEF Py!CoreEdit, Py!Close, Py!Unwind, Py!At, Py!Changes
  <2>2. depth' \in Nat
    BY <1>8 DEF Py!CoreEdit, Py!Close, Py!Unwind, Py!StackInv
  <2>3. /\ f \in Py!Frames /\ Py!FrameInv(f) /\ f.guard = "exclusive"
        /\ Py!Top.guard = "exclusive"
    BY <2>1, PyAdvancedFrame
  <2> HIDE DEF f
  <2>4. /\ stack' = Py!WithTop(f)
        /\ \A i \in DOMAIN stack : i # Py!Height => Compatible(stack[i].guard, f.guard)
    BY <2>1, <2>3, PyDisturbsNobody DEF Compatible
  <2> QED
    BY <2>1, <2>2, <2>3, <2>4, PyReplaceTop
<1>9. CASE Py!UnwindFails
  <2> DEFINE f == [Py!Top EXCEPT !.rest = <<Py!Warn>>, !.guard = "none"]
  <2>1. /\ Py!Height > 0 /\ Py!Top.rest # <<>> /\ Py!Step.op = "unwind"
        /\ stack' = Py!WithTop(f) /\ depth' = depth
    BY <1>9 DEF Py!UnwindFails, Py!At
  <2>2. Py!Top \in Py!Frames /\ ~Py!Top.opened /\ ~Py!Top.wrote /\ ~Py!Top.changed
    BY <2>1, PyAdvances DEF Py!FrameInv
  <2>3. <<Py!Warn>> \in Seq(Py!Steps)
    BY DEF Py!Steps
  <2>4. Py!InOrder(<<Py!Warn>>, "none") /\ \A k \in DOMAIN <<Py!Warn>> : <<Py!Warn>>[k].op # "unwind"
    BY DEF Py!InOrder, Py!Warn, Py!Changes
  <2>5. /\ f \in Py!Frames /\ f.rest = <<Py!Warn>> /\ f.guard = "none"
        /\ f.opened = Py!Top.opened /\ f.wrote = Py!Top.wrote /\ f.changed = Py!Top.changed
    BY <2>2, <2>3 DEF Py!Frames
  <2> HIDE DEF f
  <2>6. Py!FrameInv(f)
    BY <2>2, <2>4, <2>5 DEF Py!FrameInv
  <2>7. \A i \in DOMAIN stack : i # Py!Height => Compatible(stack[i].guard, f.guard)
    BY <2>5 DEF Compatible
  <2>8. depth' \in Nat
    BY <2>1 DEF Py!StackInv
  <2> QED
    BY <2>1, <2>5, <2>6, <2>7, <2>8, PyReplaceTop
<1>10. CASE Py!Raise \/ Py!Return
  <2>1. Py!Height > 0 /\ stack' = SubSeq(stack, 1, Py!Height - 1) /\ depth' = depth
    BY <1>10 DEF Py!Raise, Py!Return, Py!End, Py!At
  <2> QED
    BY <2>1, PyPopKeeps
<1>11. CASE Py!Reopen
  BY <1>11 DEF Py!Reopen, Py!StackInv
<1> QED
  BY <1>1, <1>2, <1>3, <1>5, <1>6, <1>7, <1>8, <1>9, <1>10, <1>11 DEF Py!Next

\* A step that raises ends a call that has not changed the store.
LEMMA RaiseStep ==
    ASSUME Py!StackInv, Py!RaiseLeavesStore, Py!Next
    PROVE  Py!RaiseLeavesStore'
<1>1. CASE ended' = ended
  BY <1>1 DEF Py!RaiseLeavesStore
<1>2. CASE ended' = Py!Running
  BY <1>2 DEF Py!RaiseLeavesStore, Py!Running
<1>3. CASE Py!Raise
  <2>1. /\ Py!Height > 0 /\ Py!Top.rest # <<>> /\ Py!MayRaise(Py!Step)
        /\ ended'.wrote = Py!Top.wrote
    BY <1>3 DEF Py!Raise, Py!End, Py!At, Py!MayRaise
  <2>2. ~Py!Top.wrote
    BY <2>1, PyAdvances DEF Py!FrameInv
  <2> QED
    BY <2>1, <2>2 DEF Py!RaiseLeavesStore
<1>4. CASE Py!Return
  <2>1. ended'.raised = FALSE
    BY <1>4 DEF Py!Return, Py!End
  <2> QED
    BY <2>1 DEF Py!RaiseLeavesStore
<1>5. CASE \/ \E m \in DOMAIN Py!Method : Py!Call(m)
           \/ Py!EnterBlock \/ Py!ExitBlock
  BY <1>2, <1>5 DEF Py!Call, Py!EnterBlock, Py!ExitBlock, Py!Push
<1>6. CASE \/ Py!Borrow \/ Py!Convert \/ Py!TakeStore \/ Py!CoreQuery \/ Py!CoreEdit
           \/ Py!Close \/ Py!Unwind \/ Py!UnwindFails \/ Py!Reopen
  BY <1>1, <1>6 DEF Py!Borrow, Py!Convert, Py!TakeStore, Py!CoreQuery, Py!CoreEdit,
                    Py!Close, Py!Unwind, Py!UnwindFails, Py!Reopen
<1> QED
  BY <1>3, <1>4, <1>5, <1>6 DEF Py!Next

-----------------------------------------------------------------------------
(* Both.                                                                   *)

\* What both bindings keep between two of their steps.
BothInv == BindingsInv /\ OutcomeInv /\ Py!RaiseLeavesStore

\* Both bindings keep their calls in order in every state.
THEOREM BindingsKeepOrder == BindingsSpec => []BothInv
<1>1. BindingsInit => BothInv
  <2> SUFFICES ASSUME BindingsInit PROVE BothInv
    OBVIOUS
  <2>1. CallInv
    BY DEF BindingsInit, Init, CallInv
  <2>2. OutcomeInv
    BY DEF BindingsInit, Init, OutcomeInv, NoOutcome
  <2>3. Py!StackInv
    <3>1. stack = <<>> /\ depth = 0
      BY DEF BindingsInit, Py!Init
    <3> QED
      BY <3>1 DEF Py!StackInv
  <2>4. Py!RaiseLeavesStore
    BY DEF BindingsInit, Py!Init, Py!Running, Py!RaiseLeavesStore
  <2> QED
    BY <2>1, <2>2, <2>3, <2>4 DEF BothInv, BindingsInv
<1>2. BothInv /\ [BindingsNext]_allVars => BothInv'
  <2> SUFFICES ASSUME BothInv, [BindingsNext]_allVars PROVE BothInv'
    OBVIOUS
  <2>1. ASSUME UNCHANGED vars
        PROVE  CallInv' /\ OutcomeInv'
    BY <2>1 DEF BothInv, BindingsInv, CallInv, OutcomeInv, vars
  <2>2. ASSUME UNCHANGED pyVars
        PROVE  Py!StackInv' /\ Py!RaiseLeavesStore'
    BY <2>2 DEF BothInv, BindingsInv, Py!StackInv, Py!RaiseLeavesStore, pyVars
  <2>3. CASE FromC
    BY <2>2, <2>3, CallInvStep, OutcomeStep DEF FromC, BothInv, BindingsInv
  <2>4. CASE FromPython
    BY <2>1, <2>4, StackInvStep, RaiseStep DEF FromPython, BothInv, BindingsInv
  <2>5. CASE UNCHANGED allVars
    BY <2>1, <2>2, <2>5 DEF allVars, BothInv, BindingsInv
  <2> QED
    BY <2>3, <2>4, <2>5 DEF BindingsNext
<1> QED
  BY <1>1, <1>2, PTL DEF BindingsSpec

\* Whatever an export allocates reaches the caller or is dropped (NothingOrphaned).
THEOREM AllocationsAccounted == BindingsSpec => []NothingOrphaned
<1>1. BothInv => NothingOrphaned
  BY DEF BothInv, OutcomeInv, NothingOrphaned
<1> QED
  BY <1>1, BindingsKeepOrder, PTL

\* A call that fails, in C or in Python, leaves the store unedited and no stale
\* message (FailureIsClean).
THEOREM FailuresAreClean == BindingsSpec => []FailureIsClean
<1>1. BothInv => FailureIsClean
  BY DEF BothInv, OutcomeInv, FailureIsClean, FailureLeavesStore, MessageIsNotStale
<1> QED
  BY <1>1, BindingsKeepOrder, PTL

\* A listing never runs past the caller's buffer, and is cut only when the reported
\* length says so (TextFits).
THEOREM TextsFit == BindingsSpec => []TextFits
<1>1. BothInv => TextFits
  BY DEF BothInv, OutcomeInv, TextFits, Copied
<1> QED
  BY <1>1, BindingsKeepOrder, PTL

\* Python code that a call runs never changes or closes the store under that call
\* (NothingChangesUnderACall).
THEOREM NoCallIsDisturbed == BindingsSpec => []NothingChangesUnderACall
<1>1. BothInv => NothingChangesUnderACall
  BY DEF BothInv, BindingsInv, Py!StackInv, Py!FrameInv, NothingChangesUnderACall,
         Py!NothingChangesUnderACall
<1> QED
  BY <1>1, BindingsKeepOrder, PTL

-----------------------------------------------------------------------------
(* What is written reads back.                                             *)

\* A result is a value or an error.
LEMMA Results ==
    ASSUME NEW v, NEW e
    PROVE  /\ ~IsErr(Val(v)) /\ Val(v).val = v
           /\ IsErr(Err(e))
           /\ Val(v) # Err(e)
  BY DEF IsErr, Val, Err

\* Errors and values are told apart by what they carry.
LEMMA ResultsDiffer ==
    /\ \A v, w : Val(v) = Val(w) => v = w
    /\ \A e, f : Err(e) = Err(f) => e = f
<1>1. \A v : Val(v).val = v
  BY DEF Val
<1>2. \A e : Err(e).err = e
  BY DEF Err
<1> QED
  BY <1>1, <1>2

\* Every series type has a number of its own.
LEMMA TypeReads ==
    ASSUME NEW t \in Types
    PROVE  /\ ts_type_to_i32(t) \in 0 .. Len(Codes) - 1
           /\ ts_type_to_i32(t) # Absent
           /\ ts_type_from_i32(ts_type_to_i32(t)) = Val(t)
<1> DEFINE i == CHOOSE j \in DOMAIN Codes : Codes[j] = t
<1>1. i \in DOMAIN Codes /\ Codes[i] = t
  BY DEF Types
<1>2. DOMAIN Codes = 1 .. 7 /\ Len(Codes) = 7
  BY DEF Codes
<1>3. ts_type_to_i32(t) = i - 1
  BY DEF ts_type_to_i32
<1> HIDE DEF i
<1>4. i - 1 \in 0 .. Len(Codes) - 1 /\ (i - 1) + 1 = i
  BY <1>1, <1>2
<1>5. ts_type_from_i32(i - 1) = Val(t)
  BY <1>1, <1>4 DEF ts_type_from_i32
<1>6. i - 1 \in Int
  BY <1>1, <1>2
<1> QED
  BY <1>3, <1>4, <1>5, <1>6, AbsentIsNothing

\* An instant's and a period's text.
LEMMA TextReads ==
    ASSUME NEW t
    PROVE  /\ rfc3339(to_rfc3339(t)) = Val(t)
           /\ period_from_iso(iso8601_of(t)) = Val(t)
<1>1. IsText(to_rfc3339(t), "rfc3339") /\ to_rfc3339(t).rfc3339 = t
  BY DEF IsText, to_rfc3339
<1>2. IsText(iso8601_of(t), "iso") /\ iso8601_of(t).iso = t
  BY DEF IsText, iso8601_of
<1> QED
  BY <1>1, <1>2 DEF rfc3339, period_from_iso

\* An optional one is absent on the wire only if it was.
LEMMA OptionReads ==
    ASSUME NEW o \in Option(Nat)
    PROVE  /\ parse_opt_rfc3339(OptText(o, to_rfc3339)) = Val(o)
           /\ opt_period(OptText(o, iso8601_of)) = Val(o)
<1>1. CASE o = Absent
  BY <1>1 DEF parse_opt_rfc3339, opt_period, OptText, OptRead
<1>2. CASE o \in Nat
  <2>1. o # Absent
    BY <1>2, AbsentIsNothing
  <2>2. to_rfc3339(o) # Absent /\ iso8601_of(o) # Absent
    BY <1>2, AbsentIsNothing DEF to_rfc3339, iso8601_of
  <2>3. /\ parse_opt_rfc3339(OptText(o, to_rfc3339)) = rfc3339(to_rfc3339(o))
        /\ opt_period(OptText(o, iso8601_of)) = period_from_iso(iso8601_of(o))
    BY <2>1, <2>2 DEF parse_opt_rfc3339, opt_period, OptText, OptRead
  <2> QED
    BY <2>3, TextReads
<1> QED
  BY <1>1, <1>2 DEF Option

\* A list of instants.
LEMMA TextsRead ==
    ASSUME NEW s \in Seq(Nat)
    PROVE  Reads(Texts(s, to_rfc3339), rfc3339) = Val(s)
<1> DEFINE w == [i \in DOMAIN s |-> to_rfc3339(s[i])]
<1>1. \A i \in DOMAIN s : rfc3339(w[i]) = Val(s[i])
  BY TextReads
<1>2. \A i \in DOMAIN s : ~IsErr(rfc3339(w[i])) /\ rfc3339(w[i]).val = s[i]
  BY <1>1, Results
<1>3. DOMAIN w = DOMAIN s
  OBVIOUS
<1>4. s = [i \in DOMAIN s |-> s[i]]
  OBVIOUS
<1>5. Texts(s, to_rfc3339) = w
  BY DEF Texts
<1> HIDE DEF w
<1>6. [i \in DOMAIN w |-> rfc3339(w[i]).val] = s
  BY <1>2, <1>3, <1>4
<1> QED
  BY <1>2, <1>3, <1>5, <1>6 DEF Reads

\* Features, each with the arm of its value.
LEMMA FeaturesRead ==
    ASSUME NEW f, IsFeatures(f)
    PROVE  features_from_pb(features_to_pb(f)) = Val(f)
<1> DEFINE w == [k \in DOMAIN f |-> [arm |-> f[k]]]
<1>1. DOMAIN w = DOMAIN f /\ \A k \in DOMAIN f : w[k].arm = f[k]
  OBVIOUS
<1>2. features_to_pb(f) = w
  BY DEF features_to_pb
<1> HIDE DEF w
<1>3. [k \in DOMAIN w |-> w[k].arm] = f
  BY <1>1 DEF IsFeatures
<1>4. ~\E k \in DOMAIN w : w[k].arm = Absent
  BY <1>1 DEF IsFeatures
<1> QED
  BY <1>2, <1>3, <1>4 DEF features_from_pb

\* A token of this build.
LEMMA TokenKnown ==
    ASSUME NEW o \in Option(Tokens)
    PROVE  known(o) = Val(o)
  BY DEF known, Option

\* The optional lists of a row: an absent one comes back as empty, and an empty
\* one as absent.
LEMMA ListsRead ==
    /\ \A s \in Option(Seq(Nat)) : Listed(s) \in Seq(Nat)
    /\ \A s \in Option(Seq(Nat) \ {<<>>}) : Unlisted(Listed(s)) = s
  BY DEF Listed, Unlisted, Option

\* A row comes back as SeenRow says, and is read without an error.
LEMMA MetaReads ==
    ASSUME NEW m, IsMeta(m)
    PROVE  metadata_from_pb(metadata_to_pb(m)) = Val(SeenRow(m))
<1> DEFINE w == metadata_to_pb(m)
           t == ts_type_to_i32(m.type)
           i == OptText(m.initial, to_rfc3339)
           r == OptText(m.resolution, iso8601_of)
           s == Texts(Listed(m.timestamps), to_rfc3339)
           p == Listed(m.percentiles)
           f == features_to_pb(m.features)
<1>1. w = [m EXCEPT !.type = t, !.initial = i, !.resolution = r, !.timestamps = s,
                    !.percentiles = p, !.features = f]
  BY DEF metadata_to_pb
<1>2. /\ ts_type_from_i32(t) = Val(m.type)
      /\ parse_opt_rfc3339(i) = Val(m.initial)
      /\ opt_period(r) = Val(m.resolution)
      /\ Reads(s, rfc3339) = Val(Listed(m.timestamps))
      /\ features_from_pb(f) = Val(m.features)
      /\ known(m.basis) = Val(m.basis)
      /\ known(m.reference) = Val(m.reference)
  BY TypeReads, OptionReads, TextsRead, ListsRead, FeaturesRead, TokenKnown DEF IsMeta
<1>3. Unlisted(p) = m.percentiles
  BY ListsRead DEF IsMeta
<1> HIDE DEF t, i, r, s, p, f
<1>4. w = [id |-> m.id, type |-> t, initial |-> i, resolution |-> r, timestamps |-> s,
           percentiles |-> p, features |-> f, basis |-> m.basis,
           reference |-> m.reference, app |-> m.app]
  BY <1>1 DEF IsMeta
<1> HIDE DEF w
<1>5. ~AnyErr(<<Val(m.type), Val(m.initial), Val(m.resolution), Val(Listed(m.timestamps)),
                Val(m.features), Val(m.basis), Val(m.reference)>>)
  BY Results DEF AnyErr
<1>6. metadata_from_pb(w) = Val([w EXCEPT !.type        = m.type,
                                          !.initial     = m.initial,
                                          !.resolution  = m.resolution,
                                          !.timestamps  = Unlisted(Listed(m.timestamps)),
                                          !.percentiles = Unlisted(p),
                                          !.features    = m.features])
  <2>1. /\ w.type = t /\ w.initial = i /\ w.resolution = r /\ w.timestamps = s
        /\ w.percentiles = p /\ w.features = f /\ w.basis = m.basis
        /\ w.reference = m.reference
    BY <1>4
  <2> QED
    BY <1>2, <1>5, <2>1, Results DEF metadata_from_pb
<1> DEFINE back == [id |-> m.id, type |-> m.type, initial |-> m.initial,
                    resolution |-> m.resolution,
                    timestamps |-> Unlisted(Listed(m.timestamps)),
                    percentiles |-> m.percentiles, features |-> m.features,
                    basis |-> m.basis, reference |-> m.reference, app |-> m.app]
<1>7. ASSUME NEW z, z = [w EXCEPT !.type        = m.type,
                                  !.initial     = m.initial,
                                  !.resolution  = m.resolution,
                                  !.timestamps  = Unlisted(Listed(m.timestamps)),
                                  !.percentiles = Unlisted(p),
                                  !.features    = m.features]
      PROVE  z = back
  BY <1>3, <1>4, <1>7
<1>8. ASSUME NEW z, z = [m EXCEPT !.timestamps = Unlisted(Listed(@))]
      PROVE  z = back
  BY <1>8 DEF IsMeta
<1> HIDE DEF back
<1> QED
  BY <1>6, <1>7, <1>8 DEF w, SeenRow

\* A summary's row.
LEMMA SummaryReads ==
    ASSUME NEW m, IsMeta(m)
    PROVE  summary_row_from_pb(summary_row_to_pb(SummaryRow(m))) = Val(SummaryRow(m))
<1> DEFINE t == ts_type_to_i32(m.type)
           i == OptText(m.initial, to_rfc3339)
           r == OptText(m.resolution, iso8601_of)
           w == [type |-> t, initial |-> i, resolution |-> r, count |-> 1]
<1>1. /\ ts_type_from_i32(t) = Val(m.type)
      /\ parse_opt_rfc3339(i) = Val(m.initial)
      /\ opt_period(r) = Val(m.resolution)
  BY TypeReads, OptionReads DEF IsMeta
<1> HIDE DEF t, i, r
<1>2. ASSUME NEW v, v = [SummaryRow(m) EXCEPT !.type = t, !.initial = i, !.resolution = r]
      PROVE  v = [type |-> t, initial |-> i, resolution |-> r, count |-> 1]
  BY <1>2 DEF SummaryRow
<1>3. summary_row_to_pb(SummaryRow(m)) = w
  <2>1. /\ SummaryRow(m).type = m.type /\ SummaryRow(m).initial = m.initial
        /\ SummaryRow(m).resolution = m.resolution
    BY DEF SummaryRow
  <2> QED
    BY <1>2, <2>1 DEF summary_row_to_pb, t, i, r
<1>4. ASSUME NEW v, v = [w EXCEPT !.type = m.type, !.initial = m.initial,
                                  !.resolution = m.resolution]
      PROVE  v = [type |-> m.type, initial |-> m.initial, resolution |-> m.resolution,
                  count |-> 1]
  BY <1>4
<1>5. w.type = t /\ w.initial = i /\ w.resolution = r
  OBVIOUS
<1> HIDE DEF w
<1>6. ~AnyErr(<<Val(m.type), Val(m.initial), Val(m.resolution)>>)
  BY Results DEF AnyErr
<1>7. summary_row_from_pb(w)
        = Val([w EXCEPT !.type = m.type, !.initial = m.initial, !.resolution = m.resolution])
  BY <1>1, <1>5, <1>6, Results DEF summary_row_from_pb
<1> QED
  BY <1>3, <1>4, <1>7 DEF SummaryRow

\* A series' constructor looks at neither its values nor its application data.
LEMMA SameConstructor ==
    ASSUME NEW d, NEW e, e.type = d.type, e.timestamps = d.timestamps,
           e.percentiles = d.percentiles, e.scenarios = d.scenarios, e.shape = d.shape,
           e.count = d.count
    PROVE  ConstructorAccepts(d) => ConstructorAccepts(e)
<1>1. CASE d.type \in IrregularTypes
  BY <1>1 DEF ConstructorAccepts
<1>2. CASE d.type \notin IrregularTypes
  BY <1>2, Zenon DEF ConstructorAccepts
<1> QED
  BY <1>1, <1>2

\* A read series comes back without its application data.
LEMMA DataReads ==
    ASSUME NEW d, IsData(d)
    PROVE  read_resp_to_time_series_data(time_series_data_to_read_resp(d)) = Val(SeenData(d))
<1> DEFINE w == time_series_data_to_read_resp(d)
           back == [type |-> d.type, initial |-> d.initial, resolution |-> d.resolution,
                    timestamps |-> d.timestamps, count |-> d.count,
                    percentiles |-> d.percentiles, scenarios |-> d.scenarios,
                    shape |-> d.shape, bytes |-> d.bytes, basis |-> d.basis,
                    reference |-> d.reference, app |-> Absent]
           init == IF d.type \notin IrregularTypes THEN rfc3339(w.initial) ELSE Val(Absent)
           res  == IF d.type \notin IrregularTypes THEN period_from_iso(w.resolution) ELSE Val(Absent)
<1>1. /\ w.type = ts_type_to_i32(d.type)
      /\ w.initial = IF d.type \in IrregularTypes THEN [text |-> ""] ELSE to_rfc3339(d.initial)
      /\ w.resolution = IF d.type \in IrregularTypes THEN [text |-> ""] ELSE iso8601_of(d.resolution)
      /\ w.timestamps = IF d.type \in IrregularTypes THEN Texts(d.timestamps, to_rfc3339) ELSE <<>>
      /\ w.count = IF d.type \in Forecasts THEN d.count ELSE 0
      /\ w.percentiles = IF d.type = "Probabilistic" THEN d.percentiles ELSE <<>>
      /\ w.scenarios = IF d.type = "Scenarios" THEN d.scenarios ELSE 0
      /\ w.shape = d.shape /\ w.bytes = d.bytes
      /\ w.basis = d.basis /\ w.reference = d.reference
  BY DEF time_series_data_to_read_resp
<1> HIDE DEF w
<1>2. ts_type_from_i32(w.type) = Val(d.type)
  BY <1>1, TypeReads DEF IsData
<1>3. init = Val(d.initial) /\ res = Val(d.resolution)
  <2>1. CASE d.type \in IrregularTypes
    BY <2>1 DEF IsData
  <2>2. CASE d.type \notin IrregularTypes
    BY <1>1, <2>2, TextReads
  <2> QED
    BY <2>1, <2>2
<1>4. \E s : Reads(w.timestamps, rfc3339) = Val(s) /\ (d.type \in IrregularTypes => s = d.timestamps)
  <2>1. CASE d.type \in IrregularTypes
    BY <1>1, <2>1, TextsRead DEF IsData
  <2>2. CASE d.type \notin IrregularTypes
    <3>1. w.timestamps = Texts(<<>>, to_rfc3339)
      BY <1>1, <2>2 DEF Texts
    <3>2. Reads(Texts(<<>>, to_rfc3339), rfc3339) = Val(<<>>)
      <4>1. <<>> \in Seq(Nat)
        OBVIOUS
      <4> QED
        BY <4>1, TextsRead
    <3> QED
      BY <2>2, <3>1, <3>2
  <2> QED
    BY <2>1, <2>2
<1>5. PICK s : Reads(w.timestamps, rfc3339) = Val(s) /\ (d.type \in IrregularTypes => s = d.timestamps)
  BY <1>4
<1>6. known(w.basis) = Val(d.basis) /\ known(w.reference) = Val(d.reference)
  BY <1>1, TokenKnown DEF IsData
<1>7. ~AnyErr(<<Val(d.type), Val(d.initial), Val(d.resolution), Val(s), Val(d.basis),
                Val(d.reference)>>)
  BY Results DEF AnyErr
<1>8. /\ (IF d.type = "DeterministicSingleTimeSeries" THEN "Deterministic" ELSE d.type) = d.type
      /\ (IF d.type \notin IrregularTypes THEN Absent ELSE s) = d.timestamps
      /\ (IF d.type \in Forecasts THEN w.count ELSE Absent) = d.count
      /\ (IF d.type = "Probabilistic" THEN w.percentiles ELSE Absent) = d.percentiles
      /\ (IF d.type = "Scenarios" THEN w.scenarios ELSE Absent) = d.scenarios
  BY <1>1, <1>5 DEF IsData
<1>9. ConstructorAccepts(back)
  <2> HIDE DEF back
  <2>1. /\ back.type = d.type /\ back.timestamps = d.timestamps /\ back.count = d.count
        /\ back.percentiles = d.percentiles /\ back.scenarios = d.scenarios
        /\ back.shape = d.shape
    BY DEF back
  <2> QED
    BY <2>1, SameConstructor DEF IsData
<1>10. read_resp_to_time_series_data(w) = Val(back)
  <2> DEFINE T == Val(d.type)
             I == IF ~IsErr(T) /\ T.val \notin IrregularTypes THEN rfc3339(w.initial) ELSE Val(Absent)
             R == IF ~IsErr(T) /\ T.val \notin IrregularTypes
                  THEN period_from_iso(w.resolution) ELSE Val(Absent)
             B == [type        |-> IF T.val = "DeterministicSingleTimeSeries"
                                   THEN "Deterministic" ELSE T.val,
                   initial     |-> I.val,
                   resolution  |-> R.val,
                   timestamps  |-> IF ~IsErr(T) /\ T.val \notin IrregularTypes
                                   THEN Absent ELSE Val(s).val,
                   count       |-> IF T.val \in Forecasts THEN w.count ELSE Absent,
                   percentiles |-> IF T.val = "Probabilistic" THEN w.percentiles ELSE Absent,
                   scenarios   |-> IF T.val = "Scenarios" THEN w.scenarios ELSE Absent,
                   shape       |-> w.shape,
                   bytes       |-> w.bytes,
                   basis       |-> Val(d.basis).val,
                   reference   |-> Val(d.reference).val,
                   app         |-> Absent]
  <2>1. ~IsErr(T) /\ T.val = d.type
    BY Results
  <2>2. I = Val(d.initial) /\ R = Val(d.resolution)
    BY <1>3, <2>1
  <2> HIDE DEF T, I, R
  <2>3. B = back
    <3> SUFFICES ASSUME NEW z, z = B
                 PROVE  z = back
      OBVIOUS
    <3> QED
      BY <1>1, <1>8, <2>1, <2>2, Results
  <2> HIDE DEF B, back
  <2>4. read_resp_to_time_series_data(w)
          = IF AnyErr(<<T, I, R, Val(s), Val(d.basis), Val(d.reference)>>) THEN Err("Convert")
            ELSE IF ConstructorAccepts(B) THEN Val(B) ELSE Err("Convert")
    BY <1>2, <1>5, <1>6 DEF read_resp_to_time_series_data, B, T, I, R
  <2> QED
    BY <1>7, <1>9, <2>2, <2>3, <2>4 DEF T
<1>11. ASSUME NEW z, z = [d EXCEPT !.app = Absent]
       PROVE  z = back
  BY <1>11 DEF IsData
<1> HIDE DEF back
<1> QED
  BY <1>10, <1>11 DEF w, SeenData

\* Reading only fills in the values.
LEMMA FilledIn ==
    ASSUME NEW d, IsData(d), NEW b
    PROVE  IsData([d EXCEPT !.bytes = b])
<1> DEFINE e == [type |-> d.type, initial |-> d.initial, resolution |-> d.resolution,
                 timestamps |-> d.timestamps, count |-> d.count,
                 percentiles |-> d.percentiles, scenarios |-> d.scenarios,
                 shape |-> d.shape, bytes |-> b, basis |-> d.basis,
                 reference |-> d.reference, app |-> d.app]
<1>1. ASSUME NEW z, z = [d EXCEPT !.bytes = b]
      PROVE  z = e
  BY <1>1 DEF IsData
<1>2. /\ e.type = d.type /\ e.initial = d.initial /\ e.resolution = d.resolution
      /\ e.timestamps = d.timestamps /\ e.count = d.count /\ e.percentiles = d.percentiles
      /\ e.scenarios = d.scenarios /\ e.shape = d.shape /\ e.bytes = b
      /\ e.basis = d.basis /\ e.reference = d.reference /\ e.app = d.app
  OBVIOUS
<1>3. e = [type |-> e.type, initial |-> e.initial, resolution |-> e.resolution,
           timestamps |-> e.timestamps, count |-> e.count, percentiles |-> e.percentiles,
           scenarios |-> e.scenarios, shape |-> e.shape, bytes |-> e.bytes,
           basis |-> e.basis, reference |-> e.reference, app |-> e.app]
  OBVIOUS
<1> HIDE DEF e
<1>4. ConstructorAccepts(e)
  BY <1>2, SameConstructor DEF IsData
<1>5. IsData(e)
  BY <1>2, <1>3, <1>4 DEF IsData
<1> QED
  BY <1>1, <1>5

-----------------------------------------------------------------------------
(* The question that arrives is the one that was asked.                    *)

\* The filter, which the wire has no `exact` for.
LEMMA FilterArrives ==
    ASSUME NEW ask, IsQuestion(ask), NEW op
    PROVE  filter_from_list_req(op, EncodeFilter(ask.filter))
             = Val([type |-> ask.filter.type, zoneless |-> ask.filter.zoneless,
                    resolution |-> ask.filter.resolution, features |-> ask.filter.features,
                    exact |-> op = "has_any_time_series"])
<1> DEFINE f == ask.filter
           t == OptText(f.type, ts_type_to_i32)
           r == OptText(f.resolution, iso8601_of)
           a == OptText(f.features, features_to_pb)
<1>1. OptRead(t, ts_type_from_i32) = Val(f.type)
  <2>1. CASE f.type = Absent
    BY <2>1 DEF OptText, OptRead
  <2>2. CASE f.type \in Types /\ f.type # Absent
    BY <2>2, TypeReads DEF OptText, OptRead
  <2> QED
    BY <2>1, <2>2 DEF IsQuestion, Option
<1>2. opt_period(r) = Val(f.resolution)
  BY OptionReads DEF IsQuestion
<1>3. OptRead(a, features_from_pb) = Val(f.features)
  <2>1. CASE f.features = Absent
    BY <2>1 DEF OptText, OptRead
  <2>2. CASE IsFeatures(f.features)
    <3>1. f.features # Absent /\ features_to_pb(f.features) # Absent
      BY <2>2 DEF IsFeatures
    <3>2. OptRead(a, features_from_pb) = features_from_pb(features_to_pb(f.features))
      BY <3>1 DEF OptText, OptRead
    <3> QED
      BY <2>2, <3>2, FeaturesRead
  <2> QED
    BY <2>1, <2>2 DEF IsQuestion
<1>4. ~AnyErr(<<Val(f.type), Val(f.resolution), Val(f.features)>>)
  BY Results DEF AnyErr
<1> DEFINE w == EncodeFilter(f)
<1>5. w.type = t /\ w.zoneless = f.zoneless /\ w.resolution = r /\ w.features = a
  BY DEF EncodeFilter
<1> HIDE DEF t, r, a, w, f
<1>6. filter_from_list_req(op, w)
        = Val([type |-> f.type, zoneless |-> f.zoneless, resolution |-> f.resolution,
               features |-> f.features, exact |-> op = "has_any_time_series"])
  BY <1>1, <1>2, <1>3, <1>4, <1>5, Results DEF filter_from_list_req
<1> QED
  BY <1>6 DEF w, f

\* The range, and the spelling of its bounds.
LEMMA RangeArrives ==
    ASSUME NEW ask, IsQuestion(ask)
    PROVE  parse_time_range(EncodeRange(ask.range)) = Val(ask.range)
<1>1. CASE ask.range = Absent
  BY <1>1 DEF EncodeRange, parse_time_range
<1>2. CASE ask.range \in [start : Nat, end : Nat, zoneless : BOOLEAN] /\ ask.range # Absent
  <2> DEFINE w == [start |-> to_rfc3339(ask.range.start), end |-> to_rfc3339(ask.range.end),
                   bounds_zoneless |-> ask.range.zoneless]
  <2>1. EncodeRange(ask.range) = w
    BY <1>2 DEF EncodeRange
  <2>2. /\ w.start = to_rfc3339(ask.range.start) /\ w.end = to_rfc3339(ask.range.end)
        /\ w.bounds_zoneless = ask.range.zoneless
    OBVIOUS
  <2> HIDE DEF w
  <2>3. w.start # Absent /\ w.end # Absent /\ w.bounds_zoneless # Absent
    BY <1>2, <2>2, AbsentIsNothing DEF to_rfc3339
  <2>4. rfc3339(w.start) = Val(ask.range.start) /\ rfc3339(w.end) = Val(ask.range.end)
    BY <2>2, TextReads
  <2>5. ~AnyErr(<<Val(ask.range.start), Val(ask.range.end)>>)
    BY Results DEF AnyErr
  <2>6. parse_time_range(w) = Val([start |-> ask.range.start, end |-> ask.range.end,
                                   zoneless |-> ask.range.zoneless])
    BY <2>2, <2>3, <2>4, <2>5, Results DEF parse_time_range
  <2> QED
    BY <1>2, <2>1, <2>6
<1> QED
  BY <1>1, <1>2 DEF IsQuestion, Option

\* What is answered to each question.
LEMMA AskedArms ==
    ASSUME NEW ask
    PROVE  /\ ask.op = "list_metadata" => Asked(ask) = Val(Metas(Found(ask.filter)))
           /\ ask.op = "has_any_time_series" =>
                Asked(ask) = Val(Found([ask.filter EXCEPT !.exact = TRUE]) # {})
           /\ ask.op \in Overviews => Asked(ask) = Val(Overview(ask.op, ask.filter))
           /\ ask.op = "list_metadata_by_ids" =>
                Asked(ask) = IF IsErr(AskedRows(ask.ids)) THEN AskedRows(ask.ids)
                           ELSE Val([i \in DOMAIN AskedRows(ask.ids).val |->
                                       AskedRows(ask.ids).val[i].meta])
           /\ ask.op = "get_metadata_by_id" =>
                Asked(ask) = Val(IF ask.ids[1] \in KnownIds THEN Catalog[ask.ids[1]].meta ELSE Absent)
           /\ ask.op = "association_exists" => Asked(ask) = Val(ask.ids[1] \in KnownIds)
           /\ ask.op \in {"read_by_id", "read_by_ids"} =>
                Asked(ask) = IF IsErr(AskedRows(ask.ids)) THEN AskedRows(ask.ids)
                           ELSE read(AskedRows(ask.ids).val, ask.range)
           /\ ask.op = "get_store_attribute" =>
                Asked(ask) = Val(IF ask.key \in DOMAIN Attributes THEN Attributes[ask.key] ELSE Absent)
           /\ ask.op = "list_store_attributes" => Asked(ask) = Val(Attributes)
<1>1. ask.op = "list_metadata" => Asked(ask) = Val(Metas(Found(ask.filter)))
  BY DEF Asked, Overviews
<1>2. ask.op = "has_any_time_series" => Asked(ask) = Val(Found([ask.filter EXCEPT !.exact = TRUE]) # {})
  BY DEF Asked, Overviews
<1>3. ask.op \in Overviews => Asked(ask) = Val(Overview(ask.op, ask.filter))
  BY DEF Asked, Overviews
<1>4. ask.op = "list_metadata_by_ids" =>
                Asked(ask) = IF IsErr(AskedRows(ask.ids)) THEN AskedRows(ask.ids)
                           ELSE Val([i \in DOMAIN AskedRows(ask.ids).val |->
                                       AskedRows(ask.ids).val[i].meta])
  BY DEF Asked, Overviews
<1>5. ask.op = "get_metadata_by_id" =>
                Asked(ask) = Val(IF ask.ids[1] \in KnownIds THEN Catalog[ask.ids[1]].meta ELSE Absent)
  BY DEF Asked, Overviews
<1>6. ask.op = "association_exists" => Asked(ask) = Val(ask.ids[1] \in KnownIds)
  BY DEF Asked, Overviews
<1>7. ask.op \in {"read_by_id", "read_by_ids"} =>
                Asked(ask) = IF IsErr(AskedRows(ask.ids)) THEN AskedRows(ask.ids)
                           ELSE read(AskedRows(ask.ids).val, ask.range)
  BY DEF Asked, Overviews
<1>8. ask.op = "get_store_attribute" =>
                Asked(ask) = Val(IF ask.key \in DOMAIN Attributes THEN Attributes[ask.key] ELSE Absent)
  BY DEF Asked, Overviews
<1>9. ask.op = "list_store_attributes" => Asked(ask) = Val(Attributes)
  BY DEF Asked, Overviews
<1> QED
  BY <1>1, <1>2, <1>3, <1>4, <1>5, <1>6, <1>7, <1>8, <1>9

\* What an answer depends on.
LEMMA AskedAlike ==
    ASSUME NEW ask, NEW d, ask.op \in Ops, d.op = ask.op, d.ids = ask.ids, d.range = ask.range,
           d.key = ask.key, ask.op # "has_any_time_series" => d.filter = ask.filter,
           [d.filter EXCEPT !.exact = TRUE] = [ask.filter EXCEPT !.exact = TRUE]
    PROVE  Asked(d) = Asked(ask)
<1>1. CASE ask.op = "has_any_time_series"
  <2> DEFINE A(x) == Val(Found([x.filter EXCEPT !.exact = TRUE]) # {})
  <2>1. Asked(d) = A(d) /\ Asked(ask) = A(ask)
    BY <1>1, AskedArms
  <2>2. A(d) = A(ask)
    BY Zenon
  <2> HIDE DEF A
  <2> QED
    BY <2>1, <2>2
<1>2. CASE ask.op # "has_any_time_series"
  <2>1. d.filter = ask.filter
    BY <1>2
  <2> QED
    BY <1>2, <2>1, Zenon DEF Asked
<1> QED
  BY <1>1, <1>2
\* A request is only rejected for asking too much, and otherwise asks what its
\* caller did.
LEMMA RequestArrives ==
    ASSUME NEW ask, IsQuestion(ask)
    PROVE  /\ Rejection(Request(ask)) = IF OverCeiling(Request(ask)) THEN "resource_exhausted"
                                      ELSE "none"
           /\ Request(ask).op = ask.op
           /\ Asked(Decoded(Request(ask))) = Asked(ask)
<1> DEFINE w == Request(ask)
           F == [type |-> ask.filter.type, zoneless |-> ask.filter.zoneless,
                 resolution |-> ask.filter.resolution, features |-> ask.filter.features,
                 exact |-> ask.op = "has_any_time_series"]
<1>1. /\ w.op = ask.op /\ w.ids = ask.ids /\ w.filter = EncodeFilter(ask.filter)
      /\ w.range = EncodeRange(ask.range) /\ w.key = ask.key
  BY DEF Request
<1>2. filter_from_list_req(w.op, w.filter) = Val(F) /\ parse_time_range(w.range) = Val(ask.range)
  BY <1>1, FilterArrives, RangeArrives
<1> HIDE DEF w
<1>3. ~AnyErr(<<filter_from_list_req(w.op, w.filter), parse_time_range(w.range)>>)
  BY <1>2, Results DEF AnyErr
<1>4. Rejection(w) = IF OverCeiling(w) THEN "resource_exhausted" ELSE "none"
  BY <1>3 DEF Rejection
<1> DEFINE d == Decoded(w)
<1>5. /\ d.op = ask.op /\ d.ids = ask.ids /\ d.key = ask.key /\ d.range = ask.range
      /\ d.filter = F
  <2> HIDE DEF F
  <2> QED
    BY <1>1, <1>2, Results DEF Decoded
<1> HIDE DEF d
<1>6. ask.op # "has_any_time_series" => d.filter = ask.filter
  BY <1>5 DEF IsQuestion
<1>7. [d.filter EXCEPT !.exact = TRUE] = [ask.filter EXCEPT !.exact = TRUE]
  <2> DEFINE b == [type |-> ask.filter.type, zoneless |-> ask.filter.zoneless,
                   resolution |-> ask.filter.resolution, features |-> ask.filter.features,
                   exact |-> TRUE]
  <2>1. CASE ask.op # "has_any_time_series"
    BY <1>6, <2>1
  <2>2. CASE ask.op = "has_any_time_series"
    <3>1. d.filter = b
      BY <1>5, <2>2
    <3>2. ASSUME NEW y, y = b, NEW z, z = [y EXCEPT !.exact = TRUE]
          PROVE  z = b
      BY <3>2
    <3>3. ASSUME NEW z, z = [ask.filter EXCEPT !.exact = TRUE]
          PROVE  z = b
      BY <3>3 DEF IsQuestion
    <3> HIDE DEF b
    <3> QED
      BY <3>1, <3>2, <3>3
  <2> QED
    BY <2>1, <2>2
<1>8. Asked(d) = Asked(ask)
  BY <1>5, <1>6, <1>7, AskedAlike DEF IsQuestion
<1> QED
  BY <1>1, <1>4, <1>8 DEF w, d

\* The errors of a list are those of its members.
LEMMA OneErrs ==
    ASSUME NEW a, NEW b
    PROVE  AnyErr(<<a, b>>) <=> IsErr(a) \/ IsErr(b)
  BY DEF AnyErr

\* Bytes that are no question are refused before the lock, unless they ask too
\* much as well.
LEMMA MalformedRejected ==
    ASSUME NEW w, IsMalformed(w), w.filter.type \in Option(Int)
    PROVE  Rejection(w) = IF OverCeiling(w) THEN "resource_exhausted" ELSE "invalid_argument"
<1> DEFINE a == filter_from_list_req(w.op, w.filter)
           b == parse_time_range(w.range)
           type == OptRead(w.filter.type, ts_type_from_i32)
           res == opt_period(w.filter.resolution)
           feats == OptRead(w.filter.features, features_from_pb)
<1>0. IsErr(a) \/ IsErr(b) => AnyErr(<<a, b>>)
  BY OneErrs
<1>1. CASE (w.range.start = Absent) # (w.range.end = Absent)
  <2>1. b = Err("Convert")
    BY <1>1 DEF parse_time_range
  <2> QED
    BY <1>0, <2>1, Results DEF Rejection
<1>2. CASE /\ w.range.start # Absent /\ w.range.end # Absent
           /\ ~IsText(w.range.start, "rfc3339") \/ ~IsText(w.range.end, "rfc3339")
  <2> DEFINE s == rfc3339(w.range.start)
             e == rfc3339(w.range.end)
  <2>1. IsErr(s) \/ IsErr(e)
    BY <1>2, Results DEF rfc3339
  <2>2. AnyErr(<<s, e>>)
    BY <2>1, OneErrs
  <2>3. b = Err("Convert")
    BY <1>2, <2>2 DEF parse_time_range
  <2> QED
    BY <1>0, <2>3, Results DEF Rejection
<1>3. ASSUME IsErr(type) \/ IsErr(res) \/ IsErr(feats)
      PROVE  Rejection(w) = IF OverCeiling(w) THEN "resource_exhausted" ELSE "invalid_argument"
  <2>1. AnyErr(<<type, res, feats>>)
    BY <1>3 DEF AnyErr
  <2>2. a = Err("Convert")
    BY <2>1 DEF filter_from_list_req
  <2> QED
    BY <1>0, <2>2, Results DEF Rejection
<1>4. CASE w.filter.type # Absent /\ w.filter.type \notin 0 .. Len(Codes) - 1
  <2>1. w.filter.type \in Int /\ DOMAIN Codes = 1 .. 7 /\ Len(Codes) = 7
    BY <1>4 DEF Option, Codes
  <2>2. w.filter.type + 1 \notin DOMAIN Codes
    BY <1>4, <2>1
  <2>3. type = Err("Convert")
    BY <1>4, <2>2 DEF OptRead, ts_type_from_i32
  <2> QED
    BY <1>3, <2>3, Results
<1>5. CASE w.filter.resolution # Absent /\ ~IsText(w.filter.resolution, "iso")
  <2>1. res = Err("Convert")
    BY <1>5 DEF opt_period, OptRead, period_from_iso
  <2> QED
    BY <1>3, <2>1, Results
<1>6. CASE w.filter.features # Absent /\ \E k \in DOMAIN w.filter.features :
                                            w.filter.features[k].arm = Absent
  <2>1. feats = Err("Convert")
    BY <1>6 DEF OptRead, features_from_pb
  <2> QED
    BY <1>3, <2>1, Results
<1> QED
  BY <1>1, <1>2, <1>4, <1>5, <1>6 DEF IsMalformed

-----------------------------------------------------------------------------
(* The way back.                                                           *)

\* A refusal keeps its class across the status codes.
LEMMA ErrorsTravel ==
    ASSUME NEW e \in {"NotFound", "InvalidParameter", "IntegrityError"}, NEW op
    PROVE  Received(op, Status(map_err(e))) = Err(e)
<1>1. map_status(map_err(e)) = e
  BY DEF map_status, map_err
<1>2. "status" \in DOMAIN Status(map_err(e)) /\ Status(map_err(e)).status = map_err(e)
  BY DEF Status
<1> QED
  BY <1>1, <1>2 DEF Received

\* A list of rows, of series, of summary rows and of periods.
LEMMA RowsReturn ==
    ASSUME NEW v, \A i \in DOMAIN v : IsMeta(v[i])
    PROVE  EachRead(Each(v, metadata_to_pb), metadata_from_pb) = Val(Each(v, SeenRow))
<1> DEFINE w == [i \in DOMAIN v |-> metadata_to_pb(v[i])]
           r == [i \in DOMAIN v |-> metadata_from_pb(w[i])]
<1>1. DOMAIN w = DOMAIN v /\ \A i \in DOMAIN v : w[i] = metadata_to_pb(v[i])
  OBVIOUS
<1> HIDE DEF w
<1>2. \A i \in DOMAIN v : metadata_from_pb(w[i]) = Val(SeenRow(v[i]))
  BY <1>1, MetaReads
<1>3. ~AnyErr(r)
  BY <1>2, Results DEF AnyErr
<1>4. [i \in DOMAIN v |-> metadata_from_pb(w[i]).val] = [i \in DOMAIN v |-> SeenRow(v[i])]
  BY <1>2, Results
<1> QED
  BY <1>1, <1>3, <1>4 DEF EachRead, Each, w

LEMMA SeriesReturn ==
    ASSUME NEW v, \A i \in DOMAIN v : IsData(v[i])
    PROVE  EachRead(Each(v, time_series_data_to_read_resp), read_resp_to_time_series_data)
             = Val(Each(v, SeenData))
<1> DEFINE w == [i \in DOMAIN v |-> time_series_data_to_read_resp(v[i])]
           r == [i \in DOMAIN v |-> read_resp_to_time_series_data(w[i])]
<1>1. DOMAIN w = DOMAIN v /\ \A i \in DOMAIN v : w[i] = time_series_data_to_read_resp(v[i])
  OBVIOUS
<1> HIDE DEF w
<1>2. \A i \in DOMAIN v : read_resp_to_time_series_data(w[i]) = Val(SeenData(v[i]))
  BY <1>1, DataReads
<1>3. ~AnyErr(r)
  BY <1>2, Results DEF AnyErr
<1>4. [i \in DOMAIN v |-> read_resp_to_time_series_data(w[i]).val] = [i \in DOMAIN v |-> SeenData(v[i])]
  BY <1>2, Results
<1> QED
  BY <1>1, <1>3, <1>4 DEF EachRead, Each, w

LEMMA SummariesReturn ==
    ASSUME NEW v, v = [i \in DOMAIN v |-> v[i]],
           \A i \in DOMAIN v : \E m : IsMeta(m) /\ v[i] = SummaryRow(m)
    PROVE  EachRead(Each(v, summary_row_to_pb), summary_row_from_pb) = Val(v)
<1> DEFINE w == [i \in DOMAIN v |-> summary_row_to_pb(v[i])]
           r == [i \in DOMAIN v |-> summary_row_from_pb(w[i])]
<1>1. DOMAIN w = DOMAIN v /\ \A i \in DOMAIN v : w[i] = summary_row_to_pb(v[i])
  OBVIOUS
<1> HIDE DEF w
<1>2. \A i \in DOMAIN v : summary_row_from_pb(w[i]) = Val(v[i])
  BY <1>1, SummaryReads
<1>3. ~AnyErr(r)
  BY <1>2, Results DEF AnyErr
<1>4. [i \in DOMAIN v |-> summary_row_from_pb(w[i]).val] = v
  BY <1>2, Results
<1> QED
  BY <1>1, <1>3, <1>4 DEF EachRead, Each, w

LEMMA PeriodsReturn ==
    ASSUME NEW v, v = [i \in DOMAIN v |-> v[i]]
    PROVE  EachRead(Each(v, iso8601_of), period_from_iso) = Val(v)
<1> DEFINE w == [i \in DOMAIN v |-> iso8601_of(v[i])]
           r == [i \in DOMAIN v |-> period_from_iso(w[i])]
<1>1. DOMAIN w = DOMAIN v /\ \A i \in DOMAIN v : w[i] = iso8601_of(v[i])
  OBVIOUS
<1> HIDE DEF w
<1>2. \A i \in DOMAIN v : period_from_iso(w[i]) = Val(v[i])
  BY <1>1, TextReads
<1>3. ~AnyErr(r)
  BY <1>2, Results DEF AnyErr
<1>4. [i \in DOMAIN v |-> period_from_iso(w[i]).val] = v
  BY <1>2, Results
<1> QED
  BY <1>1, <1>3, <1>4 DEF EachRead, Each, w

\* What the client makes of a response, by the call it made.
LEMMA BodyReceived ==
    ASSUME NEW op, NEW v
    PROVE  LET got == Received(op, [body |-> Encoded(op, v)])
           IN  /\ op \in {"list_metadata", "list_metadata_by_ids"} =>
                    got = EachRead(Each(v, metadata_to_pb), metadata_from_pb)
               /\ op = "get_metadata_by_id" =>
                    got = IF IsErr(metadata_from_pb(metadata_to_pb(v))) THEN Err("IntegrityError")
                          ELSE metadata_from_pb(metadata_to_pb(v))
               /\ op \in {"read_by_id", "read_by_ids"} =>
                    got = EachRead(Each(v, time_series_data_to_read_resp),
                                   read_resp_to_time_series_data)
               /\ op \in Summaries =>
                    got = EachRead(Each(v, summary_row_to_pb), summary_row_from_pb)
               /\ op = "get_resolutions" => got = EachRead(Each(v, iso8601_of), period_from_iso)
               /\ op \in {"has_any_time_series", "association_exists", "get_store_attribute",
                          "list_store_attributes", "list_owner_ids", "verify_integrity",
                          "get_counts"} => got = Val(v)
<1> DEFINE x == Encoded(op, v)
           got == Received(op, [body |-> x])
<1>1. "status" \notin DOMAIN [body |-> x] /\ [body |-> x].body = x
  OBVIOUS
<1>2. ASSUME op \in {"list_metadata", "list_metadata_by_ids"}
      PROVE  got = EachRead(Each(v, metadata_to_pb), metadata_from_pb)
  <2>1. x = Each(v, metadata_to_pb)
    BY <1>2 DEF Encoded, Summaries
  <2>2. got = EachRead(x, metadata_from_pb)
    BY <1>1, <1>2 DEF Received, Summaries
  <2> HIDE DEF x
  <2> QED
    BY <2>1, <2>2
<1>3. ASSUME op = "get_metadata_by_id"
      PROVE  got = IF IsErr(metadata_from_pb(metadata_to_pb(v))) THEN Err("IntegrityError")
                   ELSE metadata_from_pb(metadata_to_pb(v))
  <2>1. x = metadata_to_pb(v)
    BY <1>3 DEF Encoded, Summaries
  <2>2. got = IF IsErr(metadata_from_pb(x)) THEN Err("IntegrityError") ELSE metadata_from_pb(x)
    BY <1>1, <1>3 DEF Received, Summaries
  <2> HIDE DEF x
  <2> QED
    BY <2>1, <2>2
<1>4. ASSUME op \in {"read_by_id", "read_by_ids"}
      PROVE  got = EachRead(Each(v, time_series_data_to_read_resp), read_resp_to_time_series_data)
  <2>1. x = Each(v, time_series_data_to_read_resp)
    BY <1>4 DEF Encoded, Summaries
  <2>2. got = EachRead(x, read_resp_to_time_series_data)
    BY <1>1, <1>4 DEF Received, Summaries
  <2> HIDE DEF x
  <2> QED
    BY <2>1, <2>2
<1>5. ASSUME op \in Summaries
      PROVE  got = EachRead(Each(v, summary_row_to_pb), summary_row_from_pb)
  <2>1. x = Each(v, summary_row_to_pb)
    BY <1>5 DEF Encoded, Summaries
  <2>2. got = EachRead(x, summary_row_from_pb)
    BY <1>1, <1>5 DEF Received, Summaries
  <2> HIDE DEF x
  <2> QED
    BY <2>1, <2>2
<1>6. ASSUME op = "get_resolutions"
      PROVE  got = EachRead(Each(v, iso8601_of), period_from_iso)
  <2>1. x = Each(v, iso8601_of)
    BY <1>6 DEF Encoded, Summaries
  <2>2. got = EachRead(x, period_from_iso)
    BY <1>1, <1>6 DEF Received, Summaries
  <2> HIDE DEF x
  <2> QED
    BY <2>1, <2>2
<1>7. ASSUME op \in {"has_any_time_series", "association_exists", "get_store_attribute",
                   "list_store_attributes", "list_owner_ids", "verify_integrity", "get_counts"}
      PROVE  got = Val(v)
  <2>1. x = v
    BY <1>7 DEF Encoded, Summaries
  <2>2. got = Val(x)
    BY <1>1, <1>7 DEF Received, Summaries
  <2> HIDE DEF x
  <2> QED
    BY <2>1, <2>2
<1> QED
  BY <1>2, <1>3, <1>4, <1>5, <1>6, <1>7

\* The rows of some ids.
LEMMA RowsFound ==
    ASSUME NEW ids
    PROVE  LET rows == AskedRows(ids)
           IN  \/ rows = Err("NotFound")
               \/ /\ ~IsErr(rows) /\ DOMAIN rows.val = DOMAIN ids
                  /\ \A i \in DOMAIN ids : ids[i] \in KnownIds /\ rows.val[i] = Catalog[ids[i]]
<1>1. CASE \E i \in DOMAIN ids : ids[i] \notin KnownIds
  BY <1>1 DEF AskedRows
<1>2. CASE \A i \in DOMAIN ids : ids[i] \in KnownIds
  <2> DEFINE R == [i \in DOMAIN ids |-> Catalog[ids[i]]]
  <2>1. AskedRows(ids) = Val(R)
    BY <1>2 DEF AskedRows
  <2>2. DOMAIN R = DOMAIN ids /\ \A i \in DOMAIN ids : R[i] = Catalog[ids[i]]
    OBVIOUS
  <2> HIDE DEF R
  <2> QED
    BY <1>2, <2>1, <2>2, Results
<1> QED
  BY <1>1, <1>2

\* A read is refused for its range or for a lost array, or has a series for
\* each row.
LEMMA ReadsAreSeries ==
    ASSUME NEW rows, NEW range, \A i \in DOMAIN rows : \E j \in KnownIds : rows[i] = Catalog[j]
    PROVE  \/ \E e \in {"InvalidParameter", "IntegrityError"} : read(rows, range) = Err(e)
           \/ \E v : read(rows, range) = Val(v) /\ \A i \in DOMAIN v : IsData(v[i])
<1> DEFINE b(i) == <<rows[i].meta.id, IF range = Absent THEN Absent ELSE <<range.start, range.end>> >>
           v == [i \in DOMAIN rows |-> [rows[i].data EXCEPT !.bytes = b(i)]]
<1>1. CASE ~RangeFits(rows, range)
  BY <1>1 DEF read
<1>2. CASE RangeFits(rows, range) /\ \E i \in DOMAIN rows : rows[i].meta.id \in Damaged
  BY <1>2 DEF read
<1>3. CASE RangeFits(rows, range) /\ ~\E i \in DOMAIN rows : rows[i].meta.id \in Damaged
  <2>1. read(rows, range) = Val(v)
    BY <1>3 DEF read
  <2> HIDE DEF b
  <2>2. \A i \in DOMAIN rows : IsData(rows[i].data)
    BY RowsAreSound
  <2>3. \A i \in DOMAIN rows : IsData([rows[i].data EXCEPT !.bytes = b(i)])
    BY <2>2, FilledIn
  <2>4. DOMAIN v = DOMAIN rows /\ \A i \in DOMAIN rows : v[i] = [rows[i].data EXCEPT !.bytes = b(i)]
    OBVIOUS
  <2> HIDE DEF v
  <2>5. \A i \in DOMAIN v : IsData(v[i])
    BY <2>3, <2>4
  <2> QED
    BY <2>1, <2>5
<1> QED
  BY <1>1, <1>2, <1>3

\* The rows of a summary are made of rows of the catalog.
LEMMA SummaryRows ==
    ASSUME NEW S \in SUBSET KnownIds
    PROVE  LET v == Each(Metas(S), SummaryRow)
           IN  /\ v = [i \in DOMAIN v |-> v[i]]
               /\ \A i \in DOMAIN v : \E m : IsMeta(m) /\ v[i] = SummaryRow(m)
<1> DEFINE M == Metas(S)
           v == [i \in DOMAIN M |-> SummaryRow(M[i])]
<1>1. DOMAIN M = S /\ \A i \in S : M[i] = Catalog[i].meta
  BY DEF Metas
<1>2. \A i \in S : IsMeta(M[i])
  BY <1>1, RowsAreSound
<1> HIDE DEF M
<1>3. DOMAIN v = S /\ \A i \in S : v[i] = SummaryRow(M[i])
  BY <1>1
<1>4. v = [i \in DOMAIN v |-> v[i]]
  BY <1>3
<1>5. \A i \in DOMAIN v : \E m : IsMeta(m) /\ v[i] = SummaryRow(m)
  <2> HIDE DEF v
  <2> QED
    BY <1>2, <1>3
<1> QED
  BY <1>4, <1>5 DEF Each, M

\* The overviews that are converted on their way.
LEMMA OverviewRows ==
    ASSUME NEW op, NEW f
    PROVE  /\ op \in Summaries => \E S \in SUBSET KnownIds : Overview(op, f) = Each(Metas(S), SummaryRow)
           /\ op = "get_resolutions" =>
                Overview(op, f) = [i \in DOMAIN Overview(op, f) |-> Overview(op, f)[i]]
<1> DEFINE found  == Found(f)
           timed  == {i \in found : Catalog[i].meta.resolution # Absent}
           static == {i \in found : Static(Catalog[i].meta)}
<1>1. found \subseteq KnownIds /\ timed \subseteq KnownIds /\ static \subseteq KnownIds
  BY DEF Found
<1>2. op = "get_static_summary" => Overview(op, f) = Each(Metas(static), SummaryRow)
  BY DEF Overview
<1>3. op = "get_forecast_summary" => Overview(op, f) = Each(Metas(found \ static), SummaryRow)
  BY DEF Overview
<1>4. op = "check_static_consistency" => Overview(op, f) = Each(Metas(timed \cap static), SummaryRow)
  BY DEF Overview
<1>5. op = "get_resolutions" => Overview(op, f) = [i \in timed |-> Catalog[i].meta.resolution]
  BY DEF Overview
<1> HIDE DEF found, timed, static
<1>6. static \in SUBSET KnownIds /\ found \ static \in SUBSET KnownIds /\ timed \cap static \in SUBSET KnownIds
  BY <1>1
<1>7. op \in Summaries => \E S \in SUBSET KnownIds : Overview(op, f) = Each(Metas(S), SummaryRow)
  BY <1>2, <1>3, <1>4, <1>6 DEF Summaries
<1>8. op = "get_resolutions" =>
                Overview(op, f) = [i \in DOMAIN Overview(op, f) |-> Overview(op, f)[i]]
  BY <1>5
<1> QED
  BY <1>7, <1>8

\* What a remote caller sees, by the call it makes.
LEMMA SeenArms ==
    ASSUME NEW op, NEW v
    PROVE  /\ op \in {"list_metadata", "list_metadata_by_ids"} => Seen(op, v) = Each(v, SeenRow)
           /\ op = "get_metadata_by_id" => Seen(op, v) = SeenRow(v)
           /\ op \in {"read_by_id", "read_by_ids"} => Seen(op, v) = Each(v, SeenData)
           /\ op \in (Overviews \cup {"has_any_time_series", "association_exists",
                                      "get_store_attribute", "list_store_attributes"})
                => Seen(op, v) = v
<1>1. op \in {"list_metadata", "list_metadata_by_ids"} => Seen(op, v) = Each(v, SeenRow)
  BY DEF Seen
<1>2. op = "get_metadata_by_id" => Seen(op, v) = SeenRow(v)
  BY DEF Seen
<1>3. op \in {"read_by_id", "read_by_ids"} => Seen(op, v) = Each(v, SeenData)
  BY DEF Seen
<1>4. op \in (Overviews \cup {"has_any_time_series", "association_exists",
                              "get_store_attribute", "list_store_attributes"}) => Seen(op, v) = v
  BY DEF Seen, Overviews
<1> QED
  BY <1>1, <1>2, <1>3, <1>4

\* An answer is a refusal the status codes have a word for, or comes back as
\* Seen says.
LEMMA AnswerReturns ==
    ASSUME NEW ask, IsQuestion(ask)
    PROVE  \/ \E e \in {"NotFound", "InvalidParameter", "IntegrityError"} : Asked(ask) = Err(e)
           \/ \E v : /\ Asked(ask) = Val(v)
                     /\ \/ ask.op = "get_metadata_by_id" /\ v = Absent
                        \/ /\ ask.op = "get_metadata_by_id" => v # Absent
                           /\ Received(ask.op, [body |-> Encoded(ask.op, v)]) = Val(Seen(ask.op, v))
<1> DEFINE Back(v) == /\ ask.op = "get_metadata_by_id" => v # Absent
                      /\ Received(ask.op, [body |-> Encoded(ask.op, v)]) = Val(Seen(ask.op, v))
<1>1. ASSUME NEW v, \A i \in DOMAIN v : IsMeta(v[i]), ask.op \in {"list_metadata", "list_metadata_by_ids"}
      PROVE  Back(v)
  <2>1. Received(ask.op, [body |-> Encoded(ask.op, v)])
          = EachRead(Each(v, metadata_to_pb), metadata_from_pb)
    BY <1>1, BodyReceived
  <2>2. Seen(ask.op, v) = Each(v, SeenRow)
    BY <1>1, SeenArms
  <2> QED
    BY <1>1, <2>1, <2>2, RowsReturn
<1>2. CASE ask.op = "list_metadata"
  <2> DEFINE v == Metas(Found(ask.filter))
  <2>1. \A i \in DOMAIN v : IsMeta(v[i])
    BY RowsAreSound DEF Metas, Found
  <2>2. Asked(ask) = Val(v)
    BY <1>2, AskedArms
  <2> HIDE DEF v
  <2>3. Back(v)
    BY <1>1, <1>2, <2>1
  <2> QED
    BY <2>2, <2>3
<1>3. CASE ask.op = "list_metadata_by_ids"
  <2> DEFINE rows == AskedRows(ask.ids)
             v == [i \in DOMAIN rows.val |-> rows.val[i].meta]
  <2>1. Asked(ask) = IF IsErr(rows) THEN rows ELSE Val(v)
    BY <1>3, AskedArms
  <2>2. CASE rows = Err("NotFound")
    <3> HIDE DEF rows, v
    <3> QED
      BY <2>1, <2>2, Results
  <2>3. CASE /\ ~IsErr(rows) /\ DOMAIN rows.val = DOMAIN ask.ids
             /\ \A i \in DOMAIN ask.ids : ask.ids[i] \in KnownIds /\ rows.val[i] = Catalog[ask.ids[i]]
    <3> HIDE DEF rows
    <3>1. \A i \in DOMAIN v : IsMeta(v[i])
      BY <2>3, RowsAreSound
    <3> HIDE DEF v
    <3>2. Back(v) /\ Asked(ask) = Val(v)
      BY <1>1, <1>3, <2>1, <2>3, <3>1
    <3> QED
      BY <3>2
  <2> QED
    BY <2>2, <2>3, RowsFound
<1>4. CASE ask.op = "get_metadata_by_id"
  <2> DEFINE v == IF ask.ids[1] \in KnownIds THEN Catalog[ask.ids[1]].meta ELSE Absent
  <2>1. Asked(ask) = Val(v)
    BY <1>4, AskedArms
  <2>2. v = Absent \/ IsMeta(v)
    BY RowsAreSound
  <2> HIDE DEF v
  <2>3. CASE IsMeta(v)
    <3>1. metadata_from_pb(metadata_to_pb(v)) = Val(SeenRow(v)) /\ v # Absent
      BY <2>3, MetaReads DEF IsMeta
    <3>2. Received(ask.op, [body |-> Encoded(ask.op, v)]) = Val(SeenRow(v))
      BY <1>4, <3>1, BodyReceived, Results
    <3>3. Seen(ask.op, v) = SeenRow(v)
      BY <1>4, SeenArms
    <3> QED
      BY <2>1, <3>1, <3>2, <3>3
  <2> QED
    BY <1>4, <2>1, <2>2, <2>3
<1>5. CASE ask.op \in {"read_by_id", "read_by_ids"}
  <2> DEFINE rows == AskedRows(ask.ids)
  <2>1. Asked(ask) = IF IsErr(rows) THEN rows ELSE read(rows.val, ask.range)
    BY <1>5, AskedArms
  <2>2. CASE rows = Err("NotFound")
    <3> HIDE DEF rows
    <3> QED
      BY <2>1, <2>2, Results
  <2>3. CASE /\ ~IsErr(rows) /\ DOMAIN rows.val = DOMAIN ask.ids
             /\ \A i \in DOMAIN ask.ids : ask.ids[i] \in KnownIds /\ rows.val[i] = Catalog[ask.ids[i]]
    <3> HIDE DEF rows
    <3>1. Asked(ask) = read(rows.val, ask.range)
      BY <2>1, <2>3
    <3>2. \A i \in DOMAIN rows.val : \E j \in KnownIds : rows.val[i] = Catalog[j]
      BY <2>3
    <3>3. CASE \E e \in {"InvalidParameter", "IntegrityError"} : read(rows.val, ask.range) = Err(e)
      BY <3>1, <3>3
    <3>4. CASE \E v : read(rows.val, ask.range) = Val(v) /\ \A i \in DOMAIN v : IsData(v[i])
      <4> PICK v : read(rows.val, ask.range) = Val(v) /\ \A i \in DOMAIN v : IsData(v[i])
        BY <3>4
      <4>1. Received(ask.op, [body |-> Encoded(ask.op, v)])
              = EachRead(Each(v, time_series_data_to_read_resp), read_resp_to_time_series_data)
        BY <1>5, BodyReceived
      <4>2. Seen(ask.op, v) = Each(v, SeenData)
        BY <1>5, SeenArms
      <4>3. Back(v)
        BY <1>5, <4>1, <4>2, SeriesReturn
      <4> QED
        BY <3>1, <4>3
    <3>5. \/ \E e \in {"InvalidParameter", "IntegrityError"} : read(rows.val, ask.range) = Err(e)
          \/ \E v : read(rows.val, ask.range) = Val(v) /\ \A i \in DOMAIN v : IsData(v[i])
      <4> DEFINE s == rows.val
      <4>1. \A i \in DOMAIN s : \E j \in KnownIds : s[i] = Catalog[j]
        BY <3>2
      <4> HIDE DEF s
      <4>2. \/ \E e \in {"InvalidParameter", "IntegrityError"} : read(s, ask.range) = Err(e)
            \/ \E v : read(s, ask.range) = Val(v) /\ \A i \in DOMAIN v : IsData(v[i])
        BY <4>1, ReadsAreSeries
      <4> QED
        BY <4>2 DEF s
    <3> QED
      BY <3>3, <3>4, <3>5
  <2> QED
    BY <2>2, <2>3, RowsFound
<1>6. CASE ask.op \in Summaries
  <2> DEFINE v == Overview(ask.op, ask.filter)
  <2>1. ask.op \in Overviews /\ Asked(ask) = Val(v)
    BY <1>6, AskedArms DEF Summaries, Overviews
  <2>2. /\ v = [i \in DOMAIN v |-> v[i]]
        /\ \A i \in DOMAIN v : \E m : IsMeta(m) /\ v[i] = SummaryRow(m)
    <3>1. PICK S \in SUBSET KnownIds : v = Each(Metas(S), SummaryRow)
      BY <1>6, OverviewRows
    <3> HIDE DEF v
    <3> QED
      BY <3>1, SummaryRows
  <2> HIDE DEF v
  <2>3. Received(ask.op, [body |-> Encoded(ask.op, v)]) = Val(v)
    BY <1>6, <2>2, BodyReceived, SummariesReturn
  <2>4. Seen(ask.op, v) = v
    BY <2>1, SeenArms
  <2> QED
    BY <1>6, <2>1, <2>3, <2>4 DEF Summaries
<1>7. CASE ask.op = "get_resolutions"
  <2> DEFINE v == Overview(ask.op, ask.filter)
  <2>1. ask.op \in Overviews /\ Asked(ask) = Val(v)
    BY <1>7, AskedArms DEF Overviews
  <2>2. v = [i \in DOMAIN v |-> v[i]]
    BY <1>7, OverviewRows
  <2> HIDE DEF v
  <2>3. Received(ask.op, [body |-> Encoded(ask.op, v)]) = Val(v)
    BY <1>7, <2>2, BodyReceived, PeriodsReturn
  <2>4. Seen(ask.op, v) = v
    BY <2>1, SeenArms
  <2> QED
    BY <1>7, <2>1, <2>3, <2>4
<1>8. CASE ask.op \in {"has_any_time_series", "association_exists", "get_store_attribute",
                     "list_store_attributes", "list_owner_ids", "verify_integrity", "get_counts"}
  <2>1. \E v : Asked(ask) = Val(v)
    <3>1. CASE ask.op = "has_any_time_series"
      BY <3>1, AskedArms, Zenon
    <3>2. CASE ask.op = "association_exists"
      BY <3>2, AskedArms, Zenon
    <3>3. CASE ask.op \in {"get_store_attribute", "list_store_attributes"}
      BY <3>3, AskedArms
    <3>4. CASE ask.op \in {"list_owner_ids", "verify_integrity", "get_counts"}
      <4>1. ask.op \in Overviews
        BY <3>4 DEF Overviews
      <4> QED
        BY <4>1, AskedArms
    <3> QED
      BY <1>8, <3>1, <3>2, <3>3, <3>4
  <2>2. ASSUME NEW v
        PROVE  /\ Received(ask.op, [body |-> Encoded(ask.op, v)]) = Val(v)
               /\ Seen(ask.op, v) = v
    <3>1. ask.op \in (Overviews \cup {"has_any_time_series", "association_exists",
                                     "get_store_attribute", "list_store_attributes"})
      BY <1>8 DEF Overviews
    <3>2. Received(ask.op, [body |-> Encoded(ask.op, v)]) = Val(v)
      BY <1>8, BodyReceived
    <3>3. Seen(ask.op, v) = v
      BY <3>1, SeenArms
    <3> QED
      BY <3>2, <3>3
  <2> QED
    BY <1>8, <2>1, <2>2
<1> QED
  BY <1>2, <1>3, <1>4, <1>5, <1>6, <1>7, <1>8 DEF IsQuestion, Ops, Overviews, Summaries

-----------------------------------------------------------------------------
(* A call.                                                                 *)

\* What a call ends in, when the server answers it at all: the connection's
\* error for asking too much, and otherwise the answer there is locally.
LEMMA AnsweredAlike ==
    ASSUME NEW n \in DOMAIN Requests
    PROVE  IF OverCeiling(Wires[n]) THEN Answers[n] = Err("ConnectionError")
           ELSE Answers[n] = Expected[n]
<1> DEFINE w == Wires[n]
<1>0. /\ Wires[n] = IF "asks" \in DOMAIN Requests[n] THEN Request(Requests[n].asks)
                    ELSE Requests[n].raw
      /\ Rejections[n] = Rejection(w)
      /\ Responses[n] = IF Rejections[n] = "none" THEN Response(w) ELSE Status(Rejections[n])
      /\ Answers[n] = Received(w.op, Responses[n])
  BY DEF Wires, Rejections, Responses, Answers
<1>1. ASSUME NEW status, NEW op
      PROVE  Received(op, Status(status)) = Err(map_status(status))
  BY DEF Received, Status
<1>2. ASSUME OverCeiling(w)
      PROVE  Answers[n] = Err("ConnectionError")
  <2>1. Rejections[n] = "resource_exhausted"
    BY <1>0, <1>2 DEF Rejection
  <2>2. map_status("resource_exhausted") = "ConnectionError"
    BY DEF map_status
  <2> QED
    BY <1>0, <1>1, <2>1, <2>2
<1>3. CASE ~OverCeiling(w) /\ "raw" \in DOMAIN Requests[n]
  <2>1. /\ w = Requests[n].raw /\ IsMalformed(w) /\ w.filter.type \in Option(Int)
    BY <1>0, <1>3, RequestsAreEither
  <2>2. Rejections[n] = "invalid_argument"
    BY <1>0, <1>3, <2>1, MalformedRejected
  <2>3. map_status("invalid_argument") = "InvalidParameter"
    BY DEF map_status
  <2>4. Answers[n] = Err("InvalidParameter")
    BY <1>0, <1>1, <2>2, <2>3
  <2>5. Expected[n] = Err("InvalidParameter")
    BY <1>3 DEF Expected
  <2> QED
    BY <1>3, <2>4, <2>5
<1>4. CASE ~OverCeiling(w) /\ "raw" \notin DOMAIN Requests[n]
  <2> DEFINE ask == Requests[n].asks
  <2>1. w = Request(ask) /\ IsQuestion(ask)
    BY <1>0, <1>4, RequestsAreEither
  <2> HIDE DEF w
  <2>2. Expected[n] = IF ask.op = "get_metadata_by_id" /\ Asked(ask) = Val(Absent)
                      THEN Err("NotFound")
                      ELSE IF IsErr(Asked(ask)) THEN Asked(ask)
                      ELSE Val(Seen(ask.op, Asked(ask).val))
    BY <1>4 DEF Expected
  <2> HIDE DEF ask
  <2>3. w.op = ask.op /\ Rejection(w) = "none" /\ Asked(Decoded(w)) = Asked(ask)
    BY <1>4, <2>1, RequestArrives
  <2>4. Answers[n] = Received(ask.op, Response(w))
    BY <1>0, <2>3
  <2>5. Response(w) = IF IsErr(Asked(ask)) THEN Status(map_err(Asked(ask).err))
                      ELSE IF ask.op = "get_metadata_by_id" /\ Asked(ask).val = Absent
                           THEN Status("not_found")
                      ELSE [body |-> Encoded(ask.op, Asked(ask).val)]
    BY <2>3 DEF Response
  <2>6. CASE \E e \in {"NotFound", "InvalidParameter", "IntegrityError"} : Asked(ask) = Err(e)
    <3> PICK e \in {"NotFound", "InvalidParameter", "IntegrityError"} : Asked(ask) = Err(e)
      BY <2>6
    <3>1. IsErr(Asked(ask)) /\ Asked(ask).err = e /\ Asked(ask) # Val(Absent)
      BY Results DEF Err
    <3>2. Answers[n] = Err(e)
      BY <2>4, <2>5, <3>1, ErrorsTravel
    <3> QED
      BY <1>4, <2>2, <3>1, <3>2 DEF w
  <2>7. CASE \E v : /\ Asked(ask) = Val(v)
                    /\ \/ ask.op = "get_metadata_by_id" /\ v = Absent
                       \/ /\ ask.op = "get_metadata_by_id" => v # Absent
                          /\ Received(ask.op, [body |-> Encoded(ask.op, v)]) = Val(Seen(ask.op, v))
    <3> PICK v : /\ Asked(ask) = Val(v)
                 /\ \/ ask.op = "get_metadata_by_id" /\ v = Absent
                    \/ /\ ask.op = "get_metadata_by_id" => v # Absent
                       /\ Received(ask.op, [body |-> Encoded(ask.op, v)]) = Val(Seen(ask.op, v))
      BY <2>7
    <3>1. ~IsErr(Asked(ask)) /\ Asked(ask).val = v /\ (Asked(ask) = Val(Absent) <=> v = Absent)
      BY Results, ResultsDiffer
    <3>2. CASE ask.op = "get_metadata_by_id" /\ v = Absent
      <4>1. map_status("not_found") = "NotFound"
        BY DEF map_status
      <4>2. Answers[n] = Err("NotFound")
        BY <1>1, <2>4, <2>5, <3>1, <3>2, <4>1
      <4> QED
        BY <1>4, <2>2, <3>1, <3>2, <4>2 DEF w
    <3>3. CASE /\ ask.op = "get_metadata_by_id" => v # Absent
               /\ Received(ask.op, [body |-> Encoded(ask.op, v)]) = Val(Seen(ask.op, v))
      <4>1. Answers[n] = Val(Seen(ask.op, v))
        BY <2>4, <2>5, <3>1, <3>3
      <4> QED
        BY <1>4, <2>2, <3>1, <3>3, <4>1 DEF w
    <3> QED
      BY <3>2, <3>3
  <2> QED
    BY <2>1, <2>6, <2>7, AnswerReturns
<1> QED
  BY <1>2, <1>3, <1>4

\* No answer there is locally is the connection's error.
LEMMA NeverTheConnection ==
    ASSUME NEW n \in DOMAIN Requests
    PROVE  Expected[n] # Err("ConnectionError")
<1>1. CASE "raw" \in DOMAIN Requests[n]
  BY <1>1, ResultsDiffer DEF Expected
<1>2. CASE "raw" \notin DOMAIN Requests[n]
  <2> DEFINE ask == Requests[n].asks
  <2>1. IsQuestion(ask)
    BY <1>2, RequestsAreEither
  <2>2. Expected[n] = IF ask.op = "get_metadata_by_id" /\ Asked(ask) = Val(Absent)
                      THEN Err("NotFound")
                      ELSE IF IsErr(Asked(ask)) THEN Asked(ask)
                      ELSE Val(Seen(ask.op, Asked(ask).val))
    BY <1>2 DEF Expected
  <2> HIDE DEF ask
  <2>3. IsErr(Asked(ask)) => \E e \in {"NotFound", "InvalidParameter", "IntegrityError"} :
                             Asked(ask) = Err(e)
    BY <2>1, AnswerReturns, Results
  <2> QED
    BY <2>2, <2>3, Results, ResultsDiffer
<1> QED
  BY <1>1, <1>2

\* What can have become of a call.
CallsMade ==
  {NoCall} \cup [at : {"sent", "waiting", "running"}, req : DOMAIN Requests]
         \cup [at : {"replied"}, req : DOMAIN Requests,
               code : {"none", "unauthenticated", "internal", "unavailable"}]

RpcInv == rpc \in [Clients -> CallsMade]

\* Every step keeps RpcInv.
LEMMA RpcStep ==
    ASSUME RpcInv, [CallsNext]_callVars
    PROVE  RpcInv'
<1> USE DEF RpcInv
<1>0. \A c \in Clients : rpc[c].at # "idle" =>
        /\ rpc[c].req \in DOMAIN Requests
        /\ \A status \in {"none", "unauthenticated", "internal", "unavailable"} :
             Replied(rpc[c], status) \in CallsMade
  BY DEF CallsMade, NoCall, Replied
<1>1. ASSUME NEW c \in Clients, NEW n \in MayAsk[c], Send(c, n)
      PROVE  RpcInv'
  <2>1. [at |-> "sent", req |-> n] \in CallsMade
    BY RemoteConstants DEF CallsMade
  <2> QED
    BY <1>1, <2>1 DEF Send
<1>2. ASSUME NEW c \in Clients, NEW at \in {"waiting", "running"},
             rpc[c].at \in {"sent", "waiting"}, rpc' = [rpc EXCEPT ![c].at = at]
      PROVE  RpcInv'
  <2>1. [rpc[c] EXCEPT !.at = at] \in CallsMade
    <3>1. rpc[c] \in [at : {"sent", "waiting", "running"}, req : DOMAIN Requests]
      BY <1>2 DEF CallsMade, NoCall
    <3> QED
      BY <3>1 DEF CallsMade
  <2> QED
    BY <1>2, <2>1
<1>3. ASSUME NEW c \in Clients, Admit(c)
      PROVE  RpcInv'
  BY <1>0, <1>2, <1>3 DEF Admit, At
<1>4. ASSUME NEW c \in Clients, Lock(c)
      PROVE  RpcInv'
  BY <1>2, <1>4 DEF Lock, At
<1>5. ASSUME NEW c \in Clients, Serve(c)
      PROVE  RpcInv'
  <2>1. map_err("Io") = "internal"
    BY DEF map_err
  <2> QED
    BY <1>0, <1>5, <2>1 DEF Serve, At
<1>6. ASSUME NEW c \in Clients, Take(c) \/ Abandon(c)
      PROVE  RpcInv'
  BY <1>6 DEF Take, Abandon, CallsMade
<1>7. CASE Restart
  BY <1>0, <1>7 DEF Restart
<1>8. CASE UNCHANGED callVars
  BY <1>8 DEF callVars
<1> QED
  BY <1>1, <1>3, <1>4, <1>5, <1>6, <1>7, <1>8 DEF CallsNext

\* A remote caller is told what a local one would be, whatever else is in
\* flight, for every catalog, set of requests and number of clients.
THEOREM RemotesAgree == CallsSpec => []RemoteTellsTheSame
<1>1. CallsInit => RpcInv
  BY DEF CallsInit, RpcInv, CallsMade
<1>2. RpcInv /\ [CallsNext]_callVars => RpcInv'
  BY RpcStep
<1>3. RpcInv => RemoteTellsTheSame
  <2> SUFFICES ASSUME RpcInv, NEW c \in Clients, rpc[c].at = "replied",
                      NEW n, n = rpc[c].req, NEW status, status = rpc[c].code,
                      NEW answer,
                      answer = IF status = "none" THEN Answers[n] ELSE Err(map_status(status))
               PROVE  IF answer = Err("ConnectionError")
                      THEN status # "none" \/ OverCeiling(Wires[n])
                      ELSE answer = Expected[n]
    BY DEF RemoteTellsTheSame, At
  <2>1. n \in DOMAIN Requests /\ status \in {"none", "unauthenticated", "internal", "unavailable"}
    BY DEF RpcInv, CallsMade, NoCall
  <2>2. CASE status = "none"
    BY <2>1, <2>2, AnsweredAlike, NeverTheConnection
  <2>3. CASE status # "none"
    <3>1. map_status(status) = "ConnectionError"
      BY <2>1, <2>3 DEF map_status
    <3> QED
      BY <2>3, <3>1
  <2> QED
    BY <2>2, <2>3
<1> QED
  BY <1>1, <1>2, <1>3, PTL DEF CallsSpec
=============================================================================
