------------------------------ MODULE CAbi ------------------------------
(* A C caller of the ABI on one thread: it begins an export, the export's  *)
(* steps run, any fallible step may end the call, and the caller releases  *)
(* what a successful call handed it.  "One handle, one thread at a time"   *)
(* (lib.rs:10) makes this the whole schedule; LAST_ERROR is thread-local.  *)
EXTENDS CAbiExports, FiniteSets

CONSTANTS MaxBatch,   \* bound on the requests accumulated in a batch
          MaxLive,    \* bound on the handles the caller holds at once
          MaxText     \* bound on the length of a rendered listing

ASSUME CAbiBounds == {MaxBatch, MaxLive, MaxText} \subseteq Nat \ {0}

VARIABLES
  live,       \* handle kinds the caller holds (at most one of each: a bound)
  owed,       \* owned objects the caller has received and not yet released
  lastError,  \* LAST_ERROR: "none", a message of "this" call or an "earlier" one
  batch,      \* requests in the batch handle
  size,       \* length of what the store's next listing renders
  probed,     \* the length the caller's last listing call reported
  call,       \* the call in progress, or Idle
  outcome     \* what the last finished call did

vars == <<live, owed, lastError, batch, size, probed, call, outcome>>

Idle == [fn |-> "idle"]

\* A call: steps left, raw allocations not yet written out, CStrings held,
\* what it wrote through out-pointers, whether it changed the store or took the
\* batch, and what its text buffer received.
NewCall(f, asked, cap) ==
  [fn |-> f, rest |-> Program[f], asked |-> asked, cap |-> cap,
   raw |-> {}, held |-> {}, given |-> {}, wrote |-> FALSE, got |-> 0, needed |-> 0]

NoOutcome == [clears |-> TRUE, ok |-> TRUE, lost |-> {}, given |-> {},
              wrote |-> FALSE, cap |-> 0, got |-> 0, needed |-> 0, nul |-> 0]

Init ==
  /\ live = {}
  /\ owed = {}
  /\ lastError = "none"
  /\ batch = 0
  /\ size = 1
  /\ probed = 0
  /\ call = Idle
  /\ outcome = NoOutcome

Steps(f)    == {Program[f][i] : i \in DOMAIN Program[f]}
Releases(f) == \E s \in Steps(f) : s.op = "release"
Opens(f)    == {s.of : s \in {t \in Steps(f) : t.op = "open"}}
Nul(f)      == IF write_str_out \in Steps(f) THEN 1 ELSE 0
Renders(f)  == \E s \in Steps(f) : s.op = "text"
Optional(f) == \E s \in Steps(f) : s.op = "guard" \/ (s.op = "raw" /\ s.opt)

\* A body's order: what can fail comes before anything is allocated raw, written out
\* or edited, and a raw allocation is followed by the writing out.
Fallible(s) == s.op \in {"deref", "check", "core", "guard"}
Edits(s)    == s.op = "core" /\ s.effect = "edit"
Commits(s)  == s.op \in {"raw", "give"} \/ Edits(s)

InOrder(body) ==
  \A i \in DOMAIN body :
    /\ Commits(body[i]) => \A j \in DOMAIN body : i < j => ~Fallible(body[j])
    /\ body[i].op = "raw" => \E j \in DOMAIN body : i < j /\ body[j].op = "give"

ASSUME ExportsInOrder ==
  \A f \in DOMAIN Program :
    /\ Program[f] \in Seq(Steps(f))
    /\ InOrder(Program[f])
    /\ clear_error \in Steps(f) => Program[f] # <<>> /\ Program[f][1].op = "clear"
    /\ \A s \in Steps(f) : /\ s.op \in {"raw", "guard"} => s.of \in OwnedKind
                           /\ s.op = "text" => s.nul = Nul(f)

\* The caller probes with no buffer, or fetches with one sized from its probe.
Caps(f) == IF Renders(f) THEN {0, probed + 1} ELSE {0}

\* It may leave the optional out-pointers null.
Asks(f) == IF Optional(f) THEN BOOLEAN ELSE {TRUE}

Begin(f) ==
  /\ call = Idle
  /\ Releases(f) \/ owed = {}
  /\ Opens(f) # {} => Opens(f) \cap live = {} /\ Cardinality(live) < MaxLive
  /\ \A s \in Steps(f) : s.op = "push" => batch < MaxBatch
  /\ \E asked \in Asks(f), cap \in Caps(f) : call' = NewCall(f, asked, cap)
  /\ lastError' = IF lastError = "none" THEN "none" ELSE "earlier"
  /\ outcome' = NoOutcome
  /\ UNCHANGED <<live, owed, batch, size, probed>>

Step == call.rest[1]
Running(ops) == call # Idle /\ call.rest # <<>> /\ Step.op \in ops
Advance(c) == [c EXCEPT !.rest = Tail(c.rest)]

\* Fault: the message of an earlier call is left in place.
ClearsNothing ==
  /\ Running({"clear"})
  /\ call' = Advance(call)
  /\ UNCHANGED <<live, owed, lastError, batch, size, probed, outcome>>

ClearError ==
  /\ Running({"clear"})
  /\ lastError' = "none"
  /\ call' = Advance(call)
  /\ UNCHANGED <<live, owed, batch, size, probed, outcome>>

\* A check passes; a handle dereference passes only for a live handle.
Pass ==
  /\ Running({"deref", "check"})
  /\ Step.op = "deref" => Step.of \in live
  /\ call' = Advance(call)
  /\ UNCHANGED <<live, owed, lastError, batch, size, probed, outcome>>

\* A core call succeeds; one that edits may change what a listing renders.
Core ==
  /\ Running({"core"})
  /\ IF Step.effect = "edit" THEN size' \in 1..MaxText ELSE size' = size
  /\ call' = [Advance(call) EXCEPT !.wrote = @ \/ Step.effect = "edit"]
  /\ UNCHANGED <<live, owed, lastError, batch, probed, outcome>>

Drain ==
  /\ Running({"drain"})
  /\ batch' = 0
  /\ call' = Advance(call)
  /\ UNCHANGED <<live, owed, lastError, size, probed, outcome>>

Push ==
  /\ Running({"push"})
  /\ batch' = batch + 1
  /\ call' = Advance(call)
  /\ UNCHANGED <<live, owed, lastError, size, probed, outcome>>

AllocRaw ==
  /\ Running({"raw"})
  /\ call' = [Advance(call) EXCEPT
                !.raw = IF Step.opt /\ ~call.asked THEN @ ELSE @ \cup {Step.of}]
  /\ UNCHANGED <<live, owed, lastError, batch, size, probed, outcome>>

\* Fault: the CString is turned into a raw pointer as soon as it is made.
HoldsRawPointer ==
  /\ Running({"guard"})
  /\ call' = [Advance(call) EXCEPT !.raw = IF call.asked THEN @ \cup {Step.of} ELSE @]
  /\ UNCHANGED <<live, owed, lastError, batch, size, probed, outcome>>

\* An optional attribute: absent (or not asked for), or held as a CString.
HoldString ==
  /\ Running({"guard"})
  /\ call' = [Advance(call) EXCEPT !.held = IF call.asked THEN @ \cup {Step.of} ELSE @]
  /\ UNCHANGED <<live, owed, lastError, batch, size, probed, outcome>>

Give ==
  /\ Running({"give"})
  /\ call' = [Advance(call) EXCEPT !.given = @ \cup call.raw \cup call.held,
                                   !.raw = {}, !.held = {}]
  /\ UNCHANGED <<live, owed, lastError, batch, size, probed, outcome>>

\* Fault: the terminator is written after as many bytes as the buffer holds.
CopiedWithoutReserve(len, cap, nul) ==
  IF cap = 0 THEN 0 ELSE IF len < cap THEN len ELSE cap

\* write_str_out reserves a byte for the terminator; write_i64_slice_out does not.
Copied(len, cap, nul) ==
  IF cap = 0 THEN 0 ELSE IF len < cap - nul THEN len ELSE cap - nul

WriteText ==
  /\ Running({"text"})
  /\ call' = [Advance(call) EXCEPT !.needed = size,
                                   !.got = Copied(size, call.cap, Step.nul)]
  /\ UNCHANGED <<live, owed, lastError, batch, size, probed, outcome>>

OpenHandle ==
  /\ Running({"open"})
  /\ live' = live \cup {Step.of}
  /\ batch' = IF Step.of = "batch" THEN 0 ELSE batch
  /\ call' = Advance(call)
  /\ UNCHANGED <<owed, lastError, size, probed, outcome>>

\* A destructor on what the caller holds, or on null.
ReleaseHeld ==
  /\ Running({"release"})
  /\ live' = live \ {Step.of}
  /\ owed' = owed \ {Step.of}
  /\ batch' = IF Step.of = "batch" THEN 0 ELSE batch
  /\ call' = Advance(call)
  /\ UNCHANGED <<lastError, size, probed, outcome>>

Finish(ok) ==
  [clears |-> clear_error \in Steps(call.fn), ok |-> ok, lost |-> call.raw, given |-> call.given,
   wrote |-> call.wrote, cap |-> call.cap, got |-> call.got,
   needed |-> call.needed, nul |-> Nul(call.fn)]

\* A fallible step fails: the early return drops what is held, never what is raw.
Fail ==
  /\ Running({"deref", "check", "core", "guard"})
  /\ lastError' = IF Step.says THEN "this" ELSE lastError
  /\ outcome' = Finish(FALSE)
  /\ call' = Idle
  /\ UNCHANGED <<live, owed, batch, size, probed>>

Return ==
  /\ call # Idle
  /\ call.rest = <<>>
  /\ owed' = owed \cup call.given
  /\ probed' = IF Renders(call.fn) THEN call.needed ELSE probed
  /\ outcome' = Finish(TRUE)
  /\ call' = Idle
  /\ UNCHANGED <<live, lastError, batch, size>>

Next ==
  \/ \E f \in DOMAIN Program : Begin(f)
  \/ ClearError
  \/ Pass
  \/ Core
  \/ Drain
  \/ Push
  \/ AllocRaw
  \/ HoldString
  \/ Give
  \/ WriteText
  \/ OpenHandle
  \/ ReleaseHeld
  \/ Fail
  \/ Return

Spec == Init /\ [][Next]_vars

-----------------------------------------------------------------------------
TypeOK ==
  /\ live \subseteq HandleKind
  /\ owed \subseteq OwnedKind
  /\ lastError \in {"none", "this", "earlier"}
  /\ batch \in 0..MaxBatch
  /\ size \in 1..MaxText
  /\ probed \in 0..MaxText

\* Every allocation an export makes reaches the caller or is dropped: a call
\* that fails has written no owned pointer and left no raw one behind, and one
\* that succeeds has left none behind (emit_descriptors before the buffers, ids
\* allocated after the checks, lib.rs:2676-3595).
NothingOrphaned ==
  /\ outcome.lost = {}
  /\ ~outcome.ok => outcome.given = {}

\* A call that reports an error has not changed the store: no fallible step
\* follows the core call that edits it (ids, counts and reports are produced by
\* steps that cannot fail).
FailureLeavesStore == ~outcome.ok => ~outcome.wrote

\* Between a probe and its fetch the listing may grow.  The fetch then stays
\* inside the caller's buffer, terminator included, and a cut text is one the
\* reported length does not fit (write_str_out, write_i64_slice_out).
TextFits ==
  outcome.cap > 0 /\ outcome.needed > 0 =>
    /\ outcome.got + outcome.nul <= outcome.cap
    /\ outcome.got < outcome.needed => outcome.needed + outcome.nul > outcome.cap

\* After a failed call infrastore_last_error_message returns that call's message
\* or none, never one an earlier call left.  init_logging is excepted: it is the
\* one export that does not clear the message first.
MessageIsNotStale ==
  call = Idle /\ ~outcome.ok /\ outcome.clears => lastError # "earlier"

\* The rule as lib.rs:19-21 states it, for every export.
MessageIsTheLastCalls == call = Idle /\ ~outcome.ok => lastError # "earlier"

-----------------------------------------------------------------------------
(* Why.                                                                    *)

\* A call: its export, the steps it has left, its buffer and what it holds.
Calls ==
  [fn : DOMAIN Program, rest : Seq(UNION {Steps(f) : f \in DOMAIN Program}),
   asked : BOOLEAN, cap : Nat, raw : SUBSET OwnedKind, held : SUBSET OwnedKind,
   given : SUBSET OwnedKind, wrote : BOOLEAN, got : Nat, needed : Nat]

\* What is left of the body is in order still; nothing fallible is left of it once
\* something is raw, given or edited; and what is raw will be given.
CallInv ==
  /\ call \in Calls \cup {Idle}
  /\ call # Idle =>
       /\ \A i \in DOMAIN call.rest : call.rest[i] \in Steps(call.fn)
       /\ InOrder(call.rest)
       /\ call.raw # {} \/ call.given # {} \/ call.wrote =>
            \A i \in DOMAIN call.rest : ~Fallible(call.rest[i])
       /\ call.raw # {} => \E i \in DOMAIN call.rest : call.rest[i].op = "give"
       /\ clear_error \in Steps(call.fn) =>
            lastError # "earlier" \/ (call.rest # <<>> /\ call.rest[1].op = "clear")
       /\ call.needed > 0 => call.got = Copied(call.needed, call.cap, Nul(call.fn))
  /\ size \in Nat
  /\ probed \in Nat

=============================================================================
