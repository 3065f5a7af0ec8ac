------------------------------ MODULE SpanPool ------------------------------
(***************************************************************************)
(* The fixed span pool of src/pagemap.rs: a bump counter `next` over the   *)
(* `Count` spans of a caller-provided region, advanced by one fetch-and-   *)
(* add per carve.  Small spans take one span; large and huge runs take     *)
(* several contiguous ones and, when the carve does not fit, try once to   *)
(* hand the overshoot back with a compare-exchange.                        *)
(*                                                                         *)
(* `base` and `count` are written once by set_region before any thread     *)
(* carves, so a span is named by its index and Count is a constant.        *)
(***************************************************************************)
EXTENDS Integers, FiniteSets

CONSTANTS
  Threads,   \* callers of the pool
  Count,     \* spans in the region
  RunSizes,  \* span counts requested by the run paths
  MaxNext    \* bound on the counter, far below the word size it has in code

ASSUME PoolAssumption ==
  /\ Count \in Nat
  /\ MaxNext \in Nat
  /\ RunSizes \subseteq Nat \ {0}

(* Every index a carve can name: those below Count are spans of the        *)
(* region, the others lie past its end.                                    *)
Indices == 0 .. MaxNext - 1

VARIABLES
  next,     \* the bump counter
  handed,   \* handed[s]: how many callers were given index s (history)
  pending   \* pending[t]: the overshooting carve t must still roll back

vars == <<next, handed, pending>>

NoCarve == [at |-> 0, len |-> 0]

Pending(t) == pending[t].len # 0

Init ==
  /\ next = 0
  /\ handed = [s \in Indices |-> 0]
  /\ pending = [t \in Threads |-> NoCarve]

HandOut(i, n) ==
  handed' = [s \in Indices |-> IF s \in i .. i + n - 1 THEN handed[s] + 1 ELSE handed[s]]

-----------------------------------------------------------------------------
(* acquire_raw_span: one FAA.  At or past the end it returns null, and     *)
(* leaves the counter advanced.                                            *)
AcquireRawSpan(t) ==
  /\ ~Pending(t)
  /\ next < MaxNext
  /\ next' = next + 1
  /\ IF next >= Count THEN UNCHANGED handed ELSE HandOut(next, 1)
  /\ UNCHANGED pending

(* acquire_raw_run up to its FAA.  A request larger than the region        *)
(* returns null before the FAA and changes nothing.                        *)
(* The mutant takes a run that starts inside the region for one that fits. *)
DoesNotFitByStart(i, n) == i >= Count

DoesNotFit(i, n) == i >= Count \/ Count - i < n

(* The mutant leaves out the pre-check of pagemap.rs:72.                   *)
AcquireRawRunNoPrecheck(t, n) ==
  /\ ~Pending(t)
  /\ next + n <= MaxNext
  /\ next' = next + n
  /\ IF DoesNotFit(next, n)
       THEN /\ pending' = [pending EXCEPT ![t] = [at |-> next, len |-> n]]
            /\ UNCHANGED handed
       ELSE /\ HandOut(next, n)
            /\ UNCHANGED pending

AcquireRawRun(t, n) ==
  /\ ~Pending(t)
  /\ n <= Count
  /\ next + n <= MaxNext
  /\ next' = next + n
  /\ IF DoesNotFit(next, n)
       THEN /\ pending' = [pending EXCEPT ![t] = [at |-> next, len |-> n]]
            /\ UNCHANGED handed
       ELSE /\ HandOut(next, n)
            /\ UNCHANGED pending

(* The single rollback attempt of a carve that did not fit: compare the    *)
(* counter with the end of the overshoot, restore its start if equal.      *)
(* The mutant stores the start without comparing.                          *)
RollbackUnchecked(t) ==
  /\ Pending(t)
  /\ next' = pending[t].at
  /\ pending' = [pending EXCEPT ![t] = NoCarve]
  /\ UNCHANGED handed

Rollback(t) ==
  /\ Pending(t)
  /\ next' = IF next = pending[t].at + pending[t].len THEN pending[t].at ELSE next
  /\ pending' = [pending EXCEPT ![t] = NoCarve]
  /\ UNCHANGED handed

Next ==
  \E t \in Threads :
    \/ AcquireRawSpan(t)
    \/ \E n \in RunSizes : AcquireRawRun(t, n)
    \/ Rollback(t)

Spec == Init /\ [][Next]_vars

-----------------------------------------------------------------------------
TypeOK ==
  /\ next \in Nat
  /\ handed \in [Indices -> Nat]
  /\ pending \in [Threads -> [at : Nat, len : {0} \cup RunSizes]]

(* "The pool hands out each span exactly once" (the SAFETY comments of     *)
(* allocator.rs:508 and large.rs:190, which build a header in the carved   *)
(* span): whatever carves and rollbacks interleave, no span is given to    *)
(* two callers and nothing past the end of the region is given to any.     *)
HandedOutOnce == \A s \in Indices : handed[s] <= IF s < Count THEN 1 ELSE 0

(* The spans below b were handed out and those from b on were not.         *)
HandedUpTo(b) == \A s \in Indices : handed[s] = IF s < b THEN 1 ELSE 0

(* The exhaustion clause of acquire_raw_run's documentation: once the      *)
(* counter has passed the end of the region, the spans that nobody         *)
(* received form one tail, shorter than the largest run requested that     *)
(* the region could hold.                                                  *)
WasteBounded ==
  next > Count =>
    \E b \in 0 .. Count :
      /\ HandedUpTo(b)
      /\ b = Count \/ \E n \in RunSizes : n <= Count /\ Count - b < n

(* A rollback is never lossy for somebody else: a step that lowers the     *)
(* counter gives back only spans that no caller has received, and only     *)
(* when no other overshooting carve is still outstanding above it.         *)
RollbackReturnsOwnTail ==
  [][next' < next =>
       /\ \A s \in Indices : s >= next' => handed[s] = 0
       /\ \A t \in Threads : pending'[t].len # 0 => next' >= pending'[t].at + pending'[t].len]_vars

-----------------------------------------------------------------------------
(* The inductive invariant.  An outstanding carve keeps the counter above  *)
(* the end of its interval, hence above Count, hence every other carve     *)
(* fails until it is rolled back; the outstanding intervals are disjoint,  *)
(* so only the topmost can roll back, and it restores a counter at which   *)
(* exactly the spans below had been handed out.                            *)
Outstanding(t) ==
  /\ Count < pending[t].at + pending[t].len
  /\ pending[t].at + pending[t].len <= next
  /\ pending[t].at <= Count => HandedUpTo(pending[t].at)

PoolInv ==
  /\ TypeOK
  /\ HandedOutOnce
  /\ next <= Count => HandedUpTo(next)
  /\ WasteBounded
  /\ \A t \in Threads : Pending(t) => Outstanding(t)
  /\ \A t, u \in Threads :
       t # u /\ Pending(t) /\ Pending(u) =>
         \/ pending[t].at + pending[t].len <= pending[u].at
         \/ pending[u].at + pending[u].len <= pending[t].at
=============================================================================
