----------------------------- MODULE HugeArena ------------------------------
(***************************************************************************)
(* The huge path of src/huge.rs over the span pool: a fixed directory of   *)
(* slots per class, scanned slot by slot with one claim attempt each.  An  *)
(* EMPTY slot is backed by a run carved from the pool on first use and     *)
(* keeps it; a free looks its slot up by address and stores FREE.          *)
(*                                                                         *)
(* A run is named by the index of its first span; a payload lies at an     *)
(* address in bytes (Layouts), anywhere in its run as alignment demands.   *)
(* The pool is SpanPool; its single-span carve stands for the small path.  *)
(***************************************************************************)
EXTENDS Layouts, FiniteSets

CONSTANTS
  Threads,
  Requests,   \* the layouts asked for
  PerClass,   \* MAX_HUGE_RUNS_PER_CLASS
  MaxNext,
  NoBase      \* the base of a slot that was never carved

ASSUME HugeAssumption ==
  /\ Requests \subseteq AllLayouts
  /\ PerClass \in Nat \ {0} /\ MaxNext \in Nat
  /\ NoBase \notin Nat

VARIABLES
  next, handed, pending,   \* the pool
  state, base,             \* the slots, in scan order
  pc, want,                \* want[t]: the layout thread t allocates
  at,                      \* at[t]: the slot it is looking at
  run,                     \* run[t]: the run it carved and has not recorded
  live                     \* allocations: pointer, layout and slot (history)

pool == <<next, handed, pending>>
vars == <<next, handed, pending, state, base, pc, want, at, run, live>>

Slots == 0 .. MAX_HUGE_RUN_CLASSES * PerClass - 1
ClassOf(s) == s \div PerClass

(* Spans of a slot's run: 2^class granules.                                *)
Spans(s) == huge_class_granules(ClassOf(s)) * HUGE_GRANULE_SPANS

Pool == INSTANCE SpanPool WITH RunSizes <- {Spans(s) : s \in Slots}

Goto(t, l) == pc' = [pc EXCEPT ![t] = l]

NoRequest == [size |-> 0, align |-> 1]

(* Address a lies in slot s.  The mutant takes the address one past the    *)
(* end too.                                                                *)
InRunInclusive(a, s) ==
  base[s] # NoBase /\ a >= span_addr(base[s]) /\ a <= span_addr(base[s]) + huge_class_bytes(ClassOf(s))

InRun(a, s) ==
  base[s] # NoBase /\ a >= span_addr(base[s]) /\ a < span_addr(base[s]) + huge_class_bytes(ClassOf(s))

Init ==
  /\ Pool!Init
  /\ state = [s \in Slots |-> "EMPTY"]
  /\ base = [s \in Slots |-> NoBase]
  /\ pc = [t \in Threads |-> "idle"]
  /\ want = [t \in Threads |-> NoRequest]
  /\ at = [t \in Threads |-> 0]
  /\ run = [t \in Threads |-> NoBase]
  /\ live = {}

-----------------------------------------------------------------------------
(* alloc_huge_with_token_counted: the scan starts at the class that holds  *)
(* the layout (huge_class_for_layout); a layout without one gets null.     *)
AllocHuge(t, l) ==
  /\ pc[t] = "idle"
  /\ Path(l) = "huge"
  /\ huge_class_for_layout(l) # None
  /\ want' = [want EXCEPT ![t] = l]
  /\ at' = [at EXCEPT ![t] = huge_class_for_layout(l) * PerClass]
  /\ Goto(t, "scan")
  /\ UNCHANGED <<pool, state, base, run, live>>

NextSlot(t) == at' = [at EXCEPT ![t] = @ + 1] /\ Goto(t, "scan") /\ UNCHANGED want

Return(t) ==
  /\ Goto(t, "idle")
  /\ at' = [at EXCEPT ![t] = 0]
  /\ want' = [want EXCEPT ![t] = NoRequest]

(* Load a slot's state; past the last slot return null.                    *)
Scan(t) ==
  /\ pc[t] = "scan"
  /\ IF at[t] \notin Slots
       THEN Return(t)
       ELSE CASE state[at[t]] = "FREE"      -> Goto(t, "claimFree") /\ UNCHANGED <<want, at>>
              [] state[at[t]] = "EMPTY"     -> Goto(t, "claimEmpty") /\ UNCHANGED <<want, at>>
              [] state[at[t]] = "ALLOCATED" -> NextSlot(t)
  /\ UNCHANGED <<pool, state, base, run, live>>

(* The claim CAS finds slot s still as loaded.  The mutant does not        *)
(* compare.                                                                *)
Stored(s, old) == TRUE

Unclaimed(s, old) == state[s] = old

Claim(s) == state' = [state EXCEPT ![s] = "ALLOCATED"]

(* finish_huge in the run at span b.                                       *)
Finish(t, b) ==
  /\ live' = live \cup {[ptr |-> huge_payload(span_addr(b), want[t]), layout |-> want[t], slot |-> at[t]]}
  /\ Return(t)

ClaimFree(t) ==
  /\ pc[t] = "claimFree"
  /\ IF Unclaimed(at[t], "FREE")
       THEN Claim(at[t]) /\ Finish(t, base[at[t]])
       ELSE NextSlot(t) /\ UNCHANGED <<state, live>>
  /\ UNCHANGED <<pool, base, run>>

ClaimEmpty(t) ==
  /\ pc[t] = "claimEmpty"
  /\ IF Unclaimed(at[t], "EMPTY")
       THEN Claim(at[t]) /\ Goto(t, "carve") /\ UNCHANGED <<want, at>>
       ELSE NextSlot(t) /\ UNCHANGED state
  /\ UNCHANGED <<pool, base, run, live>>

(* The spans to carve for slot s.  The mutant carves a granule for every   *)
(* class.                                                                  *)
OneGranule(s) == HUGE_GRANULE_SPANS

CarveSize(s) == Spans(s)

(* acquire_raw_run: too large for the region at all, carved, or overshot.  *)
Carve(t) ==
  /\ pc[t] = "carve"
  /\ LET n == CarveSize(at[t])
     IN IF n > Count
          THEN Goto(t, "handback") /\ UNCHANGED <<pool, run>>
          ELSE /\ Pool!AcquireRawRun(t, n)
               /\ IF pending'[t].len = 0
                    THEN run' = [run EXCEPT ![t] = next] /\ Goto(t, "record")
                    ELSE UNCHANGED run /\ Goto(t, "rollback")
  /\ UNCHANGED <<state, base, want, at, live>>

Rollback(t) ==
  /\ pc[t] = "rollback"
  /\ Pool!Rollback(t)
  /\ Goto(t, "handback")
  /\ UNCHANGED <<state, base, want, at, run, live>>

(* The state a slot is handed back in when its carve failed.  The mutant   *)
(* makes it look carved.                                                   *)
HandedBackFree == "FREE"

HandedBack == "EMPTY"

HandBack(t) ==
  /\ pc[t] = "handback"
  /\ state' = [state EXCEPT ![at[t]] = HandedBack]
  /\ NextSlot(t)
  /\ UNCHANGED <<pool, base, run, live>>

(* The base is recorded and the allocation returned.                       *)
Record(t) ==
  /\ pc[t] = "record"
  /\ base' = [base EXCEPT ![at[t]] = run[t]]
  /\ run' = [run EXCEPT ![t] = NoBase]
  /\ Finish(t, run[t])
  /\ UNCHANGED <<pool, state>>

-----------------------------------------------------------------------------
(* The slot that the reverse lookup of dealloc_huge finds for address a.   *)
Lookup(a) == CHOOSE s \in Slots : InRun(a, s) /\ \A r \in Slots : r < s => ~InRun(a, r)

(* dealloc_huge_with_token_counted, chosen by the layout, by any thread.   *)
(* The bases it reads either never change again or do not contain a, so    *)
(* the lookup is one step with the store.                                  *)
DeallocHuge(t, m) ==
  /\ pc[t] = "idle"
  /\ FreePath(m.layout) = "huge"
  /\ state' = [state EXCEPT ![Lookup(m.ptr)] = "FREE"]
  /\ live' = live \ {m}
  /\ UNCHANGED <<pool, base, pc, want, at, run>>

(* Another path takes a span from the same pool.                           *)
CarveSpan(t) ==
  /\ pc[t] = "idle"
  /\ Pool!AcquireRawSpan(t)
  /\ UNCHANGED <<state, base, pc, want, at, run, live>>

Next ==
  \E t \in Threads :
    \/ \E l \in Requests : AllocHuge(t, l)
    \/ Scan(t) \/ ClaimFree(t) \/ ClaimEmpty(t) \/ Carve(t) \/ Rollback(t) \/ HandBack(t) \/ Record(t)
    \/ \E m \in live : DeallocHuge(t, m)
    \/ CarveSpan(t)

Spec == Init /\ [][Next]_vars

-----------------------------------------------------------------------------
TypeOK ==
  /\ state \in [Slots -> {"EMPTY", "FREE", "ALLOCATED"}]
  /\ base \in [Slots -> (0 .. Count - 1) \cup {NoBase}]
  /\ run \in [Threads -> (0 .. Count - 1) \cup {NoBase}]
  /\ pc \in [Threads -> {"idle", "scan", "claimFree", "claimEmpty", "carve", "rollback", "handback", "record"}]
  /\ want \in [Threads -> Requests \cup {NoRequest}]
  /\ at \in [Threads -> 0 .. MAX_HUGE_RUN_CLASSES * PerClass]
  /\ live \subseteq [ptr : Nat, layout : Requests, slot : Slots]

(* Thread t backs the slot s it has claimed.                               *)
Backs(t, s) == at[t] = s /\ pc[t] \in {"carve", "rollback", "handback", "record"}

(* "The caller holds the exclusive ALLOCATED claim on slot" (huge.rs:229): *)
(* an ALLOCATED slot belongs to one live allocation or to one thread that  *)
(* is still backing it, and no other slot belongs to anyone, whichever     *)
(* claims, failed carves and frees race.                                   *)
ClaimIsExclusive ==
  \A s \in Slots :
    LET users == {m \in live : m.slot = s}
        backers == {t \in Threads : Backs(t, s)}
    IN Cardinality(users) + Cardinality(backers) = IF state[s] = "ALLOCATED" THEN 1 ELSE 0

(* verify.rs:166 on slots at rest: EMPTY means never carved, FREE means    *)
(* carved.  It holds of EMPTY and FREE slots at every moment, so a claim   *)
(* of a FREE slot always finds a base (the assertion at huge.rs:195).      *)
StateTellsBase ==
  /\ TypeOK
  /\ \A s \in Slots :
       /\ state[s] = "EMPTY" => base[s] = NoBase
       /\ state[s] = "FREE" => base[s] # NoBase

(* The spans b .. b + n - 1 of the region were handed out, to one caller.  *)
HandedRun(b, n) == b + n <= Count /\ \A i \in b .. b + n - 1 : i \in Pool!Indices /\ handed[i] = 1

(* "No small span or large run may overlap a huge run" (verify.rs:163):    *)
(* the runs in the directory, and those carved but not recorded yet, are   *)
(* disjoint, and every span of them was handed out by the pool once.       *)
RunsDisjoint ==
  /\ \A s, r \in Slots : s # r /\ base[s] # NoBase /\ base[r] # NoBase =>
       base[s] + Spans(s) <= base[r] \/ base[r] + Spans(r) <= base[s]
  /\ \A t \in Threads, s \in Slots : run[t] # NoBase /\ base[s] # NoBase =>
       run[t] + Spans(at[t]) <= base[s] \/ base[s] + Spans(s) <= run[t]
  /\ \A s \in Slots : base[s] # NoBase => HandedRun(base[s], Spans(s))

(* A free is sent to the huge path by its layout alone (allocator.rs:577), *)
(* its reverse lookup finds the slot the allocation came from and no       *)
(* other, wherever alignment put the payload, and all of the payload lies  *)
(* in that slot's run ("huge payload exceeds its run", huge.rs:245), also  *)
(* when a larger class than the smallest served it.                        *)
FreeFindsItsSlot ==
  \A m \in live :
    /\ FreePath(m.layout) = "huge"
    /\ {s \in Slots : InRun(m.ptr, s)} = {m.slot}
    /\ Divides(m.layout.align, m.ptr)
    /\ InRun(m.ptr + m.layout.size - 1, m.slot)

-----------------------------------------------------------------------------
(* The inductive invariant.  Who holds a claim: a live allocation, or a    *)
(* thread that backs the slot with a run.                                  *)
ClaimInv ==
  /\ \A s \in Slots :
       state[s] = "ALLOCATED" <=> (\E m \in live : m.slot = s) \/ (\E t \in Threads : Backs(t, s))
  /\ \A m, n \in live : m.slot = n.slot => m = n
  /\ \A t, u \in Threads, s \in Slots : Backs(t, s) /\ Backs(u, s) => t = u
  /\ \A m \in live, t \in Threads : ~Backs(t, m.slot)

(* A thread that is past idle scans for a request of the huge path, from   *)
(* its class on.                                                           *)
ScanInv ==
  \A t \in Threads :
    /\ pc[t] \notin {"idle", "scan"} => at[t] \in Slots
    /\ pc[t] # "idle" =>
         /\ want[t] \in Requests
         /\ Path(want[t]) = "huge"
         /\ huge_class_for_layout(want[t]) # None
         /\ huge_class_for_layout(want[t]) * PerClass <= at[t]

(* What a thread that backs a slot has carved.                             *)
BackingInv ==
  \A t \in Threads :
    /\ run[t] # NoBase <=> pc[t] = "record"
    /\ Pool!Pending(t) <=> pc[t] = "rollback"
    /\ \A s \in Slots : Backs(t, s) => base[s] = NoBase

RunInv ==
  /\ RunsDisjoint
  /\ \A t \in Threads : run[t] # NoBase => HandedRun(run[t], Spans(at[t]))
  /\ \A t, u \in Threads : t # u /\ run[t] # NoBase /\ run[u] # NoBase =>
       run[t] + Spans(at[t]) <= run[u] \/ run[u] + Spans(at[u]) <= run[t]

(* Where a live allocation is.                                             *)
LiveInv ==
  \A m \in live :
    /\ base[m.slot] # NoBase
    /\ m.ptr = huge_payload(span_addr(base[m.slot]), m.layout)
    /\ Path(m.layout) = "huge"
    /\ huge_class_for_layout(m.layout) # None
    /\ huge_class_for_layout(m.layout) * PerClass <= m.slot

HugeInv == StateTellsBase /\ Pool!PoolInv /\ ClaimInv /\ ScanInv /\ BackingInv /\ RunInv /\ LiveInv
=============================================================================
