--------------------------- MODULE SpanPoolProofs ---------------------------
(* Proofs about SpanPool, for every number of callers, every region size   *)
(* and every set of run sizes.                                             *)
EXTENDS SpanPool, TLAPS

(* The pool starts with nothing handed out and nothing outstanding, so the *)
(* inductive invariant holds after set_region.                             *)
LEMMA InitPoolInv == Init => PoolInv
  BY PoolAssumption
     DEF Init, PoolInv, TypeOK, HandedOutOnce, HandedUpTo, WasteBounded, Pending, NoCarve, Indices

(* The fields of an outstanding carve are numbers.                         *)
LEMMA PendingNat ==
  ASSUME TypeOK, NEW u \in Threads
  PROVE  pending[u].at \in Nat /\ pending[u].len \in Nat
<1>1. pending[u] \in [at : Nat, len : {0} \cup RunSizes]
  BY DEF TypeOK
<1>2. {0} \cup RunSizes \subseteq Nat
  BY PoolAssumption
<1> QED BY <1>1, <1>2

(* While the counter has not passed the end of the region no carve is      *)
(* outstanding, so everything below the counter has been handed out.       *)
LEMMA NoneOutstanding ==
  ASSUME PoolInv, next <= Count
  PROVE  \A u \in Threads : ~Pending(u)
<1> SUFFICES ASSUME NEW u \in Threads, Pending(u) PROVE FALSE
  OBVIOUS
<1>1. next \in Nat /\ Count \in Nat /\ pending[u].at \in Nat /\ pending[u].len \in Nat
  BY PendingNat, PoolAssumption DEF PoolInv, TypeOK
<1>2. Outstanding(u)
  BY DEF PoolInv
<1> QED BY <1>1, <1>2 DEF Outstanding

(* acquire_raw_span keeps the inductive invariant: it hands out `next`     *)
(* only while next < Count, when exactly the spans below were handed out.  *)
LEMMA AcquireRawSpanPoolInv ==
  ASSUME NEW t \in Threads, PoolInv, AcquireRawSpan(t)
  PROVE  PoolInv'
<1> USE PoolAssumption
<1>1. next' = next + 1 /\ next \in Nat /\ next < MaxNext /\ pending' = pending
  BY DEF AcquireRawSpan, PoolInv, TypeOK
<1>2. CASE next >= Count
  <2>1. handed' = handed
    BY <1>2 DEF AcquireRawSpan
  <2>2. WasteBounded'
    <3>1. CASE next = Count
      BY <1>1, <2>1, <3>1 DEF PoolInv, WasteBounded, HandedUpTo
    <3>2. CASE next > Count
      BY <1>1, <2>1, <3>2 DEF PoolInv, WasteBounded, HandedUpTo
    <3> QED BY <1>1, <1>2, <3>1, <3>2
  <2>3. TypeOK' /\ HandedOutOnce'
    BY <1>1, <2>1 DEF PoolInv, TypeOK, HandedOutOnce
  <2>4. ASSUME NEW u \in Threads, Pending(u)' PROVE Outstanding(u)'
    <3>1. Outstanding(u) /\ pending[u].at \in Nat /\ pending[u].len \in Nat
      BY <1>1, <2>4, PendingNat DEF PoolInv, Pending
    <3> QED BY <1>1, <2>1, <3>1 DEF Outstanding, HandedUpTo
  <2> QED
    BY <1>1, <1>2, <2>2, <2>3, <2>4 DEF PoolInv, Pending
<1>3. CASE next < Count
  <2>1. \A s \in Indices : handed'[s] = IF s < next + 1 THEN 1 ELSE 0
    BY <1>1, <1>3 DEF AcquireRawSpan, HandOut, PoolInv, TypeOK, HandedUpTo, Indices
  <2>2. handed' \in [Indices -> Nat]
    BY <1>1, <1>3 DEF AcquireRawSpan, HandOut, PoolInv, TypeOK, Indices
  <2>3. \A u \in Threads : ~Pending(u)
    BY <1>1, <1>3, NoneOutstanding
  <2> QED
    BY <1>1, <1>3, <2>1, <2>2, <2>3
       DEF PoolInv, TypeOK, HandedOutOnce, HandedUpTo, WasteBounded, Pending, Indices
<1> QED BY <1>1, <1>2, <1>3

(* acquire_raw_run up to its FAA keeps the inductive invariant: a carve    *)
(* that fits starts at a counter below which everything was handed out;    *)
(* one that does not becomes outstanding above every other interval.       *)
LEMMA AcquireRawRunPoolInv ==
  ASSUME NEW t \in Threads, NEW n \in RunSizes, PoolInv, AcquireRawRun(t, n)
  PROVE  PoolInv'
<1> USE PoolAssumption
<1>1. /\ next' = next + n /\ next \in Nat /\ n \in Nat \ {0}
      /\ n <= Count /\ next + n <= MaxNext /\ ~Pending(t)
  BY DEF AcquireRawRun, PoolInv, TypeOK
<1>2. CASE DoesNotFit(next, n)
  <2>1. handed' = handed /\ pending' = [pending EXCEPT ![t] = [at |-> next, len |-> n]]
    BY <1>2 DEF AcquireRawRun
  <2>2. next + n > Count
    BY <1>1, <1>2 DEF DoesNotFit
  <2>3. TypeOK' /\ HandedOutOnce'
    BY <1>1, <2>1 DEF PoolInv, TypeOK, HandedOutOnce
  <2>4. WasteBounded'
    <3>1. CASE next <= Count
      <4>1. \A s \in Indices : handed'[s] = IF s < next THEN 1 ELSE 0
        BY <2>1, <3>1 DEF PoolInv, HandedUpTo
      <4>2. next \in 0 .. Count /\ Count - next < n
        BY <1>1, <2>2, <3>1
      <4> QED BY <1>1, <4>1, <4>2 DEF WasteBounded, HandedUpTo
    <3>2. CASE next > Count
      BY <1>1, <2>1, <3>2 DEF PoolInv, WasteBounded, HandedUpTo
    <3> QED BY <1>1, <3>1, <3>2
  <2>5. ASSUME NEW u \in Threads, Pending(u)'
        PROVE  Outstanding(u)' /\ (u # t => pending'[u].at + pending'[u].len <= next)
    <3>1. CASE u = t
      BY <1>1, <2>1, <2>2, <3>1 DEF Outstanding, HandedUpTo, PoolInv, TypeOK
    <3>2. CASE u # t
      <4>1. pending'[u] = pending[u] /\ Pending(u)
        BY <2>1, <2>5, <3>2 DEF PoolInv, TypeOK, Pending
      <4>2. Outstanding(u) /\ pending[u].at \in Nat /\ pending[u].len \in Nat
        BY <4>1, PendingNat DEF PoolInv
      <4> QED BY <1>1, <2>1, <4>1, <4>2 DEF Outstanding, HandedUpTo
    <3> QED BY <3>1, <3>2
  <2>6. ASSUME NEW u \in Threads, NEW v \in Threads, u # v, Pending(u)', Pending(v)'
        PROVE  \/ pending'[u].at + pending'[u].len <= pending'[v].at
               \/ pending'[v].at + pending'[v].len <= pending'[u].at
    <3>1. CASE u = t
      BY <2>1, <2>5, <2>6, <3>1 DEF PoolInv, TypeOK
    <3>2. CASE v = t
      BY <2>1, <2>5, <2>6, <3>2 DEF PoolInv, TypeOK
    <3>3. CASE u # t /\ v # t
      BY <2>1, <2>6, <3>3 DEF PoolInv, TypeOK, Pending
    <3> QED BY <3>1, <3>2, <3>3
  <2> QED
    BY <1>1, <2>2, <2>3, <2>4, <2>5, <2>6 DEF PoolInv
<1>3. CASE ~DoesNotFit(next, n)
  <2>1. next + n <= Count /\ pending' = pending
    BY <1>1, <1>3 DEF DoesNotFit, AcquireRawRun
  <2>2. \A s \in Indices : handed'[s] = IF s < next + n THEN 1 ELSE 0
    BY <1>1, <1>3, <2>1 DEF AcquireRawRun, HandOut, PoolInv, TypeOK, HandedUpTo, Indices
  <2>3. handed' \in [Indices -> Nat]
    <3>1. handed' = [s \in Indices |->
                       IF s \in next .. next + n - 1 THEN handed[s] + 1 ELSE handed[s]]
      BY <1>3 DEF AcquireRawRun, HandOut
    <3>2. \A s \in Indices : handed[s] \in Nat /\ handed[s] + 1 \in Nat
      BY DEF PoolInv, TypeOK
    <3> QED BY <3>1, <3>2
  <2>4. \A u \in Threads : ~Pending(u)
    BY <1>1, <2>1, NoneOutstanding
  <2>5. TypeOK'
    BY <1>1, <2>1, <2>3 DEF PoolInv, TypeOK
  <2>6. HandedUpTo(next)' /\ WasteBounded'
    BY <1>1, <2>1, <2>2 DEF HandedUpTo, WasteBounded
  <2>7. HandedOutOnce'
    BY <1>1, <2>1, <2>2 DEF HandedOutOnce, Indices
  <2> QED
    BY <2>1, <2>4, <2>5, <2>6, <2>7 DEF PoolInv, Pending
<1> QED BY <1>2, <1>3

(* The rollback keeps the inductive invariant: if its compare-exchange     *)
(* succeeds, no other carve is outstanding above the restored counter.     *)
LEMMA RollbackPoolInv ==
  ASSUME NEW t \in Threads, PoolInv, Rollback(t)
  PROVE  PoolInv'
<1> USE PoolAssumption
<1>1. handed' = handed /\ pending' = [pending EXCEPT ![t] = NoCarve] /\ Pending(t)
  BY DEF Rollback
<1>2. \A u \in Threads : Pending(u)' => u # t /\ Pending(u) /\ pending'[u] = pending[u]
  BY <1>1 DEF Pending, NoCarve, PoolInv, TypeOK
<1>3. TypeOK' /\ HandedOutOnce'
  BY <1>1 DEF Rollback, PoolInv, TypeOK, HandedOutOnce, NoCarve, Pending
<1>4. CASE next # pending[t].at + pending[t].len
  BY <1>1, <1>2, <1>3, <1>4
     DEF Rollback, PoolInv, TypeOK, HandedUpTo, WasteBounded, Outstanding, Pending
<1>5. CASE next = pending[t].at + pending[t].len
  <2>1. next' = pending[t].at /\ next > Count
    BY <1>1, <1>5 DEF Rollback, PoolInv, Outstanding
  <2>2. WasteBounded'
    BY <1>1, <2>1 DEF PoolInv, WasteBounded, HandedUpTo
  <2>3. next' <= Count => \A s \in Indices : handed'[s] = IF s < next' THEN 1 ELSE 0
    BY <1>1, <2>1 DEF PoolInv, Outstanding, HandedUpTo
  <2>4. ASSUME NEW u \in Threads, Pending(u)'
        PROVE  Outstanding(u)'
    <3>1. u # t /\ Pending(u) /\ pending'[u] = pending[u] /\ Outstanding(u)
      BY <1>2, <2>4 DEF PoolInv
    <3>2. \/ pending[u].at + pending[u].len <= pending[t].at
          \/ pending[t].at + pending[t].len <= pending[u].at
      BY <1>1, <3>1 DEF PoolInv
    <3>3. /\ pending[u].at \in Nat /\ pending[u].len \in Nat \ {0}
          /\ pending[t].at \in Nat /\ pending[t].len \in Nat
      BY <3>1, PendingNat DEF PoolInv, Pending
    <3>4. pending[u].at + pending[u].len <= pending[t].at
      BY <1>5, <3>1, <3>2, <3>3 DEF Outstanding
    <3> QED BY <1>1, <2>1, <3>1, <3>4 DEF Outstanding, HandedUpTo
  <2> QED
    BY <1>2, <1>3, <2>2, <2>3, <2>4 DEF PoolInv, HandedUpTo
<1> QED BY <1>4, <1>5

(* PoolInv is an inductive invariant of the pool.                          *)
THEOREM PoolInvariant == Spec => []PoolInv
<1>1. PoolInv /\ [Next]_vars => PoolInv'
  <2> SUFFICES ASSUME PoolInv, [Next]_vars PROVE PoolInv'
    OBVIOUS
  <2>1. CASE Next
    BY <2>1, AcquireRawSpanPoolInv, AcquireRawRunPoolInv, RollbackPoolInv DEF Next
  <2>2. CASE UNCHANGED vars
    BY <2>2 DEF vars, PoolInv, TypeOK, HandedOutOnce, HandedUpTo, WasteBounded, Pending, Outstanding
  <2> QED BY <2>1, <2>2
<1> QED BY <1>1, InitPoolInv, PTL DEF Spec

(* No span is handed to two callers and nothing past the region's end is   *)
(* handed out, whatever the number of threads, the size of the region and  *)
(* the run sizes.                                                          *)
THEOREM PoolHandsOutOnce == Spec => []HandedOutOnce
<1>1. PoolInv => HandedOutOnce
  BY DEF PoolInv
<1> QED BY <1>1, PoolInvariant, PTL

(* The spans lost to failed rollbacks are one tail, shorter than the       *)
(* largest run that was requested and that the region could hold.          *)
THEOREM PoolWasteBounded == Spec => []WasteBounded
<1>1. PoolInv => WasteBounded
  BY DEF PoolInv
<1> QED BY <1>1, PoolInvariant, PTL

(* A step that lowers the counter gives back only spans nobody received    *)
(* and stays above every carve that is still outstanding.                  *)
THEOREM PoolRollbackSafe == Spec => RollbackReturnsOwnTail
<1> DEFINE Step ==
      next' < next =>
        /\ \A s \in Indices : s >= next' => handed[s] = 0
        /\ \A t \in Threads :
             pending'[t].len # 0 => next' >= pending'[t].at + pending'[t].len
<1>1. PoolInv /\ PoolInv' /\ [Next]_vars => [Step]_vars
  <2> SUFFICES ASSUME PoolInv, PoolInv', Next, next' < next PROVE Step
    OBVIOUS
  <2>1. next \in Nat /\ PoolAssumption
    BY PoolAssumption DEF PoolInv, TypeOK
  <2>2. PICK t \in Threads : Rollback(t)
    <3>1. \A t \in Threads : ~AcquireRawSpan(t)
      BY <2>1 DEF AcquireRawSpan
    <3>2. \A t \in Threads, n \in RunSizes : ~AcquireRawRun(t, n)
      BY <2>1 DEF AcquireRawRun, PoolAssumption
    <3> QED BY <3>1, <3>2 DEF Next
  <2>3. next' = pending[t].at /\ Pending(t) /\ next' \in Nat
    BY <2>2 DEF Rollback, PoolInv, TypeOK
  <2>4. \A s \in Indices : s >= next' => handed[s] = 0
    <3>1. CASE next' <= Count
      BY <2>1, <2>3, <3>1 DEF PoolInv, Outstanding, HandedUpTo, Indices
    <3>2. CASE next' > Count
      BY <2>1, <2>3, <3>2 DEF PoolInv, TypeOK, HandedOutOnce, Indices, PoolAssumption
    <3> QED BY <2>1, <2>3, <3>1, <3>2 DEF PoolAssumption
  <2>5. \A u \in Threads : pending'[u].len # 0 => next' >= pending'[u].at + pending'[u].len
    BY <2>1, PoolAssumption DEF PoolInv, TypeOK, Pending, Outstanding
  <2> QED BY <2>4, <2>5
<1> QED BY <1>1, PoolInvariant, PTL DEF Spec, RollbackReturnsOwnTail
=============================================================================
