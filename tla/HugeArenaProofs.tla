-------------------------- MODULE HugeArenaProofs ---------------------------
(* Proofs about HugeArena, for every number of threads, every directory    *)
(* and every geometry: claims are exclusive, runs do not overlap, and a    *)
(* free finds the slot of its allocation.                                  *)
EXTENDS HugeArena, LayoutsProofs, FiniteSetTheorems

(* The numbers the steps compute with.                                     *)
Arithmetic ==
  /\ Count \in Nat
  /\ \A s \in Slots : Spans(s) \in Nat \ {0}
  /\ \A s \in Slots : s + 1 \in 0 .. MAX_HUGE_RUN_CLASSES * PerClass /\ s \in 0 .. MAX_HUGE_RUN_CLASSES * PerClass
  /\ 0 \in 0 .. MAX_HUGE_RUN_CLASSES * PerClass
  /\ \A l \in Requests : huge_class_for_layout(l) # None =>
       huge_class_for_layout(l) * PerClass \in 0 .. MAX_HUGE_RUN_CLASSES * PerClass
  /\ \A b \in 0 .. Count - 1, l \in Requests : huge_payload(span_addr(b), l) \in Nat

(* A free finds the slot of its allocation.                                *)
ExactLookup == \A m \in live : Lookup(m.ptr) = m.slot

(* The three outcomes of a carve: too large for the region, carved, or     *)
(* overshot and waiting for its rollback.  A run that fits starts where    *)
(* everything below was handed out and nothing above.                      *)
LEMMA CarveCases ==
  ASSUME Arithmetic, HugeInv, NEW t \in Threads, Carve(t)
  PROVE  LET n == Spans(at[t])
         IN /\ at[t] \in Slots /\ n \in Nat \ {0} /\ next \in Nat
            /\ \/ UNCHANGED <<pool, run>> /\ Goto(t, "handback")
               \/ /\ next + n <= Count /\ next + n <= MaxNext
                  /\ Pool!HandedUpTo(next)
                  /\ Pool!HandOut(next, n)
                  /\ UNCHANGED pending
                  /\ run' = [run EXCEPT ![t] = next]
                  /\ Goto(t, "record")
               \/ /\ pending' = [pending EXCEPT ![t] = [at |-> next, len |-> n]]
                  /\ UNCHANGED <<handed, run>>
                  /\ Goto(t, "rollback")
<1> DEFINE n == Spans(at[t])
<1>1. at[t] \in Slots /\ n \in Nat \ {0}
  BY Zenon DEF Arithmetic, HugeInv, ScanInv, Carve
<1>2. next \in Nat /\ pending \in [Threads -> [at : Nat, len : {0} \cup {Spans(s) : s \in Slots}]]
  BY Zenon DEF HugeInv, Pool!PoolInv, Pool!TypeOK
<1>3. CASE n > Count
  BY <1>1, <1>2, <1>3, Zenon DEF Carve, CarveSize
<1>4. CASE ~(n > Count)
  <2>1. /\ Pool!AcquireRawRun(t, n)
        /\ IF pending'[t].len = 0
             THEN run' = [run EXCEPT ![t] = next] /\ Goto(t, "record")
             ELSE UNCHANGED run /\ Goto(t, "rollback")
    BY <1>4, Zenon DEF Carve, CarveSize
  <2>2. CASE Pool!DoesNotFit(next, n)
    <3>1. pending' = [pending EXCEPT ![t] = [at |-> next, len |-> n]] /\ handed' = handed
      BY <2>1, <2>2, Zenon DEF Pool!AcquireRawRun
    <3>2. pending'[t].len # 0
      BY <1>1, <1>2, <3>1, Zenon
    <3> QED BY <1>1, <1>2, <2>1, <3>1, <3>2, Zenon
  <2>3. CASE ~Pool!DoesNotFit(next, n)
    <3>1. Pool!HandOut(next, n) /\ pending' = pending /\ ~Pool!Pending(t) /\ next + n <= MaxNext
      BY <2>1, <2>3, Zenon DEF Pool!AcquireRawRun
    <3>2. pending'[t].len = 0
      BY <3>1, Zenon DEF Pool!Pending
    <3>3. next + n <= Count
      BY <1>1, <1>2, <2>3 DEF Arithmetic, Pool!DoesNotFit
    <3>4. Pool!HandedUpTo(next)
      BY <1>1, <1>2, <3>3 DEF Arithmetic, HugeInv, Pool!PoolInv
    <3> QED BY <1>1, <1>2, <2>1, <3>1, <3>2, <3>3, <3>4
  <2> QED BY <2>2, <2>3, Zenon
<1> QED BY <1>3, <1>4, Zenon

(* The outcomes of a step of the scan.                                     *)
LEMMA ScanCases ==
  ASSUME Arithmetic, HugeInv, NEW t \in Threads, Scan(t)
  PROVE  /\ UNCHANGED <<pool, state, base, run, live>>
         /\ pc[t] = "scan"
         /\ \/ Return(t)
            \/ at[t] \in Slots /\ Goto(t, "claimFree") /\ UNCHANGED <<want, at>>
            \/ at[t] \in Slots /\ Goto(t, "claimEmpty") /\ UNCHANGED <<want, at>>
            \/ at[t] \in Slots /\ NextSlot(t)
<1>1. at[t] \in Slots => state[at[t]] \in {"EMPTY", "FREE", "ALLOCATED"}
  BY Zenon DEF HugeInv, StateTellsBase, TypeOK
<1> QED BY <1>1, Zenon DEF Scan

(* A claim of a FREE slot finds its run and returns it, or goes on.        *)
LEMMA ClaimFreeCases ==
  ASSUME Arithmetic, HugeInv, NEW t \in Threads, ClaimFree(t)
  PROVE  /\ UNCHANGED <<pool, base, run>>
         /\ at[t] \in Slots /\ pc[t] = "claimFree"
         /\ \/ /\ state[at[t]] = "FREE" /\ base[at[t]] \in 0 .. Count - 1
               /\ Claim(at[t]) /\ Finish(t, base[at[t]])
            \/ NextSlot(t) /\ UNCHANGED <<state, live>>
  BY Zenon DEF ClaimFree, Unclaimed, HugeInv, ScanInv, StateTellsBase, TypeOK

(* The first use of a slot records the run carved for it.                  *)
LEMMA RecordCase ==
  ASSUME Arithmetic, HugeInv, NEW t \in Threads, Record(t)
  PROVE  /\ UNCHANGED <<pool, state>>
         /\ at[t] \in Slots /\ pc[t] = "record" /\ base[at[t]] = NoBase
         /\ run[t] \in 0 .. Count - 1
         /\ base' = [base EXCEPT ![at[t]] = run[t]]
         /\ run' = [run EXCEPT ![t] = NoBase]
         /\ Finish(t, run[t])
  BY Zenon DEF Record, HugeInv, ScanInv, BackingInv, Backs, StateTellsBase, TypeOK

(* finish_huge returns an address for the request of the thread.           *)
LEMMA FinishCase ==
  ASSUME Arithmetic, HugeInv, NEW t \in Threads, NEW b \in 0 .. Count - 1, Finish(t, b), pc[t] # "idle", at[t] \in Slots
  PROVE  /\ Return(t)
         /\ want[t] \in Requests /\ huge_payload(span_addr(b), want[t]) \in Nat
         /\ live' = live \cup {[ptr |-> huge_payload(span_addr(b), want[t]), layout |-> want[t], slot |-> at[t]]}
<1>1. want[t] \in Requests /\ want[t] \in AllLayouts
  BY HugeAssumption, Zenon DEF HugeInv, ScanInv
<1>2. huge_payload(span_addr(b), want[t]) \in Nat
  BY <1>1, Zenon DEF Arithmetic
<1> QED BY <1>1, <1>2, Zenon DEF Finish

(* The allocation that a free returns is the one of the slot it frees.     *)
LEMMA DeallocCase ==
  ASSUME Arithmetic, ExactLookup, HugeInv, NEW t \in Threads, NEW m \in live, DeallocHuge(t, m)
  PROVE  /\ m.slot \in Slots /\ base[m.slot] # NoBase /\ state[m.slot] = "ALLOCATED"
         /\ state' = [state EXCEPT ![m.slot] = "FREE"]
         /\ live' = live \ {m}
         /\ UNCHANGED <<pool, base, pc, want, at, run>>
  BY Zenon DEF ExactLookup, DeallocHuge, HugeInv, StateTellsBase, TypeOK, LiveInv, ClaimInv

(* Every step keeps the types, and the meaning of EMPTY and FREE.          *)
LEMMA StepTypes ==
  ASSUME Arithmetic, ExactLookup, HugeInv, [Next]_vars
  PROVE  StateTellsBase'
<1> USE DEF HugeInv, StateTellsBase, TypeOK, ScanInv, BackingInv, Backs
<1>1. ASSUME NEW t \in Threads, NEW l \in Requests, AllocHuge(t, l) PROVE StateTellsBase'
  BY <1>1, Zenon DEF Arithmetic, AllocHuge, Goto
<1>2. ASSUME NEW t \in Threads, Scan(t) PROVE StateTellsBase'
  BY <1>2, ScanCases DEF Arithmetic, Return, NextSlot, Goto, NoRequest
<1>3. ASSUME NEW t \in Threads, ClaimFree(t) PROVE StateTellsBase'
  <2>1. at[t] \in Slots /\ pc[t] = "claimFree" /\ UNCHANGED <<base, run>>
    BY <1>3, ClaimFreeCases, Zenon
  <2>2. CASE NextSlot(t) /\ UNCHANGED <<state, live>>
    BY <2>1, <2>2 DEF Arithmetic, NextSlot, Goto
  <2>3. CASE state[at[t]] = "FREE" /\ base[at[t]] \in 0 .. Count - 1 /\ Claim(at[t]) /\ Finish(t, base[at[t]])
    <3>1. /\ Return(t)
          /\ live' \subseteq [ptr : Nat, layout : Requests, slot : Slots]
      BY <2>1, <2>3, FinishCase
    <3>2. TypeOK'
      BY <2>1, <2>3, <3>1, Zenon DEF Arithmetic, Claim, Return, Goto, NoRequest
    <3> QED BY <2>1, <2>3, <3>2 DEF Claim
  <2> QED BY <1>3, <2>2, <2>3, ClaimFreeCases, Zenon
<1>4. ASSUME NEW t \in Threads, ClaimEmpty(t) PROVE StateTellsBase'
  BY <1>4 DEF Arithmetic, ClaimEmpty, Unclaimed, Claim, NextSlot, Goto
<1>5. ASSUME NEW t \in Threads, Carve(t) PROVE StateTellsBase'
  <2>1. UNCHANGED <<state, base, want, at, live>>
    BY <1>5, Zenon DEF Carve
  <2>2. StateTellsBase
    BY Zenon DEF HugeInv
  <2> HIDE DEF HugeInv, StateTellsBase, TypeOK
  <2>3. PICK l \in {"handback", "record", "rollback"} : Goto(t, l)
    BY <1>5, CarveCases, Zenon
  <2>4. run' = run \/ (run' = [run EXCEPT ![t] = next] /\ next \in 0 .. Count - 1)
    <3>1. \/ run' = run
          \/ /\ run' = [run EXCEPT ![t] = next] /\ next + Spans(at[t]) <= Count
             /\ next \in Nat /\ Spans(at[t]) \in Nat \ {0}
      BY <1>5, CarveCases, Zenon
    <3> QED BY <3>1, CountNat
  <2> QED BY <2>1, <2>2, <2>3, <2>4, Zenon DEF StateTellsBase, TypeOK, Goto
<1>6. ASSUME NEW t \in Threads, Rollback(t) PROVE StateTellsBase'
  BY <1>6 DEF Rollback, Goto
<1>7. ASSUME NEW t \in Threads, HandBack(t) PROVE StateTellsBase'
  BY <1>7, Zenon DEF Arithmetic, HandBack, HandedBack, NextSlot, Goto
<1>8. ASSUME NEW t \in Threads, Record(t) PROVE StateTellsBase'
  <2>1. /\ at[t] \in Slots /\ pc[t] # "idle" /\ base[at[t]] = NoBase /\ run[t] \in 0 .. Count - 1
        /\ state' = state /\ base' = [base EXCEPT ![at[t]] = run[t]]
        /\ run' = [run EXCEPT ![t] = NoBase]
    BY <1>8, RecordCase, Zenon
  <2>2. /\ Return(t) /\ want[t] \in Requests
        /\ live' \subseteq [ptr : Nat, layout : Requests, slot : Slots]
    <3>1. Finish(t, run[t])
      BY <1>8, RecordCase, Zenon
    <3>2. /\ Return(t) /\ want[t] \in Requests /\ huge_payload(span_addr(run[t]), want[t]) \in Nat
          /\ live' = live \cup {[ptr |-> huge_payload(span_addr(run[t]), want[t]), layout |-> want[t], slot |-> at[t]]}
      BY <2>1, <3>1, FinishCase, Zenon
    <3> QED BY <2>1, <3>2
  <2>3. state[at[t]] = "ALLOCATED"
    BY <1>8, <2>1 DEF Record, ClaimInv
  <2>4. TypeOK'
    BY <2>1, <2>2 DEF Arithmetic, Return, Goto, NoRequest
  <2> QED BY <2>1, <2>3, <2>4
<1>9. ASSUME NEW t \in Threads, NEW m \in live, DeallocHuge(t, m) PROVE StateTellsBase'
  BY <1>9, DeallocCase
<1>10. ASSUME NEW t \in Threads, CarveSpan(t) PROVE StateTellsBase'
  BY <1>10, Zenon DEF CarveSpan
<1>11. CASE UNCHANGED vars
  BY <1>11, Zenon DEF vars
<1> QED BY <1>1, <1>2, <1>3, <1>4, <1>5, <1>6, <1>7, <1>8, <1>9, <1>10, <1>11, Zenon DEF Next

(* A step before the claim of a slot leaves the claims alone, ...          *)
LEMMA ClaimsStay ==
  ASSUME TypeOK, ClaimInv, UNCHANGED <<state, live>>,
         \A u \in Threads, s \in Slots : Backs(u, s)' <=> Backs(u, s)
  PROVE  ClaimInv'
<1>1. \A m \in live : m.slot \in Slots
  BY Zenon DEF TypeOK
<1> QED BY <1>1, Zenon DEF ClaimInv

(* ... wherever it goes on.                                                *)
LEMMA NotBacking ==
  ASSUME TypeOK, NEW t \in Threads, NEW l, NEW a, pc' = [pc EXCEPT ![t] = l], at' = [at EXCEPT ![t] = a],
         pc[t] \notin {"carve", "rollback", "handback", "record"},
         l \notin {"carve", "rollback", "handback", "record"}
  PROVE  \A u \in Threads, s \in Slots : Backs(u, s)' <=> Backs(u, s)
<1>1. /\ pc'[t] = l /\ \A u \in Threads : u # t => pc'[u] = pc[u] /\ at'[u] = at[u]
  BY Zenon DEF TypeOK
<1> QED BY <1>1, Zenon DEF Backs

(* Every step keeps the claims exclusive.                                  *)
LEMMA StepClaims ==
  ASSUME Arithmetic, ExactLookup, HugeInv, [Next]_vars
  PROVE  ClaimInv'
<1> USE DEF HugeInv, StateTellsBase, TypeOK, ClaimInv, ScanInv, Backs
<1>1. ASSUME NEW t \in Threads, NEW l \in Requests, AllocHuge(t, l) PROVE ClaimInv'
  BY <1>1 DEF AllocHuge, Goto
<1>2. ASSUME NEW t \in Threads, Scan(t) PROVE ClaimInv'
  <2>1. TypeOK /\ ClaimInv /\ at = [at EXCEPT ![t] = at[t]]
    BY Zenon
  <2> HIDE DEF HugeInv, TypeOK, ClaimInv, Backs
  <2>2. pc[t] = "scan" /\ UNCHANGED <<state, live>>
    BY <1>2, ScanCases, Zenon
  <2>3. CASE Return(t)
    BY <2>1, <2>2, <2>3, NotBacking, ClaimsStay, Zenon DEF Return, Goto
  <2>4. CASE NextSlot(t)
    BY <2>1, <2>2, <2>4, NotBacking, ClaimsStay, Zenon DEF NextSlot, Goto
  <2>5. CASE Goto(t, "claimFree") /\ UNCHANGED at
    BY <2>1, <2>2, <2>5, NotBacking, ClaimsStay, Zenon DEF Goto
  <2>6. CASE Goto(t, "claimEmpty") /\ UNCHANGED at
    BY <2>1, <2>2, <2>6, NotBacking, ClaimsStay, Zenon DEF Goto
  <2> QED BY <1>2, <2>3, <2>4, <2>5, <2>6, ScanCases, Zenon
<1>3. ASSUME NEW t \in Threads, ClaimFree(t) PROVE ClaimInv'
  <2>1. at[t] \in Slots /\ pc[t] = "claimFree"
    BY <1>3, ClaimFreeCases, Zenon
  <2>2. CASE NextSlot(t) /\ UNCHANGED <<state, live>>
    <3>1. pc' = [pc EXCEPT ![t] = "scan"] /\ at' = [at EXCEPT ![t] = at[t] + 1]
      BY <2>2, Zenon DEF NextSlot, Goto
    <3>2. TypeOK /\ ClaimInv
      BY Zenon
    <3> HIDE DEF TypeOK, ClaimInv, Backs
    <3> QED BY <2>1, <2>2, <3>1, <3>2, NotBacking, ClaimsStay, Zenon
  <2>3. CASE state[at[t]] = "FREE" /\ base[at[t]] \in 0 .. Count - 1 /\ Claim(at[t]) /\ Finish(t, base[at[t]])
    <3>1. PICK n \in live' : n.slot = at[t] /\ live' = live \cup {n}
      BY <2>3, Zenon DEF Finish
    <3>2. state' = [state EXCEPT ![at[t]] = "ALLOCATED"] /\ pc' = [pc EXCEPT ![t] = "idle"]
      BY <2>3, Zenon DEF Finish, Claim, Return, Goto
    <3>3. (\A m \in live : m.slot # at[t]) /\ \A u \in Threads : ~Backs(u, at[t])
      BY <2>1, <2>3, Zenon
    <3>4. at' = [at EXCEPT ![t] = 0]
      BY <2>3, Zenon DEF Finish, Return
    <3>5. \A u \in Threads, r \in Slots : Backs(u, r)' <=> Backs(u, r)
      <4>1. TypeOK
        BY Zenon
      <4> HIDE DEF TypeOK, Backs
      <4> QED BY <2>1, <3>2, <3>4, <4>1, NotBacking, Zenon
    <3>6. ClaimInv /\ state \in [Slots -> {"EMPTY", "FREE", "ALLOCATED"}] /\ \A m \in live : m.slot \in Slots
      BY Zenon
    <3> HIDE DEF HugeInv, StateTellsBase, TypeOK, ScanInv, Backs
    <3> QED BY <2>1, <3>1, <3>2, <3>3, <3>5, <3>6
  <2> QED BY <1>3, <2>2, <2>3, ClaimFreeCases, Zenon
<1>4. ASSUME NEW t \in Threads, ClaimEmpty(t) PROVE ClaimInv'
  BY <1>4 DEF ClaimEmpty, Unclaimed, Claim, NextSlot, Goto
<1>5. ASSUME NEW t \in Threads, Carve(t) PROVE ClaimInv'
  BY <1>5, CarveCases DEF Carve, Goto
<1>6. ASSUME NEW t \in Threads, Rollback(t) PROVE ClaimInv'
  BY <1>6 DEF Rollback, Goto
<1>7. ASSUME NEW t \in Threads, HandBack(t) PROVE ClaimInv'
  BY <1>7 DEF HandBack, HandedBack, NextSlot, Goto
<1>8. ASSUME NEW t \in Threads, Record(t) PROVE ClaimInv'
  <2>1. /\ at[t] \in Slots /\ pc[t] = "record" /\ run[t] \in 0 .. Count - 1
        /\ state' = state /\ Finish(t, run[t])
    BY <1>8, RecordCase
  <2>2. PICK n \in live' : n.slot = at[t] /\ live' = live \cup {n}
    BY <2>1, Zenon DEF Finish
  <2>3. pc' = [pc EXCEPT ![t] = "idle"] /\ at' = [at EXCEPT ![t] = 0]
    BY <2>1, Zenon DEF Finish, Return, Goto
  <2>4. Backs(t, at[t])
    BY <2>1
  <2>5. (\A m \in live : m.slot # at[t]) /\ \A u \in Threads : Backs(u, at[t]) => u = t
    BY <2>1, <2>4
  <2>6. \A u \in Threads, r \in Slots : Backs(u, r)' <=> u # t /\ Backs(u, r)
    BY <2>3
  <2>7. \A r \in Slots : Backs(t, r) => r = at[t]
    BY Zenon
  <2>8. ClaimInv /\ \A m \in live : m.slot \in Slots
    BY Zenon
  <2> HIDE DEF HugeInv, StateTellsBase, TypeOK, ScanInv, Backs
  <2>9. state[at[t]] = "ALLOCATED"
    BY <2>1, <2>4, <2>8, Zenon
  <2> QED BY <2>1, <2>2, <2>5, <2>6, <2>7, <2>8, <2>9
<1>9. ASSUME NEW t \in Threads, NEW m \in live, DeallocHuge(t, m) PROVE ClaimInv'
  BY <1>9, DeallocCase
<1>10. ASSUME NEW t \in Threads, CarveSpan(t) PROVE ClaimInv'
  BY <1>10 DEF CarveSpan
<1>11. CASE UNCHANGED vars
  BY <1>11 DEF vars
<1> QED BY <1>1, <1>2, <1>3, <1>4, <1>5, <1>6, <1>7, <1>8, <1>9, <1>10, <1>11, Zenon DEF Next

(* Every step keeps a scan on its request.                                 *)
LEMMA StepScans ==
  ASSUME Arithmetic, ExactLookup, HugeInv, [Next]_vars
  PROVE  ScanInv'
<1> USE DEF HugeInv, StateTellsBase, TypeOK, ScanInv
<1>1. ASSUME NEW t \in Threads, NEW l \in Requests, AllocHuge(t, l) PROVE ScanInv'
  BY <1>1 DEF Arithmetic, AllocHuge, Goto
<1>2. ASSUME NEW t \in Threads, Scan(t) PROVE ScanInv'
  BY <1>2, ScanCases DEF Arithmetic, Return, NextSlot, Goto, NoRequest
<1>3. ASSUME NEW t \in Threads, ClaimFree(t) PROVE ScanInv'
  <2>1. CASE NextSlot(t)
    <3>1. at[t] \in Slots /\ pc[t] = "claimFree"
      BY <1>3, ClaimFreeCases, Zenon
    <3> QED BY <2>1, <3>1 DEF Arithmetic, NextSlot, Goto
  <2>2. CASE Return(t)
    BY <2>2, Zenon DEF Return, Goto
  <2> QED BY <1>3, <2>1, <2>2, ClaimFreeCases, Zenon DEF Finish
<1>4. ASSUME NEW t \in Threads, ClaimEmpty(t) PROVE ScanInv'
  BY <1>4 DEF Arithmetic, ClaimEmpty, Unclaimed, Claim, NextSlot, Goto
<1>5. ASSUME NEW t \in Threads, Carve(t) PROVE ScanInv'
  BY <1>5, CarveCases DEF Carve, Goto
<1>6. ASSUME NEW t \in Threads, Rollback(t) PROVE ScanInv'
  BY <1>6, Zenon DEF Rollback, Goto
<1>7. ASSUME NEW t \in Threads, HandBack(t) PROVE ScanInv'
  BY <1>7 DEF Arithmetic, HandBack, HandedBack, NextSlot, Goto
<1>8. ASSUME NEW t \in Threads, Record(t) PROVE ScanInv'
  BY <1>8, Zenon DEF Record, Finish, Return, Goto
<1>9. ASSUME NEW t \in Threads, NEW m \in live, DeallocHuge(t, m) PROVE ScanInv'
  BY <1>9, DeallocCase, Zenon
<1>10. ASSUME NEW t \in Threads, CarveSpan(t) PROVE ScanInv'
  BY <1>10, Zenon DEF CarveSpan
<1>11. CASE UNCHANGED vars
  BY <1>11, Zenon DEF vars
<1> QED BY <1>1, <1>2, <1>3, <1>4, <1>5, <1>6, <1>7, <1>8, <1>9, <1>10, <1>11, Zenon DEF Next

(* Only a carve that overshot waits for a rollback.                        *)
LEMMA StepPending ==
  ASSUME Arithmetic, ExactLookup, HugeInv, [Next]_vars
  PROVE  \A u \in Threads : (pending'[u].len # 0) <=> pc'[u] = "rollback"
<1> DEFINE Goal == \A u \in Threads : (pending'[u].len # 0) <=> pc'[u] = "rollback"
<1>0. /\ \A u \in Threads : (pending[u].len # 0) <=> pc[u] = "rollback"
      /\ pc \in [Threads -> {"idle", "scan", "claimFree", "claimEmpty", "carve", "rollback", "handback", "record"}]
      /\ DOMAIN pending = Threads
  BY Zenon DEF HugeInv, BackingInv, Pool!Pending, StateTellsBase, TypeOK, Pool!PoolInv, Pool!TypeOK
<1>1. ASSUME NEW t \in Threads, Carve(t) PROVE Goal
  <2>1. Spans(at[t]) # 0 /\ pc[t] = "carve"
    BY <1>1, CarveCases, Zenon DEF Carve
  <2>2. \/ pending' = pending /\ Goto(t, "handback")
        \/ pending' = pending /\ Goto(t, "record")
        \/ pending' = [pending EXCEPT ![t] = [at |-> next, len |-> Spans(at[t])]] /\ Goto(t, "rollback")
    BY <1>1, CarveCases DEF pool
  <2> QED BY <1>0, <2>1, <2>2 DEF Goto
<1>2. ASSUME NEW t \in Threads, Rollback(t) PROVE Goal
  BY <1>0, <1>2, Zenon DEF Rollback, Goto, Pool!Rollback, Pool!NoCarve
<1>3. ASSUME NEW t \in Threads, CarveSpan(t) PROVE Goal
  BY <1>0, <1>3, Zenon DEF CarveSpan, Pool!AcquireRawSpan
<1>4. ASSUME NEW t \in Threads, NEW l \in Requests, AllocHuge(t, l) PROVE Goal
  BY <1>0, <1>4, Zenon DEF AllocHuge, Goto, pool
<1>5. ASSUME NEW t \in Threads, Scan(t) PROVE Goal
  BY <1>0, <1>5, ScanCases DEF Return, NextSlot, Goto, pool
<1>6. ASSUME NEW t \in Threads, ClaimFree(t) PROVE Goal
  BY <1>0, <1>6, Zenon DEF ClaimFree, Finish, Return, NextSlot, Goto, pool
<1>7. ASSUME NEW t \in Threads, ClaimEmpty(t) PROVE Goal
  BY <1>0, <1>7, Zenon DEF ClaimEmpty, NextSlot, Goto, pool
<1>8. ASSUME NEW t \in Threads, HandBack(t) PROVE Goal
  BY <1>0, <1>8, Zenon DEF HandBack, NextSlot, Goto, pool
<1>9. ASSUME NEW t \in Threads, Record(t) PROVE Goal
  BY <1>0, <1>9, Zenon DEF Record, Finish, Return, Goto, pool
<1>10. ASSUME NEW t \in Threads, NEW m \in live, DeallocHuge(t, m) PROVE Goal
  BY <1>0, <1>10, Zenon DEF DeallocHuge, pool
<1>11. CASE UNCHANGED vars
  BY <1>0, <1>11, Zenon DEF vars
<1> QED BY <1>1, <1>2, <1>3, <1>4, <1>5, <1>6, <1>7, <1>8, <1>9, <1>10, <1>11, Zenon DEF Next

(* Every step keeps what a backing thread has carved.                      *)
LEMMA StepBacking ==
  ASSUME Arithmetic, ExactLookup, HugeInv, [Next]_vars
  PROVE  BackingInv'
<1> DEFINE Carved ==
      \A u \in Threads :
        /\ run[u] # NoBase <=> pc[u] = "record"
        /\ \A s \in Slots : Backs(u, s) => base[s] = NoBase
<1> USE DEF Backs
<1>0. /\ Carved /\ TypeOK
      /\ \A u, v \in Threads, s \in Slots : Backs(u, s) /\ Backs(v, s) => u = v
      /\ \A s \in Slots : state[s] = "EMPTY" => base[s] = NoBase
  BY Zenon DEF HugeInv, BackingInv, ClaimInv, StateTellsBase
<1>1. ASSUME NEW t \in Threads, Carve(t) PROVE Carved'
  <2>1. pc[t] = "carve" /\ next # NoBase /\ UNCHANGED <<at, base>>
    BY <1>1, CarveCases, HugeAssumption, Zenon DEF Carve
  <2>2. \/ run' = run /\ Goto(t, "handback")
        \/ run' = [run EXCEPT ![t] = next] /\ Goto(t, "record")
        \/ run' = run /\ Goto(t, "rollback")
    BY <1>1, CarveCases, Zenon
  <2> QED BY <1>0, <2>1, <2>2 DEF Goto, TypeOK
<1>2. ASSUME NEW t \in Threads, Rollback(t) PROVE Carved'
  BY <1>0, <1>2 DEF Rollback, Goto, TypeOK
<1>3. ASSUME NEW t \in Threads, CarveSpan(t) PROVE Carved'
  BY <1>0, <1>3, Zenon DEF CarveSpan
<1>4. ASSUME NEW t \in Threads, NEW l \in Requests, AllocHuge(t, l) PROVE Carved'
  BY <1>0, <1>4 DEF AllocHuge, Goto, TypeOK
<1>5. ASSUME NEW t \in Threads, Scan(t) PROVE Carved'
  BY <1>0, <1>5, ScanCases DEF Return, NextSlot, Goto, TypeOK
<1>6. ASSUME NEW t \in Threads, ClaimFree(t) PROVE Carved'
  BY <1>0, <1>6 DEF ClaimFree, Finish, Return, NextSlot, Goto, TypeOK
<1>7. ASSUME NEW t \in Threads, ClaimEmpty(t) PROVE Carved'
  BY <1>0, <1>7 DEF ClaimEmpty, Unclaimed, NextSlot, Goto, TypeOK
<1>8. ASSUME NEW t \in Threads, HandBack(t) PROVE Carved'
  BY <1>0, <1>8 DEF HandBack, NextSlot, Goto, TypeOK
<1>9. ASSUME NEW t \in Threads, Record(t) PROVE Carved'
  <2>1. /\ at[t] \in Slots /\ Backs(t, at[t])
        /\ base' = [base EXCEPT ![at[t]] = run[t]]
        /\ run' = [run EXCEPT ![t] = NoBase]
    BY <1>9, RecordCase, Zenon
  <2>2. pc' = [pc EXCEPT ![t] = "idle"] /\ at' = [at EXCEPT ![t] = 0]
    BY <1>9, Zenon DEF Record, Finish, Return, Goto
  <2> QED BY <1>0, <2>1, <2>2 DEF TypeOK
<1>10. ASSUME NEW t \in Threads, NEW m \in live, DeallocHuge(t, m) PROVE Carved'
  BY <1>0, <1>10, Zenon DEF DeallocHuge
<1>11. ASSUME UNCHANGED vars PROVE Carved'
  BY <1>0, <1>11, Zenon DEF vars
<1>12. Carved'
  BY <1>1, <1>2, <1>3, <1>4, <1>5, <1>6, <1>7, <1>8, <1>9, <1>10, <1>11, Zenon DEF Next
<1> QED BY <1>12, StepPending, Zenon DEF BackingInv, Pool!Pending

(* What was handed out stays handed out, to one caller: a carve takes      *)
(* spans that nobody has received.                                         *)
LEMMA HandedKept ==
  ASSUME Arithmetic, ExactLookup, HugeInv, [Next]_vars, NEW b \in Nat, NEW n \in Nat, HandedRun(b, n)
  PROVE  HandedRun(b, n)'
<1>0. /\ \A i \in b .. b + n - 1 : i \in Pool!Indices /\ handed[i] = 1
      /\ b + n <= Count /\ next \in Nat /\ Pool!Indices \subseteq Nat
  BY HugeAssumption DEF HandedRun, HugeInv, Pool!PoolInv, Pool!TypeOK, Pool!Indices
<1>1. ASSUME NEW x \in Nat, Pool!HandOut(next, x), Pool!HandedUpTo(next)
      PROVE  \A i \in Pool!Indices : handed[i] = 1 => handed'[i] = 1
  <2> SUFFICES ASSUME NEW i \in Pool!Indices, handed[i] = 1 PROVE handed'[i] = 1
    BY Zenon
  <2>1. i < next /\ i \in Nat
    BY <1>0, <1>1 DEF Pool!HandedUpTo
  <2> QED BY <1>0, <1>1, <2>1 DEF Pool!HandOut
<1>2. ASSUME NEW t \in Threads, Carve(t)
      PROVE  \A i \in Pool!Indices : handed[i] = 1 => handed'[i] = 1
  <2>1. Spans(at[t]) \in Nat
    BY <1>2, CarveCases, Zenon
  <2>2. handed' = handed \/ (Pool!HandOut(next, Spans(at[t])) /\ Pool!HandedUpTo(next))
    BY <1>2, CarveCases, Zenon DEF pool
  <2> QED BY <1>1, <2>1, <2>2, Zenon
<1>3. ASSUME NEW t \in Threads, CarveSpan(t)
      PROVE  \A i \in Pool!Indices : handed[i] = 1 => handed'[i] = 1
  <2>1. handed' = handed \/ (next < Count /\ Pool!HandOut(next, 1))
    BY <1>0, <1>3 DEF Arithmetic, CarveSpan, Pool!AcquireRawSpan
  <2>2. next < Count => Pool!HandedUpTo(next)
    BY <1>0 DEF Arithmetic, HugeInv, Pool!PoolInv
  <2> QED BY <1>1, <2>1, <2>2
<1>4. ASSUME NEW t \in Threads,
             \/ \E l \in Requests : AllocHuge(t, l)
             \/ Scan(t) \/ ClaimFree(t) \/ ClaimEmpty(t) \/ Rollback(t) \/ HandBack(t) \/ Record(t)
             \/ \E m \in live : DeallocHuge(t, m)
      PROVE  handed' = handed
  BY <1>4, Zenon DEF AllocHuge, Scan, ClaimFree, ClaimEmpty, Rollback, Pool!Rollback, HandBack, Record,
     DeallocHuge, pool
<1>5. ASSUME UNCHANGED vars PROVE handed' = handed
  BY <1>5, Zenon DEF vars
<1>6. \A i \in Pool!Indices : handed[i] = 1 => handed'[i] = 1
  BY <1>2, <1>3, <1>4, <1>5 DEF Next
<1> QED BY <1>0, <1>6, Zenon DEF HandedRun, Pool!Indices

(* Every step keeps the runs apart.                                        *)
LEMMA StepRuns ==
  ASSUME Arithmetic, ExactLookup, HugeInv, [Next]_vars
  PROVE  RunInv'
<1> DEFINE HandedNow(b, n) == b + n <= Count /\ \A i \in b .. b + n - 1 : i \in Pool!Indices /\ handed'[i] = 1
           Apart(b, m, d, n) == b + m <= d \/ d + n <= b
           Goal ==
             /\ \A s, r \in Slots : s # r /\ base'[s] # NoBase /\ base'[r] # NoBase =>
                  Apart(base'[s], Spans(s), base'[r], Spans(r))
             /\ \A u \in Threads, s \in Slots : run'[u] # NoBase /\ base'[s] # NoBase =>
                  Apart(run'[u], Spans(at'[u]), base'[s], Spans(s))
             /\ \A s \in Slots : base'[s] # NoBase => HandedNow(base'[s], Spans(s))
             /\ \A u \in Threads : run'[u] # NoBase => HandedNow(run'[u], Spans(at'[u]))
             /\ \A u, v \in Threads : u # v /\ run'[u] # NoBase /\ run'[v] # NoBase =>
                  Apart(run'[u], Spans(at'[u]), run'[v], Spans(at'[v]))
           Quiet == base' = base /\ run' = run /\ \A u \in Threads : pc[u] = "record" => at'[u] = at[u]
<1>0. /\ TypeOK
      /\ \A s \in Slots : Spans(s) \in Nat \ {0} /\ (base[s] # NoBase => base[s] \in Nat)
      /\ \A u \in Threads : run[u] # NoBase => run[u] \in Nat /\ at[u] \in Slots /\ pc[u] = "record"
  BY DEF Arithmetic, HugeInv, StateTellsBase, TypeOK, ScanInv, BackingInv
<1>1. /\ \A s \in Slots : base[s] # NoBase => HandedRun(base[s], Spans(s))
      /\ \A u \in Threads : run[u] # NoBase => HandedRun(run[u], Spans(at[u]))
      /\ \A s, r \in Slots : s # r /\ base[s] # NoBase /\ base[r] # NoBase =>
           Apart(base[s], Spans(s), base[r], Spans(r))
      /\ \A u \in Threads, s \in Slots : run[u] # NoBase /\ base[s] # NoBase =>
           Apart(run[u], Spans(at[u]), base[s], Spans(s))
      /\ \A u, v \in Threads : u # v /\ run[u] # NoBase /\ run[v] # NoBase =>
           Apart(run[u], Spans(at[u]), run[v], Spans(at[v]))
  BY Zenon DEF HugeInv, RunInv, RunsDisjoint
<1>2. \A b, n \in Nat : HandedRun(b, n) => HandedNow(b, n)
  <2> SUFFICES ASSUME NEW b \in Nat, NEW n \in Nat, HandedRun(b, n) PROVE HandedNow(b, n)
    BY Zenon
  <2>1. HandedRun(b, n)'
    BY HandedKept, Zenon
  <2> QED BY <2>1, Zenon DEF HandedRun, Pool!Indices
<1>3. Goal => RunInv'
  BY Zenon DEF RunInv, RunsDisjoint, HandedRun, Pool!Indices
<1> HIDE DEF HandedNow
<1>4. /\ \A s \in Slots : base[s] # NoBase => HandedNow(base[s], Spans(s))
      /\ \A u \in Threads : run[u] # NoBase => HandedNow(run[u], Spans(at[u]))
  BY <1>0, <1>1, <1>2
<1>5. Quiet => Goal
  <2> HIDE DEF Apart
  <2> QED BY <1>0, <1>1, <1>4
<1>6. ASSUME NEW t \in Threads, Carve(t) PROVE Goal
  <2> DEFINE n == Spans(at[t])
  <2>1. at[t] \in Slots /\ n \in Nat \ {0} /\ next \in Nat /\ pc[t] = "carve" /\ base' = base /\ at' = at
    BY <1>6, CarveCases, Zenon DEF Carve
  <2>2. CASE run' = run
    BY <1>5, <2>1, <2>2
  <2>3. CASE /\ next + n <= Count /\ next + n <= MaxNext
             /\ Pool!HandedUpTo(next) /\ Pool!HandOut(next, n)
             /\ run' = [run EXCEPT ![t] = next]
    <3>1. \A b \in Nat, m \in Nat \ {0} : HandedRun(b, m) => b + m <= next
      <4> SUFFICES ASSUME NEW b \in Nat, NEW m \in Nat \ {0}, HandedRun(b, m) PROVE b + m <= next
        BY Zenon
      <4>1. b + m - 1 \in Pool!Indices /\ handed[b + m - 1] = 1
        BY DEF HandedRun
      <4> QED BY <2>1, <2>3, <4>1 DEF Pool!HandedUpTo
    <3>2. HandedNow(next, n)
      <4>1. \A i \in next .. next + n - 1 : i \in Pool!Indices /\ handed[i] = 0
        BY <2>1, <2>3, HugeAssumption DEF Pool!HandedUpTo, Pool!Indices
      <4> QED BY <2>1, <2>3, <4>1 DEF HandedNow, Pool!HandOut
    <3>3. \A s \in Slots : base[s] # NoBase => base[s] + Spans(s) <= next
      BY <1>0, <1>1, <3>1, Zenon
    <3>4. \A u \in Threads : run[u] # NoBase => run[u] + Spans(at[u]) <= next
      BY <1>0, <1>1, <3>1, Zenon
    <3>5. \A u \in Threads : run'[u] = IF u = t THEN next ELSE run[u]
      BY <1>0, <2>3, Zenon DEF TypeOK
    <3>6. \A s \in Slots : base'[s] # NoBase => HandedNow(base'[s], Spans(s))
      BY <1>4, <2>1, Zenon
    <3>7. ASSUME NEW u \in Threads, run'[u] # NoBase PROVE HandedNow(run'[u], Spans(at'[u]))
      <4>1. CASE u = t
        BY <2>1, <3>2, <3>5, <4>1, Zenon
      <4>2. CASE u # t
        BY <1>4, <2>1, <3>5, <3>7, <4>2, Zenon
      <4> QED BY <4>1, <4>2, Zenon
    <3>8. ASSUME NEW u \in Threads, NEW s \in Slots, run'[u] # NoBase, base'[s] # NoBase
          PROVE  Apart(run'[u], Spans(at'[u]), base'[s], Spans(s))
      <4>1. CASE u = t
        BY <2>1, <3>3, <3>5, <3>8, <4>1, Zenon
      <4>2. CASE u # t
        BY <1>1, <2>1, <3>5, <3>8, <4>2, Zenon
      <4> QED BY <4>1, <4>2, Zenon
    <3>9. ASSUME NEW u \in Threads, NEW v \in Threads, u # v, run'[u] # NoBase, run'[v] # NoBase
          PROVE  Apart(run'[u], Spans(at'[u]), run'[v], Spans(at'[v]))
      <4>1. CASE u = t
        BY <2>1, <3>4, <3>5, <3>9, <4>1, Zenon
      <4>2. CASE v = t
        BY <2>1, <3>4, <3>5, <3>9, <4>2, Zenon
      <4>3. CASE u # t /\ v # t
        BY <1>1, <2>1, <3>5, <3>9, <4>3, Zenon
      <4> QED BY <4>1, <4>2, <4>3, Zenon
    <3> QED BY <1>1, <2>1, <3>6, <3>7, <3>8, <3>9, Zenon
  <2> QED BY <1>6, <2>2, <2>3, CarveCases, Zenon
<1>7. ASSUME NEW t \in Threads, Record(t) PROVE Goal
  <2>1. /\ at[t] \in Slots /\ pc[t] = "record" /\ base[at[t]] = NoBase /\ run[t] # NoBase
        /\ base' = [base EXCEPT ![at[t]] = run[t]]
        /\ run' = [run EXCEPT ![t] = NoBase]
        /\ at' = [at EXCEPT ![t] = 0]
    BY <1>7, RecordCase, Zenon DEF Record, Finish, Return, HugeInv, BackingInv
  <2>2. \A s \in Slots : base'[s] = IF s = at[t] THEN run[t] ELSE base[s]
    BY <1>0, <2>1 DEF TypeOK
  <2>3. \A u \in Threads : run'[u] # NoBase => u # t /\ run'[u] = run[u] /\ at'[u] = at[u]
    BY <1>0, <2>1 DEF TypeOK
  <2>4. \A b, m, d, n : Apart(b, m, d, n) <=> Apart(d, n, b, m)
    BY Zenon
  <2> HIDE DEF Apart
  <2>5. ASSUME NEW s \in Slots, NEW r \in Slots, s # r, base'[s] # NoBase, base'[r] # NoBase
        PROVE  Apart(base'[s], Spans(s), base'[r], Spans(r))
    <3>1. CASE s = at[t]
      BY <1>1, <2>1, <2>2, <2>5, <3>1, Zenon
    <3>2. CASE r = at[t]
      BY <1>1, <2>1, <2>2, <2>4, <2>5, <3>2, Zenon
    <3>3. CASE s # at[t] /\ r # at[t]
      BY <1>1, <2>2, <2>5, <3>3, Zenon
    <3> QED BY <3>1, <3>2, <3>3, Zenon
  <2>6. ASSUME NEW u \in Threads, NEW s \in Slots, run'[u] # NoBase, base'[s] # NoBase
        PROVE  Apart(run'[u], Spans(at'[u]), base'[s], Spans(s))
    <3>1. CASE s = at[t]
      BY <1>1, <2>1, <2>2, <2>3, <2>6, <3>1, Zenon
    <3>2. CASE s # at[t]
      BY <1>1, <2>2, <2>3, <2>6, <3>2, Zenon
    <3> QED BY <3>1, <3>2, Zenon
  <2>7. ASSUME NEW s \in Slots, base'[s] # NoBase PROVE HandedNow(base'[s], Spans(s))
    <3>1. CASE s = at[t]
      BY <1>4, <2>1, <2>2, <3>1, Zenon
    <3>2. CASE s # at[t]
      BY <1>4, <2>2, <2>7, <3>2, Zenon
    <3> QED BY <3>1, <3>2, Zenon
  <2>8. \A u \in Threads : run'[u] # NoBase => HandedNow(run'[u], Spans(at'[u]))
    BY <1>4, <2>3, Zenon
  <2>9. ASSUME NEW u \in Threads, NEW v \in Threads, u # v, run'[u] # NoBase, run'[v] # NoBase
        PROVE  Apart(run'[u], Spans(at'[u]), run'[v], Spans(at'[v]))
    BY <1>1, <2>3, <2>9, Zenon
  <2> QED BY <2>5, <2>6, <2>7, <2>8, <2>9, Zenon
<1>8. ASSUME NEW t \in Threads, NEW l \in Requests, AllocHuge(t, l) PROVE Quiet
  BY <1>0, <1>8 DEF AllocHuge, TypeOK
<1>9. ASSUME NEW t \in Threads, Scan(t) PROVE Quiet
  <2>1. UNCHANGED <<base, run>> /\ pc[t] = "scan" /\ (Return(t) \/ NextSlot(t) \/ UNCHANGED at)
    BY <1>9, ScanCases, Zenon
  <2>2. \A u \in Threads : u # t => at'[u] = at[u]
    BY <1>0, <2>1, Zenon DEF Return, NextSlot, TypeOK
  <2> QED BY <2>1, <2>2, Zenon
<1>10. ASSUME NEW t \in Threads, ClaimFree(t) PROVE Quiet
  BY <1>0, <1>10 DEF ClaimFree, Finish, Return, NextSlot, TypeOK
<1>11. ASSUME NEW t \in Threads, ClaimEmpty(t) PROVE Quiet
  BY <1>0, <1>11 DEF ClaimEmpty, NextSlot, TypeOK
<1>12. ASSUME NEW t \in Threads, Rollback(t) \/ CarveSpan(t) PROVE Quiet
  BY <1>12, Zenon DEF Rollback, CarveSpan
<1>13. ASSUME NEW t \in Threads, HandBack(t) PROVE Quiet
  BY <1>0, <1>13 DEF HandBack, NextSlot, TypeOK
<1>14. ASSUME NEW t \in Threads, NEW m \in live, DeallocHuge(t, m) PROVE Quiet
  BY <1>14, Zenon DEF DeallocHuge
<1>15. ASSUME UNCHANGED vars PROVE Quiet
  BY <1>15, Zenon DEF vars
<1>16. (\E t \in Threads : Carve(t) \/ Record(t)) \/ Quiet
  BY <1>8, <1>9, <1>10, <1>11, <1>12, <1>13, <1>14, <1>15, Zenon DEF Next
<1> HIDE DEF Goal, Quiet
<1> QED BY <1>3, <1>5, <1>6, <1>7, <1>16

(* Every step keeps live allocations where they are.                       *)
LEMMA StepLive ==
  ASSUME Arithmetic, ExactLookup, HugeInv, [Next]_vars
  PROVE  LiveInv'
<1> DEFINE Placed(m, b) ==
             /\ b # NoBase
             /\ m.ptr = huge_payload(span_addr(b), m.layout)
             /\ Path(m.layout) = "huge"
             /\ huge_class_for_layout(m.layout) # None
             /\ huge_class_for_layout(m.layout) * PerClass <= m.slot
           Goal == \A m \in live' : Placed(m, base'[m.slot])
<1>0. /\ \A m \in live : Placed(m, base[m.slot]) /\ m.slot \in Slots
      /\ base \in [Slots -> (0 .. Count - 1) \cup {NoBase}]
  BY Zenon DEF HugeInv, LiveInv, StateTellsBase, TypeOK
<1>1. Goal => LiveInv'
  BY Zenon DEF LiveInv
<1>2. live' \subseteq live /\ base' = base => Goal
  BY <1>0, Zenon
<1>3. ASSUME NEW t \in Threads, NEW b \in 0 .. Count - 1, Finish(t, b), pc[t] # "idle", at[t] \in Slots
      PROVE  \E m \in live' : Placed(m, b) /\ m.slot = at[t] /\ live' = live \cup {m}
  <2> DEFINE m == [ptr |-> huge_payload(span_addr(b), want[t]), layout |-> want[t], slot |-> at[t]]
  <2>1. live' = live \cup {m}
    BY <1>3, Zenon DEF Finish
  <2>2. b # NoBase
    BY HugeAssumption DEF Arithmetic
  <2>3. m.ptr = huge_payload(span_addr(b), want[t]) /\ m.layout = want[t] /\ m.slot = at[t]
    BY Zenon
  <2>4. /\ Path(want[t]) = "huge" /\ huge_class_for_layout(want[t]) # None
        /\ huge_class_for_layout(want[t]) * PerClass <= at[t]
    BY <1>3, Zenon DEF HugeInv, ScanInv
  <2> HIDE DEF m
  <2> QED BY <2>1, <2>2, <2>3, <2>4, Zenon
<1> HIDE DEF Placed
<1>4. ASSUME NEW t \in Threads, ClaimFree(t) PROVE Goal
  <2>1. at[t] \in Slots /\ pc[t] # "idle" /\ base' = base
    BY <1>4, ClaimFreeCases, Zenon
  <2>2. CASE live' = live
    BY <1>2, <2>1, <2>2, Zenon
  <2>3. CASE base[at[t]] \in 0 .. Count - 1 /\ Finish(t, base[at[t]])
    <3>1. PICK m \in live' : Placed(m, base[at[t]]) /\ m.slot = at[t] /\ live' = live \cup {m}
      BY <1>3, <2>1, <2>3, Zenon
    <3> QED BY <1>0, <2>1, <3>1, Zenon
  <2> QED BY <1>4, <2>2, <2>3, ClaimFreeCases, Zenon
<1>5. ASSUME NEW t \in Threads, Record(t) PROVE Goal
  <2>1. /\ at[t] \in Slots /\ pc[t] # "idle" /\ base[at[t]] = NoBase /\ run[t] \in 0 .. Count - 1
        /\ base' = [base EXCEPT ![at[t]] = run[t]] /\ Finish(t, run[t])
    BY <1>5, RecordCase, Zenon
  <2>2. PICK m \in live' : Placed(m, run[t]) /\ m.slot = at[t] /\ live' = live \cup {m}
    BY <1>3, <2>1, Zenon
  <2>3. \A k \in live : k.slot # at[t]
    BY <1>0, <2>1, Zenon DEF Placed
  <2> QED BY <1>0, <2>1, <2>2, <2>3, Zenon
<1>6. ASSUME NEW t \in Threads,
             \/ \E l \in Requests : AllocHuge(t, l)
             \/ Scan(t) \/ ClaimEmpty(t) \/ Carve(t) \/ Rollback(t) \/ HandBack(t) \/ CarveSpan(t)
             \/ \E m \in live : DeallocHuge(t, m)
      PROVE  live' \subseteq live /\ base' = base
  BY <1>6, Zenon DEF AllocHuge, Scan, ClaimEmpty, Carve, Rollback, HandBack, DeallocHuge, CarveSpan
<1>7. ASSUME UNCHANGED vars PROVE live' \subseteq live /\ base' = base
  BY <1>7, Zenon DEF vars
<1> HIDE DEF Goal
<1> QED BY <1>1, <1>2, <1>4, <1>5, <1>6, <1>7 DEF Next

-----------------------------------------------------------------------------
PoolProofs == INSTANCE SpanPoolProofs WITH RunSizes <- {Spans(s) : s \in Slots}

(* Classes and runs of the slots, as numbers.                              *)
LEMMA SlotNumbers ==
  ASSUME NEW s \in Slots
  PROVE  /\ s \in Nat
         /\ ClassOf(s) \in 0 .. MAX_HUGE_RUN_CLASSES - 1
         /\ 2^ClassOf(s) \in Nat \ {0}
         /\ Spans(s) \in Nat \ {0}
<1> DEFINE k == s \div PerClass
           m == MAX_HUGE_RUN_CLASSES
<1>1. PerClass \in Nat \ {0} /\ s \in Nat /\ s < m * PerClass /\ m \in Nat \ {0} /\ m * PerClass \in Nat
  BY HugeAssumption, Geometry DEF Slots
<1>2. k \in Int /\ k * PerClass \in Int /\ k * PerClass <= s /\ s < k * PerClass + PerClass
  BY <1>1, DivBounds
<1> HIDE DEF k, m
<1>3. k >= 0
  <2> SUFFICES ASSUME k <= -1 PROVE FALSE
    BY <1>2
  <2>1. k * PerClass <= (-1) * PerClass /\ (-1) * PerClass + PerClass = 0
    BY <1>1, <1>2
  <2> QED BY <1>1, <1>2, <2>1
<1>4. k < m
  <2> SUFFICES ASSUME k >= m PROVE FALSE
    BY <1>1, <1>2
  <2>1. k * PerClass >= m * PerClass
    BY <1>1, <1>2
  <2> QED BY <1>1, <1>2, <2>1
<1>5. ClassOf(s) \in 0 .. MAX_HUGE_RUN_CLASSES - 1
  BY <1>1, <1>2, <1>3, <1>4 DEF ClassOf, k, m
<1>6. ClassOf(s) \in 0 .. WORD_BITS
  BY <1>5, Geometry
<1>7. 2^ClassOf(s) \in Nat \ {0}
  BY <1>6, PowersAssumption, Zenon
<1> QED BY <1>1, <1>5, <1>7, Geometry DEF Spans, huge_class_granules

(* A slot at or after the first of class c has at least that class.        *)
LEMMA ClassFromSlot ==
  ASSUME NEW s \in Slots, NEW c \in Nat, c * PerClass <= s
  PROVE  ClassOf(s) >= c
<1> DEFINE k == s \div PerClass
<1>1. PerClass \in Nat \ {0} /\ s \in Nat
  BY HugeAssumption, SlotNumbers, Zenon
<1>2. k \in Int /\ k * PerClass \in Int /\ k * PerClass <= s /\ s < k * PerClass + PerClass
  BY <1>1, DivBounds
<1> HIDE DEF k
<1>3. k >= c
  <2> SUFFICES ASSUME k + 1 <= c PROVE FALSE
    BY <1>2
  <2>1. (k + 1) * PerClass <= c * PerClass /\ (k + 1) * PerClass = k * PerClass + PerClass
    BY <1>1, <1>2
  <2>2. c * PerClass \in Int
    BY <1>1
  <2> QED BY <1>1, <1>2, <2>1, <2>2
<1> QED BY <1>3, Zenon DEF ClassOf, k

(* Slot numbers and the numbers at and one past them.                      *)
LEMMA SlotRange ==
  /\ \A s \in Slots : s + 1 \in 0 .. MAX_HUGE_RUN_CLASSES * PerClass /\ s \in 0 .. MAX_HUGE_RUN_CLASSES * PerClass
  /\ 0 \in 0 .. MAX_HUGE_RUN_CLASSES * PerClass
  /\ \A l \in Requests : huge_class_for_layout(l) # None =>
       huge_class_for_layout(l) * PerClass \in 0 .. MAX_HUGE_RUN_CLASSES * PerClass
<1> DEFINE m == MAX_HUGE_RUN_CLASSES
<1>1. m \in Nat /\ PerClass \in Nat /\ m * PerClass \in Nat
  BY Geometry, HugeAssumption
<1>2. ASSUME NEW c \in 0 .. m - 1 PROVE c * PerClass \in 0 .. m * PerClass
  <2>1. c * PerClass <= m * PerClass /\ c * PerClass \in Nat
    BY <1>1
  <2> QED BY <1>1, <2>1
<1>3. ASSUME NEW l \in Requests, huge_class_for_layout(l) # None
      PROVE  huge_class_for_layout(l) \in 0 .. m - 1
  BY <1>3, HugeAssumption, HugeClassHolds
<1>4. \A s \in Slots : s + 1 \in 0 .. m * PerClass /\ s \in 0 .. m * PerClass
  BY <1>1 DEF Slots
<1> QED BY <1>1, <1>2, <1>3, <1>4

(* The arithmetic that the steps of the directory rely on.                 *)
LEMMA ArithmeticHolds == Arithmetic
<1>1. ASSUME NEW b \in 0 .. Count - 1, NEW l \in Requests
      PROVE  huge_payload(span_addr(b), l) \in Nat
  <2>1. l \in AllLayouts /\ span_addr(b) \in Nat
    BY HugeAssumption, SpansPlaced
  <2> QED BY <2>1, LayoutNumbers, RoundUp, Zenon DEF huge_payload
<1>2. \A s \in Slots : Spans(s) \in Nat \ {0}
  BY SlotNumbers, Zenon
<1>3. Count \in Nat
  BY CountNat
<1> QED BY <1>1, <1>2, <1>3, SlotRange, Zenon DEF Arithmetic

(* The pool of the huge path satisfies the assumptions of SpanPool, ...    *)
LEMMA PoolConstants == PoolProofs!PoolAssumption
  BY SlotNumbers, CountNat, HugeAssumption DEF PoolProofs!PoolAssumption

(* ... so what is proved of the pool there holds here.                     *)
LEMMA SamePool ==
  /\ Pool!Init <=> PoolProofs!Init
  /\ Pool!PoolInv <=> PoolProofs!PoolInv
  /\ Pool!PoolInv' <=> PoolProofs!PoolInv'
<1>1. Pool!Init <=> PoolProofs!Init
  BY Zenon DEF Pool!Init, PoolProofs!Init, Pool!Indices, PoolProofs!Indices, Pool!NoCarve, PoolProofs!NoCarve
<1>2. /\ Pool!PoolInv <=> PoolProofs!PoolInv
      /\ Pool!PoolInv' <=> PoolProofs!PoolInv'
  BY Zenon DEF Pool!PoolInv, PoolProofs!PoolInv, Pool!TypeOK, PoolProofs!TypeOK,
     Pool!Indices, PoolProofs!Indices, Pool!HandedOutOnce, PoolProofs!HandedOutOnce,
     Pool!HandedUpTo, PoolProofs!HandedUpTo, Pool!WasteBounded, PoolProofs!WasteBounded,
     Pool!Outstanding, PoolProofs!Outstanding, Pool!Pending, PoolProofs!Pending
<1> QED BY <1>1, <1>2

(* The pool's actions keep its inductive invariant.                        *)
LEMMA PoolSteps ==
  ASSUME Pool!PoolInv, NEW t \in Threads
  PROVE  /\ Pool!AcquireRawSpan(t) => Pool!PoolInv'
         /\ \A s \in Slots : Pool!AcquireRawRun(t, Spans(s)) => Pool!PoolInv'
         /\ Pool!Rollback(t) => Pool!PoolInv'
<1>1. Pool!AcquireRawSpan(t) => PoolProofs!AcquireRawSpan(t)
  BY Zenon DEF Pool!AcquireRawSpan, PoolProofs!AcquireRawSpan, Pool!Pending, PoolProofs!Pending,
     Pool!HandOut, PoolProofs!HandOut, Pool!Indices, PoolProofs!Indices
<1>2. ASSUME NEW s \in Slots
      PROVE  Pool!AcquireRawRun(t, Spans(s)) => PoolProofs!AcquireRawRun(t, Spans(s))
  BY Zenon DEF Pool!AcquireRawRun, PoolProofs!AcquireRawRun, Pool!Pending, PoolProofs!Pending,
     Pool!HandOut, PoolProofs!HandOut, Pool!Indices, PoolProofs!Indices,
     Pool!DoesNotFit, PoolProofs!DoesNotFit
<1>3. Pool!Rollback(t) => PoolProofs!Rollback(t)
  BY Zenon DEF Pool!Rollback, PoolProofs!Rollback, Pool!Pending, PoolProofs!Pending,
     Pool!NoCarve, PoolProofs!NoCarve
<1>4. Pool!AcquireRawSpan(t) => Pool!PoolInv'
  BY <1>1, SamePool, PoolConstants, PoolProofs!AcquireRawSpanPoolInv
<1>5. ASSUME NEW s \in Slots, Pool!AcquireRawRun(t, Spans(s))
      PROVE  Pool!PoolInv'
  BY <1>2, <1>5, SamePool, PoolConstants, PoolProofs!AcquireRawRunPoolInv
<1>6. Pool!Rollback(t) => Pool!PoolInv'
  BY <1>3, SamePool, PoolConstants, PoolProofs!RollbackPoolInv
<1> QED BY <1>4, <1>5, <1>6

(* The directory starts with every slot empty and nothing carved.          *)
LEMMA InitHugeInv == Init => HugeInv
<1> SUFFICES ASSUME Init PROVE HugeInv
  BY Zenon
<1>1. Pool!PoolInv
  BY SamePool, PoolConstants, PoolProofs!InitPoolInv DEF Init
<1>2. 0 \in 0 .. MAX_HUGE_RUN_CLASSES * PerClass
  BY HugeAssumption, Geometry
<1>3. StateTellsBase
  BY <1>2, Zenon DEF Init, StateTellsBase, TypeOK
<1>4. ClaimInv
  BY Zenon DEF Init, ClaimInv, Backs
<1>5. ScanInv /\ BackingInv
  BY Zenon DEF Init, ScanInv, BackingInv, Backs, Pool!Init, Pool!Pending, Pool!NoCarve
<1>6. RunInv
  BY Zenon DEF Init, RunInv, RunsDisjoint
<1>7. LiveInv
  BY Zenon DEF Init, LiveInv
<1> QED BY <1>1, <1>3, <1>4, <1>5, <1>6, <1>7 DEF HugeInv

(* Every step keeps the pool's invariant.                                  *)
LEMMA StepPoolInv ==
  ASSUME HugeInv, [Next]_vars
  PROVE  Pool!PoolInv'
<1>1. Pool!PoolInv /\ ((UNCHANGED pool) => Pool!PoolInv')
  BY DEF HugeInv, pool, Pool!PoolInv, Pool!TypeOK, Pool!HandedOutOnce, Pool!HandedUpTo,
     Pool!WasteBounded, Pool!Outstanding, Pool!Pending
<1>2. CASE UNCHANGED vars
  BY <1>1, <1>2, Zenon DEF vars, pool
<1>3. ASSUME NEW t \in Threads, Carve(t)
      PROVE  Pool!PoolInv'
  <2>1. at[t] \in Slots
    BY <1>3, ArithmeticHolds, CarveCases, Zenon
  <2> QED BY <1>1, <1>3, <2>1, PoolSteps DEF Carve, CarveSize
<1>4. ASSUME NEW t \in Threads, Rollback(t) \/ CarveSpan(t)
      PROVE  Pool!PoolInv'
  BY <1>1, <1>4, PoolSteps, Zenon DEF Rollback, CarveSpan
<1>5. ASSUME NEW t \in Threads,
             \/ \E l \in Requests : AllocHuge(t, l)
             \/ Scan(t) \/ ClaimFree(t) \/ ClaimEmpty(t) \/ HandBack(t) \/ Record(t)
             \/ \E m \in live : DeallocHuge(t, m)
      PROVE  UNCHANGED pool
  BY <1>5, Zenon DEF AllocHuge, Scan, ClaimFree, ClaimEmpty, HandBack, Record, DeallocHuge
<1> QED BY <1>1, <1>2, <1>3, <1>4, <1>5, Zenon DEF Next

(* A run in bytes ends where its last span ends.                           *)
LEMMA RunBytes ==
  ASSUME NEW s \in Slots, NEW b \in Nat
  PROVE  /\ huge_class_bytes(ClassOf(s)) \in Nat
         /\ span_addr(b) \in Nat
         /\ span_addr(b) + huge_class_bytes(ClassOf(s)) = span_addr(b + Spans(s))
         /\ \A d \in Nat : b + Spans(s) <= d => span_addr(b + Spans(s)) <= span_addr(d)
<1> DEFINE e == 2^ClassOf(s)
           h == HUGE_GRANULE_SPANS
           z == SPAN_SIZE
           n == e * h
<1>1. e \in Nat /\ h \in Nat /\ z \in Nat /\ Base \in Nat
  BY SlotNumbers, Geometry, RoundUp, Zenon DEF Base
<1>2. Spans(s) = n /\ huge_class_bytes(ClassOf(s)) = h * z * e
  BY Zenon DEF Spans, huge_class_granules, huge_class_bytes
<1> HIDE DEF e, h, z
<1>3. h * z * e = n * z /\ n \in Nat /\ n * z \in Nat
  BY <1>1
<1> HIDE DEF n
<1>4. \A x, y \in Nat : x * z \in Nat /\ (x + y) * z = x * z + y * z
  BY <1>1
<1>5. \A x, y \in Nat : x <= y => x * z <= y * z
  BY <1>1
<1>6. \A x \in Nat : span_addr(x) = Base + x * z
  BY Zenon DEF span_addr, z
<1>7. b + n \in Nat
  BY <1>3
<1>8. ASSUME NEW d \in Nat, b + n <= d
      PROVE  span_addr(b + n) <= span_addr(d)
  <2>1. (b + n) * z <= d * z /\ (b + n) * z \in Nat /\ d * z \in Nat
    BY <1>4, <1>5, <1>7, <1>8
  <2> QED BY <1>1, <1>6, <1>7, <2>1
<1>9. span_addr(b) + n * z = span_addr(b + n) /\ span_addr(b) \in Nat
  <2>1. (b + n) * z = b * z + n * z /\ b * z \in Nat
    BY <1>3, <1>4, Zenon
  <2> QED BY <1>1, <1>3, <1>6, <1>7, <2>1
<1> QED BY <1>2, <1>3, <1>8, <1>9

(* From the invariant, the reverse lookup is exact: the payload of a live  *)
(* allocation lies in the run of its slot and of no other.                 *)
LEMMA LookupIsExact ==
  ASSUME HugeInv
  PROVE  FreeFindsItsSlot /\ \A m \in live : Lookup(m.ptr) = m.slot
<1> SUFFICES ASSUME NEW m \in live
             PROVE  /\ FreePath(m.layout) = "huge"
                    /\ {s \in Slots : InRun(m.ptr, s)} = {m.slot}
                    /\ Divides(m.layout.align, m.ptr)
                    /\ InRun(m.ptr + m.layout.size - 1, m.slot)
                    /\ Lookup(m.ptr) = m.slot
  BY Zenon DEF FreeFindsItsSlot
<1> DEFINE s == m.slot
           l == m.layout
           b == base[s]
           p == m.ptr
           len == huge_class_bytes(ClassOf(s))
<1>1. /\ s \in Slots /\ l \in Requests /\ l \in AllLayouts
      /\ base \in [Slots -> (0 .. Count - 1) \cup {NoBase}]
      /\ b # NoBase /\ p = huge_payload(span_addr(b), l)
      /\ Path(l) = "huge" /\ huge_class_for_layout(l) # None
      /\ huge_class_for_layout(l) * PerClass <= s
  BY HugeAssumption, Zenon DEF HugeInv, StateTellsBase, TypeOK, LiveInv
<1>2. b \in 0 .. Count - 1 /\ b \in Nat
  BY <1>1, CountNat
<1>3. len >= HugeNeeded(l) /\ ClassOf(s) \in 0 .. MAX_HUGE_RUN_CLASSES - 1
  <2> DEFINE c == huge_class_for_layout(l)
  <2>1. c \in 0 .. MAX_HUGE_RUN_CLASSES - 1 /\ c \in Nat
    BY <1>1, HugeClassHolds
  <2>2. ClassOf(s) >= c /\ ClassOf(s) \in 0 .. MAX_HUGE_RUN_CLASSES - 1
    BY <1>1, <2>1, ClassFromSlot, SlotNumbers, Zenon
  <2>3. ClassOf(s) \in c .. MAX_HUGE_RUN_CLASSES - 1
    BY <2>1, <2>2, Geometry
  <2> QED BY <1>1, <2>2, <2>3, HugeClassHolds, Zenon
<1>4. Divides(l.align, p) /\ p >= span_addr(b) /\ p + l.size <= span_addr(b) + len
  BY <1>1, <1>2, <1>3, HugeIsPlaced, Zenon DEF HugePlaced
<1>5. l.size \in Nat \ {0} /\ p \in Nat
  <2>1. l.size >= HUGE_THRESHOLD /\ HUGE_THRESHOLD \in Nat \ {0}
    BY <1>1, Geometry DEF Path, HUGE_THRESHOLD
  <2>2. p \in Nat
    BY Zenon DEF HugeInv, StateTellsBase, TypeOK
  <2>3. l.size \in Nat
    BY <1>1, LayoutNumbers, Zenon
  <2> QED BY <2>1, <2>2, <2>3
<1>6. /\ span_addr(b) \in Nat /\ len \in Nat
      /\ span_addr(b) + len = span_addr(b + Spans(s))
      /\ \A d \in Nat : b + Spans(s) <= d => span_addr(b + Spans(s)) <= span_addr(d)
  <2>1. s \in Slots /\ b \in Nat
    BY <1>1, <1>2, Zenon
  <2> HIDE DEF s, b
  <2> QED BY <2>1, RunBytes, Zenon DEF len
<1> HIDE DEF s, l, b, p, len
<1>7. InRun(p, s) /\ InRun(p + l.size - 1, s)
  BY <1>1, <1>4, <1>5, <1>6 DEF InRun, b, len
<1>8. ASSUME NEW r \in Slots, r # s, InRun(p, r)
      PROVE  FALSE
  <2>1. base[r] # NoBase /\ base[r] \in Nat
    BY <1>1, <1>8, CountNat DEF InRun
  <2>2. /\ span_addr(base[r]) \in Nat /\ huge_class_bytes(ClassOf(r)) \in Nat
        /\ span_addr(base[r]) + huge_class_bytes(ClassOf(r)) = span_addr(base[r] + Spans(r))
        /\ \A d \in Nat : base[r] + Spans(r) <= d => span_addr(base[r] + Spans(r)) <= span_addr(d)
    BY <2>1, RunBytes, Zenon
  <2>3. b + Spans(s) <= base[r] \/ base[r] + Spans(r) <= b
    BY <1>1, <1>8, <2>1, Zenon DEF HugeInv, RunInv, RunsDisjoint, b
  <2>4. p >= span_addr(base[r]) /\ p < span_addr(base[r]) + huge_class_bytes(ClassOf(r))
    BY <1>8, Zenon DEF InRun
  <2>5. CASE b + Spans(s) <= base[r]
    <3>1. span_addr(b) + len <= span_addr(base[r])
      BY <1>6, <2>1, <2>5
    <3> QED BY <1>4, <1>5, <1>6, <2>2, <2>4, <3>1
  <2>6. CASE base[r] + Spans(r) <= b
    <3>1. span_addr(base[r]) + huge_class_bytes(ClassOf(r)) <= span_addr(b)
      BY <1>2, <2>2, <2>6
    <3> QED BY <1>4, <1>5, <1>6, <2>2, <2>4, <3>1
  <2> QED BY <2>3, <2>5, <2>6
<1>9. {r \in Slots : InRun(p, r)} = {s}
  BY <1>1, <1>7, <1>8
<1>10. Lookup(p) = s
  <2>1. s \in Slots /\ InRun(p, s) /\ \A r \in Slots : r < s => ~InRun(p, r)
    <3>1. s \in Slots /\ InRun(p, s)
      BY <1>1, <1>7, Zenon
    <3>2. ASSUME NEW r \in Slots, r < s PROVE ~InRun(p, r)
      <4>1. r # s
        BY <1>1, <3>2, SlotNumbers
      <4> QED BY <1>8, <4>1, Zenon
    <3> QED BY <3>1, <3>2, Zenon
  <2>2. \E x \in Slots : InRun(p, x) /\ \A r \in Slots : r < x => ~InRun(p, r)
    BY <2>1, Zenon
  <2>3. Lookup(p) \in Slots /\ InRun(p, Lookup(p))
    BY <2>2, Zenon DEF Lookup
  <2> QED BY <1>8, <2>3, Zenon
<1>11. FreePath(l) = "huge"
  BY <1>1, SamePath, Zenon
<1> QED BY <1>4, <1>7, <1>9, <1>10, <1>11, Zenon DEF s, l, p

(* HugeInv is an inductive invariant of the huge path.                     *)
THEOREM HugeInvariant == Spec => []HugeInv
<1>1. HugeInv => ExactLookup
  BY LookupIsExact, Zenon DEF ExactLookup
<1>2. ASSUME HugeInv, [Next]_vars
      PROVE  HugeInv'
  <2>1. Arithmetic /\ ExactLookup
    BY <1>1, <1>2, ArithmeticHolds, Zenon
  <2>2. StateTellsBase' /\ Pool!PoolInv' /\ ClaimInv' /\ ScanInv'
    BY <1>2, <2>1, StepPoolInv, StepTypes, StepClaims, StepScans, Zenon
  <2>3. BackingInv' /\ RunInv' /\ LiveInv'
    BY <1>2, <2>1, StepBacking, StepRuns, StepLive, Zenon
  <2> QED BY <2>2, <2>3, Zenon DEF HugeInv
<1> QED BY <1>2, InitHugeInv, PTL DEF Spec

(* A slot has at most one user, and one exactly when it is ALLOCATED,      *)
(* whatever the number of threads and slots.                               *)
THEOREM HugeClaimsExclusive == Spec => []ClaimIsExclusive
<1>1. HugeInv => ClaimIsExclusive
  <2> SUFFICES ASSUME HugeInv, NEW s \in Slots
               PROVE  LET users == {m \in live : m.slot = s}
                          backers == {t \in Threads : Backs(t, s)}
                      IN Cardinality(users) + Cardinality(backers) = IF state[s] = "ALLOCATED" THEN 1 ELSE 0
    BY Zenon DEF ClaimIsExclusive
  <2> DEFINE users == {m \in live : m.slot = s}
             backers == {t \in Threads : Backs(t, s)}
  <2>1. ClaimInv
    BY Zenon DEF HugeInv
  <2>2. Cardinality({}) = 0 /\ \A x : Cardinality({x}) = 1
    BY FS_EmptySet, FS_Singleton, Zenon
  <2>3. CASE state[s] # "ALLOCATED"
    <3>1. users = {} /\ backers = {}
      BY <2>1, <2>3, Zenon DEF ClaimInv
    <3> QED BY <2>2, <2>3, <3>1
  <2>4. CASE state[s] = "ALLOCATED" /\ \E m \in live : m.slot = s
    <3>1. PICK m \in live : m.slot = s
      BY <2>4, Zenon
    <3>2. users = {m} /\ backers = {}
      BY <2>1, <3>1 DEF ClaimInv
    <3>3. Cardinality(users) = 1 /\ Cardinality(backers) = 0
      BY <2>2, <3>2, Zenon
    <3> HIDE DEF users, backers
    <3> QED BY <2>4, <3>3 DEF users, backers
  <2>5. CASE state[s] = "ALLOCATED" /\ \E t \in Threads : Backs(t, s)
    <3>1. PICK t \in Threads : Backs(t, s)
      BY <2>5, Zenon
    <3>2. users = {} /\ backers = {t}
      BY <2>1, <3>1 DEF ClaimInv
    <3>3. Cardinality(users) = 0 /\ Cardinality(backers) = 1
      BY <2>2, <3>2, Zenon
    <3> HIDE DEF users, backers
    <3> QED BY <2>5, <3>3 DEF users, backers
  <2> QED BY <2>1, <2>3, <2>4, <2>5, Zenon DEF ClaimInv
<1> QED BY <1>1, HugeInvariant, PTL

(* EMPTY means never carved and FREE means carved, at every moment.        *)
THEOREM HugeStateTellsBase == Spec => []StateTellsBase
<1>1. HugeInv => StateTellsBase
  BY Zenon DEF HugeInv
<1> QED BY <1>1, HugeInvariant, PTL

(* The huge runs are disjoint and were handed out by the pool once.        *)
THEOREM HugeRunsDisjoint == Spec => []RunsDisjoint
<1>1. HugeInv => RunsDisjoint
  BY Zenon DEF HugeInv, RunInv
<1> QED BY <1>1, HugeInvariant, PTL

(* A free finds the slot of its allocation and no other, and all of the    *)
(* payload lies in that slot's run, for every geometry and every layout.   *)
THEOREM HugeFreeFindsItsSlot == Spec => []FreeFindsItsSlot
<1>1. HugeInv => FreeFindsItsSlot
  BY LookupIsExact, Zenon
<1> QED BY <1>1, HugeInvariant, PTL
=============================================================================
