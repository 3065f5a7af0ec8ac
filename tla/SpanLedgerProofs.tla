-------------------------- MODULE SpanLedgerProofs --------------------------
(* Proofs about SpanLedger, for every finite set of threads and blocks,    *)
(* with and without store buffering.                                       *)
EXTENDS SpanLedger, FiniteSetTheorems, TLAPS

(* The special owner words are not threads.                                *)
LEMMA OwnerWords ==
  /\ RAW \notin Threads /\ NONE \notin Threads /\ PUBLIC \notin Threads
  /\ Nobody \notin Threads
  /\ RAW # NONE /\ RAW # PUBLIC /\ NONE # PUBLIC
BY LedgerAssumption, Zenon

-----------------------------------------------------------------------------
(* A fresh span belongs to nobody.                                         *)
LEMMA InitOwnership == Init => OwnershipInv
BY OwnerWords DEF Init, OwnershipInv, TypeOK, OwnerExclusive, OwnedIsListed, OwnerSteps, Pcs

(* The owner, the list that links the span and the program counters agree  *)
(* after every step, because the owner word only changes hands through     *)
(* RAW, NONE or PUBLIC.                                                    *)
LEMMA OwnershipStep ==
  ASSUME OwnershipInv, PlacementInv, [Next]_vars
  PROVE  OwnershipInv'
<1> USE OwnerWords DEF OwnershipInv, TypeOK, OwnerExclusive, OwnedIsListed, OwnerSteps, Pcs, Goto
<1>1. CASE UNCHANGED vars
  BY <1>1, Zenon DEF vars
<1>2. ASSUME NEW t \in Threads, InitSpan(t) PROVE OwnershipInv'
  BY <1>2 DEF InitSpan
<1>3. ASSUME NEW t \in Threads, AllocLocal(t) PROVE OwnershipInv'
  BY <1>3 DEF AllocLocal
<1>4. ASSUME NEW t \in Threads, RefillStart(t) PROVE OwnershipInv'
  BY <1>4 DEF RefillStart
<1>5. ASSUME NEW t \in Threads, Acquire(t) PROVE OwnershipInv'
  BY <1>5 DEF Acquire
<1>6. ASSUME NEW t \in Threads, NEW b \in held, FreeLocal(t, b) PROVE OwnershipInv'
  BY <1>6 DEF FreeLocal, OwnerSeenBy
<1>7. ASSUME NEW t \in Threads, NEW b \in held, FreeRemote(t, b) PROVE OwnershipInv'
  BY <1>7 DEF FreeRemote
<1>8. ASSUME NEW t \in Threads, Reclaim(t) PROVE OwnershipInv'
  BY <1>8 DEF Reclaim
<1>9. ASSUME NEW t \in Threads, Absorb(t) PROVE OwnershipInv'
  BY <1>9 DEF Absorb
<1>10. ASSUME NEW t \in Threads, Blocked(t) PROVE OwnershipInv'
  BY <1>10 DEF Blocked
<1>11. ASSUME NEW t \in Threads, WalkDone(t) PROVE OwnershipInv'
  BY <1>11 DEF WalkDone
<1>12. ASSUME NEW t \in Threads, Settle(t) PROVE OwnershipInv'
  BY <1>12 DEF Settle, ChainStashed, GSubtracted
<1>13. ASSUME NEW t \in Threads, DiscardCheck(t) PROVE OwnershipInv'
  BY <1>13 DEF DiscardCheck
<1>14. ASSUME NEW t \in Threads, Disown(t) PROVE OwnershipInv'
  BY <1>14 DEF Disown
<1>15. ASSUME NEW t \in Threads, Recheck(t) PROVE OwnershipInv'
  BY <1>15 DEF Recheck
<1>16. ASSUME NEW t \in Threads, Retake(t) \/ Claim(t) PROVE OwnershipInv'
  BY <1>16 DEF Retake, Claim, TakeDiscarded, ExchangeOwner
<1>17. ASSUME NEW t \in Threads, Publish(t) PROVE OwnershipInv'
  BY <1>17 DEF Publish
<1>18. ASSUME NEW t \in Threads, PushPublish(t) PROVE OwnershipInv'
  BY <1>18 DEF PushPublish, PlacementInv
<1>19. ASSUME NEW t \in Threads, PushLink(t) PROVE OwnershipInv'
  BY <1>19 DEF PushLink
<1>20. ASSUME NEW t \in Threads, CountRemote(t) PROVE OwnershipInv'
  BY <1>20 DEF CountRemote
<1>21. ASSUME NEW t \in Threads, Flush(t) PROVE OwnershipInv'
  BY <1>21 DEF Flush
<1>22. QED
  BY <1>1, <1>2, <1>3, <1>4, <1>5, <1>6, <1>7, <1>8, <1>9, <1>10, <1>11, <1>12, <1>13, <1>14,
     <1>15, <1>16, <1>17, <1>18, <1>19, <1>20, <1>21, Zenon DEF Next, Begin, Continue

-----------------------------------------------------------------------------
(* A fresh span has no blocks and no visitors.                             *)
LEMMA InitPlacement == Init => PlacementInv
BY OwnerWords, Zenon DEF Init, PlacementInv, BlocksPartitioned, Freed, InSwap

(* Every block stays in exactly one place: a walk, a SWAP and a stash move *)
(* it from one list to the next, and only the owner detaches a list.       *)
LEMMA PlacementStep ==
  ASSUME OwnershipInv, PlacementInv, [Next]_vars
  PROVE  PlacementInv'
<1> USE OwnerWords DEF OwnershipInv, PlacementInv, TypeOK, OwnerExclusive, OwnedIsListed,
   OwnerSteps, Pcs, Goto, BlocksPartitioned, Freed, InSwap
<1>1. CASE UNCHANGED vars
  BY <1>1 DEF vars
<1>2. ASSUME NEW t \in Threads, InitSpan(t) PROVE PlacementInv'
  BY <1>2 DEF InitSpan
<1>3. ASSUME NEW t \in Threads, AllocLocal(t) PROVE PlacementInv'
  BY <1>3 DEF AllocLocal
<1>4. ASSUME NEW t \in Threads, RefillStart(t) PROVE PlacementInv'
  BY <1>4 DEF RefillStart
<1>5. ASSUME NEW t \in Threads, Acquire(t) PROVE PlacementInv'
  BY <1>5 DEF Acquire
<1>6. ASSUME NEW t \in Threads, NEW b \in held, FreeLocal(t, b) PROVE PlacementInv'
  BY <1>6 DEF FreeLocal, OwnerSeenBy
<1>7. ASSUME NEW t \in Threads, NEW b \in held, FreeRemote(t, b) PROVE PlacementInv'
  BY <1>7 DEF FreeRemote, OwnerSeenBy
<1>8. ASSUME NEW t \in Threads, Reclaim(t) PROVE PlacementInv'
  BY <1>8 DEF Reclaim
<1>9. ASSUME NEW t \in Threads, Absorb(t) PROVE PlacementInv'
  BY <1>9 DEF Absorb, Unlinked
<1>10. ASSUME NEW t \in Threads, Blocked(t) PROVE PlacementInv'
  BY <1>10 DEF Blocked
<1>11. ASSUME NEW t \in Threads, WalkDone(t) PROVE PlacementInv'
  BY <1>11 DEF WalkDone
<1>12. ASSUME NEW t \in Threads, Settle(t) PROVE PlacementInv'
  BY <1>12 DEF Settle, ChainStashed, GSubtracted
<1>13. ASSUME NEW t \in Threads, DiscardCheck(t) PROVE PlacementInv'
  BY <1>13 DEF DiscardCheck
<1>14. ASSUME NEW t \in Threads, Disown(t) PROVE PlacementInv'
  BY <1>14 DEF Disown
<1>15. ASSUME NEW t \in Threads, Recheck(t) PROVE PlacementInv'
  BY <1>15 DEF Recheck
<1>16. ASSUME NEW t \in Threads, Retake(t) \/ Claim(t) PROVE PlacementInv'
  BY <1>16 DEF Retake, Claim, TakeDiscarded, ExchangeOwner
<1>17. ASSUME NEW t \in Threads, Publish(t) PROVE PlacementInv'
  BY <1>17 DEF Publish
<1>18. ASSUME NEW t \in Threads, PushPublish(t) PROVE PlacementInv'
  BY <1>18 DEF PushPublish
<1>19. ASSUME NEW t \in Threads, PushLink(t) PROVE PlacementInv'
  BY <1>19 DEF PushLink
<1>20. ASSUME NEW t \in Threads, CountRemote(t) PROVE PlacementInv'
  BY <1>20 DEF CountRemote
<1>21. ASSUME NEW t \in Threads, Flush(t) PROVE PlacementInv'
  BY <1>21 DEF Flush
<1>22. QED
  BY <1>1, <1>2, <1>3, <1>4, <1>5, <1>6, <1>7, <1>8, <1>9, <1>10, <1>11, <1>12, <1>13,
     <1>14, <1>15, <1>16, <1>17, <1>18, <1>19, <1>20, <1>21, Zenon DEF Next, Begin, Continue

-----------------------------------------------------------------------------
(* The sets that are counted are finite.                                   *)
LEMMA CountedFinite ==
  ASSUME TypeOK
  PROVE  /\ IsFiniteSet(Freed) /\ Cardinality(Freed) \in Nat
         /\ IsFiniteSet(local) /\ Cardinality(local) \in Nat
         /\ IsFiniteSet(Uncounted) /\ Cardinality(Uncounted) \in Nat
<1>1. Freed \subseteq Blocks /\ local \subseteq Blocks /\ Uncounted \subseteq Threads
  BY Zenon DEF TypeOK, Freed, Uncounted
<1>2. QED
  BY <1>1, LedgerAssumption, FS_Subset, FS_CardinalityType, Zenon

(* A thread that takes a step outside the window between SWAP and FAA      *)
(* leaves the uncounted freers as they are; entering adds it, leaving      *)
(* removes it.                                                             *)
LEMMA UncountedStep ==
  ASSUME TypeOK, NEW t \in Threads, NEW l, Goto(t, l)
  PROVE  /\ pc[t] \in {"link", "faa"} <=> t \in Uncounted
         /\ l \in {"link", "faa"} => Uncounted' = Uncounted \cup {t}
         /\ l \notin {"link", "faa"} => Uncounted' = Uncounted \ {t}
BY Zenon DEF TypeOK, Goto, Uncounted

(* Adding or removing one element changes a cardinality by one.            *)
LEMMA OneMore ==
  ASSUME NEW S, IsFiniteSet(S), NEW x, x \notin S
  PROVE  Cardinality(S \cup {x}) = Cardinality(S) + 1
BY FS_AddElement, Zenon

LEMMA OneLess ==
  ASSUME NEW S, IsFiniteSet(S), NEW x \in S
  PROVE  Cardinality(S \ {x}) = Cardinality(S) - 1
BY FS_RemoveElement, Zenon

(* Two disjoint sets of blocks that are together at least as many as the   *)
(* blocks are all of them.                                                 *)
LEMMA AllBlocks ==
  ASSUME NEW S, NEW T, S \subseteq Blocks, T \subseteq Blocks, S \cap T = {},
         NEW k \in Nat, Cardinality(S) + Cardinality(T) = Cardinality(Blocks) + k
  PROVE  S \cup T = Blocks /\ k = 0
<1>1. IsFiniteSet(S) /\ IsFiniteSet(T) /\ IsFiniteSet(Blocks) /\ IsFiniteSet(S \cup T)
  BY LedgerAssumption, FS_Subset, FS_Union, Zenon
<1>2. Cardinality(S) \in Nat /\ Cardinality(T) \in Nat /\ Cardinality(Blocks) \in Nat
      /\ Cardinality(S \cup T) \in Nat
  BY <1>1, FS_CardinalityType, Zenon
<1>3. Cardinality(S \cup T) = Cardinality(S) + Cardinality(T)
  <2>1. Cardinality(S \cup T) = Cardinality(S) + Cardinality(T) - Cardinality(S \cap T)
    BY <1>1, FS_Union, Zenon
  <2>2. Cardinality(S \cap T) = 0
    BY FS_EmptySet, Zenon
  <2>3. QED
    BY <1>2, <2>1, <2>2
<1>4. S \cup T \subseteq Blocks
  BY Zenon
<1>5. /\ Cardinality(S \cup T) <= Cardinality(Blocks)
      /\ Cardinality(S \cup T) = Cardinality(Blocks) => S \cup T = Blocks
  BY <1>1, <1>4, FS_Subset, Zenon
<1>6. QED
  BY <1>2, <1>3, <1>5

(* A step that leaves g, the absorbed blocks, the freed blocks and the     *)
(* uncounted freers alone preserves the meaning of g.                      *)
LEMMA CounterKept ==
  ASSUME GCountsFreedBlocks, g' = g, got' = got, Freed' = Freed, Uncounted' = Uncounted
  PROVE  GCountsFreedBlocks'
BY Zenon DEF GCountsFreedBlocks

(* g keeps counting the freed blocks: a SWAP adds a freed block and an     *)
(* uncounted freer, the FAA counts it, absorbing trades a freed block for  *)
(* one in `got`, and the fetch_sub takes `got` off.                        *)
LEMMA CounterStep ==
  ASSUME OwnershipInv, PlacementInv, CountingInv, [Next]_vars
  PROVE  GCountsFreedBlocks'
<1> USE OwnerWords
<1>0. TypeOK /\ GCountsFreedBlocks /\ g \in Int /\ got \in Nat
  BY Zenon DEF OwnershipInv, CountingInv, TypeOK
<1>1. CASE UNCHANGED vars
  BY <1>0, <1>1, CounterKept, Zenon DEF vars, Freed, Uncounted
<1>2. ASSUME NEW t \in Threads, InitSpan(t) PROVE GCountsFreedBlocks'
  BY <1>0, <1>2, CounterKept, Zenon DEF TypeOK, Freed, Uncounted, InitSpan
<1>3. ASSUME NEW t \in Threads, AllocLocal(t) PROVE GCountsFreedBlocks'
  BY <1>0, <1>3, CounterKept, Zenon DEF TypeOK, Freed, Uncounted, AllocLocal
<1>4. ASSUME NEW t \in Threads, RefillStart(t) PROVE GCountsFreedBlocks'
  BY <1>0, <1>4, CounterKept, Zenon DEF TypeOK, Freed, Uncounted, RefillStart, Goto,
     OwnershipInv, OwnerExclusive, OwnerSteps, PlacementInv
<1>5. ASSUME NEW t \in Threads, Acquire(t) PROVE GCountsFreedBlocks'
  BY <1>0, <1>5, CounterKept, Zenon DEF TypeOK, Freed, Uncounted, Acquire
<1>6. ASSUME NEW t \in Threads, NEW b \in held, FreeLocal(t, b) PROVE GCountsFreedBlocks'
  BY <1>0, <1>6, CounterKept, Zenon DEF TypeOK, Freed, Uncounted, FreeLocal, Goto, OwnerSeenBy
<1>7. ASSUME NEW t \in Threads, NEW b \in held, FreeRemote(t, b) PROVE GCountsFreedBlocks'
  BY <1>0, <1>7, CounterKept, Zenon DEF TypeOK, Freed, Uncounted, FreeRemote, Goto
<1>8. ASSUME NEW t \in Threads, Reclaim(t) PROVE GCountsFreedBlocks'
  BY <1>0, <1>8, CounterKept, Zenon DEF TypeOK, Freed, Uncounted, Reclaim, Goto, OwnershipInv,
     OwnerExclusive, OwnerSteps, PlacementInv
<1>9. ASSUME NEW t \in Threads, Blocked(t) PROVE GCountsFreedBlocks'
  BY <1>0, <1>9, CounterKept, Zenon DEF TypeOK, Freed, Uncounted, Blocked, Goto, OwnershipInv,
     OwnerExclusive, OwnerSteps, PlacementInv
<1>10. ASSUME NEW t \in Threads, WalkDone(t) PROVE GCountsFreedBlocks'
  BY <1>0, <1>10, CounterKept, Zenon DEF TypeOK, Freed, Uncounted, WalkDone, Goto
<1>11. ASSUME NEW t \in Threads, DiscardCheck(t) PROVE GCountsFreedBlocks'
  BY <1>0, <1>11, CounterKept, Zenon DEF TypeOK, Freed, Uncounted, DiscardCheck, Goto
<1>12. ASSUME NEW t \in Threads, Disown(t) PROVE GCountsFreedBlocks'
  BY <1>0, <1>12, CounterKept, Zenon DEF TypeOK, Freed, Uncounted, Disown, Goto
<1>13. ASSUME NEW t \in Threads, Recheck(t) PROVE GCountsFreedBlocks'
  BY <1>0, <1>13, CounterKept, Zenon DEF TypeOK, Freed, Uncounted, Recheck, Goto
<1>14. ASSUME NEW t \in Threads, Retake(t) \/ Claim(t) PROVE GCountsFreedBlocks'
  BY <1>0, <1>14, CounterKept, Zenon DEF TypeOK, Freed, Uncounted, Retake, Claim, TakeDiscarded,
     ExchangeOwner, Goto
<1>15. ASSUME NEW t \in Threads, Publish(t) PROVE GCountsFreedBlocks'
  BY <1>0, <1>15, CounterKept, Zenon DEF TypeOK, Freed, Uncounted, Publish, Goto
<1>16. ASSUME NEW t \in Threads, PushLink(t) PROVE GCountsFreedBlocks'
  BY <1>0, <1>16, CounterKept, Zenon DEF TypeOK, Freed, Uncounted, PushLink, Goto
<1>17. ASSUME NEW t \in Threads, Flush(t) PROVE GCountsFreedBlocks'
  BY <1>0, <1>17, CounterKept, Zenon DEF TypeOK, Freed, Uncounted, Flush
<1>18. ASSUME NEW t \in Threads, Absorb(t) PROVE GCountsFreedBlocks'
  <2>1. PICK b \in chain : chain' = chain \ {b}
    BY <1>18, Zenon DEF Absorb
  <2>2. Freed' = Freed \ {b} /\ b \in Freed
    BY <1>18, <2>1 DEF Absorb, Freed, PlacementInv, BlocksPartitioned
  <2>3. Cardinality(Freed') = Cardinality(Freed) - 1
    BY <1>0, <2>2, CountedFinite, OneLess, Zenon
  <2>4. g' = g /\ got' = got + 1 /\ Uncounted' = Uncounted
    BY <1>18, Zenon DEF Absorb, Uncounted
  <2>5. QED
    BY <1>0, <2>3, <2>4, CountedFinite DEF GCountsFreedBlocks
<1>19. ASSUME NEW t \in Threads, Settle(t) PROVE GCountsFreedBlocks'
  <2>1. Freed' = Freed /\ Uncounted' = Uncounted
    BY <1>0, <1>19, Zenon DEF Settle, Freed, Uncounted, Goto, TypeOK
  <2>2. got' = 0 /\ g' = g - got
    BY <1>0, <1>19 DEF Settle, GSubtracted
  <2>3. QED
    BY <1>0, <2>1, <2>2, CountedFinite DEF GCountsFreedBlocks
<1>20. ASSUME NEW t \in Threads, PushPublish(t) PROVE GCountsFreedBlocks'
  <2>1. Freed' = Freed \cup {blk[t]} /\ blk[t] \notin Freed
    BY <1>20 DEF PushPublish, Freed, InSwap, PlacementInv, BlocksPartitioned
  <2>2. Uncounted' = Uncounted \cup {t} /\ t \notin Uncounted
    BY <1>0, <1>20, UncountedStep, Zenon DEF PushPublish
  <2>3. Cardinality(Freed') = Cardinality(Freed) + 1
    BY <1>0, <2>1, CountedFinite, OneMore, Zenon
  <2>4. Cardinality(Uncounted') = Cardinality(Uncounted) + 1
    BY <1>0, <2>2, CountedFinite, OneMore, Zenon
  <2>5. g' = g /\ got' = got
    BY <1>20, Zenon DEF PushPublish
  <2>6. QED
    BY <1>0, <2>3, <2>4, <2>5, CountedFinite DEF GCountsFreedBlocks
<1>21. ASSUME NEW t \in Threads, CountRemote(t) PROVE GCountsFreedBlocks'
  <2>1. Uncounted' = Uncounted \ {t} /\ t \in Uncounted
    BY <1>0, <1>21, Zenon DEF CountRemote, Goto, Uncounted, TypeOK
  <2>2. Cardinality(Uncounted') = Cardinality(Uncounted) - 1
    BY <1>0, <2>1, CountedFinite, OneLess, Zenon
  <2>3. Freed' = Freed /\ g' = g + 1 /\ got' = got
    BY <1>21, Zenon DEF CountRemote, Freed
  <2>4. QED
    BY <1>0, <2>2, <2>3, CountedFinite DEF GCountsFreedBlocks
<1>22. QED
  BY <1>1, <1>2, <1>3, <1>4, <1>5, <1>6, <1>7, <1>8, <1>9, <1>10, <1>11, <1>12, <1>13,
     <1>14, <1>15, <1>16, <1>17, <1>18, <1>19, <1>20, <1>21, Zenon DEF Next, Begin, Continue

(* A span whose blocks are all in the local and the freed lists has none   *)
(* in the hands of a freer.                                                *)
LEMMA FullSpanIsQuiet ==
  ASSUME PlacementInv, local \cup Freed = Blocks
  PROVE  /\ \A t \in Threads : pc[t] # "swap"
         /\ InSwap = {}
BY DEF PlacementInv, BlocksPartitioned, InSwap, Freed

(* The owner's test q + g = m in dealloc_local is exact: it succeeds only  *)
(* when every block of the span is free and every freer has counted.       *)
LEMMA FullIsExact ==
  ASSUME OwnershipInv, PlacementInv, CountingInv,
         NEW t \in Threads, NEW b \in held, FreeLocal(t, b), pc'[t] = "publish"
  PROVE  local' \cup Freed' = Blocks /\ Uncounted' = {} /\ held' = {} /\ local' # {}
<1>1. TypeOK /\ g \in Int /\ got \in Nat /\ owner = t /\ pc[t] = "idle"
  BY OwnerWords, Zenon DEF OwnershipInv, TypeOK, FreeLocal, OwnerSeenBy
<1>2. got = 0
  BY <1>1 DEF CountingInv, UsageInv, Refilling, OwnershipInv, OwnerExclusive, OwnerSteps
<1>3. /\ local' = local \cup {b} /\ held' = held \ {b} /\ Freed' = Freed
      /\ local' \subseteq Blocks /\ Freed \subseteq Blocks
  BY <1>1, Zenon DEF FreeLocal, TypeOK, Freed
<1>4. Uncounted' = Uncounted
  BY <1>1, Zenon DEF FreeLocal, Uncounted, Goto, TypeOK
<1>5. Cardinality(local') + g = Cardinality(Blocks)
  BY <1>1, <1>3, Zenon DEF FreeLocal, Full, Goto, TypeOK
<1>6. local' \cap Freed = {} /\ local' \cap held' = {} /\ Freed \cap held' = {}
  BY <1>3 DEF PlacementInv, BlocksPartitioned, Freed
<1>7. g = Cardinality(Freed) - Cardinality(Uncounted)
  BY <1>1, <1>2, CountedFinite DEF CountingInv, GCountsFreedBlocks
<1>8. Cardinality(local') \in Nat /\ Cardinality(Blocks) \in Nat
  BY <1>3, LedgerAssumption, FS_Subset, FS_CardinalityType, Zenon
<1>9. Cardinality(local') + Cardinality(Freed) = Cardinality(Blocks) + Cardinality(Uncounted)
  BY <1>1, <1>5, <1>7, <1>8, CountedFinite
<1>10. local' \cup Freed = Blocks /\ Cardinality(Uncounted) = 0
  BY <1>1, <1>3, <1>6, <1>9, CountedFinite, AllBlocks
<1>11. Uncounted = {}
  BY <1>1, <1>10, CountedFinite, FS_EmptySet, Zenon
<1>12. held' = {}
  BY <1>1, <1>3, <1>6, <1>10, Zenon DEF TypeOK
<1>13. QED
  BY <1>3, <1>4, <1>10, <1>11, <1>12, Zenon

(* The facts about the refill in progress, the span about to be published, *)
(* the public one and the discarded one survive every step.                *)
LEMMA CountingStep ==
  ASSUME OwnershipInv, PlacementInv, CountingInv, [Next]_vars
  PROVE  CountingInv'
<1> USE OwnerWords DEF OwnershipInv, PlacementInv, TypeOK, OwnerExclusive, OwnedIsListed,
      OwnerSteps, Pcs, Goto, PublicIsFull, DiscardedIsExhausted,
      UsageInv, Refilling, FullAndQuiet
<1>a. UsageInv
  BY Zenon DEF CountingInv
<1>b. local \cup Freed = Blocks => \A t \in Threads : pc[t] # "swap"
  BY FullSpanIsQuiet, Zenon
<1>1. ASSUME UNCHANGED vars PROVE UsageInv'
  BY <1>1, <1>a DEF vars, Freed, Uncounted
<1>2. ASSUME NEW t \in Threads, InitSpan(t) PROVE UsageInv'
  BY <1>2, <1>a, <1>b, Zenon DEF InitSpan, Freed, Uncounted
<1>3. ASSUME NEW t \in Threads, AllocLocal(t) PROVE UsageInv'
  BY <1>3, <1>a, <1>b, Zenon DEF AllocLocal, Freed, Uncounted
<1>4. ASSUME NEW t \in Threads, RefillStart(t) PROVE UsageInv'
  BY <1>4, <1>a, <1>b DEF RefillStart, Freed, Uncounted
<1>5. ASSUME NEW t \in Threads, Acquire(t) PROVE UsageInv'
  BY <1>5, <1>a, <1>b DEF Acquire, Freed, Uncounted
<1>6. ASSUME NEW t \in Threads, NEW b \in held, FreeLocal(t, b) PROVE UsageInv'
  <2>1. owner = t /\ home = t /\ buffered = Nobody
    BY <1>6, Zenon DEF FreeLocal, OwnerSeenBy
  <2>2. /\ pc[t] = "idle" /\ got' = got /\ owner' = owner /\ buffered' = buffered
        /\ \A u \in Threads \ {t} : pc'[u] = pc[u] /\ pc[u] \notin OwnerSteps
        /\ pc'[t] \in {"idle", "publish"}
    BY <1>6, <2>1 DEF FreeLocal
  <2>3. got = 0
    BY <1>a, <2>1, <2>2
  <2>4. pc'[t] = "publish" => FullAndQuiet'
    BY <1>6, FullIsExact, Zenon
  <2>5. QED
    BY <2>1, <2>2, <2>3, <2>4
<1>7. ASSUME NEW t \in Threads, NEW b \in held, FreeRemote(t, b) PROVE UsageInv'
  BY <1>7, <1>a, <1>b DEF FreeRemote, OwnerSeenBy, Freed, Uncounted
<1>8. ASSUME NEW t \in Threads, Reclaim(t) PROVE UsageInv'
  BY <1>8, <1>a, <1>b DEF Reclaim, Freed, Uncounted
<1>9. ASSUME NEW t \in Threads, Absorb(t) PROVE UsageInv'
  BY <1>9, <1>a, <1>b DEF Absorb, Freed, Uncounted
<1>10. ASSUME NEW t \in Threads, Blocked(t) PROVE UsageInv'
  BY <1>10, <1>a, <1>b DEF Blocked, Freed, Uncounted
<1>11. ASSUME NEW t \in Threads, WalkDone(t) PROVE UsageInv'
  BY <1>11, <1>a, <1>b DEF WalkDone, Freed, Uncounted
<1>12. ASSUME NEW t \in Threads, Settle(t) PROVE UsageInv'
  BY <1>12, <1>a, <1>b DEF Settle, ChainStashed, GSubtracted, Freed, Uncounted
<1>13. ASSUME NEW t \in Threads, DiscardCheck(t) PROVE UsageInv'
  BY <1>13, <1>a, <1>b DEF DiscardCheck, Freed, Uncounted
<1>14. ASSUME NEW t \in Threads, Disown(t) PROVE UsageInv'
  BY <1>14, <1>a, <1>b DEF Disown, Freed, Uncounted
<1>15. ASSUME NEW t \in Threads, Recheck(t) PROVE UsageInv'
  BY <1>15, <1>a, <1>b DEF Recheck, Freed, Uncounted
<1>16. ASSUME NEW t \in Threads, Retake(t) \/ Claim(t) PROVE UsageInv'
  BY <1>16, <1>a, <1>b DEF Retake, Claim, TakeDiscarded, ExchangeOwner, Freed, Uncounted
<1>17. ASSUME NEW t \in Threads, Publish(t) PROVE UsageInv'
  BY <1>17, <1>a, <1>b DEF Publish, Freed, Uncounted
<1>18. ASSUME NEW t \in Threads, PushPublish(t) PROVE UsageInv'
  BY <1>18, <1>a, <1>b DEF PushPublish, Freed, Uncounted
<1>19. ASSUME NEW t \in Threads, PushLink(t) PROVE UsageInv'
  BY <1>19, <1>a, <1>b DEF PushLink, Freed, Uncounted
<1>20. ASSUME NEW t \in Threads, CountRemote(t) PROVE UsageInv'
  BY <1>20, <1>a, <1>b DEF CountRemote, Freed, Uncounted
<1>21. ASSUME NEW t \in Threads, Flush(t) PROVE UsageInv'
  BY <1>21, <1>a, <1>b DEF Flush, Freed, Uncounted
<1>22. UsageInv'
  BY <1>1, <1>2, <1>3, <1>4, <1>5, <1>6, <1>7, <1>8, <1>9, <1>10, <1>11, <1>12, <1>13,
     <1>14, <1>15, <1>16, <1>17, <1>18, <1>19, <1>20, <1>21, Zenon DEF Next, Begin, Continue
<1>23. QED
  BY <1>22, CounterStep, Zenon DEF CountingInv

(* A fresh span has nothing to count.                                      *)
LEMMA InitCounting == Init => CountingInv
<1> SUFFICES ASSUME Init PROVE CountingInv
  BY Zenon
<1>1. Freed = {} /\ Uncounted = {} /\ g = 0 /\ got = 0
  BY Zenon DEF Init, Freed, Uncounted
<1>2. GCountsFreedBlocks
  BY <1>1, FS_EmptySet DEF GCountsFreedBlocks
<1>3. UsageInv
  BY OwnerWords DEF Init, UsageInv, Refilling, PublicIsFull, DiscardedIsExhausted
<1>4. QED
  BY <1>2, <1>3, Zenon DEF CountingInv

-----------------------------------------------------------------------------
(* Whatever allocations, local and remote frees, refills, discards and     *)
(* claims interleave, and whether or not the store of OWNER_NONE is        *)
(* delayed, the ledger of a span is consistent.                            *)
THEOREM LedgerInvariant == Spec => []LedgerInv
<1>1. Init => LedgerInv
  BY InitOwnership, InitPlacement, InitCounting, Zenon DEF LedgerInv
<1>2. LedgerInv /\ [Next]_vars => LedgerInv'
  BY OwnershipStep, PlacementStep, CountingStep, Zenon DEF LedgerInv
<1>3. QED
  BY <1>1, <1>2, PTL DEF Spec

(* At any time one thread at most works on the span as its owner, or links *)
(* it in its local list.                                                   *)
THEOREM SingleOwner == Spec => []OwnerExclusive
<1>1. LedgerInv => OwnerExclusive
  BY Zenon DEF LedgerInv, OwnershipInv
<1>2. QED
  BY <1>1, LedgerInvariant, PTL

(* No block of a span is lost, duplicated or handed out twice.             *)
THEOREM NoBlockLost == Spec => []BlocksPartitioned
<1>1. LedgerInv => BlocksPartitioned
  BY Zenon DEF LedgerInv, PlacementInv
<1>2. QED
  BY <1>1, LedgerInvariant, PTL

(* g is the number of freed blocks not yet subtracted, less the freers     *)
(* that have not counted yet.                                              *)
THEOREM CounterMeaning == Spec => []GCountsFreedBlocks
<1>1. LedgerInv => GCountsFreedBlocks
  BY Zenon DEF LedgerInv, CountingInv
<1>2. QED
  BY <1>1, LedgerInvariant, PTL

(* dealloc_local publishes a span only when all its blocks are free and no *)
(* freer is still at work on it.                                           *)
THEOREM PublishedSpanIsFull == Spec => []PublicIsFull
<1>1. LedgerInv => PublicIsFull
  BY Zenon DEF LedgerInv, CountingInv, UsageInv
<1>2. QED
  BY <1>1, LedgerInvariant, PTL

(* A span that try_discard gives up, or is about to, has no free block     *)
(* that its owner could have used.                                         *)
THEOREM DiscardedSpanIsExhausted == Spec => []DiscardedIsExhausted
<1>1. LedgerInv => DiscardedIsExhausted
  BY Zenon DEF LedgerInv, CountingInv, UsageInv
<1>2. QED
  BY <1>1, LedgerInvariant, PTL

-----------------------------------------------------------------------------
(* When the store of OWNER_NONE is not delayed, a step that counts a block *)
(* of a discarded span leaves somebody about to take it.                   *)
LEMMA ClaimStep ==
  ASSUME TypeOK, buffered = Nobody, StoreBuffering = FALSE, DiscardedIsClaimed,
         OwnershipInv, [Next]_vars
  PROVE  DiscardedIsClaimed' /\ buffered' = Nobody
<1> USE OwnerWords DEF DiscardedIsClaimed, TypeOK, Goto
<1> DEFINE Goal == DiscardedIsClaimed' /\ buffered' = Nobody
<1>1. ASSUME UNCHANGED vars PROVE Goal
  BY <1>1, Zenon DEF vars
<1>2. ASSUME NEW t \in Threads, InitSpan(t) PROVE Goal
  BY <1>2, Zenon DEF InitSpan
<1>3. ASSUME NEW t \in Threads, AllocLocal(t) PROVE Goal
  BY <1>3, Zenon DEF AllocLocal
<1>4. ASSUME NEW t \in Threads, RefillStart(t) PROVE Goal
  BY <1>4, Zenon DEF RefillStart
<1>5. ASSUME NEW t \in Threads, Acquire(t) PROVE Goal
  BY <1>5, Zenon DEF Acquire
<1>6. ASSUME NEW t \in Threads, NEW b \in held, FreeLocal(t, b) PROVE Goal
  BY <1>6, Zenon DEF FreeLocal
<1>7. ASSUME NEW t \in Threads, NEW b \in held, FreeRemote(t, b) PROVE Goal
  BY <1>7, Zenon DEF FreeRemote
<1>8. ASSUME NEW t \in Threads, Reclaim(t) PROVE Goal
  BY <1>8, Zenon DEF Reclaim
<1>9. ASSUME NEW t \in Threads, Absorb(t) PROVE Goal
  BY <1>9, Zenon DEF Absorb
<1>10. ASSUME NEW t \in Threads, Blocked(t) PROVE Goal
  BY <1>10, Zenon DEF Blocked
<1>11. ASSUME NEW t \in Threads, WalkDone(t) PROVE Goal
  BY <1>11, Zenon DEF WalkDone
<1>12. ASSUME NEW t \in Threads, Settle(t) PROVE Goal
  BY <1>12, Zenon DEF Settle, OwnershipInv, OwnerExclusive, OwnerSteps
<1>13. ASSUME NEW t \in Threads, DiscardCheck(t) PROVE Goal
  BY <1>13, Zenon DEF DiscardCheck
<1>14. ASSUME NEW t \in Threads, Disown(t) PROVE Goal
  BY <1>14, Zenon DEF Disown
<1>15. ASSUME NEW t \in Threads, Recheck(t) PROVE Goal
  BY <1>15 DEF Recheck
<1>16. ASSUME NEW t \in Threads, Retake(t) \/ Claim(t) PROVE Goal
  BY <1>16, Zenon DEF Retake, Claim, TakeDiscarded, ExchangeOwner
<1>17. ASSUME NEW t \in Threads, Publish(t) PROVE Goal
  BY <1>17, Zenon DEF Publish
<1>18. ASSUME NEW t \in Threads, PushPublish(t) PROVE Goal
  BY <1>18, Zenon DEF PushPublish
<1>19. ASSUME NEW t \in Threads, PushLink(t) PROVE Goal
  BY <1>19, Zenon DEF PushLink
<1>20. ASSUME NEW t \in Threads, CountRemote(t) PROVE Goal
  BY <1>20 DEF CountRemote
<1>21. ASSUME NEW t \in Threads, Flush(t) PROVE Goal
  BY <1>21, Zenon DEF Flush
<1>22. QED
  BY <1>1, <1>2, <1>3, <1>4, <1>5, <1>6, <1>7, <1>8, <1>9, <1>10, <1>11, <1>12, <1>13,
     <1>14, <1>15, <1>16, <1>17, <1>18, <1>19, <1>20, <1>21, Zenon DEF Next, Begin, Continue

(* If the Release store of try_discard is never delayed past the load that *)
(* follows it, no discarded span with a counted free block is left behind. *)
(* With the other accesses interleaved as they are in this model, the      *)
(* delay is thus the only way to lose one.                                 *)
THEOREM DiscardedSpanIsClaimed ==
  ASSUME StoreBuffering = FALSE
  PROVE  Spec => []DiscardedIsClaimed
<1> DEFINE I == LedgerInv /\ DiscardedIsClaimed /\ buffered = Nobody
<1>1. Init => I
  <2>1. Init => LedgerInv
    BY InitOwnership, InitPlacement, InitCounting, Zenon DEF LedgerInv
  <2>2. QED
    BY <2>1, OwnerWords, Zenon DEF Init, DiscardedIsClaimed
<1>2. I /\ [Next]_vars => I'
  <2> SUFFICES ASSUME I, [Next]_vars PROVE I'
    BY Zenon
  <2>1. LedgerInv'
    BY OwnershipStep, PlacementStep, CountingStep, Zenon DEF LedgerInv
  <2>2. DiscardedIsClaimed' /\ buffered' = Nobody
    BY ClaimStep, Zenon DEF LedgerInv, OwnershipInv
  <2>3. QED
    BY <2>1, <2>2, Zenon
<1>3. I => DiscardedIsClaimed
  BY Zenon
<1>4. QED
  BY <1>1, <1>2, <1>3, PTL DEF Spec
=============================================================================
