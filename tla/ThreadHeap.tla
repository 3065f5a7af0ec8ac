----------------------------- MODULE ThreadHeap -----------------------------
(***************************************************************************)
(* The heaps of all threads for one size class: the private list of spans  *)
(* that an allocation rotates through (src/heap.rs), the whole of          *)
(* alloc_with_token and dealloc_with_token on the small path               *)
(* (src/allocator.rs), and the registry that hands out thread ids          *)
(* (src/thread.rs).                                                        *)
(*                                                                         *)
(* Each span goes through the steps of SpanLedger, here with the owner     *)
(* store of try_discard in memory at once; what the ledger leaves open,    *)
(* which span a thread turns to and when it has one to spare, is decided   *)
(* here.  The public lists are the spans marked PUBLIC: which of them an   *)
(* acquisition gets, and that it may get none, is the subject of           *)
(* HelpAcquire.  The pool counter stops at Count; SpanPool follows it      *)
(* beyond.                                                                 *)
(***************************************************************************)
EXTENDS Integers, FiniteSets

CONSTANTS
  Max,       \* active_threads
  Count,     \* spans in the pool
  Blocks,    \* the m blocks of a span
  K,         \* LOCAL_SPAN_LIMIT_K
  RAW, NONE, PUBLIC,
  Nobody, NoBlock,
  NULL       \* no span

ASSUME HeapAssumption ==
  /\ Max \in Nat \ {0} /\ Count \in Nat /\ K \in Nat
  /\ IsFiniteSet(Blocks) /\ Blocks # {}
  /\ NoBlock \notin Blocks
  /\ NULL \notin 0 .. Count - 1

Ids == 0 .. Max - 1
Spans == 0 .. Count - 1

VARIABLES
  registered,  \* ThreadRegistry::next, up to max
  used,        \* FixedSpanPool::next, up to Count
  span,        \* span[s]: owner word, local, remote and stashed blocks, chain
               \* under a walk, g, blocks absorbed by a refill, user's blocks
  lists,       \* the LocalSpanLists: head, tail and len of each thread and
               \* next_local of each span
  th           \* th[t]: next step, span and block in hand, rotations made,
               \* whether the list fitted in K + 1 at the start (history)

vars == <<registered, used, span, lists, th>>

Idle == [pc |-> "idle", cur |-> NULL, blk |-> NoBlock, turn |-> 0, fits |-> TRUE]

RawSpan ==
  [owner |-> RAW, local |-> {}, remote |-> {}, stash |-> {}, chain |-> {},
   g |-> 0, got |-> 0, held |-> {}]

Init ==
  /\ registered = 0
  /\ used = 0
  /\ span = [s \in Spans |-> RawSpan]
  /\ lists = [head |-> [t \in Ids |-> NULL], tail |-> [t \in Ids |-> NULL],
              len |-> [t \in Ids |-> 0], next |-> [s \in Spans |-> NULL]]
  /\ th = [t \in Ids |-> Idle]

-----------------------------------------------------------------------------
(* LocalSpanList of thread t in lists l.                                   *)
PushFront(l, t, s) ==
  [l EXCEPT !.next[s] = l.head[t],
            !.head[t] = s,
            !.tail[t] = IF l.head[t] = NULL THEN s ELSE @,
            !.len[t] = @ + 1]

PushBack(l, t, s) ==
  [l EXCEPT !.next = IF l.tail[t] = NULL THEN [@ EXCEPT ![s] = NULL]
                                         ELSE [@ EXCEPT ![s] = NULL, ![l.tail[t]] = s],
            !.head[t] = IF l.tail[t] = NULL THEN s ELSE @,
            !.tail[t] = s,
            !.len[t] = @ + 1]

(* pop_front of a list that is not empty.  The mutant leaves the tail.     *)
PopFrontKeepTail(l, t) == [l EXCEPT !.head[t] = l.next[@], !.len[t] = @ - 1]

PopFront(l, t) ==
  [l EXCEPT !.head[t] = l.next[@],
            !.tail[t] = IF l.next[l.head[t]] = NULL THEN NULL ELSE @,
            !.len[t] = @ - 1]

(* The first n entries of the list, NULL past its end.                     *)
Entries(l, t, n) ==
  LET e[j \in 1 .. n] ==
        IF j = 1 THEN l.head[t] ELSE LET p == e[j - 1] IN IF p = NULL THEN NULL ELSE l.next[p]
  IN e

(* remove_bounded: unlink span s if it is among the first n entries.       *)
RemoveBounded(l, t, s, n) ==
  LET e == Entries(l, t, n)
      found == {i \in 1 .. n : e[i] = s}
      i == CHOOSE i \in found : \A j \in found : i <= j
      prev == IF i = 1 THEN NULL ELSE e[i - 1]
      after == l.next[s]
  IN IF found = {} THEN l
     ELSE [l EXCEPT !.next = IF prev = NULL THEN @ ELSE [@ EXCEPT ![prev] = after],
                    !.head[t] = IF prev = NULL THEN after ELSE @,
                    !.tail[t] = IF after = NULL THEN prev ELSE @,
                    !.len[t] = @ - 1]

-----------------------------------------------------------------------------
Pc(t) == th[t].pc
Cur(t) == th[t].cur

Become(t, r) == th' = [th EXCEPT ![t] = r]
Goto(t, l) == th' = [th EXCEPT ![t].pc = l]

(* An allocation is served from span s, with record r but for the block.   *)
Serve(t, s, r) ==
  /\ \E b \in r.local : span' = [span EXCEPT ![s] = [r EXCEPT !.local = @ \ {b}, !.held = @ \cup {b}]]
  /\ Become(t, Idle)

(* The next turn of the rotation.  The mutant does not count it.           *)
SameTurn(t) == Become(t, [th[t] EXCEPT !.pc = "rotate", !.cur = NULL])

NextTurn(t) == Become(t, [th[t] EXCEPT !.pc = "rotate", !.cur = NULL, !.turn = @ + 1])

(* register: one fetch-and-add.                                            *)
Register ==
  /\ registered < Max
  /\ registered' = registered + 1
  /\ UNCHANGED <<used, span, lists, th>>

(* Turns left in the rotation, which has K + 1.  The mutant makes K.       *)
TurnsBelow(n) == n < K

Turns(n) == n <= K

(* alloc_with_token begins, or goes on to the next turn: serve from the    *)
(* front of the list if it can, else start refill_from_remote on it, with  *)
(* the stashed chain if there is one.                                      *)
Rotate(t) ==
  LET s == lists.head[t]
      fits == IF Pc(t) = "idle" THEN lists.len[t] <= K + 1 ELSE th[t].fits
  IN /\ Pc(t) \in {"idle", "rotate"}
     /\ IF ~Turns(th[t].turn) \/ s = NULL
          THEN Become(t, [th[t] EXCEPT !.pc = "acquire", !.fits = fits]) /\ UNCHANGED span
          ELSE IF span[s].local # {}
          THEN Serve(t, s, span[s])
          ELSE /\ span' = [span EXCEPT ![s].chain = span[s].stash, ![s].stash = {}]
               /\ Become(t, [th[t] EXCEPT !.pc = IF span[s].stash = {} THEN "reclaim" ELSE "walkStash",
                                          !.cur = s, !.fits = fits])
     /\ UNCHANGED <<registered, used, lists>>

(* reclaim_all.                                                            *)
Reclaim(t) ==
  LET s == Cur(t)
  IN /\ Pc(t) = "reclaim"
     /\ span' = [span EXCEPT ![s].chain = span[s].remote, ![s].remote = {}]
     /\ Goto(t, IF span[s].remote = {} THEN "settle" ELSE "walk")
     /\ UNCHANGED <<registered, used, lists>>

Unlinked(s, b) == \E t \in Ids : Pc(t) = "link" /\ Cur(t) = s /\ th[t].blk = b

(* append_remote_to_local_bounded: take a linked block, ...                *)
Absorb(t) ==
  LET s == Cur(t)
  IN /\ Pc(t) \in {"walkStash", "walk"}
     /\ \E b \in span[s].chain :
          /\ ~Unlinked(s, b)
          /\ span' = [span EXCEPT ![s].chain = @ \ {b}, ![s].local = @ \cup {b}, ![s].got = @ + 1]
     /\ UNCHANGED <<registered, used, lists, th>>

(* ... stash the rest at a block that is not linked yet, ...               *)
Blocked(t) ==
  LET s == Cur(t)
  IN /\ Pc(t) \in {"walkStash", "walk"}
     /\ \E b \in span[s].chain : Unlinked(s, b)
     /\ span' = [span EXCEPT ![s].stash = span[s].chain, ![s].chain = {}]
     /\ Goto(t, "settle")
     /\ UNCHANGED <<registered, used, lists>>

(* ... or come to the end.                                                 *)
WalkDone(t) ==
  /\ Pc(t) \in {"walkStash", "walk"}
  /\ span[Cur(t)].chain = {}
  /\ Goto(t, IF Pc(t) = "walkStash" THEN "reclaim" ELSE "settle")
  /\ UNCHANGED <<registered, used, span, lists>>

(* Blocks absorbed: subtract them from g and serve one.  None: rotate the  *)
(* span out, to the back if a chain is stashed, else try to discard it.    *)
Settle(t) ==
  LET s == Cur(t)
      r == span[s]
  IN /\ Pc(t) = "settle"
     /\ IF r.got > 0
          THEN Serve(t, s, [r EXCEPT !.g = @ - r.got, !.got = 0]) /\ UNCHANGED lists
          ELSE IF r.stash # {}
          THEN lists' = PushBack(PopFront(lists, t), t, s) /\ NextTurn(t) /\ UNCHANGED span
          ELSE lists' = PopFront(lists, t) /\ Goto(t, "discard") /\ UNCHANGED span
     /\ UNCHANGED <<registered, used>>

(* try_discard returned false: the span goes back to the end of the list.  *)
(* The mutant drops it.                                                    *)
Dropped(l, t, s) == l

Kept(l, t, s) == PushBack(l, t, s)

(* The first load of g, ...                                                *)
DiscardCheck(t) ==
  /\ Pc(t) = "discard"
  /\ IF span[Cur(t)].g # 0 THEN lists' = Kept(lists, t, Cur(t)) /\ NextTurn(t)
                           ELSE Goto(t, "disown") /\ UNCHANGED lists
  /\ UNCHANGED <<registered, used, span>>

(* ... the store of OWNER_NONE, ...                                        *)
Disown(t) ==
  /\ Pc(t) = "disown"
  /\ span' = [span EXCEPT ![Cur(t)].owner = NONE]
  /\ Goto(t, "recheck")
  /\ UNCHANGED <<registered, used, lists>>

(* ... the second load of g ...                                            *)
Recheck(t) ==
  /\ Pc(t) = "recheck"
  /\ IF span[Cur(t)].g = 0 THEN NextTurn(t) ELSE Goto(t, "retake")
  /\ UNCHANGED <<registered, used, span, lists>>

(* ... and the attempt to take the span back.                              *)
Retake(t) ==
  LET s == Cur(t)
  IN /\ Pc(t) = "retake"
     /\ IF span[s].owner = NONE
          THEN span' = [span EXCEPT ![s].owner = t] /\ lists' = Kept(lists, t, s)
          ELSE UNCHANGED <<span, lists>>
     /\ NextTurn(t)
     /\ UNCHANGED <<registered, used>>

(* spanlists_acquire_span found a span; a public span has a block in its   *)
(* local list (PublicIsFull of SpanLedger), so it serves at once.          *)
AcquirePublic(t) ==
  /\ Pc(t) = "acquire"
  /\ \E s \in Spans :
       /\ span[s].owner = PUBLIC
       /\ lists' = PushFront(lists, t, s)
       /\ Serve(t, s, [span[s] EXCEPT !.owner = t])
  /\ UNCHANGED <<registered, used>>

(* It found none.                                                          *)
MissPublic(t) ==
  /\ Pc(t) = "acquire"
  /\ Goto(t, "raw")
  /\ UNCHANGED <<registered, used, span, lists>>

(* acquire_raw_span: a fresh span, or null to the caller.                  *)
TakeRaw(t) ==
  /\ Pc(t) = "raw"
  /\ IF used < Count
       THEN /\ used' = used + 1
            /\ lists' = PushFront(lists, t, used)
            /\ Serve(t, used, [RawSpan EXCEPT !.owner = t, !.local = Blocks])
       ELSE Become(t, Idle) /\ UNCHANGED <<used, span, lists>>
  /\ UNCHANGED registered

-----------------------------------------------------------------------------
(* dealloc_local: a full span is surplus if the heap holds more than K.    *)
(* The mutant takes q + g >= m - 1 for full.                               *)
SurplusAlmostFull(t, s) ==
  Cardinality(span[s].local) + 1 + span[s].g >= Cardinality(Blocks) - 1 /\ lists.len[t] > K

Surplus(t, s) == Cardinality(span[s].local) + 1 + span[s].g = Cardinality(Blocks) /\ lists.len[t] > K

FreeLocal(t, s, b) ==
  /\ Pc(t) = "idle"
  /\ span[s].owner = t
  /\ span' = [span EXCEPT ![s].local = @ \cup {b}, ![s].held = @ \ {b}]
  /\ IF Surplus(t, s) THEN Become(t, [Idle EXCEPT !.pc = "publish", !.cur = s]) ELSE UNCHANGED th
  /\ UNCHANGED <<registered, used, lists>>

Publish(t) ==
  LET s == Cur(t)
  IN /\ Pc(t) = "publish"
     /\ lists' = RemoveBounded(lists, t, s, lists.len[t])
     /\ span' = [span EXCEPT ![s].owner = IF lists' = lists THEN @ ELSE PUBLIC]
     /\ Become(t, Idle)
     /\ UNCHANGED <<registered, used>>

(* dealloc_remote: swap the block in, link it, count it, and whoever moves *)
(* g from 0 to 1 tries to claim the span.                                  *)
FreeRemote(t, s, b) ==
  /\ Pc(t) = "idle"
  /\ span[s].owner # t
  /\ span' = [span EXCEPT ![s].held = @ \ {b}]
  /\ Become(t, [Idle EXCEPT !.pc = "swap", !.cur = s, !.blk = b])
  /\ UNCHANGED <<registered, used, lists>>

PushPublish(t) ==
  /\ Pc(t) = "swap"
  /\ span' = [span EXCEPT ![Cur(t)].remote = @ \cup {th[t].blk}]
  /\ Goto(t, "link")
  /\ UNCHANGED <<registered, used, lists>>

PushLink(t) ==
  /\ Pc(t) = "link"
  /\ Goto(t, "faa")
  /\ UNCHANGED <<registered, used, span, lists>>

CountRemote(t) ==
  LET s == Cur(t)
  IN /\ Pc(t) = "faa"
     /\ span' = [span EXCEPT ![s].g = @ + 1]
     /\ Become(t, IF span[s].g = 0 THEN [Idle EXCEPT !.pc = "claim", !.cur = s] ELSE Idle)
     /\ UNCHANGED <<registered, used, lists>>

Claim(t) ==
  LET s == Cur(t)
  IN /\ Pc(t) = "claim"
     /\ IF span[s].owner = NONE
          THEN span' = [span EXCEPT ![s].owner = t] /\ lists' = PushFront(lists, t, s)
          ELSE UNCHANGED <<span, lists>>
     /\ Become(t, Idle)
     /\ UNCHANGED <<registered, used>>

-----------------------------------------------------------------------------
(* The steps that carry on an operation already begun.                     *)
Continue(t) ==
  \/ Pc(t) = "rotate" /\ Rotate(t)
  \/ Reclaim(t) \/ Absorb(t) \/ Blocked(t) \/ WalkDone(t) \/ Settle(t)
  \/ DiscardCheck(t) \/ Disown(t) \/ Recheck(t) \/ Retake(t)
  \/ AcquirePublic(t) \/ MissPublic(t) \/ TakeRaw(t) \/ Publish(t)
  \/ PushPublish(t) \/ PushLink(t) \/ CountRemote(t) \/ Claim(t)

Next ==
  \/ Register
  \/ \E t \in 0 .. registered - 1 :
       \/ Pc(t) = "idle" /\ Rotate(t)
       \/ \E s \in Spans : \E b \in span[s].held : FreeLocal(t, s, b) \/ FreeRemote(t, s, b)
       \/ Continue(t)

Spec == Init /\ [][Next]_vars

(* Thread 0 is scheduled; the others may stop anywhere, for ever.          *)
WaitFreeSpec == Spec /\ WF_vars(Continue(0))

-----------------------------------------------------------------------------
Pcs ==
  {"idle", "rotate", "reclaim", "walkStash", "walk", "settle", "discard", "disown", "recheck", "retake",
   "acquire", "raw", "publish", "swap", "link", "faa", "claim"}

TypeOK ==
  /\ registered \in 0 .. Max /\ used \in 0 .. Count
  /\ span \in [Spans -> [owner : Ids \cup {RAW, NONE, PUBLIC}, local : SUBSET Blocks,
                         remote : SUBSET Blocks, stash : SUBSET Blocks, chain : SUBSET Blocks,
                         g : -Max .. Cardinality(Blocks), got : 0 .. Cardinality(Blocks),
                         held : SUBSET Blocks]]
  /\ lists \in [head : [Ids -> Spans \cup {NULL}], tail : [Ids -> Spans \cup {NULL}],
                len : [Ids -> 0 .. Count], next : [Spans -> Spans \cup {NULL}]]
  /\ th \in [Ids -> [pc : Pcs, cur : Spans \cup {NULL}, blk : Blocks \cup {NoBlock},
                     turn : 0 .. K + 1, fits : BOOLEAN]]

(* The spans that a walk along next_local finds in the list of t.          *)
Walked(t) == LET e == Entries(lists, t, lists.len[t]) IN {e[i] : i \in 1 .. lists.len[t]}

(* "Local list cycle/overflow", "appears in two lists", "local list length *)
(* mismatch" and "owner mismatch" of verify.rs, here at every moment: from *)
(* the head, len links lead to the tail and past it to null, through       *)
(* distinct spans of this owner that are in no other list, however         *)
(* rotation, discards, claims and publications alternate.                  *)
ListsWellFormed ==
  /\ TypeOK
  /\ \A t \in Ids :
       LET n == lists.len[t]
           e == Entries(lists, t, n + 1)
       IN /\ Cardinality(Walked(t)) = n
          /\ \A s \in Walked(t) : s \in Spans /\ span[s].owner = t
          /\ e[n + 1] = NULL
          /\ lists.tail[t] = IF n = 0 THEN NULL ELSE e[n]
  /\ \A t, u \in Ids : t # u => Walked(t) \cap Walked(u) = {}

(* A span of the pool is spent only on need: an allocation that goes to    *)
(* the pool (and there may return null) has looked at every span of its    *)
(* list, and no block is ready in any of them, provided that the list held *)
(* no more than K + 1 spans when it began (allocator.rs:438).  A longer    *)
(* list is not covered, and a block at its end is then passed over.        *)
PoolOnlyWhenDry ==
  \A t \in Ids : Pc(t) = "raw" /\ th[t].fits => \A s \in Walked(t) : span[s].local = {}

(* check_span of verify.rs:235 for a span of the class.                    *)
CheckSpan(s) ==
  LET q == Cardinality(span[s].local)
      m == Cardinality(Blocks)
  IN q <= m /\ span[s].g >= 0 /\ q + span[s].g <= m

(* What check_quiescent verifies, and what it cannot see: with no call in  *)
(* progress every initialized span is in one local list, public, or        *)
(* discarded, its counts are in range, and a discarded span has no free    *)
(* block at all, so that none is beyond reach.                             *)
QuiescentVerified ==
  (\A t \in Ids : Pc(t) = "idle") =>
    \A s \in 0 .. used - 1 :
      /\ CheckSpan(s)
      /\ \/ \E t \in Ids : span[s].owner = t /\ s \in Walked(t)
         \/ span[s].owner = PUBLIC /\ span[s].held = {}
         \/ span[s].owner = NONE /\ span[s].held = Blocks

(* Thread 0 returns from every allocation and free in its own steps,       *)
(* wherever the others have stopped: the rotation ends and nothing in it   *)
(* waits ("Bounded: K + 1 iterations", allocator.rs:437).                  *)
OperationReturns == Pc(0) # "idle" ~> Pc(0) = "idle"

-----------------------------------------------------------------------------
(* The step of SpanLedger at which thread t is with span s.                *)
LedgerPc(t, s) == IF Cur(t) = s THEN Pc(t) ELSE "idle"

Home(s) == IF span[s].owner \in Ids /\ s \in Walked(span[s].owner) THEN span[s].owner ELSE Nobody

Ledger(s) == INSTANCE SpanLedger WITH
  Threads <- Ids, StoreBuffering <- FALSE, buffered <- Nobody,
  owner <- span[s].owner, home <- Home(s),
  local <- span[s].local, remote <- span[s].remote, stash <- span[s].stash, chain <- span[s].chain,
  g <- span[s].g, got <- span[s].got, held <- span[s].held,
  pc <- [t \in Ids |-> LedgerPc(t, s)],
  blk <- [t \in Ids |-> IF Cur(t) = s THEN th[t].blk ELSE NoBlock]

(* Every span lives as SpanLedger says, whatever the threads do with the   *)
(* other spans of the class in between: the heap implements the ledger of  *)
(* each of its spans, so what is proved of SpanLedger holds of all.        *)
ImplementsLedgers ==
  /\ \A s \in Spans : Ledger(s)!Init
  /\ [][\A s \in Spans : UNCHANGED Ledger(s)!vars \/ Ledger(s)!Next]_vars
=============================================================================
