----------------------------- MODULE SpanBlocks -----------------------------
(***************************************************************************)
(* The free lists of one span as the code lays them out: links inside the  *)
(* blocks, the local list head with its count q, the head of the remote    *)
(* MPSC list, the stashed chain and the cursor of the walk.  A remote free *)
(* swaps its block in as the head before it links it to the old head, so   *)
(* a chain may end at an UNLINKED block for a while.                       *)
(*                                                                         *)
(* Sources: src/local_list.rs, src/remote_mpsc.rs, src/block.rs,           *)
(* src/span.rs and the small-object paths of src/allocator.rs.  The owner  *)
(* word and the steps are those of SpanLedger, which this module refines.  *)
(***************************************************************************)
EXTENDS Integers, FiniteSets

CONSTANTS
  Threads,   \* registered threads
  M,         \* block_count: blocks of the span
  RAW, NONE, PUBLIC, Nobody,
  NULL,      \* the null link
  UNLINKED,  \* the link of a block between its SWAP and its link store
  USER       \* the first word of a block while the user has it

ASSUME BlocksAssumption == M \in Nat \ {0}

Blocks == 1 .. M
Links == Blocks \cup {NULL, UNLINKED, USER}

VARIABLES
  owner, home, g, got, held, pc, blk,   \* as in SpanLedger
  next,        \* next[b]: the first word of block b
  localHead,   \* local.free
  q,           \* local.free_count
  remoteHead,  \* remote.free
  pending,     \* local.pending_remote
  cur,         \* the cursor of append_remote_to_local_bounded
  appended,    \* the blocks it has appended so far
  old          \* old[t]: the head that thread t's SWAP returned

vars == <<owner, home, g, got, held, pc, blk, next, localHead, q, remoteHead, pending, cur, appended, old>>

lists == <<next, localHead, q, remoteHead, pending, cur, appended, old>>

Goto(t, l) == pc' = [pc EXCEPT ![t] = l]

Init ==
  /\ owner = RAW /\ home = Nobody
  /\ g = 0 /\ got = 0 /\ held = {}
  /\ pc = [t \in Threads |-> "idle"]
  /\ blk = [t \in Threads |-> NULL]
  /\ next = [b \in Blocks |-> USER]
  /\ localHead = NULL /\ q = 0
  /\ remoteHead = NULL
  /\ pending = NULL
  /\ cur = NULL /\ appended = 0
  /\ old = [t \in Threads |-> NULL]

(* The count of a local list of n blocks after a pop.  The mutant leaves   *)
(* it alone.                                                               *)
CountUnpopped(n) == n

CountPopped(n) == n - 1

(* alloc_from_local_span on a non-empty list h of n blocks linked by nx:   *)
(* the block leaves the list and its first word becomes the user's.        *)
Pop(nx, h, n) ==
  /\ localHead' = nx[h]
  /\ next' = [nx EXCEPT ![h] = USER]
  /\ q' = CountPopped(n)
  /\ held' = held \cup {h}

-----------------------------------------------------------------------------
(* init_span: block i links to block i + 1; the first block is served.     *)
InitSpan(t) ==
  /\ pc[t] = "idle"
  /\ owner = RAW
  /\ owner' = t /\ home' = t
  /\ Pop([b \in Blocks |-> IF b = M THEN NULL ELSE b + 1], 1, M)
  /\ UNCHANGED <<g, got, pc, blk, remoteHead, pending, cur, appended, old>>

AllocLocal(t) ==
  /\ pc[t] = "idle"
  /\ home = t
  /\ localHead # NULL
  /\ Pop(next, localHead, q)
  /\ UNCHANGED <<owner, home, g, got, pc, blk, remoteHead, pending, cur, appended, old>>

(* Where the count of a walk starts.  The mutant carries the last one on.  *)
LastCount == appended

FreshCount == 0

(* refill_from_remote (a): take the stashed chain.                         *)
RefillStart(t) ==
  /\ pc[t] = "idle"
  /\ home = t
  /\ localHead = NULL
  /\ pending' = NULL
  /\ cur' = pending /\ appended' = FreshCount
  /\ Goto(t, IF pending = NULL THEN "reclaim" ELSE "walkStash")
  /\ UNCHANGED <<owner, home, g, got, held, blk, next, localHead, q, remoteHead, old>>

(* What reclaim_all leaves as the remote head.  The mutant only reads it.  *)
RemoteUnreclaimed == remoteHead

RemoteReclaimed == NULL

(* refill_from_remote (b): reclaim_all swaps the remote head with null.    *)
Reclaim(t) ==
  /\ pc[t] = "reclaim"
  /\ remoteHead' = RemoteReclaimed
  /\ cur' = remoteHead /\ appended' = FreshCount
  /\ Goto(t, IF remoteHead = NULL THEN "settle" ELSE "walk")
  /\ UNCHANGED <<owner, home, g, got, held, blk, next, localHead, q, pending, old>>

(* The block under the cursor can be taken: its producer has linked it.    *)
Linked == next[cur] # UNLINKED

(* append_remote_to_local_bounded: one iteration.                          *)
Absorb(t) ==
  /\ pc[t] \in {"walkStash", "walk"}
  /\ cur # NULL /\ appended < M
  /\ Linked
  /\ next' = [next EXCEPT ![cur] = localHead]
  /\ localHead' = cur
  /\ q' = q + 1
  /\ appended' = appended + 1 /\ got' = got + 1
  /\ cur' = next[cur]
  /\ UNCHANGED <<owner, home, g, held, pc, blk, remoteHead, pending, old>>

(* What is left of the chain after the walk.  The mutant drops it.         *)
LeftoverDropped == NULL

Leftover == cur

(* The walk ends at an UNLINKED block, at the bound or at null; what is    *)
(* left is stashed.  A leftover of the stashed chain ends the refill.      *)
WalkEnd(t) ==
  /\ pc[t] \in {"walkStash", "walk"}
  /\ cur # NULL /\ appended < M => ~Linked
  /\ pending' = Leftover
  /\ cur' = NULL
  /\ Goto(t, IF pc[t] = "walkStash" /\ cur = NULL THEN "reclaim" ELSE "settle")
  /\ UNCHANGED <<owner, home, g, got, held, blk, next, localHead, q, remoteHead, appended, old>>

(* fetch_sub of the absorbed blocks and a second pop, or rotation.         *)
Settle(t) ==
  /\ pc[t] = "settle"
  /\ got' = 0
  /\ \/ /\ got > 0
        /\ g' = g - got
        /\ Pop(next, localHead, q)
        /\ Goto(t, "idle")
        /\ UNCHANGED home
     \/ /\ got = 0
        /\ IF pending # NULL THEN Goto(t, "idle") /\ UNCHANGED home
                             ELSE Goto(t, "discard") /\ home' = Nobody
        /\ UNCHANGED <<g, held, next, localHead, q>>
  /\ UNCHANGED <<owner, blk, remoteHead, pending, cur, appended, old>>

-----------------------------------------------------------------------------
(* try_discard: load g, store OWNER_NONE, load g again, take back.         *)
DiscardCheck(t) ==
  /\ pc[t] = "discard"
  /\ IF g # 0 THEN Goto(t, "idle") /\ home' = t
              ELSE Goto(t, "disown") /\ UNCHANGED home
  /\ UNCHANGED <<owner, g, got, held, blk, lists>>

Disown(t) ==
  /\ pc[t] = "disown"
  /\ owner' = NONE
  /\ Goto(t, "recheck")
  /\ UNCHANGED <<home, g, got, held, blk, lists>>

(* The second load of g decides.                                           *)
FreedMeanwhile == g # 0

Recheck(t) ==
  /\ pc[t] = "recheck"
  /\ Goto(t, IF FreedMeanwhile THEN "retake" ELSE "idle")
  /\ UNCHANGED <<owner, home, g, got, held, blk, lists>>

TakeDiscarded(t) ==
  /\ pc[t] \in {"retake", "claim"}
  /\ IF owner = NONE THEN owner' = t /\ home' = t ELSE UNCHANGED <<owner, home>>
  /\ Goto(t, "idle")
  /\ UNCHANGED <<g, got, held, blk, lists>>

-----------------------------------------------------------------------------
(* dealloc_local: LocalFreeList::push, q + 1, then q + g against m.        *)
FreeLocal(t, b) ==
  /\ pc[t] = "idle"
  /\ owner = t
  /\ held' = held \ {b}
  /\ next' = [next EXCEPT ![b] = localHead]
  /\ localHead' = b
  /\ q' = q + 1
  /\ \E l \in {"idle"} \cup (IF q' + g = M THEN {"publish"} ELSE {}) : Goto(t, l)
  /\ UNCHANGED <<owner, home, g, got, blk, remoteHead, pending, cur, appended, old>>

Publish(t) ==
  /\ pc[t] = "publish"
  /\ owner' = PUBLIC
  /\ home' = Nobody
  /\ Goto(t, "idle")
  /\ UNCHANGED <<g, got, held, blk, lists>>

Acquire(t) ==
  /\ pc[t] = "idle"
  /\ owner = PUBLIC
  /\ owner' = t /\ home' = t
  /\ localHead # NULL
  /\ Pop(next, localHead, q)
  /\ UNCHANGED <<g, got, pc, blk, remoteHead, pending, cur, appended, old>>

FreeRemote(t, b) ==
  /\ pc[t] = "idle"
  /\ owner # t
  /\ held' = held \ {b}
  /\ blk' = [blk EXCEPT ![t] = b]
  /\ Goto(t, "swap")
  /\ UNCHANGED <<owner, home, g, got, lists>>

(* The mark that push_publish leaves in the block.  The mutant ends the    *)
(* list there.                                                             *)
MarkNull == NULL

Mark == UNLINKED

(* push_publish.                                                           *)
PushPublish(t) ==
  /\ pc[t] = "swap"
  /\ old' = [old EXCEPT ![t] = remoteHead]
  /\ remoteHead' = blk[t]
  /\ next' = [next EXCEPT ![blk[t]] = Mark]
  /\ Goto(t, "link")
  /\ UNCHANGED <<owner, home, g, got, held, blk, localHead, q, pending, cur, appended>>

(* push_link.                                                              *)
PushLink(t) ==
  /\ pc[t] = "link"
  /\ next' = [next EXCEPT ![blk[t]] = old[t]]
  /\ Goto(t, "faa")
  /\ old' = [old EXCEPT ![t] = NULL]
  /\ UNCHANGED <<owner, home, g, got, held, blk, localHead, q, remoteHead, pending, cur, appended>>

(* The FAA returned 0.  The mutant takes the second count for the first.   *)
SecondCounted == g = 1

FirstCounted == g = 0

CountRemote(t) ==
  /\ pc[t] = "faa"
  /\ g' = g + 1
  /\ Goto(t, IF FirstCounted THEN "claim" ELSE "idle")
  /\ blk' = [blk EXCEPT ![t] = NULL]
  /\ UNCHANGED <<owner, home, got, held, lists>>

(* The steps that carry on an operation already begun, and the others.     *)
Continue(t) ==
  \/ Reclaim(t) \/ Absorb(t) \/ WalkEnd(t) \/ Settle(t)
  \/ DiscardCheck(t) \/ Disown(t) \/ Recheck(t) \/ TakeDiscarded(t)
  \/ Publish(t) \/ PushPublish(t) \/ PushLink(t) \/ CountRemote(t)

Begin(t) ==
  \/ InitSpan(t) \/ AllocLocal(t) \/ RefillStart(t) \/ Acquire(t)
  \/ \E b \in held : FreeLocal(t, b) \/ FreeRemote(t, b)

Next == \E t \in Threads : Begin(t) \/ Continue(t)

Spec == Init /\ [][Next]_vars

(* A call in progress is not abandoned: each thread keeps taking the steps *)
(* of the operation it is in.  Whether it calls again is up to the user.   *)
FairSpec == Spec /\ \A t \in Threads : WF_vars(Continue(t))

-----------------------------------------------------------------------------
(* The successor of a block in a remote chain: the link in memory or, while *)
(* its producer is between SWAP and link, the head the SWAP returned.       *)
Successor(b) ==
  IF next[b] = UNLINKED
    THEN old[CHOOSE t \in Threads : pc[t] = "link" /\ blk[t] = b]
    ELSE next[b]

(* The first k blocks of the list that starts at h.                        *)
Prefix(h, k) ==
  LET step[i \in 0 .. k] == IF i = 0 THEN [at |-> h, seen |-> {}]
                            ELSE LET p == step[i - 1]
                                 IN IF p.at \in Blocks
                                      THEN [at |-> Successor(p.at), seen |-> p.seen \cup {p.at}]
                                      ELSE p
  IN step[k]

Reached(h) == Prefix(h, M).seen

TypeOK ==
  /\ next \in [Blocks -> Links]
  /\ {localHead, remoteHead, pending, cur} \cup {old[t] : t \in Threads} \subseteq Blocks \cup {NULL}
  /\ q \in 0 .. M /\ appended \in 0 .. M /\ got \in 0 .. M

(* The local free-list is what verify.rs:253 walks: q blocks, all          *)
(* distinct, null-terminated, and with no UNLINKED link in it, although    *)
(* blocks arrive in it from chains whose producers may be stalled.         *)
LocalListWellFormed ==
  /\ TypeOK
  /\ Prefix(localHead, M).at = NULL
  /\ Cardinality(Reached(localHead)) = q
  /\ \A b \in Reached(localHead) : next[b] # UNLINKED

(* Every chain ends in null, never in a block of another list, in user     *)
(* data or in itself: reclaim, stash and a producer's late link store      *)
(* never cross two lists.                                                  *)
ChainsTerminate == \A h \in {remoteHead, pending, cur} : Prefix(h, M).at = NULL

(* The allocator never writes into a block the user holds: a late link     *)
(* store of a remote freer cannot land in a block that was reclaimed and   *)
(* handed out again.                                                       *)
UserDataIntact == \A b \in held : next[b] = USER

(* The walk is bounded by the number of blocks, and the bound of           *)
(* remote_mpsc.rs:95 never cuts a chain short: when it stops at the bound  *)
(* there is nothing left.                                                  *)
WalkBoundIsEnough ==
  appended = M /\ (\E t \in Threads : pc[t] \in {"walkStash", "walk"}) => cur = NULL

(* The linked lists implement the ledger.                                  *)
Ledger == INSTANCE SpanLedger WITH
  buffered <- Nobody, StoreBuffering <- FALSE, NoBlock <- NULL,
  local <- Reached(localHead), remote <- Reached(remoteHead),
  stash <- Reached(pending), chain <- Reached(cur)

(* Each step on the lists is a step of the ledger or changes nothing in    *)
(* it: no block is lost, duplicated or moved to a place the ledger does    *)
(* not allow, and the guards on list heads decide as the ledger's do.      *)
ImplementsLedger == Ledger!Spec

(* With sequentially consistent accesses the promise of try_discard holds  *)
(* (allocator.rs:764) and freed memory comes back: once a block of a       *)
(* discarded span is freed, some thread eventually owns the span again,    *)
(* although each of the freers and the discarder tries its                 *)
(* compare-exchange only once.                                             *)
DiscardedIsReused == (owner = NONE /\ remoteHead # NULL) ~> owner # NONE
=============================================================================
