----------------------------- MODULE SpanLedger -----------------------------
(***************************************************************************)
(* The life of one small-object span: who owns it, where its blocks are,   *)
(* and the counter `g` through which remote freers and the owner agree.    *)
(* Block lists are sets here; SpanBlocks refines them to the linked lists  *)
(* of the code.  Every atomic access to the span's shared words (owner,    *)
(* remote head, g, a block's link) is a step of its own, steps on owner-   *)
(* private data are merged with the access they follow.                    *)
(*                                                                         *)
(* Sources: the small-object paths of src/allocator.rs, with src/span.rs   *)
(* and src/remote_mpsc.rs.                                                 *)
(***************************************************************************)
EXTENDS Integers, FiniteSets

CONSTANTS
  Threads,          \* registered threads
  Blocks,           \* the m blocks of the span
  RAW,              \* the span is still in the pool
  NONE,             \* OWNER_NONE: discarded
  PUBLIC,           \* OWNER_PUBLIC: in a public list, a help record or in transit
  Nobody,           \* no thread
  NoBlock,          \* the null block
  StoreBuffering    \* whether the Release store of try_discard may be delayed
                    \* past the Acquire load that follows it

ASSUME LedgerAssumption ==
  /\ IsFiniteSet(Threads)
  /\ IsFiniteSet(Blocks)
  /\ NoBlock \notin Blocks
  /\ Nobody \notin Threads
  /\ {RAW, NONE, PUBLIC} \cap Threads = {}
  /\ RAW # NONE /\ RAW # PUBLIC /\ NONE # PUBLIC
  /\ StoreBuffering \in BOOLEAN

VARIABLES
  owner,     \* the owner word in memory
  buffered,  \* the thread whose store of OWNER_NONE is not yet in memory
  home,      \* the thread whose local span-list links the span
  local,     \* blocks of the local free-list (q of them)
  remote,    \* blocks of the remote MPSC list
  stash,     \* blocks of pending_remote
  chain,     \* blocks of the chain the owner is walking
  g,         \* the remote free count
  got,       \* blocks absorbed by the refill in progress
  held,      \* blocks in the hands of the user
  pc,        \* pc[t]: the next atomic step of thread t
  blk        \* blk[t]: the block thread t is freeing

vars == <<owner, buffered, home, local, remote, stash, chain, g, got, held, pc, blk>>

(* A remote freer between its SWAP and its FAA; a block between its SWAP   *)
(* and its link store.                                                     *)
Uncounted == {t \in Threads : pc[t] \in {"link", "faa"}}
Unlinked(b) == \E t \in Threads : pc[t] = "link" /\ blk[t] = b

(* Steps of a thread that works on the span as its owner.                  *)
OwnerSteps == {"publish", "walkStash", "reclaim", "walk", "settle", "discard", "disown"}

Goto(t, l) == pc' = [pc EXCEPT ![t] = l]

(* A thread reads its own buffered store; a read-modify-write drains it.   *)
OwnerSeenBy(t) == IF buffered = t THEN NONE ELSE owner
Drained(t) == buffered # t

Init ==
  /\ owner = RAW
  /\ buffered = Nobody
  /\ home = Nobody
  /\ local = {} /\ remote = {} /\ stash = {} /\ chain = {} /\ held = {}
  /\ g = 0 /\ got = 0
  /\ pc = [t \in Threads |-> "idle"]
  /\ blk = [t \in Threads |-> NoBlock]

-----------------------------------------------------------------------------
(* alloc_with_token, step 3: a raw span is initialized for the caller,     *)
(* linked at the front of its local list, and serves the first block.      *)
InitSpan(t) ==
  /\ pc[t] = "idle"
  /\ owner = RAW
  /\ owner' = t
  /\ home' = t
  /\ \E b \in Blocks : local' = Blocks \ {b} /\ held' = {b}
  /\ UNCHANGED <<buffered, remote, stash, chain, g, got, pc, blk>>

(* alloc_with_token, step 1: pop a block of the local free-list.           *)
AllocLocal(t) ==
  /\ pc[t] = "idle"
  /\ home = t
  /\ \E b \in local : local' = local \ {b} /\ held' = held \cup {b}
  /\ UNCHANGED <<owner, buffered, home, remote, stash, chain, g, got, pc, blk>>

(* Local free-list empty: refill_from_remote starts with the stashed       *)
(* chain, if there is one.                                                 *)
RefillStart(t) ==
  /\ pc[t] = "idle"
  /\ home = t
  /\ local = {}
  /\ chain' = stash
  /\ stash' = {}
  /\ Goto(t, IF stash = {} THEN "reclaim" ELSE "walkStash")
  /\ UNCHANGED <<owner, buffered, home, local, remote, g, got, held, blk>>

(* reclaim_all: detach the live remote list.                               *)
Reclaim(t) ==
  /\ pc[t] = "reclaim"
  /\ chain' = remote
  /\ remote' = {}
  /\ Goto(t, IF remote = {} THEN "settle" ELSE "walk")
  /\ UNCHANGED <<owner, buffered, home, local, stash, g, got, held, blk>>

(* append_remote_to_local_bounded: move a linked block, ...                *)
Absorb(t) ==
  /\ pc[t] \in {"walkStash", "walk"}
  /\ \E b \in chain :
       /\ ~Unlinked(b)
       /\ chain' = chain \ {b}
       /\ local' = local \cup {b}
  /\ got' = got + 1
  /\ UNCHANGED <<owner, buffered, home, remote, stash, g, held, pc, blk>>

(* ... stop at a block whose producer has not linked it yet and stash the  *)
(* rest (the live list is then not reclaimed), ...                         *)
(* The mutant reclaims the live list although a chain is stashed.          *)
BlockedThenReclaim(t) ==
  /\ pc[t] \in {"walkStash", "walk"}
  /\ \E b \in chain : Unlinked(b)
  /\ stash' = chain
  /\ chain' = {}
  /\ Goto(t, IF pc[t] = "walkStash" THEN "reclaim" ELSE "settle")
  /\ UNCHANGED <<owner, buffered, home, local, remote, g, got, held, blk>>

Blocked(t) ==
  /\ pc[t] \in {"walkStash", "walk"}
  /\ \E b \in chain : Unlinked(b)
  /\ stash' = chain
  /\ chain' = {}
  /\ Goto(t, "settle")
  /\ UNCHANGED <<owner, buffered, home, local, remote, g, got, held, blk>>

(* ... or reach the end of the chain.                                      *)
WalkDone(t) ==
  /\ pc[t] \in {"walkStash", "walk"}
  /\ chain = {}
  /\ Goto(t, IF pc[t] = "walkStash" THEN "reclaim" ELSE "settle")
  /\ UNCHANGED <<owner, buffered, home, local, remote, stash, chain, g, got, held, blk>>

(* What the fetch_sub leaves of g.  The mutant forgets it.                 *)
GUnsubtracted == g

GSubtracted == g - got

(* Whether a rotated span is kept for its stashed chain.  The mutant lets  *)
(* try_discard have it.                                                    *)
ChainIgnored == FALSE

ChainStashed == stash # {}

(* The end of refill_from_remote and what the rotation does with it.       *)
(* Blocks were absorbed: subtract them from g and serve one.  None were:   *)
(* pop the span from the list and keep it at the back if a chain is        *)
(* stashed, else try to discard it.                                        *)
Settle(t) ==
  /\ pc[t] = "settle"
  /\ got' = 0
  /\ \/ /\ got > 0
        /\ g' = GSubtracted
        /\ \E b \in local : local' = local \ {b} /\ held' = held \cup {b}
        /\ Goto(t, "idle")
        /\ UNCHANGED home
     \/ /\ got = 0
        /\ IF ChainStashed THEN Goto(t, "idle") /\ UNCHANGED home
                         ELSE Goto(t, "discard") /\ home' = Nobody
        /\ UNCHANGED <<g, local, held>>
  /\ UNCHANGED <<owner, buffered, remote, stash, chain, blk>>

(* try_discard: the first load of g.  Not zero: the span goes back to the  *)
(* end of the local list.                                                  *)
DiscardCheck(t) ==
  /\ pc[t] = "discard"
  /\ IF g # 0 THEN Goto(t, "idle") /\ home' = t
              ELSE Goto(t, "disown") /\ UNCHANGED home
  /\ UNCHANGED <<owner, buffered, local, remote, stash, chain, g, got, held, blk>>

(* try_discard: the store of OWNER_NONE, which reaches memory at once or,  *)
(* with store buffering, possibly later.                                   *)
Disown(t) ==
  /\ pc[t] = "disown"
  /\ \/ owner' = NONE /\ UNCHANGED buffered
     \/ StoreBuffering /\ buffered' = t /\ UNCHANGED owner
  /\ Goto(t, "recheck")
  /\ UNCHANGED <<home, local, remote, stash, chain, g, got, held, blk>>

(* The buffered store reaches memory.                                      *)
Flush(t) ==
  /\ buffered = t
  /\ owner' = NONE
  /\ buffered' = Nobody
  /\ UNCHANGED <<home, local, remote, stash, chain, g, got, held, pc, blk>>

(* try_discard: the second load of g.                                      *)
Recheck(t) ==
  /\ pc[t] = "recheck"
  /\ Goto(t, IF g = 0 THEN "idle" ELSE "retake")
  /\ UNCHANGED <<owner, buffered, home, local, remote, stash, chain, g, got, held, blk>>

(* A compare-exchange of the owner word from OWNER_NONE to t; on success   *)
(* the span is linked into t's local list.  The mutant stores without      *)
(* comparing.                                                              *)
StoreOwner(t) == owner' = t /\ home' = t

ExchangeOwner(t) ==
  IF owner = NONE THEN owner' = t /\ home' = t ELSE UNCHANGED <<owner, home>>

TakeDiscarded(t) ==
  /\ Drained(t)
  /\ ExchangeOwner(t)
  /\ Goto(t, "idle")
  /\ UNCHANGED <<buffered, local, remote, stash, chain, g, got, held, blk>>

(* try_discard: a remote free landed in the window, take the span back.    *)
Retake(t) == pc[t] = "retake" /\ TakeDiscarded(t)

-----------------------------------------------------------------------------
(* q + g = m, for q blocks in the local list.  The mutant is off by one.   *)
FullButOne(n) == n + g >= Cardinality(Blocks) - 1

Full(n) == n + g = Cardinality(Blocks)

(* dealloc_with_token on the owner's side: push on the local free-list,    *)
(* then compare q + g with m.  A full span is published if the heap holds  *)
(* more than K spans of the class, which depends on its other spans.       *)
FreeLocal(t, b) ==
  /\ pc[t] = "idle"
  /\ OwnerSeenBy(t) = t
  /\ held' = held \ {b}
  /\ local' = local \cup {b}
  /\ \E l \in {"idle"} \cup (IF Full(Cardinality(local \cup {b})) THEN {"publish"} ELSE {}) :
       Goto(t, l)
  /\ UNCHANGED <<owner, buffered, home, remote, stash, chain, g, got, blk>>

(* Unlink the full span, make it PUBLIC and enqueue it.                    *)
Publish(t) ==
  /\ pc[t] = "publish"
  /\ owner' = PUBLIC
  /\ home' = Nobody
  /\ Goto(t, "idle")
  /\ UNCHANGED <<buffered, local, remote, stash, chain, g, got, held, blk>>

(* alloc_with_token, step 2: a thread that acquired the span from a public *)
(* list owns it, links it at the front and serves a block from it.         *)
Acquire(t) ==
  /\ pc[t] = "idle"
  /\ owner = PUBLIC
  /\ owner' = t
  /\ home' = t
  /\ \E b \in local : local' = local \ {b} /\ held' = held \cup {b}
  /\ UNCHANGED <<buffered, remote, stash, chain, g, got, pc, blk>>

(* dealloc_with_token by a thread that does not see itself as the owner.   *)
FreeRemote(t, b) ==
  /\ pc[t] = "idle"
  /\ OwnerSeenBy(t) # t
  /\ held' = held \ {b}
  /\ blk' = [blk EXCEPT ![t] = b]
  /\ Goto(t, "swap")
  /\ UNCHANGED <<owner, buffered, home, local, remote, stash, chain, g, got>>

(* push_publish: mark the block UNLINKED and swap it in as the new head.   *)
PushPublish(t) ==
  /\ pc[t] = "swap"
  /\ Drained(t)
  /\ remote' = remote \cup {blk[t]}
  /\ Goto(t, "link")
  /\ UNCHANGED <<owner, buffered, home, local, stash, chain, g, got, held, blk>>

(* push_link: link the block to the old head.                              *)
PushLink(t) ==
  /\ pc[t] = "link"
  /\ Goto(t, "faa")
  /\ UNCHANGED <<owner, buffered, home, local, remote, stash, chain, g, got, held, blk>>

(* dealloc_remote: count the block; whoever moves g from 0 to 1 tries to   *)
(* claim the span.                                                         *)
CountRemote(t) ==
  /\ pc[t] = "faa"
  /\ g' = g + 1
  /\ Goto(t, IF g = 0 THEN "claim" ELSE "idle")
  /\ blk' = [blk EXCEPT ![t] = NoBlock]
  /\ UNCHANGED <<owner, buffered, home, local, remote, stash, chain, got, held>>

Claim(t) == pc[t] = "claim" /\ TakeDiscarded(t)

-----------------------------------------------------------------------------
(* The steps that carry on an operation already begun.                     *)
Continue(t) ==
  \/ Reclaim(t) \/ Absorb(t) \/ Blocked(t) \/ WalkDone(t) \/ Settle(t)
  \/ DiscardCheck(t) \/ Disown(t) \/ Recheck(t) \/ Retake(t)
  \/ Publish(t)
  \/ PushPublish(t) \/ PushLink(t) \/ CountRemote(t) \/ Claim(t)

(* The steps that begin one.                                               *)
Begin(t) ==
  \/ InitSpan(t) \/ AllocLocal(t) \/ RefillStart(t) \/ Acquire(t)
  \/ \E b \in held : FreeLocal(t, b) \/ FreeRemote(t, b)

Next == \E t \in Threads : Begin(t) \/ Continue(t) \/ Flush(t)

Spec == Init /\ [][Next]_vars

-----------------------------------------------------------------------------
Pcs == OwnerSteps \cup {"idle", "recheck", "retake", "swap", "link", "faa", "claim"}

TypeOK ==
  /\ owner \in Threads \cup {RAW, NONE, PUBLIC}
  /\ buffered \in Threads \cup {Nobody}
  /\ home \in Threads \cup {Nobody}
  /\ local \subseteq Blocks /\ remote \subseteq Blocks /\ stash \subseteq Blocks
  /\ chain \subseteq Blocks /\ held \subseteq Blocks
  /\ g \in Int /\ got \in Nat
  /\ pc \in [Threads -> Pcs]
  /\ blk \in [Threads -> Blocks \cup {NoBlock}]

(* Blocks in the shared or detached lists, freed but not yet absorbed.     *)
Freed == remote \cup stash \cup chain

(* Blocks taken from the user by a freer that has not swapped them in yet. *)
InSwap == {blk[t] : t \in {u \in Threads : pc[u] = "swap"}}

(* No block is lost or in two places: once the span is initialized every   *)
(* block is in exactly one of the local list, the remote list, the stash,  *)
(* the chain being walked, the hands of the user, or the hands of one      *)
(* freer.                                                                  *)
BlocksPartitioned ==
  /\ owner # RAW => local \cup Freed \cup held \cup InSwap = Blocks
  /\ local \cap (Freed \cup held \cup InSwap) = {}
  /\ remote \cap (stash \cup chain \cup held \cup InSwap) = {}
  /\ stash \cap (chain \cup held \cup InSwap) = {}
  /\ chain \cap (held \cup InSwap) = {}
  /\ held \cap InSwap = {}
  /\ \A t, u \in Threads :
       t # u /\ pc[t] \in {"swap", "link"} /\ pc[u] \in {"swap", "link"} => blk[t] # blk[u]

(* The meaning of g: the freed blocks not yet subtracted by the owner,     *)
(* less those whose producer has not counted them yet.  This is what q + g *)
(* = m in dealloc_local and g = 0 in try_discard rely on.                  *)
GCountsFreedBlocks ==
  g = Cardinality(Freed) + got - Cardinality(Uncounted)

(* One owner at a time: whoever links the span or is in the middle of an   *)
(* owner's step is the owner in memory, and it is the only one.            *)
OwnerExclusive ==
  \A t \in Threads :
    /\ home = t => owner = t
    /\ pc[t] \in OwnerSteps =>
         /\ owner = t
         /\ \A u \in Threads \ {t} : home # u /\ pc[u] \notin OwnerSteps

(* Every block is free, counted, and one of them is in the local list.     *)
FullAndQuiet == local # {} /\ local \cup Freed = Blocks /\ Uncounted = {} /\ held = {}

(* Only a full span is public, with nobody still freeing into it and a     *)
(* block ready in the local list: the acquirer of allocator.rs:491 never   *)
(* needs the refill of line 496.                                           *)
PublicIsFull == owner = PUBLIC => FullAndQuiet

(* "A discarded span is in no list and has owner == OWNER_NONE; the first  *)
(* remote free whose FAA moves g from 0 to 1 claims it" (invariants.md 29, *)
(* try_discard's comments at allocator.rs:764 and 766): a discarded span   *)
(* with a counted free block always has a thread about to take it.         *)
DiscardedIsClaimed ==
  owner = NONE /\ g > 0 => \E t \in Threads : pc[t] \in {"recheck", "retake", "claim"}

(* A span leaves its owner through try_discard with nothing in its local   *)
(* list, no chain stashed and none being walked (the contract stated at    *)
(* allocator.rs:745 and asserted at 755), so a block freed later is all    *)
(* that the next owner has to find.                                        *)
DiscardedIsExhausted ==
  owner = NONE \/ buffered # Nobody \/ (\E t \in Threads : pc[t] \in {"discard", "disown"}) =>
    local = {} /\ stash = {} /\ chain = {} /\ got = 0

(* A span in a thread's hands is in its list, unless a step of the owner   *)
(* is deciding where it goes: a span that is neither linked, public, raw   *)
(* nor discarded could never be reused.                                    *)
OwnedIsListed ==
  owner \in Threads /\ home = Nobody =>
    pc[owner] \in {"discard", "disown"} \/ buffered = owner

-----------------------------------------------------------------------------
(* The inductive invariant, in layers.  Who may touch the span: a buffered *)
(* store keeps its thread the owner in memory and out of the owner's       *)
(* steps, and the program counters say whether the span is linked.         *)
OwnershipInv ==
  /\ TypeOK
  /\ OwnerExclusive
  /\ OwnedIsListed
  /\ \A t \in Threads :
       /\ buffered = t => owner = t /\ home = Nobody /\ pc[t] \notin OwnerSteps
       /\ pc[t] \in {"publish", "walkStash", "reclaim", "walk", "settle"} => home = t
       /\ pc[t] \in {"discard", "disown"} => home = Nobody

(* Where the blocks are: a chain is detached only under a walk, a stash is *)
(* never overwritten, a block that is not linked yet is in one of the      *)
(* lists, and an uninitialized span has no blocks and no visitors.         *)
PlacementInv ==
  /\ BlocksPartitioned
  /\ chain # {} => \E t \in Threads : pc[t] \in {"walkStash", "walk"}
  /\ \A t \in Threads :
       /\ pc[t] \in {"walkStash", "walk", "reclaim"} => stash = {}
       /\ pc[t] = "link" => blk[t] \in Freed
       /\ pc[t] \in {"swap", "link", "faa"} => blk[t] \in Blocks
  /\ owner = RAW =>
       /\ local = {} /\ Freed = {} /\ held = {}
       /\ \A t \in Threads : pc[t] = "idle"

(* What the counter decides: absorbed blocks not yet subtracted belong to  *)
(* a refill in progress, whose local list holds nothing else, and a span   *)
(* about to be published is full.                                          *)
Refilling(t) == pc[t] \in {"walkStash", "reclaim", "walk", "settle"}

UsageInv ==
  /\ got > 0 => \E t \in Threads : Refilling(t)
  /\ \A t \in Threads :
       /\ Refilling(t) /\ got = 0 => local = {}
       /\ pc[t] = "publish" => FullAndQuiet
  /\ PublicIsFull
  /\ DiscardedIsExhausted

CountingInv == GCountsFreedBlocks /\ UsageInv

LedgerInv == OwnershipInv /\ PlacementInv /\ CountingInv
=============================================================================
