# wfspan verification

TLA+ models of the `wf_alloc` crate (a wait-free span allocator), the TLC runs
that check them on small instances, and TLAPS proofs for the parts that are
proved for every instance. `PROJECT.json` lists the components, the runs, the
mutated definitions each property is tested against, the source lines behind
every definition, the hazards and the findings.

## The system

Memory is a fixed region cut into `SPAN_SIZE` spans. Three tiers share it:

| part | source | state | operations |
|---|---|---|---|
| span pool | `pagemap.rs` | bump counter `next` | carve one span (FAA), carve a run (FAA, one rollback CAS) |
| small spans | `allocator.rs`, `span.rs`, `local_list.rs`, `remote_mpsc.rs`, `block.rs` | owner word, local list and `q`, remote MPSC list and `g`, stash | alloc, local free, remote free, refill, discard, claim, publish |
| public lists | `spmc_span_list.rs`, `tagged.rs`, `atomic_backend.rs` | nodes, links, versioned head | enqueue by the owner, one-shot pop (CAS2) |
| helping | `acquire.rs`, `help_record.rs` | one record per thread and class, query and help positions | publish a request, help, query, reclaim, stash |
| large runs | `large.rs`, `heap.rs` | run headers, local and public run lists | alloc with escalation to larger classes, free with limit K |
| thread heaps | `heap.rs`, `thread.rs`, `allocator.rs` | registered threads, private span lists (head, tail, length) | register, rotate, append, remove, publish |
| huge runs | `huge.rs` | directory of slots (EMPTY, FREE, ALLOCATED; base) | claim, carve, hand back, free by address |
| hosted wrapper | `global.rs` | shards, token cells, TLS, creation and service locks | bind, alloc, create and link a shard, realloc, free, thread exit |
| layout arithmetic | `size_class.rs`, `align.rs`, parts of the files above | none | class of a layout, place of a payload, span of a pointer |
| support | `metadata.rs`, `region.rs`, `stats.rs`, `verify.rs`, `config.rs` | | set-up, counters, checks at quiescence |

An allocation of a small block tries the thread's own spans of the class
(refilling a span from its remote list, discarding it when that brings
nothing), then the public lists of all threads through the helping protocol,
then the pool. A free goes to the local list if the caller owns the span and to
the remote list otherwise; a span that becomes full is published, and a remote
free into a discarded span may claim it. No operation retries a failed CAS.

What makes this hard: every shared word is accessed by one-shot atomics that
may lose; a remote freer can stall between the SWAP, the link store and the
count; the owner word changes under a freer that has already read it; a node
that a popper has loaded can leave its list and enter another; a helper may
complete a request that its owner has given up; a carve that does not fit
advances the counter before it can take that back; a thread gives its token
away before it has the next one.

## Modules

| module | models | abstracts |
|---|---|---|
| `SpanPool` | the pool, one step per atomic access | addresses are indices; `count` is constant after `set_region` |
| `SpanLedger` | one small span: owner, home list, `g`, and where each block is | lists are sets |
| `SpanBlocks` | the same span with the linked lists, `UNLINKED`, the stash and the bounded walk | `q` and `m` small; refines `SpanLedger` |
| `SpanQueue` | what the public lists promise: one queue of spans per thread | |
| `SpmcSpanList` | nodes, links, versioned heads, node migration, torn loads, spurious failures | versions bounded; refines `SpanQueue` up to the first misread |
| `HelpAcquire` | the acquisition protocol of one class, one step per access to a record or list | lists are queues; a stale pop fails or answers Empty |
| `ThreadHeap` | several spans of one class under several threads: registration, the linked private lists, the rotation, and every step of the small path | block lists are sets; the public lists are one set; refines one `SpanLedger` per span |
| `Layouts` | the arithmetic: classes, rounding, region, path of a layout at its allocation and at its free, place of a payload, hosted header, metadata rows | sizes and addresses are natural numbers |
| `LargeRuns` | the large path over `SpanPool` (instantiated), for layouts of `Layouts` | public run lists are sets; a call to the helping protocol is one step |
| `HugeArena` | the slot directory over `SpanPool` (instantiated), with the payload addresses of `Layouts` | a run is named by the index of its first span |
| `HostedGlobal` | shards and the steps that create and link them, tokens, TLS binding, frees, thread exit | a call into a core serves or fails freely |
| `SpanPoolProofs` | theorems about `SpanPool` | |
| `SpanLedgerProofs` | theorems about `SpanLedger` | |
| `SpmcSpanListProofs` | theorems about `SpmcSpanList`, with the refinement of `SpanQueue` | |
| `HelpAcquireProofs` | theorems about `HelpAcquire` | |
| `LayoutsProofs` | theorems about `Layouts` | |
| `LargeRunsProofs` | theorems about `LargeRuns`, from `SpanPoolProofs` and `LayoutsProofs` | |
| `HugeArenaProofs` | theorems about `HugeArena`, from `SpanPoolProofs` and `LayoutsProofs` | |
| `HostedGlobalProofs` | theorems about `HostedGlobal` | |

`MC*` modules add the symmetry sets and constant definitions for TLC.

Granularity. Each atomic access to a word that other threads use is a step;
owner-private work is merged into the access it follows. In `SpanLedger` a
thread's program counter names the access it does next: `RefillStart`,
`Reclaim`, `Absorb`, `Blocked`, `WalkDone` and `Settle` are
`refill_from_remote`; `DiscardCheck`, `Disown`, `Recheck`, `Retake` are
`try_discard`; `FreeRemote`, `PushPublish`, `PushLink`, `CountRemote`, `Claim`
are `dealloc_remote`. `SpanBlocks` keeps the names and adds the pointers;
`ThreadHeap` keeps them for every span and adds `Register`, `Rotate`,
`AcquirePublic`, `MissPublic` and `TakeRaw`, the loop around them. In
`HostedGlobal` the creation of a shard is `LockCreate`, one `ObtainPart` for
each of the four allocations, `BuildShard` and `LinkShard`, or `CreateFailed`,
which gives back what was obtained.

Callers. The models let callers do what the safety contracts allow: a block is
freed once, by any thread, and not while a `realloc` of it is in progress.

## Runs

| run | asks | instance |
|---|---|---|
| `pool` | is each span handed out once, is the waste bounded, are rollbacks safe | 3 threads, 5 spans, runs of 1, 2, 4, 7 |
| `ledger` | are blocks neither lost nor doubled, is there one owner, does `g` count | 4 threads, 4 blocks, delayed owner store |
| `ledger_store_buffering` | violation: a discarded span is left unclaimed | 3 threads, 3 blocks |
| `blocks` | are the lists well formed, is user data untouched, do they implement the ledger, is a discarded span reused | 3 threads, 3 blocks |
| `heap` | are the private lists well formed, does each span follow its ledger, is the pool used only on need, does an operation return | 2 threads, 2 spans of 2 blocks, K = 1 |
| `spmc` | are spans exclusive and nodes conserved and do the nodes implement queues until a popper loads a wrong span, and what does that take | 2 threads, 2 spans, LL/SC |
| `spmc_reuse` | violation: two threads hold one span | 2 threads, strong CAS2 |
| `help` | is no span dropped or doubled, does a call return by itself | 2 threads, 2 spans, LL/SC |
| `huge` | are claims exclusive, runs disjoint, frees routed to their slot | 2 threads, 3 classes of 2 slots, 3 spans of 16 bytes, 3 layouts |
| `large` | is every run in one place and filed by its class, is every span accounted for, is every class and every placement right, is every layout freed on the path that serves it | 2 threads, 3 classes, K = 1, 4 spans of 16 bytes, 3 layouts; the arithmetic for 1057 layouts |
| `hosted` | is every token returned exactly once, are tokens shared only after a failed move, no shard or part of one lost | 3 threads, 2 shards of 2 tokens |
| `hosted_tokens` | violation: two threads use one token | 3 threads, shards of 1 token |

Bounds. `MaxNext` lets the counter pass the end of the region by more than two
overshooting carves. In `pool` the run of 7 never fits and the run of 4 fits
once. Four blocks let one be held, one be in the remote list, one in the stash
and one local at the same time; four threads are an owner, two freers and a
claimer. `MaxVersion` = 3 lets each list be popped three times, so that a node
goes through both lists and comes back while a popper is stalled. `MaxPhase` =
2 lets a late helper meet the next request of the same thread. With three
threads and two user tokens the new shard can be filled before the thread that
created it gets there. In `heap` two spans let
one be discarded, claimed or published while the other is in the list, and the
rotation, with K = 1, runs out of turns. A list never exceeds K + 1 spans then,
so the longer lists that `PoolOnlyWhenDry` excepts do not occur. The spans of `large`
and `huge` are scaled down (16 bytes, region off the span boundary) so that a
request can need a larger run for its size, for its alignment inside a span and
for an alignment above that of a run. Symmetry is used for safety runs over interchangeable
threads, blocks and spans, and nowhere a temporal property is checked, except
for the action property of `pool` and the action property and the refinement of
`spmc`, which do not name a thread or a span.

Deadlock is checked where the models cannot stop (`blocks`, `hosted`). The
others stop at a bound, or (`ledger`) in a state in which the span is lost.

Fairness. `blocks` assumes that a thread which has begun an operation keeps
taking its steps (weak fairness of `Continue(t)`); nothing obliges it to call
again. `help` and `heap` assume it for thread 0 alone: `CallReturns` and
`OperationReturns` say that thread 0 returns in its own steps wherever the other
thread stops, which is what wait-freedom means and what the loop bounds of
`acquire.rs` and `allocator.rs` are for.

## What is proved

`SpanPoolProofs` proves, for every set of threads, every region size and every
set of run sizes:

- `PoolInvariant`: `Spec => []PoolInv`, the inductive invariant;
- `PoolHandsOutOnce`: no span is given to two callers, none past the end;
- `PoolWasteBounded`: the clause on exhaustion in the comment of
  `acquire_raw_run`;
- `PoolRollbackSafe`: a rollback returns only spans nobody has.

`HandedOutOnce` alone is not inductive: a rollback could lower the counter
below spans that were handed out. `PoolInv` adds that an outstanding carve ends
past the region and at or below the counter, that outstanding carves are
disjoint, and that at the start of an outstanding carve exactly the spans below
had been handed out. While a carve is outstanding the counter is therefore past
the end and nobody else is served; only the topmost carve can roll back, to a
counter at which the hand-out was contiguous. The only assumption is
`PoolAssumption` (sizes are naturals, runs are not empty). `MaxNext`, the bound
of the guards, is an arbitrary natural in the proof.

`SpanLedgerProofs` proves, for every finite set of threads and blocks, and
whether or not the store of `OWNER_NONE` is delayed:

- `LedgerInvariant`: `Spec => []LedgerInv`, the inductive invariant;
- `SingleOwner`, `NoBlockLost`, `CounterMeaning`, `PublishedSpanIsFull`,
  `DiscardedSpanIsExhausted`: the five properties of the `ledger` run (`OwnerExclusive`, `BlocksPartitioned`,
  `GCountsFreedBlocks`, `PublicIsFull`, `DiscardedIsExhausted`);
- `DiscardedSpanIsClaimed`: `Spec => []DiscardedIsClaimed` when
  `StoreBuffering` is false. The run `ledger_store_buffering` violates the same
  formula with the store delayed, so among the behaviours modelled (all other
  accesses are interleaved) the delay is the only cause.

`LedgerInv` has three layers. `OwnershipInv` ties the program counters to the
owner and home words: the owner word changes hands only through `RAW`, `NONE`
or `PUBLIC`, so whoever is inside an owner's operation stays the owner.
`PlacementInv` adds when a chain is detached, when the stash is empty and where
a block is before it is linked; without it a refill could overwrite a stash.
`CountingInv` adds the meaning of `g` and what follows from it. Its heart is
the lemma `FullIsExact`: the owner has nothing absorbed and unsubtracted when
it tests `q + g = m`, the local and the freed blocks are disjoint, so equality
leaves no uncounted freer and no block with a user. The first two layers are
inductive together and do not need the third. The only assumption is
`LedgerAssumption` (finite sets, distinct owner words).

`LayoutsProofs` proves, for every geometry, region and set of layouts:

- `PlacementIsSound`: `PlacementSound`, the constant part of `PayloadsPlaced` in
  the `large` run. Every
  span of the region lies in the memory given to `init`; every block of a span
  lies behind the header, inside the span and aligned, and `span_from_ptr` of
  any byte of it is the span; a large payload and its hidden header lie inside
  the run, behind the reserve; a huge payload lies inside the run of any slot of
  its class or a larger one; the hosted header fits before the user pointer,
  passes `validate_header`, and is found again by the free;
- `MetadataRowsDisjoint`: the heaps and help records of `metadata_offsets` are
  aligned and disjoint for every number of threads;
- `LargeClassHolds`, `HugeClassHolds`: what the class computations promise.

`LayoutsAssumption` states that the constants are positive and that the header
sizes are multiples of their alignments. `PowersAssumption` states of `2^n` what
the provers do not know: it is positive and monotone, and the blocks of the
small classes divide a span. `AllLayoutsAssumption` says that alignments are
positive and that of two alignments one divides the other, as powers of two do.
TLC evaluates all three on the instances. That the classes are the smallest ones
(`ClassesMatchReference`, part of `ServedFromClass`) is checked by TLC only.

`HugeArenaProofs` proves, for every set of threads, every directory, region and
set of layouts, `HugeInvariant` (`Spec => []HugeInv`) and from it the four
properties of the `huge` run: `HugeClaimsExclusive`, `HugeStateTellsBase`,
`HugeRunsDisjoint` and `HugeFreeFindsItsSlot`. `HugeInv` joins the invariant of
the pool, which comes from the step lemmas of `SpanPoolProofs`, with four layers:
who may hold an ALLOCATED slot (`ClaimInv`), where a scan may be (`ScanInv`),
that a slot between claim and record has no base yet and its carve is the
thread's (`BackingInv`), and that the runs of slots and of threads are disjoint,
handed out, and inside the region (`RunInv`); `LiveInv` ties the user's pointers
to them. `RunsDisjoint` alone is not inductive, since a run carved and not yet
recorded must be kept apart from the recorded ones. The free finds its slot
because the payload lies inside its run (`LayoutsProofs`) and runs are disjoint.

`HelpAcquireProofs` proves, for every number of threads, every help budget, every
bound on the requests and every set of spans, `HelpInvariant`
(`Spec => []HelpInv`) and from it the three safety properties of the `help` run:
`NoSpanLost` (`SpanInOnePlace`), `NoRequestLeft` (`PendingOnlyInCall`) and
`HeldBranchesDead` (`HeldSpanIsPlaced`). `HelpInv` adds `CallInv` to them: at
each point of a call, what the thread may hold, which counters still have budget
and what its record may be. It is stated over the thread's own record, which
others may change too, so that it has to survive the one thing a helper does to
it: turn a pending request into a done one. The properties are not inductive
without it. The blind stores of `finish_with` and of the reclaims lose no span
because the record is known to be empty, or its span is the one returned; the
completion CAS can only replace a pending request; and when it fails on the
caller's own request, that request is done, since nobody else empties it.
The module proves `CallInv` and the types one action at a time, and then that
each action moves at most one span from one holder to one other (`Moved`). The assumptions are those of `AcquireAssumption`. TLC
confirms `HelpInv` too when it is added to the invariants of `MCHelpAcquire.cfg`.

`LargeRunsProofs` proves, for every number of threads, every list limit, every
geometry and every set of layouts, `LargeInvariant` (`Spec => []LargeInv`) and
from it four properties of the `large` run: `LargeRunsPlacedOnce`
(`RunInOnePlace`), `LargeFiledAsMarked`, `LargeSpansAccounted`
(`CarvedIsAccountedFor`) and `LargePayloadsPlaced`. That every run has one place
is not inductive: a free decides by the header alone, so `PlaceInv` adds the
converse of `FiledAsMarked`, that the list a header names does hold the run, once.
That every carved span is in one run needs the invariant of the pool, and the
payloads need `RequestInv`, that a request in progress or served belongs to the
large path, has a class, and its pointer is the payload of its run, and the
arithmetic of `LayoutsProofs`. `Path` is the dispatch of `alloc_with_token` and
`FreePath`, translated separately, that of `dealloc_with_token`; `PayloadsPlaced`
and `FreeFindsItsSlot` say that a free takes the path its allocation took.

`SpmcSpanListProofs` proves, for every number of threads, spans and pops and on
both CAS2 backends, with no assumption on when nodes are reused. The history
variable `misread` becomes true when a popper loads a span other than the one its
CAS2 won (line 143), and the theorems hold of every behaviour up to there:

- `SpmcInvariant`: `Spec => [](misread \/ SpmcInv)`, the inductive invariant;
- `SpanIsExclusive`, `NodesAreConserved`: no span in two hands or in a list and a
  hand, no node lost or in two chains (`ExclusiveUntilMisread`,
  `ConservedUntilMisread`);
- `SpmcImplementsQueue`: `Spec => QueueUntilMisread`. Every step of the nodes is a
  step of the queues of `SpanQueue`, or changes none of them;
- `MisreadTakesAnotherPop`: `Spec => MisreadNeedsAnotherPop`. Such a load takes
  another winning pop of the same list between the popper's CAS2 and its load.

The run `spmc_reuse` violates `SpanExclusive`, so a misread does happen; the
theorems say that it is the only way the lists can go wrong, and what it takes.
`SpmcInv` says of each call why the versioned CAS2 is enough:
the version a popper loaded is not ahead of the head's, and if the head still
has both words, the link the popper loaded is the present one, since a node leaves
a list only by a pop, which raises the version, and the null link of a last node
is never installed. Nodes and spans each have one place (`OnePlace`), and a
span outside the lists owns a node unless its enqueue has begun (`NodeOwners`).
`ChainFrom` follows the links by a recursive function; that it returns the chain
(`ChainIs`), and what appending and removing a node do to it, are lemmas.

`HostedGlobalProofs` proves, for every set of threads and blocks and any number of
shards and tokens, `HostedInvariant` (`Spec => []HostedInv`) and from it the three
properties of the `hosted` run: `TokensAreHeld` (`TokensHaveHolders`),
`TokensSharedOnlyAfterFailedMove` and `ShardsAreAccountedFor`. `CreationInv` ties
the shards built, linked and counted and the four kinds of parts to the one thread
inside the creation lock. `TokenInv` says who holds a token: a thread bound to it
that is not between the release of the old token and the claim of the next. Its
second half, that a holder's cell is set and no other thread is bound to it, ends
at the first failed move (`moveFailed`), which is what the run `hosted_tokens`
shows. The first half says that no token is leaked, the second that none is given
back twice.

What a recursive function computes is proved by its least counterexample: in
`SpmcSpanListProofs` two functions that satisfy the equation of the walk agree at
every step, because the least step at which they differed would have an equal one
before it. `HostedGlobalProofs` does the same for the list of shards.

Model-checked only:

- liveness: `CallReturns`, `OperationReturns`, `DiscardedIsReused`, since the
  provers handle neither fairness nor ENABLED;
- `ServedFromClass` in its part `ClassesMatchReference`, that the class computed is
  the smallest, which needs more about powers of two than `PowersAssumption` says.
  The other part, `ServedUpwards`, is a conjunct of `LargeInv` and so proved;
- the linked block lists of `SpanBlocks` (`LocalListWellFormed`, `ChainsTerminate`,
  `UserDataIntact`, `WalkBoundIsEnough`) and its refinement of `SpanLedger`;
- the private span lists of `ThreadHeap` (`ListsWellFormed`, `PoolOnlyWhenDry`,
  `QuiescentVerified`) and its refinement of one `SpanLedger` per span. Their
  counting is what `SpanLedgerProofs` proves for one span; the linked lists with
  blocks leaving at both ends, and the rotation, have no proof yet.

## Findings

- `spmc_reuse` (`spmc_span_list.rs:143`): the winner of a pop loads the span
  after the CAS2, when the node may already carry another span.
- `ledger_store_buffering` (`allocator.rs:759`): a Release store followed by an
  Acquire load of another word can be reordered, which loses a discarded span.
- `hosted_tokens` (`global.rs:643`): a failed move leaves a released token in
  TLS.

Met while modelling, and not runs of their own:

- A stale popper can answer Empty for a list that was never empty
  (`spmc_span_list.rs:131`), as it reads the null link of a node that has become
  the tail of another list. The caller skips a list; `HelpAcquire` includes that
  behaviour.
- After a failed pop the query loop of `acquire.rs` empties its own record
  (line 210). The next turn finds it not pending, takes the branch commented "A
  helper completed our request.", counts an acquisition and returns null with
  queries left. No span is lost; `HelpAcquire` has the behaviour (`Helped`).
- With more than K + 1 spans in its list a thread may go to the pool although a
  span at the end of the list has a free block (`allocator.rs:438`).
- The comment at `huge.rs:150` speaks of one raw carve per call. A call tries one
  per EMPTY slot it claims, and gives each slot back when the carve fails.
- The comment at `large.rs:160` says that a larger carve must fail too once the
  exact one has failed. A rollback by another thread may make room in between.
- `run_class_for_layout` is called the smallest run class. It reserves the
  worst alignment slack, so it may be one class above the smallest that holds
  the payload; `ClassesMatchReference` states this exactly.
- The spans asked for when a shard must grow (`global.rs:639`) do not count the
  header reserve, the slack and the rounding to a class, so the new shard may be
  too small for the request, which then goes to the System; the shard stays.

`spmc` checks the same code up to the first wrong load of a span, and `blocks`
with sequentially consistent accesses: what holds then is what a repaired version
has to keep.

## Not modelled

The placement of the metadata values and the compile-time checks run before the
allocator is shared. Statistics and step counters are read by no decision. The
memory region is obtained from the system. The assembly of the CAS2 backends is
modelled by what the list sees of it. Of the hosted wrapper the configuration
words and the read-only counters are left out. Overflow of `usize` is left out:
the code adds with checked operations and refuses, as it does for any sum above
the largest run. Several allocators in one process, which share the TLS words,
are left out. The wrap-around of the 64-bit counters is left out as well: the
pool's `next`, which every carve on an exhausted pool advances, the version of a
list head and the registration counter. `PROJECT.json` has the status of each
part.

Of the memory model only the reordering of `allocator.rs:759-763` and the torn
loads of the LL/SC backend are modelled; the other accesses are interleaved.

That `SpanBlocks` and `ThreadHeap` implement `SpanLedger` is checked by TLC and
not proved.
