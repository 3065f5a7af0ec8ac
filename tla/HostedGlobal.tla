---------------------------- MODULE HostedGlobal ----------------------------
(***************************************************************************)
(* The hosted GlobalAlloc wrapper of src/global.rs: shards created on      *)
(* demand, the table of reusable user tokens of each shard, the binding of *)
(* a thread to a token through TLS, growth when the bound shard cannot     *)
(* serve a request, the routing of frees, and thread exit.                 *)
(*                                                                         *)
(* Shards are numbered as they are created; the list runs from the newest  *)
(* to the oldest.  A call into a shard's core lasts from one step to the   *)
(* next, and whether it serves a request is left open.  A shard is built   *)
(* from four System allocations, any of which may be refused, and linked,  *)
(* under create_lock, while other threads walk the list.                   *)
(* THREAD_TOKEN_SLOT is the cell of the token that THREAD_SHARD and        *)
(* THREAD_TOKEN_ID name, as the three are always set together; one         *)
(* allocator is in use, so THREAD_ALLOC_ID is left out.                    *)
(***************************************************************************)
EXTENDS Integers, FiniteSets

CONSTANTS
  Threads,
  Slots,       \* user_slots: user tokens of a shard
  MaxShards,   \* bound on the shards the system has memory for
  Blocks,      \* names for live allocations
  Nobody, NoBlock

ASSUME HostedAssumption ==
  /\ Slots \in Nat \ {0} /\ MaxShards \in Nat
  /\ Nobody \notin Threads /\ NoBlock \notin Blocks

VARIABLES
  built,    \* shards constructed so far, which are their numbers
  head, next, \* the list of shards; 0 is null
  shards,   \* shard_count
  creator,  \* the thread that holds create_lock
  held,     \* held[t]: parts that the creation by t has obtained
  parts,    \* parts[p]: System allocations of kind p that were not returned
  cell,     \* cell[s][i]: token_in_use of token i of shard s
  service,  \* service[s]: the thread that holds the service lock of shard s
  tls,      \* tls[t]: THREAD_SHARD and THREAD_TOKEN_ID
  guard,    \* guard[t]: THREAD_GUARD is not registered, registered or dropped
  home,     \* home[b]: the shard recorded in b's header, -1 if b is not live
  pc, loc,  \* loc[t]: shard and token being tried, shard of the block being
            \* freed, block that a realloc replaces
  moveFailed  \* some thread gave its token back and got no other (history)

creation == <<built, head, next, shards, creator, held, parts>>
vars == <<creation, cell, service, tls, guard, home, pc, loc, moveFailed>>

Shards == 1 .. MaxShards
Parts == 1 .. 4                        \* metadata, region, tokens, shard
Tokens == 1 .. Slots
System == 0                            \* BACKEND_SYSTEM
Dead == -1
Unbound == [shard |-> 0, token |-> 0]
NoCall == [shard |-> 0, token |-> 0, into |-> 0, old |-> NoBlock]

Live == {b \in Blocks : home[b] # Dead}

(* Live blocks that no realloc in progress has been given.                 *)
Usable == {b \in Live : \A t \in Threads : loc[t].old # b}

Bound(t) == tls[t] # Unbound

Goto(t, l) == pc' = [pc EXCEPT ![t] = l]
At(t, s, i) == loc' = [loc EXCEPT ![t].shard = s, ![t].token = i]

Init ==
  /\ built = 0 /\ head = 0 /\ shards = 0
  /\ next = [s \in Shards |-> 0]
  /\ creator = Nobody
  /\ held = [t \in Threads |-> 0]
  /\ parts = [p \in Parts |-> 0]
  /\ cell = [s \in Shards |-> [i \in Tokens |-> 0]]
  /\ service = [s \in Shards |-> Nobody]
  /\ tls = [t \in Threads |-> Unbound]
  /\ guard = [t \in Threads |-> "none"]
  /\ home = [b \in Blocks |-> Dead]
  /\ pc = [t \in Threads |-> "idle"]
  /\ loc = [t \in Threads |-> NoCall]
  /\ moveFailed = FALSE

-----------------------------------------------------------------------------
(* alloc, or realloc of a live block: bind_thread uses the binding in TLS, *)
(* gives up once the guard has been dropped, or registers the guard and    *)
(* looks for a token from the newest shard on.                             *)
Alloc(t, old) ==
  /\ pc[t] = "idle"
  /\ Live # Blocks
  /\ loc' = [loc EXCEPT ![t].old = old, ![t].shard = head, ![t].token = 1]
  /\ Goto(t, CASE Bound(t)                          -> "use"
               [] ~Bound(t) /\ guard[t] = "dropped" -> "system"
               [] ~Bound(t) /\ guard[t] # "dropped" -> IF head = 0 THEN "create" ELSE "scan")
  /\ guard' = [guard EXCEPT ![t] = IF @ = "dropped" THEN @ ELSE "set"]
  /\ UNCHANGED <<creation, cell, service, tls, home, moveFailed>>

(* Token i is not the last.                                                *)
NotLast(i) == i < Slots

(* One compare-exchange of acquire_user_token: in the walk over the list,  *)
(* in the shard just created for the thread, and in the one it moves to.   *)
TakeCell(t) ==
  LET s == loc[t].shard
      i == loc[t].token
  IN /\ pc[t] \in {"scan", "created", "move"}
     /\ cell[s][i] = 0
     /\ cell' = [cell EXCEPT ![s][i] = 1]
     /\ tls' = [tls EXCEPT ![t] = [shard |-> s, token |-> i]]
     /\ Goto(t, IF pc[t] = "move" THEN "useMoved" ELSE "use")
     /\ UNCHANGED <<creation, service, guard, home, loc, moveFailed>>

(* It failed: the next token; after the last one the next shard, a new     *)
(* one, the list again, or (in a move) System.                             *)
MissCell(t) ==
  LET s == loc[t].shard
      i == loc[t].token
  IN /\ pc[t] \in {"scan", "created", "move"}
     /\ cell[s][i] # 0
     /\ CASE NotLast(i) -> At(t, s, i + 1) /\ UNCHANGED pc
          [] ~NotLast(i) /\ pc[t] = "scan" /\ next[s] # 0 -> At(t, next[s], 1) /\ UNCHANGED pc
          [] ~NotLast(i) /\ pc[t] = "scan" /\ next[s] = 0 -> Goto(t, "create") /\ UNCHANGED loc
          [] ~NotLast(i) /\ pc[t] = "created" -> At(t, head, 1) /\ Goto(t, "scan")
          [] ~NotLast(i) /\ pc[t] = "move" -> Goto(t, "system") /\ UNCHANGED loc
     /\ moveFailed' = (moveFailed \/ (~NotLast(i) /\ pc[t] = "move"))
     /\ UNCHANGED <<creation, cell, service, tls, guard, home>>

(* create_lock can be taken.  The mutant does without the lock.            *)
Unlocked == TRUE

LockIsFree == creator = Nobody

(* create_and_link_shard, for a thread without a token or for one whose    *)
(* shard could not serve it, takes the lock, ...                           *)
LockCreate(t) ==
  /\ pc[t] \in {"create", "grow"}
  /\ LockIsFree
  /\ creator' = t
  /\ Goto(t, "build")
  /\ UNCHANGED <<built, head, next, shards, held, parts, cell, service, tls, guard, home, loc, moveFailed>>

(* ... obtains the next part of the shard from System, ...                 *)
ObtainPart(t) ==
  /\ pc[t] = "build"
  /\ held[t] < 4
  /\ built < MaxShards
  /\ held' = [held EXCEPT ![t] = @ + 1]
  /\ parts' = [parts EXCEPT ![held[t] + 1] = @ + 1]
  /\ UNCHANGED <<built, head, next, shards, creator, cell, service, tls, guard, home, pc, loc, moveFailed>>

(* ... or is refused it, or cannot set up the core, and returns the parts  *)
(* it has.                                                                 *)
CreateFailed(t) ==
  /\ pc[t] = "build"
  /\ parts' = [p \in Parts |-> IF p <= held[t] THEN parts[p] - 1 ELSE parts[p]]
  /\ held' = [held EXCEPT ![t] = 0]
  /\ creator' = Nobody
  /\ Goto(t, "system")
  /\ UNCHANGED <<built, head, next, shards, cell, service, tls, guard, home, loc, moveFailed>>

(* With all of them it constructs the shard and points it at the list, ... *)
BuildShard(t) ==
  /\ pc[t] = "build"
  /\ held[t] = 4
  /\ built' = built + 1
  /\ next' = [next EXCEPT ![built + 1] = head]
  /\ At(t, built + 1, 1)
  /\ Goto(t, "link")
  /\ UNCHANGED <<head, shards, creator, held, parts, cell, service, tls, guard, home, moveFailed>>

(* ... links it, counts it and drops the lock.  A thread that has a token  *)
(* was growing and now moves; one without was looking for its first.       *)
LinkShard(t) ==
  /\ pc[t] = "link"
  /\ head' = loc[t].shard
  /\ shards' = shards + 1
  /\ held' = [held EXCEPT ![t] = 0]
  /\ creator' = Nobody
  /\ Goto(t, IF Bound(t) THEN "release" ELSE "created")
  /\ UNCHANGED <<built, next, parts, cell, service, tls, guard, home, loc, moveFailed>>

(* alloc_from_wfspan gives the old token back before it has a new one.     *)
ReleaseToken(t) ==
  /\ pc[t] = "release"
  /\ cell' = [cell EXCEPT ![tls[t].shard][tls[t].token] = 0]
  /\ Goto(t, "move")
  /\ UNCHANGED <<creation, service, tls, guard, home, loc, moveFailed>>

-----------------------------------------------------------------------------
(* The thread's token can be used on shard s.  The mutant does not compare *)
(* the shards.                                                             *)
AnyToken(t, s) == Bound(t)

OwnToken(t, s) == tls[t].shard = s

(* dealloc of a block of shard s by the header.                            *)
Route(t, s) ==
  IF s = System
    THEN Goto(t, "idle") /\ loc' = [loc EXCEPT ![t] = NoCall]
    ELSE /\ Goto(t, IF OwnToken(t, s) THEN "free" ELSE "lock")
         /\ loc' = [loc EXCEPT ![t] = [NoCall EXCEPT !.into = s]]

(* finish_allocation of a block from shard s; a realloc then frees the old *)
(* block.                                                                  *)
Served(t, s) ==
  \E b \in Blocks \ Live :
    IF loc[t].old = NoBlock
      THEN /\ home' = [home EXCEPT ![b] = s]
           /\ Goto(t, "idle")
           /\ loc' = [loc EXCEPT ![t] = NoCall]
      ELSE /\ home' = [home EXCEPT ![b] = s, ![loc[t].old] = Dead]
           /\ Route(t, home[loc[t].old])

(* alloc_with_token on the bound shard returns a block ...                 *)
CoreServes(t) ==
  /\ pc[t] \in {"use", "useMoved"}
  /\ Served(t, tls[t].shard)
  /\ UNCHANGED <<creation, cell, service, tls, guard, moveFailed>>

(* ... or null: grow once, then fall back to System.                       *)
CoreFails(t) ==
  /\ pc[t] \in {"use", "useMoved"}
  /\ Goto(t, IF pc[t] = "use" THEN "grow" ELSE "system")
  /\ UNCHANGED <<creation, cell, service, tls, guard, home, loc, moveFailed>>

SystemServes(t) ==
  /\ pc[t] = "system"
  /\ Served(t, System)
  /\ UNCHANGED <<creation, cell, service, tls, guard, moveFailed>>

(* Null to the caller; a realloc leaves the old block alone.               *)
SystemFails(t) ==
  /\ pc[t] = "system"
  /\ Goto(t, "idle")
  /\ loc' = [loc EXCEPT ![t] = NoCall]
  /\ UNCHANGED <<creation, cell, service, tls, guard, home, moveFailed>>

Dealloc(t, b) ==
  /\ pc[t] = "idle"
  /\ home' = [home EXCEPT ![b] = Dead]
  /\ Route(t, home[b])
  /\ UNCHANGED <<creation, cell, service, tls, guard, moveFailed>>

(* dealloc_with_token with the thread's own token returns.                 *)
Freed(t) ==
  /\ pc[t] = "free"
  /\ Goto(t, "idle")
  /\ loc' = [loc EXCEPT ![t] = NoCall]
  /\ UNCHANGED <<creation, cell, service, tls, guard, home, moveFailed>>

(* The service lock of a shard is taken.                                   *)
LockService(t) ==
  /\ pc[t] = "lock"
  /\ service[loc[t].into] = Nobody
  /\ service' = [service EXCEPT ![loc[t].into] = t]
  /\ Goto(t, "service")
  /\ UNCHANGED <<creation, cell, tls, guard, home, loc, moveFailed>>

(* dealloc_with_token with the service token returns and the guard drops.  *)
ServiceFreed(t) ==
  /\ pc[t] = "service"
  /\ service' = [service EXCEPT ![loc[t].into] = Nobody]
  /\ Goto(t, "idle")
  /\ loc' = [loc EXCEPT ![t] = NoCall]
  /\ UNCHANGED <<creation, cell, tls, guard, home, moveFailed>>

-----------------------------------------------------------------------------
(* What ThreadTokenGuard::drop leaves in TLS.  The mutant leaves the token *)
(* named there.                                                            *)
StillNamed(t) == tls[t]

Cleared(t) == Unbound

(* The thread ends: the guard is dropped, while other destructors may      *)
(* still allocate and free.                                                *)
Exit(t) ==
  /\ pc[t] = "idle"
  /\ guard[t] = "set"
  /\ cell' = IF Bound(t) THEN [cell EXCEPT ![tls[t].shard][tls[t].token] = 0] ELSE cell
  /\ tls' = [tls EXCEPT ![t] = Cleared(t)]
  /\ guard' = [guard EXCEPT ![t] = "dropped"]
  /\ UNCHANGED <<creation, service, home, pc, loc, moveFailed>>

(* A new thread takes its place.                                           *)
Spawn(t) ==
  /\ pc[t] = "idle"
  /\ guard[t] = "dropped"
  /\ guard' = [guard EXCEPT ![t] = "none"]
  /\ UNCHANGED <<creation, cell, service, tls, home, pc, loc, moveFailed>>

Next ==
  \E t \in Threads :
    \/ Alloc(t, NoBlock) \/ (\E b \in Usable : Alloc(t, b) \/ Dealloc(t, b))
    \/ TakeCell(t) \/ MissCell(t) \/ ReleaseToken(t)
    \/ LockCreate(t) \/ ObtainPart(t) \/ CreateFailed(t) \/ BuildShard(t) \/ LinkShard(t)
    \/ CoreServes(t) \/ CoreFails(t) \/ SystemServes(t) \/ SystemFails(t)
    \/ Freed(t) \/ LockService(t) \/ ServiceFreed(t)
    \/ Exit(t) \/ Spawn(t)

Spec == Init /\ [][Next]_vars

-----------------------------------------------------------------------------
TypeOK ==
  /\ built \in 0 .. MaxShards /\ shards \in 0 .. MaxShards /\ head \in 0 .. built
  /\ next \in [Shards -> 0 .. built]
  /\ creator \in Threads \cup {Nobody}
  /\ held \in [Threads -> 0 .. 4]
  /\ parts \in [Parts -> 0 .. MaxShards]
  /\ cell \in [Shards -> [Tokens -> {0, 1}]]
  /\ service \in [Shards -> Threads \cup {Nobody}]
  /\ tls \in [Threads -> [shard : 1 .. built, token : Tokens] \cup {Unbound}]
  /\ guard \in [Threads -> {"none", "set", "dropped"}]
  /\ home \in [Blocks -> Dead .. built]
  /\ \A t \in Threads :
       loc[t].shard \in 0 .. built /\ loc[t].token \in 0 .. Slots /\ loc[t].into \in 0 .. built

(* The shards a walk from head meets.                                      *)
Linked ==
  LET chain[n \in 0 .. MaxShards] ==
        IF n = 0 THEN head ELSE IF chain[n - 1] = 0 THEN 0 ELSE next[chain[n - 1]]
  IN {chain[n] : n \in 0 .. MaxShards} \ {0}

(* Nothing is lost in creating shards, whichever of the four allocations   *)
(* is refused (global.rs:277-315) and however many threads create at once: *)
(* every shard built can be reached from head or is about to be linked,    *)
(* shard_count counts those that can, and System has handed out one        *)
(* allocation of each kind for each of them and for each creation under    *)
(* way that has obtained it, and no more.                                  *)
ShardsAccountedFor ==
  /\ Linked = 1 .. built \ {loc[t].shard : t \in {u \in Threads : pc[u] = "link"}}
  /\ shards = Cardinality(Linked)
  /\ \A p \in Parts : parts[p] = shards + Cardinality({t \in Threads : held[t] >= p})

(* The token of a shard with which thread t is inside the core, if any;    *)
(* 0 is SERVICE_TOKEN_ID.                                                  *)
InUse(t) ==
  CASE pc[t] \in {"use", "useMoved"} -> {<<tls[t].shard, tls[t].token>>}
    [] pc[t] = "free"                -> {<<loc[t].into, tls[t].token>>}
    [] pc[t] = "service"             -> {<<loc[t].into, 0>>}
    [] OTHER                         -> {}

(* The safety contract of alloc_with_token and dealloc_with_token          *)
(* (allocator.rs:360): a token comes from the allocator it is used on and  *)
(* is used by one thread at a time, the service token included.            *)
TokenUsedByOne == \A t, u \in Threads : t # u => InUse(t) \cap InUse(u) = {}

(* The contract is broken by failed moves alone: binding, creating and     *)
(* growing shards, thread exit, destructors that allocate, frees of blocks *)
(* of a shard the thread has left and the service token never let two      *)
(* threads use one token, until a thread has given its token back and      *)
(* found none in the shard it moves to (global.rs:643).                    *)
TokenSharedOnlyAfterFailedMove == TokenUsedByOne \/ moveFailed

(* t holds its token: it has not given it back for a move.                 *)
Holds(t) == Bound(t) /\ pc[t] # "move"

TokenInv ==
  /\ \A s \in Shards, i \in Tokens :
       cell[s][i] = 1 => \E t \in Threads : Holds(t) /\ tls[t] = [shard |-> s, token |-> i]
  /\ moveFailed \/ \A t \in Threads :
       Holds(t) => /\ cell[tls[t].shard][tls[t].token] = 1
                   /\ \A u \in Threads \ {t} : Holds(u) => tls[u] # tls[t]

(* Every token taken is given back exactly once, through moves, thread     *)
(* exits and destructors that allocate.  Not less: a token marked in use   *)
(* has a thread that names it in TLS and has yet to give it back           *)
(* (global.rs:50, 643).  Not more, until a move has failed: the token that *)
(* a thread has yet to give back is still marked in use and nobody else    *)
(* has it to give back.                                                    *)
TokensHaveHolders == TypeOK /\ TokenInv

-----------------------------------------------------------------------------
(* What makes these inductive.                                             *)

Pcs == {"idle", "use", "useMoved", "system", "create", "grow", "build", "link", "scan", "created",
        "release", "move", "free", "lock", "service"}

Locs == [shard : 0 .. built, token : 0 .. Slots, into : 0 .. built, old : Blocks \cup {NoBlock}]

(* A thread that looks for its first token has none and one that uses or   *)
(* gives back a token has one; the token tried is one of a built shard;    *)
(* a free goes to the shard of the token or holds its service lock; and    *)
(* the block that a realloc replaces is live, and no other realloc's.      *)
CallOK(t) ==
  /\ pc[t] \in {"create", "scan", "created"} => ~Bound(t)
  /\ pc[t] \in {"use", "useMoved", "grow", "release", "move", "free"} => Bound(t)
  /\ pc[t] \in {"link", "scan", "created", "release", "move"} => loc[t].shard # 0 /\ loc[t].token # 0
  /\ pc[t] = "created" => head # 0
  /\ pc[t] \in {"free", "lock", "service"} => loc[t].into # 0
  /\ pc[t] = "free" => loc[t].into = tls[t].shard
  /\ pc[t] = "service" => service[loc[t].into] = t
  /\ loc[t].old # NoBlock => loc[t].old \in Live /\ \A u \in Threads \ {t} : loc[u].old # loc[t].old

CallInv ==
  /\ pc \in [Threads -> Pcs] /\ loc \in [Threads -> Locs] /\ moveFailed \in BOOLEAN
  /\ \A t \in Threads : CallOK(t)

(* Shards are linked in the order they are built, by the holder of         *)
(* create_lock, which is the one thread that holds parts.                  *)
Creating(t) == pc[t] \in {"build", "link"}

CreationInv ==
  /\ shards = head
  /\ \A s \in 1 .. built : next[s] = s - 1
  /\ creator = Nobody => head = built
  /\ \A t \in Threads :
       /\ Creating(t) <=> creator = t
       /\ ~Creating(t) => held[t] = 0
       /\ pc[t] = "build" => head = built /\ (held[t] > 0 => built < MaxShards)
       /\ pc[t] = "link" => head = built - 1 /\ loc[t].shard = built /\ held[t] = 4
  /\ \A p \in Parts : parts[p] = shards + IF creator # Nobody /\ held[creator] >= p THEN 1 ELSE 0

HostedInv == TypeOK /\ CallInv /\ CreationInv /\ TokenInv
=============================================================================
