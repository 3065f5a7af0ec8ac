---------------------------- MODULE SpmcSpanList ----------------------------
(***************************************************************************)
(* The public span-lists of src/spmc_span_list.rs, node by node: one list  *)
(* per thread, an MS-queue shape with a dummy node, appended to by its     *)
(* owner with plain stores, popped by anyone with one versioned CAS2.      *)
(* Nodes migrate: enqueueing consumes the span's node, popping hands the   *)
(* outgoing dummy to the popped span.                                      *)
(*                                                                         *)
(* The node storage of a span carries the span's name, the embedded dummy  *)
(* of a list its owner's.                                                  *)
(*                                                                         *)
(* A popper loads the span of the node it installed after its CAS2, when   *)
(* that node may have moved on.  The history variable misread tells        *)
(* whether a pop has been misled in this way.                              *)
(***************************************************************************)
EXTENDS Integers, FiniteSets, Sequences, Functions

CONSTANTS
  Threads,       \* each owns one public list
  Spans,
  NULL,
  MaxVersion,    \* bound on the pops of one list
  LLSC           \* the aarch64 baseline backend: torn loads, spurious failures

ASSUME ListAssumption ==
  /\ IsFiniteSet(Threads) /\ IsFiniteSet(Spans)
  /\ MaxVersion \in Nat
  /\ LLSC \in BOOLEAN
  /\ Threads \cap Spans = {}
  /\ NULL \notin Threads \cup Spans

Nodes == Spans \cup Threads

VARIABLES
  head,      \* head[l]: the HeadWord of list l
  tail,      \* tail[l]: the producer's tail pointer
  next,      \* next[n]: link of node n
  span,      \* span[n]: the span node n carries
  node,      \* node[s]: the node span s owns
  holds,     \* holds[t]: the spans t has exclusive use of
  pc,
  op,        \* op[t]: the call in progress: its list, span and what it
             \* loaded; the span of a pop is the one its CAS2 took (history)
  misread    \* some pop loaded another span than its CAS2 took (history)

vars == <<head, tail, next, span, node, holds, pc, op, misread>>

NoOp == [list |-> NULL, span |-> NULL, node |-> NULL, ptr |-> NULL, ver |-> 0, next |-> NULL]

Goto(t, l) == pc' = [pc EXCEPT ![t] = l]
Done(t) == Goto(t, "idle") /\ op' = [op EXCEPT ![t] = NoOp]

(* SpmcSpanList::init for every list; init_span gives each span its own    *)
(* node and one thread to hold it.                                         *)
Init ==
  /\ head = [l \in Threads |-> [ptr |-> l, ver |-> 0]]
  /\ tail = [l \in Threads |-> l]
  /\ next = [n \in Nodes |-> NULL]
  /\ span = [n \in Nodes |-> NULL]
  /\ node = [s \in Spans |-> s]
  /\ \E first \in [Spans -> Threads] : holds = [t \in Threads |-> {s \in Spans : first[s] = t}]
  /\ pc = [t \in Threads |-> "idle"]
  /\ op = [t \in Threads |-> NoOp]
  /\ misread = FALSE

-----------------------------------------------------------------------------
(* The link a node enters the list with.  The mutant keeps the old one.    *)
OldLink(n) == next[n]

FreshLink(n) == NULL

(* enqueue_by_owner up to the stores into the node, which no one looks at  *)
(* but a popper that has won this very node and not yet loaded its span.   *)
(* A span without a node does not get past the debug assertion.            *)
EnqueuePrepare(t, s) ==
  /\ pc[t] = "idle"
  /\ s \in holds[t]
  /\ node[s] # NULL
  /\ op' = [op EXCEPT ![t] = [NoOp EXCEPT !.span = s, !.node = node[s]]]
  /\ node' = [node EXCEPT ![s] = NULL]
  /\ span' = [span EXCEPT ![node[s]] = s]
  /\ next' = [next EXCEPT ![node[s]] = FreshLink(node[s])]
  /\ Goto(t, "link")
  /\ UNCHANGED <<head, tail, holds, misread>>

(* enqueue_by_owner: the Release store that publishes the node.            *)
EnqueueLink(t) ==
  /\ pc[t] = "link"
  /\ next' = [next EXCEPT ![tail[t]] = op[t].node]
  /\ tail' = [tail EXCEPT ![t] = op[t].node]
  /\ holds' = [holds EXCEPT ![t] = @ \ {op[t].span}]
  /\ Done(t)
  /\ UNCHANGED <<head, span, node, misread>>

-----------------------------------------------------------------------------
(* try_pop_head_once: load the head word.  On the LL/SC backend the two    *)
(* halves may come from different moments.                                 *)
PopLoadHead(t, l) ==
  /\ pc[t] = "idle"
  /\ head[l].ver < MaxVersion
  /\ op' = [op EXCEPT ![t] = [NoOp EXCEPT !.list = l, !.ptr = head[l].ptr, !.ver = head[l].ver]]
  /\ Goto(t, IF LLSC THEN "half" ELSE "next")
  /\ UNCHANGED <<head, tail, next, span, node, holds, misread>>

PopLoadHalf(t) ==
  /\ pc[t] = "half"
  /\ op' = [op EXCEPT ![t].ptr = head[op[t].list].ptr] \/ op' = [op EXCEPT ![t].ver = head[op[t].list].ver]
  /\ Goto(t, "next")
  /\ UNCHANGED <<head, tail, next, span, node, holds, misread>>

(* Load the link of the node that was the head: null is taken for an empty *)
(* list (TryPop::Empty), ...                                               *)
PopEmpty(t) ==
  /\ pc[t] = "next"
  /\ next[op[t].ptr] = NULL
  /\ Done(t)
  /\ UNCHANGED <<head, tail, next, span, node, holds, misread>>

(* ... anything else is the head to install.                               *)
PopLoadNext(t) ==
  /\ pc[t] = "next"
  /\ next[op[t].ptr] # NULL
  /\ op' = [op EXCEPT ![t].next = next[op[t].ptr]]
  /\ Goto(t, "cas")
  /\ UNCHANGED <<head, tail, next, span, node, holds, misread>>

(* The CAS2 wins if pointer and version are unchanged.  The mutant         *)
(* compares the pointer alone.                                             *)
HeadMatchesPtr(t) == head[op[t].list].ptr = op[t].ptr

HeadMatches(t) == head[op[t].list] = [ptr |-> op[t].ptr, ver |-> op[t].ver]

PopWin(t) ==
  LET l == op[t].list
  IN /\ pc[t] = "cas"
     /\ op[t].ver < MaxVersion
     /\ HeadMatches(t)
     /\ head' = [head EXCEPT ![l] = [ptr |-> op[t].next, ver |-> op[t].ver + 1]]
     /\ Goto(t, "read")
     /\ op' = [op EXCEPT ![t].span = span[op[t].next]]
     /\ UNCHANGED <<tail, next, span, node, holds, misread>>

(* TryPop::Failed: the head moved or, on LL/SC, the attempt failed         *)
(* spuriously.                                                             *)
PopFail(t) ==
  /\ pc[t] = "cas"
  /\ LLSC \/ ~HeadMatches(t)
  /\ Done(t)
  /\ UNCHANGED <<head, tail, next, span, node, holds, misread>>

(* The winner loads the span from the new dummy and hands the outgoing     *)
(* dummy to it.  Since its CAS2 the new dummy may have been popped in turn *)
(* and enqueued with another span, here or elsewhere: then it loads that   *)
(* span.  The mutant hands over the new dummy.                             *)
Carried(t) == span[op[t].next]

Incoming(t) == op[t].next

Outgoing(t) == op[t].ptr

PopRead(t) ==
  /\ pc[t] = "read"
  /\ LET s == Carried(t)
     IN /\ node' = [node EXCEPT ![s] = Outgoing(t)]
        /\ holds' = [holds EXCEPT ![t] = @ \cup {s}]
        /\ misread' = (misread \/ s # op[t].span)
  /\ Done(t)
  /\ UNCHANGED <<head, tail, next, span>>

Next ==
  \E t \in Threads :
    \/ \E s \in Spans : EnqueuePrepare(t, s)
    \/ EnqueueLink(t)
    \/ \E l \in Threads : PopLoadHead(t, l)
    \/ PopLoadHalf(t) \/ PopLoadNext(t) \/ PopEmpty(t) \/ PopWin(t) \/ PopFail(t) \/ PopRead(t)

Spec == Init /\ [][Next]_vars

-----------------------------------------------------------------------------
(* The nodes of list l from its dummy on.                                  *)
Extend(c, link) == LET n == link[c[Len(c)]] IN IF n = NULL THEN c ELSE Append(c, n)

ChainFrom(first, link) ==
  LET from[k \in 0 .. Cardinality(Nodes)] == IF k = 0 THEN <<first>> ELSE Extend(from[k - 1], link)
  IN from[Cardinality(Nodes)]

Chain(l) == ChainFrom(head[l].ptr, next)

(* The spans of list l: those carried by the nodes after the dummy.        *)
Carries(c, sp) == [i \in 1 .. Len(c) - 1 |-> sp[c[i + 1]]]

QueueOf(l) == Carries(Chain(l), span)

SpansIn(l) == Range(QueueOf(l))
NodesIn(l) == Range(Chain(l))

(* What t has taken: the spans it holds, and the one its CAS2 took and     *)
(* that it has not yet loaded.                                             *)
InHands(t) == holds[t] \cup (IF pc[t] = "read" THEN {op[t].span} ELSE {})

TypeOK ==
  /\ head \in [Threads -> [ptr : Nodes, ver : 0 .. MaxVersion]]
  /\ tail \in [Threads -> Nodes]
  /\ next \in [Nodes -> Nodes \cup {NULL}]
  /\ span \in [Nodes -> Spans \cup {NULL}]
  /\ node \in [Spans -> Nodes \cup {NULL}]
  /\ holds \in [Threads -> SUBSET Spans]

(* "acquire hands us exclusive ownership of `span`" (allocator.rs:482) and *)
(* "we won the pop; `next` (the new dummy) carries the span"               *)
(* (spmc_span_list.rs:140): a span is never in the hands of two threads,   *)
(* nor in the hands of one while it is in a list.                          *)
SpanExclusive ==
  \A t \in Threads :
    /\ \A u \in Threads \ {t} : holds[t] \cap holds[u] = {}
    /\ \A l \in Threads : holds[t] \cap SpansIn(l) = {}

(* It holds of every run of the code until a popper loads the wrong span   *)
(* from the new dummy (spmc_span_list.rs:143), also while nodes that a     *)
(* popper is about to read are being enqueued again: nothing else in       *)
(* torn loads, lost races, stale links and migrating nodes can hand a span *)
(* to two threads.                                                         *)
ExclusiveUntilMisread == misread \/ SpanExclusive

(* The node in the hands of t: the one it enqueues, or the outgoing dummy  *)
(* that it won.                                                            *)
NodeInHand(t) == IF pc[t] = "link" THEN op[t].node ELSE IF pc[t] = "read" THEN op[t].ptr ELSE NULL

Places == ({"list", "hand"} \X Threads) \cup ({"span"} \X Spans)

NodesAt ==
  [p \in Places |->
     CASE p[1] = "list" -> NodesIn(p[2])
       [] p[1] = "hand" -> {NodeInHand(p[2])} \ {NULL}
       [] p[1] = "span" -> {node[p[2]]} \ {NULL}]

(* Each of the things is in one place.                                     *)
OnePlace(things, at) ==
  \A x \in things : \E p \in DOMAIN at : \A q \in DOMAIN at : x \in at[q] <=> q = p

(* Every node is once in the chain of one list, or owned by one span, or   *)
(* in the hands of one thread, and the producer's tail is the end of its   *)
(* chain.                                                                  *)
NodesConserved ==
  /\ TypeOK
  /\ OnePlace(Nodes, NodesAt)
  /\ \A l \in Threads : IsInjective(Chain(l)) /\ tail[l] = Chain(l)[Len(Chain(l))]

(* "Node count is conserved (spans + one dummy per list)"                  *)
(* (spmc_span_list.rs:10), until a popper loads the wrong span: then the   *)
(* outgoing dummy replaces the node of a span that has one.                *)
ConservedUntilMisread == misread \/ NodesConserved

(* The nodes implement one queue of spans per thread.                      *)
Queue == INSTANCE SpanQueue WITH
  queue <- [l \in Threads |-> QueueOf(l)],
  hands <- [t \in Threads |-> InHands(t)]

(* Every enqueue appends its span once, every won CAS2 takes the oldest    *)
(* span, and nothing else changes what a list holds, until a popper loads  *)
(* the wrong span.                                                         *)
QueueUntilMisread == Queue!Init /\ [][misread' \/ Queue!Next]_(Queue!vars)

(* What it takes to load the wrong span: a popper does so only if the list *)
(* has been popped again between its CAS2 and its load                     *)
(* (spmc_span_list.rs:139-143).  As long as the node it installed is still *)
(* the dummy, nobody can have enqueued it again.                           *)
MisreadNeedsAnotherPop ==
  [][misread' /\ ~misread =>
       \E t \in Threads : pc[t] = "read" /\ pc'[t] # "read" /\ op[t].ver + 1 < head[op[t].list].ver]_vars

-----------------------------------------------------------------------------
(* What makes SpanExclusive and NodesConserved inductive until a popper    *)
(* loads the wrong span.                                                   *)

Pcs == {"idle", "link", "half", "next", "cas", "read"}

Calls ==
  [list : Threads \cup {NULL}, span : Spans \cup {NULL}, node : Nodes \cup {NULL},
   ptr : Nodes \cup {NULL}, ver : 0 .. MaxVersion, next : Nodes \cup {NULL}]

(* The call of t: an enqueue has prepared the node of a span that t holds; *)
(* the version a pop loaded is not ahead of the head's, so that a CAS2     *)
(* that would win installs the present link of the head; the span it takes *)
(* is in no other hands; and it is where the winner will load it as long   *)
(* as the list has not been popped again.                                  *)
CallOK(t) ==
  /\ pc[t] = "link" =>
       /\ op[t].span \in holds[t] /\ op[t].node \in Nodes
       /\ span[op[t].node] = op[t].span /\ next[op[t].node] = NULL
  /\ pc[t] \in {"half", "next", "cas", "read"} => op[t].list \in Threads /\ op[t].ptr \in Nodes
  /\ pc[t] \in {"half", "next", "cas"} => op[t].ver <= head[op[t].list].ver
  /\ pc[t] \in {"cas", "read"} => op[t].next \in Nodes
  /\ pc[t] = "cas" /\ HeadMatches(t) => op[t].next = next[op[t].ptr]
  /\ pc[t] = "read" =>
       /\ op[t].span \in Spans \ holds[t]
       /\ \/ op[t].ver + 1 < head[op[t].list].ver
          \/ /\ head[op[t].list].ptr = op[t].next /\ head[op[t].list].ver = op[t].ver + 1
             /\ span[op[t].next] = op[t].span

CallTypes == pc \in [Threads -> Pcs] /\ op \in [Threads -> Calls]

CallInv == CallTypes /\ \A t \in Threads : CallOK(t)

(* A span has a node just when a thread holds it and is not enqueueing it. *)
OwnsNode(s) == \E t \in Threads : s \in holds[t] /\ ~(pc[t] = "link" /\ op[t].span = s)

NodeOwners == \A s \in Spans : node[s] # NULL <=> OwnsNode(s)

(* c is the chain from first to last.                                      *)
Linked(c, first, last, link) ==
  /\ c \in Seq(Nodes) /\ c # <<>>
  /\ c[1] = first /\ c[Len(c)] = last /\ link[last] = NULL
  /\ \A i \in 1 .. Len(c) - 1 : link[c[i]] = c[i + 1]

ListOK(l) ==
  /\ Linked(Chain(l), head[l].ptr, tail[l], next)
  /\ IsInjective(Chain(l)) /\ IsInjective(QueueOf(l)) /\ QueueOf(l) \in Seq(Spans)

ListInv == \A l \in Threads : ListOK(l)

SpansAt ==
  [p \in {"list", "hand"} \X Threads |-> IF p[1] = "list" THEN SpansIn(p[2]) ELSE InHands(p[2])]

SpmcInv ==
  /\ TypeOK /\ CallInv /\ NodeOwners /\ ListInv
  /\ OnePlace(Nodes, NodesAt) /\ OnePlace(Spans, SpansAt)
=============================================================================
