---------------------------- MODULE HelpAcquire -----------------------------
(***************************************************************************)
(* Acquisition from the public lists of one size class (or run class) with *)
(* bounded helping: src/acquire.rs over the help records of                *)
(* src/help_record.rs.  Threads are numbered, as the positions at which    *)
(* each one helps and queries run through them modulo N.                   *)
(*                                                                         *)
(* The lists are the queues that SpmcSpanList implements.  A one-shot pop  *)
(* is two steps: load the head, then try.  If another pop of the list      *)
(* succeeded in between, the try fails, or answers Empty because it reads  *)
(* the link of a node that has moved on; on LL/SC it may fail for no       *)
(* reason.                                                                 *)
(***************************************************************************)
EXTENDS Integers, Sequences, FiniteSets, Functions

CONSTANTS
  N,         \* active threads, the query limit P
  H,         \* HELP_BUDGET_H
  Spans,
  NULL,
  MaxPhase,  \* bound on the requests of one thread
  LLSC       \* the pop may fail spuriously

ASSUME AcquireAssumption ==
  /\ N \in Nat \ {0}
  /\ H \in Nat
  /\ MaxPhase \in Nat
  /\ LLSC \in BOOLEAN
  /\ NULL \notin Spans

Threads == 0 .. N - 1

VARIABLES
  queue,   \* queue[t]: the public list of t
  rec,     \* rec[t]: phase_pending_or_span of t's help record
  phase,   \* phase[t]: last_phase of t's help record
  qpos,    \* qpos[t]: cur_query, in use during a call and saved at its end
  hpos,    \* hpos[t]: helping_pos, likewise
  mine,    \* mine[t]: spans t owns outside the lists
  pc,
  loc      \* loc[t]: local variables of the call in progress

vars == <<queue, rec, phase, qpos, hpos, mine, pc, loc>>

Req(k, v) == [kind |-> k, val |-> v]
Empty == Req("empty", NULL)
Pending(p) == Req("pending", p)
Done(s) == Req("done", s)

(* held: held_span; helped, queried: help_count and help_query; seen: the  *)
(* phase being helped; lost: the list was popped since its head was        *)
(* loaded; own: the caller of help_finishing_req is the query loop.        *)
NoCall == [held |-> NULL, helped |-> 0, queried |-> 0, seen |-> 0, lost |-> FALSE, own |-> FALSE]

Goto(t, l) == pc' = [pc EXCEPT ![t] = l]

(* The thread after i in the fixed order.                                  *)
Following(i) == (i + 1) % N

Init ==
  /\ queue = [t \in Threads |-> <<>>]
  /\ rec = [t \in Threads |-> Empty]
  /\ phase = [t \in Threads |-> 0]
  /\ qpos = [t \in Threads |-> 0]
  /\ hpos = [t \in Threads |-> 0]
  /\ \E first \in [Spans -> Threads] : mine = [t \in Threads |-> {s \in Spans : first[s] = t}]
  /\ pc = [t \in Threads |-> "idle"]
  /\ loc = [t \in Threads |-> NoCall]

(* The call returns span s, or null.                                       *)
Return(t, s) ==
  /\ mine' = [mine EXCEPT ![t] = @ \cup ({s} \ {NULL})]
  /\ loc' = [loc EXCEPT ![t] = NoCall]
  /\ Goto(t, "idle")

-----------------------------------------------------------------------------
(* A full span is published on the owner's list (dealloc_local).           *)
Publish(t, s) ==
  /\ pc[t] = "idle"
  /\ s \in mine[t]
  /\ mine' = [mine EXCEPT ![t] = @ \ {s}]
  /\ queue' = [queue EXCEPT ![t] = Append(@, s)]
  /\ UNCHANGED <<rec, phase, qpos, hpos, pc, loc>>

(* Step 1: reclaim_request swaps the record with empty and returns a span  *)
(* completed earlier.                                                      *)
Start(t) ==
  /\ pc[t] = "idle"
  /\ phase[t] < MaxPhase
  /\ rec' = [rec EXCEPT ![t] = Empty]
  /\ IF rec[t].kind = "done" THEN Return(t, rec[t].val)
                             ELSE Goto(t, "publish") /\ UNCHANGED <<mine, loc>>
  /\ UNCHANGED <<queue, phase, qpos, hpos>>

(* Step 2: publish a pending request with a fresh phase.                   *)
PublishRequest(t) ==
  /\ pc[t] = "publish"
  /\ phase' = [phase EXCEPT ![t] = @ + 1]
  /\ rec' = [rec EXCEPT ![t] = Pending(phase[t] + 1)]
  /\ Goto(t, "help")
  /\ UNCHANGED <<queue, qpos, hpos, mine, loc>>

(* The head of the helping loop (step 3) and the loads at acquire.rs:167   *)
(* and help_record.rs:171, which skip a request that is not pending.       *)
NextHelped(t) ==
  /\ loc' = [loc EXCEPT ![t].helped = @ + 1]
  /\ hpos' = [hpos EXCEPT ![t] = Following(@)]
  /\ Goto(t, "help")

Help(t) ==
  /\ pc[t] = "help"
  /\ IF loc[t].helped < H /\ loc[t].queried < N
       THEN LET r == rec[hpos[t]]
            IN IF r.kind = "pending"
                 THEN /\ loc' = [loc EXCEPT ![t].seen = r.val]
                      /\ Goto(t, "reread")
                      /\ UNCHANGED hpos
                 ELSE NextHelped(t)
       ELSE /\ Goto(t, "own")
            /\ UNCHANGED <<loc, hpos>>
  /\ UNCHANGED <<queue, rec, phase, qpos, mine>>

(* help_finishing_req reads the request again and leaves a stale one.      *)
Reread(t) ==
  /\ pc[t] = "reread"
  /\ IF rec[hpos[t]] = Pending(loc[t].seen)
       THEN /\ Goto(t, IF loc[t].held = NULL THEN "load" ELSE "complete")
            /\ UNCHANGED <<loc, hpos>>
       ELSE NextHelped(t)
  /\ UNCHANGED <<queue, rec, phase, qpos, mine>>

-----------------------------------------------------------------------------
(* Step 4, the query loop: look at our own request.  Not pending: "a       *)
(* helper completed our request".                                          *)
Own(t) ==
  /\ pc[t] = "own"
  /\ Goto(t, IF loc[t].queried >= N THEN "clear"
             ELSE IF rec[t].kind = "pending" THEN "ownreq" ELSE "helped")
  /\ UNCHANGED <<queue, rec, phase, qpos, hpos, mine, loc>>

(* help_finishing_req on our own request, which only a helper can have     *)
(* changed since.                                                          *)
OwnRequest(t) ==
  /\ pc[t] = "ownreq"
  /\ loc' = [loc EXCEPT ![t].own = TRUE, ![t].seen = phase[t]]
  /\ Goto(t, IF rec[t].kind # "pending" THEN "take"
             ELSE IF loc[t].held = NULL THEN "load" ELSE "complete")
  /\ UNCHANGED <<queue, rec, phase, qpos, hpos, mine>>

(* try_pop_head_once loads the head of the list at the query position.     *)
PopLoad(t) ==
  /\ pc[t] = "load"
  /\ loc' = [loc EXCEPT ![t].lost = FALSE]
  /\ Goto(t, "try")
  /\ UNCHANGED <<queue, rec, phase, qpos, hpos, mine>>

(* Its link load and CAS2 take the oldest span ...                         *)
PopSpan(t) ==
  LET l == qpos[t]
  IN /\ pc[t] = "try"
     /\ ~loc[t].lost
     /\ queue[l] # <<>>
     /\ queue' = [queue EXCEPT ![l] = Tail(@)]
     /\ loc' = [u \in Threads |->
                  IF u = t THEN [loc[t] EXCEPT !.held = Head(queue[l])]
                  ELSE IF pc[u] = "try" /\ qpos[u] = l THEN [loc[u] EXCEPT !.lost = TRUE]
                  ELSE loc[u]]
     /\ Goto(t, "complete")
     /\ UNCHANGED <<rec, phase, qpos, hpos, mine>>

(* One list queried.  The mutant does not spend budget.                    *)
Unspent(n) == n

Spent(n) == n + 1

(* ... or find the list empty: the caller goes on to the next list ...     *)
PopEmpty(t) ==
  /\ pc[t] = "try"
  /\ loc[t].lost \/ queue[qpos[t]] = <<>>
  /\ loc' = [loc EXCEPT ![t].queried = Spent(@), ![t].own = FALSE, ![t].lost = FALSE]
  /\ qpos' = [qpos EXCEPT ![t] = Following(@)]
  /\ Goto(t, IF loc[t].own THEN "own" ELSE "help")
  /\ UNCHANGED <<queue, rec, phase, hpos, mine>>

(* ... or fail: the helper counts the request as helped, the owner goes    *)
(* on to reclaim its request.                                              *)
PopFailed(t) ==
  /\ pc[t] = "try"
  /\ loc[t].lost \/ (LLSC /\ queue[qpos[t]] # <<>>)
  /\ IF loc[t].own
       THEN /\ loc' = [loc EXCEPT ![t].lost = FALSE]
            /\ Goto(t, "take")
            /\ UNCHANGED hpos
       ELSE /\ loc' = [loc EXCEPT ![t].lost = FALSE, ![t].helped = @ + 1]
            /\ hpos' = [hpos EXCEPT ![t] = Following(@)]
            /\ Goto(t, "help")
  /\ UNCHANGED <<queue, rec, phase, qpos, mine>>

(* The completion CAS of help_finishing_req: the span moves into the       *)
(* record, or stays with the caller.  The mutants store without comparing, *)
(* and compare with an earlier phase.                                      *)
CompletesAny(t, r) == TRUE

CompletesEarlier(t, r) == rec[r] = Pending(loc[t].seen - 1)

Completes(t, r) == rec[r] = Pending(loc[t].seen)

Complete(t) ==
  LET r == IF loc[t].own THEN t ELSE hpos[t]
      ok == Completes(t, r)
      left == IF ok THEN NULL ELSE loc[t].held
  IN /\ pc[t] = "complete"
     /\ rec' = IF ok THEN [rec EXCEPT ![r] = Done(loc[t].held)] ELSE rec
     /\ IF loc[t].own
          THEN /\ loc' = [loc EXCEPT ![t].held = left]
               /\ Goto(t, "take")
               /\ UNCHANGED hpos
          ELSE /\ loc' = [loc EXCEPT ![t].held = left, ![t].helped = @ + 1]
               /\ hpos' = [hpos EXCEPT ![t] = Following(@)]
               /\ Goto(t, "help")
     /\ UNCHANGED <<queue, phase, qpos, mine>>

(* finish_with: return s; a span still held is stored in the record, which *)
(* is empty now, for the next call.                                        *)
FinishWith(t, s) ==
  IF loc[t].held = NULL
    THEN Return(t, s)
    ELSE /\ loc' = [loc EXCEPT ![t].seen = 0, ![t].own = FALSE]
         /\ mine' = [mine EXCEPT ![t] = @ \cup ({s} \ {NULL})]
         /\ Goto(t, "stash")

Stash(t) ==
  /\ pc[t] = "stash"
  /\ rec' = [rec EXCEPT ![t] = Done(loc[t].held)]
  /\ loc' = [loc EXCEPT ![t] = NoCall]
  /\ Goto(t, "idle")
  /\ UNCHANGED <<queue, phase, qpos, hpos, mine>>

(* acquire.rs:191: reclaim after "a helper completed our request".         *)
Helped(t) ==
  /\ pc[t] = "helped"
  /\ rec' = [rec EXCEPT ![t] = Empty]
  /\ FinishWith(t, IF rec[t].kind = "done" THEN rec[t].val ELSE NULL)
  /\ UNCHANGED <<queue, phase, qpos, hpos>>

(* acquire.rs:210: reclaim after help_finishing_req.  A span: return it.   *)
(* None, but one in our hands: return that.  Neither: spend query budget.  *)
Take(t) ==
  /\ pc[t] = "take"
  /\ rec' = [rec EXCEPT ![t] = Empty]
  /\ CASE rec[t].kind = "done" -> FinishWith(t, rec[t].val) /\ UNCHANGED qpos
       [] rec[t].kind # "done" /\ loc[t].held # NULL -> Return(t, loc[t].held) /\ UNCHANGED qpos
       [] OTHER -> /\ loc' = [loc EXCEPT ![t].queried = Spent(@), ![t].own = FALSE]
                   /\ qpos' = [qpos EXCEPT ![t] = Following(@)]
                   /\ Goto(t, "own")
                   /\ UNCHANGED mine
  /\ UNCHANGED <<queue, phase, hpos>>

(* Step 5: the budget is spent; clear the request if it is still pending.  *)
(* The mutant leaves it pending.                                           *)
Uncleared(r, p) == r

Cleared(r, p) == IF r = Pending(p) THEN Empty ELSE r

Clear(t) ==
  /\ pc[t] = "clear"
  /\ rec' = [rec EXCEPT ![t] = Cleared(@, phase[t])]
  /\ Goto(t, "last")
  /\ UNCHANGED <<queue, phase, qpos, hpos, mine, loc>>

(* A helper may have completed it first: reclaim that span.                *)
Last(t) ==
  /\ pc[t] = "last"
  /\ rec' = [rec EXCEPT ![t] = Empty]
  /\ IF rec[t].kind = "done" THEN FinishWith(t, rec[t].val) ELSE Return(t, loc[t].held)
  /\ UNCHANGED <<queue, phase, qpos, hpos>>

-----------------------------------------------------------------------------
(* The steps of a call in progress.                                        *)
Step(t) ==
  \/ PublishRequest(t) \/ Help(t) \/ Reread(t) \/ Own(t) \/ OwnRequest(t)
  \/ PopLoad(t) \/ PopSpan(t) \/ PopEmpty(t) \/ PopFailed(t) \/ Complete(t)
  \/ Stash(t) \/ Helped(t) \/ Take(t) \/ Clear(t) \/ Last(t)

Next == \E t \in Threads : Start(t) \/ Step(t) \/ (\E s \in Spans : Publish(t, s))

Spec == Init /\ [][Next]_vars

(* Thread 0 is scheduled; the others may stop anywhere, forever.           *)
WaitFreeSpec == Spec /\ WF_vars(Step(0))

-----------------------------------------------------------------------------
Requests == {Empty} \cup {Pending(p) : p \in 1 .. MaxPhase} \cup {Done(s) : s \in Spans}

Calls == [held : Spans \cup {NULL}, helped : 0 .. H, queried : 0 .. N,
          seen : 0 .. MaxPhase, lost : BOOLEAN, own : BOOLEAN]

Pcs == {"idle", "publish", "help", "reread", "own", "ownreq", "load", "try", "complete",
        "stash", "helped", "take", "clear", "last"}

TypeOK ==
  /\ queue \in [Threads -> Seq(Spans)]
  /\ rec \in [Threads -> Requests]
  /\ phase \in [Threads -> 0 .. MaxPhase]
  /\ qpos \in [Threads -> Threads] /\ hpos \in [Threads -> Threads]
  /\ mine \in [Threads -> SUBSET Spans]
  /\ pc \in [Threads -> Pcs]
  /\ loc \in [Threads -> Calls]

(* The spans that the list, the record and the call of a thread hold, and  *)
(* those it owns.                                                          *)
Holders == {"list", "record", "call", "thread"} \X Threads

Has ==
  [h \in Holders |->
     CASE h[1] = "list"   -> Range(queue[h[2]])
       [] h[1] = "record" -> {s \in Spans : rec[h[2]] = Done(s)}
       [] h[1] = "call"   -> {loc[h[2]].held} \ {NULL}
       [] h[1] = "thread" -> mine[h[2]]]

(* "It is never dropped" (acquire.rs:14) and "span ownership transferred   *)
(* into the request record": whatever helpers, owners and late completions *)
(* do, every span is in exactly one list, record or hand, and once in a    *)
(* list; a blind store never overwrites a completed record.                *)
SpanInOnePlace ==
  /\ \A t \in Threads : IsInjective(queue[t])
  /\ \A s \in Spans : \E h \in Holders : \A i \in Holders : s \in Has[i] <=> i = h

(* A request is pending only during its owner's call, so that no helper    *)
(* can complete a request whose owner has left.                            *)
PendingOnlyInCall ==
  /\ TypeOK
  /\ \A t \in Threads : rec[t].kind = "pending" =>
       pc[t] \notin {"idle", "publish", "stash", "last"} /\ rec[t].val = phase[t]

(* The caller of help_finishing_req that pops a span of its own while the  *)
(* request is its own always gets it from the record: the branches at      *)
(* acquire.rs:220 and 247, which return the held span, are not reached.    *)
HeldSpanIsPlaced ==
  \A t \in Threads : pc[t] \in {"take", "last"} /\ loc[t].held # NULL => rec[t].kind = "done"

(* What makes these inductive: what a thread at l with locals c may hold,  *)
(* and what its record r may be there, its last phase being p, whoever     *)
(* else writes to the record.                                              *)
CallInv(l, c, r, p) ==
  LET inPop == l \in {"load", "try", "complete"}
  IN /\ l \in {"idle", "publish", "load", "try", "clear", "last"} => c.held = NULL
     /\ l \in {"complete", "stash"} => c.held # NULL
     /\ c.held # NULL => c.queried < N
     /\ l = "publish" => p < MaxPhase
     /\ l \in {"idle", "publish", "help", "reread"} => ~c.own
     /\ l = "reread" \/ (inPop /\ ~c.own) => c.helped < H
     /\ inPop \/ l \in {"reread", "ownreq", "take"} => c.queried < N
     /\ inPop /\ c.own => c.seen = p
     /\ l \in {"publish", "stash"} => r = Empty
     /\ inPop \/ l \in {"help", "reread", "ownreq"} => r.kind # "empty"
     /\ l = "take" /\ c.held # NULL => r.kind = "done"
     /\ r.kind = "pending" => l \notin {"idle", "publish", "stash", "last"} /\ r.val = p

HelpInv ==
  /\ TypeOK
  /\ SpanInOnePlace
  /\ \A t \in Threads : CallInv(pc[t], loc[t], rec[t], phase[t])

(* Wait-freedom: a call of thread 0 returns although every other thread    *)
(* may be stalled in the middle of a pop, a completion or a request.       *)
CallReturns == (pc[0] # "idle") ~> (pc[0] = "idle")
=============================================================================
