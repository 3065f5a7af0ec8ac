------------------------- MODULE HelpAcquireProofs --------------------------
(* Proofs about HelpAcquire, for every number of threads, every budget and *)
(* every set of spans: helping neither drops nor doubles a span, and no    *)
(* request outlives its call.                                              *)
EXTENDS HelpAcquire, SequenceTheorems, TLAPS

(* What is assumed of the constants, for the proofs to cite.               *)
LEMMA Constants == N \in Nat \ {0} /\ H \in Nat /\ MaxPhase \in Nat /\ NULL \notin Spans
BY AcquireAssumption, Zenon

(* A request is empty, pending or done, and shows which.                   *)
LEMMA RequestKinds ==
  /\ Empty \in Requests /\ Empty.kind = "empty"
  /\ \A p \in 1 .. MaxPhase : Pending(p) \in Requests
  /\ \A s \in Spans : Done(s) \in Requests
  /\ \A p : Pending(p).kind = "pending" /\ Pending(p).val = p
  /\ \A s : Done(s).kind = "done" /\ Done(s).val = s
  /\ \A r \in Requests :
       /\ r.kind = "empty" => r = Empty
       /\ r.kind = "pending" => r.val \in 1 .. MaxPhase /\ r = Pending(r.val)
       /\ r.kind = "done" => r.val \in Spans /\ r = Done(r.val)
       /\ r.kind \in {"empty", "pending", "done"}
<1>1. \A p : Pending(p).kind = "pending" /\ Pending(p).val = p
  BY Zenon DEF Pending, Req
<1>2. \A s : Done(s).kind = "done" /\ Done(s).val = s
  BY Zenon DEF Done, Req
<1>3. Empty.kind = "empty"
  BY Zenon DEF Empty, Req
<1>4. /\ Empty \in Requests
      /\ \A p \in 1 .. MaxPhase : Pending(p) \in Requests
      /\ \A s \in Spans : Done(s) \in Requests
  BY Zenon DEF Requests
<1>5. ASSUME NEW r \in Requests
      PROVE  /\ r.kind = "empty" => r = Empty
             /\ r.kind = "pending" => r.val \in 1 .. MaxPhase /\ r = Pending(r.val)
             /\ r.kind = "done" => r.val \in Spans /\ r = Done(r.val)
             /\ r.kind \in {"empty", "pending", "done"}
  <2>1. r = Empty \/ (\E p \in 1 .. MaxPhase : r = Pending(p)) \/ (\E s \in Spans : r = Done(s))
    BY Zenon DEF Requests
  <2> QED BY <2>1, <1>1, <1>2, <1>3
<1> QED BY <1>1, <1>2, <1>3, <1>4, <1>5, Zenon

(* The counters and positions of a call and where they go.                 *)
Within(t) ==
  /\ loc[t] \in Calls /\ phase[t] \in 0 .. MaxPhase
  /\ loc[t].helped < H => loc[t].helped + 1 \in 0 .. H
  /\ loc[t].queried < N => loc[t].queried + 1 \in 0 .. N
  /\ hpos[t] \in Threads /\ Following(hpos[t]) \in Threads
  /\ qpos[t] \in Threads /\ Following(qpos[t]) \in Threads
  /\ rec[t] \in Requests /\ rec[hpos[t]] \in Requests

(* The types give these bounds.                                            *)
LEMMA Positions ==
  ASSUME TypeOK, NEW t \in Threads
  PROVE  Within(t)
<1>1. \A i \in Threads : Following(i) \in Threads
  BY Constants DEF Threads, Following
<1>2. hpos[t] \in Threads /\ qpos[t] \in Threads /\ loc[t] \in Calls /\ phase[t] \in 0 .. MaxPhase
  BY Zenon DEF TypeOK
<1>3. rec[t] \in Requests /\ rec[hpos[t]] \in Requests
  BY <1>2, Zenon DEF TypeOK
<1>4. /\ loc[t].helped < H => loc[t].helped + 1 \in 0 .. H
      /\ loc[t].queried < N => loc[t].queried + 1 \in 0 .. N
  BY <1>2, Constants DEF Calls
<1> QED BY <1>1, <1>2, <1>3, <1>4, Zenon DEF Within

(* A step that replaces the locals of one call by locals keeps the type.   *)
LEMMA OneCall ==
  ASSUME TypeOK, NEW t \in Threads, NEW c \in Calls, loc' = [loc EXCEPT ![t] = c]
  PROVE  /\ loc' \in [Threads -> Calls] /\ loc'[t] = c
         /\ \A u \in Threads \ {t} : loc'[u] = loc[u]
BY Zenon DEF TypeOK

(* The locals of a thread outside a call.                                  *)
LEMMA NoCallTyped == NoCall \in Calls /\ NoCall.held = NULL /\ ~NoCall.own
BY Constants DEF NoCall, Calls

-----------------------------------------------------------------------------
(* The types and the call invariant.                                       *)

(* Every thread is in order.                                               *)
CallsInv == \A u \in Threads : CallInv(pc[u], loc[u], rec[u], phase[u])

(* A step of t that changes no other thread's record or locals keeps the   *)
(* call invariant when it brings t to a place that has it.                 *)
LEMMA OwnStep ==
  ASSUME TypeOK, CallsInv, NEW t \in Threads,
         NEW l \in Pcs, NEW c \in Calls, NEW r \in Requests, NEW p \in 0 .. MaxPhase,
         pc' = [pc EXCEPT ![t] = l], loc' = [loc EXCEPT ![t] = c],
         rec' = [rec EXCEPT ![t] = r], phase' = [phase EXCEPT ![t] = p],
         queue' \in [Threads -> Seq(Spans)], mine' \in [Threads -> SUBSET Spans],
         qpos' \in [Threads -> Threads], hpos' \in [Threads -> Threads],
         CallInv(l, c, r, p)
  PROVE  TypeOK' /\ CallsInv'
<1>1. TypeOK'
  BY Zenon DEF TypeOK
<1>2. pc'[t] = l /\ loc'[t] = c /\ rec'[t] = r /\ phase'[t] = p
  BY Zenon DEF TypeOK
<1>3. ASSUME NEW u \in Threads, u # t
      PROVE  pc'[u] = pc[u] /\ loc'[u] = loc[u] /\ rec'[u] = rec[u] /\ phase'[u] = phase[u]
  BY <1>3, Zenon DEF TypeOK
<1>4. ASSUME NEW u \in Threads
      PROVE  CallInv(pc'[u], loc'[u], rec'[u], phase'[u])
  <2>1. CASE u = t
    BY <1>2, <2>1, Zenon
  <2>2. CASE u # t
    BY <1>3, <2>2, Zenon DEF CallsInv
  <2> QED BY <2>1, <2>2, Zenon
<1>5. CallsInv'
  BY <1>4, Zenon DEF CallsInv
<1> QED BY <1>1, <1>5, Zenon

(* The same, of a step that leaves the records and the spans alone.        *)
LEMMA QuietStep ==
  ASSUME TypeOK, CallsInv, NEW t \in Threads, NEW l \in Pcs, NEW c \in Calls,
         pc' = [pc EXCEPT ![t] = l], loc' = [loc EXCEPT ![t] = c],
         UNCHANGED <<queue, rec, phase, mine>>,
         qpos' \in [Threads -> Threads], hpos' \in [Threads -> Threads],
         CallInv(l, c, rec[t], phase[t])
  PROVE  TypeOK' /\ CallsInv'
<1>1. /\ rec[t] \in Requests /\ rec' = [rec EXCEPT ![t] = rec[t]]
      /\ phase[t] \in 0 .. MaxPhase /\ phase' = [phase EXCEPT ![t] = phase[t]]
      /\ queue' \in [Threads -> Seq(Spans)] /\ mine' \in [Threads -> SUBSET Spans]
  BY Zenon DEF TypeOK
<1> QED BY <1>1, OwnStep, Zenon

(* The head of the helping loop keeps the types and the call invariant ... *)
LEMMA HelpTypes ==
  ASSUME TypeOK, CallsInv, NEW t \in Threads, Help(t)
  PROVE  TypeOK' /\ CallsInv'
<1>1. Within(t) /\ CallInv(pc[t], loc[t], rec[t], phase[t])
  BY Positions, Zenon DEF CallsInv
<1>2. CASE loc[t].helped < H /\ loc[t].queried < N /\ rec[hpos[t]].kind = "pending"
  <2> DEFINE c == [loc[t] EXCEPT !.seen = rec[hpos[t]].val]
  <2>1. rec[hpos[t]].val \in 0 .. MaxPhase
    BY <1>1, <1>2, RequestKinds, Constants DEF Within
  <2>2. c \in Calls
    BY <1>1, <2>1, Zenon DEF Within, Calls
  <2>3. /\ pc[t] = "help" /\ pc' = [pc EXCEPT ![t] = "reread"]
        /\ loc' = [loc EXCEPT ![t] = c]
        /\ UNCHANGED <<queue, rec, phase, mine>>
        /\ qpos' \in [Threads -> Threads] /\ hpos' \in [Threads -> Threads]
    BY <1>2, Zenon DEF Help, Goto, TypeOK
  <2>4. CallInv("reread", c, rec[t], phase[t])
    BY <1>1, <1>2, <2>3, Zenon DEF CallInv, Within, Calls
  <2> QED BY <2>2, <2>3, <2>4, QuietStep, Zenon DEF Pcs
<1>3. CASE loc[t].helped < H /\ loc[t].queried < N /\ rec[hpos[t]].kind # "pending"
  <2> DEFINE c == [loc[t] EXCEPT !.helped = @ + 1]
  <2>2. c \in Calls
    BY <1>1, <1>3, Zenon DEF Within, Calls
  <2>3. /\ pc[t] = "help" /\ pc' = [pc EXCEPT ![t] = "help"]
        /\ loc' = [loc EXCEPT ![t] = c]
        /\ hpos' = [hpos EXCEPT ![t] = Following(hpos[t])]
        /\ UNCHANGED <<queue, rec, phase, qpos, mine>>
    BY <1>3, Zenon DEF Help, NextHelped, Goto
  <2>5. /\ qpos' \in [Threads -> Threads] /\ hpos' \in [Threads -> Threads]
        /\ UNCHANGED <<queue, rec, phase, mine>>
    BY <1>1, <2>3, Zenon DEF TypeOK, Within
  <2>4. CallInv("help", c, rec[t], phase[t])
    BY <1>1, <1>3, <2>3, Zenon DEF CallInv, Within, Calls
  <2> HIDE DEF c
  <2> QED BY <2>2, <2>3, <2>4, <2>5, QuietStep, Zenon DEF Pcs
<1>4. CASE ~(loc[t].helped < H /\ loc[t].queried < N)
  <2>3. /\ pc[t] = "help" /\ pc' = [pc EXCEPT ![t] = "own"]
        /\ loc' = [loc EXCEPT ![t] = loc[t]] /\ loc[t] \in Calls
        /\ UNCHANGED <<queue, rec, phase, mine>>
        /\ qpos' \in [Threads -> Threads] /\ hpos' \in [Threads -> Threads]
    BY <1>4, Zenon DEF Help, Goto, TypeOK
  <2>4. CallInv("own", loc[t], rec[t], phase[t])
    BY <1>1, <2>3, Zenon DEF CallInv
  <2> QED BY <2>3, <2>4, QuietStep, Zenon DEF Pcs
<1> QED BY <1>2, <1>3, <1>4, Zenon

(* ... the second look at the helped request ...                           *)
LEMMA RereadTypes ==
  ASSUME TypeOK, CallsInv, NEW t \in Threads, Reread(t)
  PROVE  TypeOK' /\ CallsInv'
<1>1. Within(t) /\ CallInv(pc[t], loc[t], rec[t], phase[t])
  BY Positions DEF CallsInv
<1>2. CASE rec[hpos[t]] = Pending(loc[t].seen)
  <2> DEFINE l == IF loc[t].held = NULL THEN "load" ELSE "complete"
  <2>1. /\ pc[t] = "reread" /\ pc' = [pc EXCEPT ![t] = l]
        /\ loc' = [loc EXCEPT ![t] = loc[t]] /\ loc[t] \in Calls
        /\ UNCHANGED <<queue, rec, phase, mine>>
        /\ qpos' \in [Threads -> Threads] /\ hpos' \in [Threads -> Threads]
    BY <1>2, Zenon DEF Reread, Goto, TypeOK
  <2>2. l \in Pcs /\ CallInv(l, loc[t], rec[t], phase[t])
    BY <1>1, <2>1, Zenon DEF CallInv, Pcs
  <2> QED BY <2>1, <2>2, QuietStep, Zenon
<1>3. CASE rec[hpos[t]] # Pending(loc[t].seen)
  <2> DEFINE c == [loc[t] EXCEPT !.helped = @ + 1]
  <2>1. /\ pc[t] = "reread" /\ pc' = [pc EXCEPT ![t] = "help"]
        /\ loc' = [loc EXCEPT ![t] = c]
        /\ hpos' = [hpos EXCEPT ![t] = Following(hpos[t])]
        /\ UNCHANGED <<queue, rec, phase, qpos, mine>>
    BY <1>3, Zenon DEF Reread, NextHelped, Goto
  <2>2. loc[t].helped < H
    BY <1>1, <2>1, Zenon DEF CallInv
  <2>3. c \in Calls
    BY <1>1, <2>2, Zenon DEF Within, Calls
  <2>4. /\ qpos' \in [Threads -> Threads] /\ hpos' \in [Threads -> Threads]
        /\ UNCHANGED <<queue, rec, phase, mine>>
    BY <1>1, <2>1, Zenon DEF TypeOK, Within
  <2>5. CallInv("help", c, rec[t], phase[t])
    BY <1>1, <2>1, Zenon DEF CallInv, Within, Calls
  <2> HIDE DEF c
  <2> QED BY <2>1, <2>3, <2>4, <2>5, QuietStep, Zenon DEF Pcs
<1> QED BY <1>2, <1>3, Zenon

(* ... the head of the query loop ...                                      *)
LEMMA OwnTypes ==
  ASSUME TypeOK, CallsInv, NEW t \in Threads, Own(t)
  PROVE  TypeOK' /\ CallsInv'
<1>1. Within(t) /\ CallInv(pc[t], loc[t], rec[t], phase[t])
  BY Positions DEF CallsInv
<1> DEFINE l == IF loc[t].queried >= N THEN "clear"
                ELSE IF rec[t].kind = "pending" THEN "ownreq" ELSE "helped"
<1>2. /\ pc[t] = "own" /\ pc' = [pc EXCEPT ![t] = l]
      /\ loc' = [loc EXCEPT ![t] = loc[t]] /\ loc[t] \in Calls
      /\ UNCHANGED <<queue, rec, phase, mine>>
      /\ qpos' \in [Threads -> Threads] /\ hpos' \in [Threads -> Threads]
  BY Zenon DEF Own, Goto, TypeOK
<1>3. l \in Pcs /\ CallInv(l, loc[t], rec[t], phase[t])
  BY <1>1, <1>2, Constants DEF CallInv, Pcs, Within, Calls
<1> QED BY <1>2, <1>3, QuietStep, Zenon

(* ... the look at our own request: one that is no longer pending, and not *)
(* empty, is done, so that taking it yields a span ...                     *)
LEMMA OwnRequestTypes ==
  ASSUME TypeOK, CallsInv, NEW t \in Threads, OwnRequest(t)
  PROVE  TypeOK' /\ CallsInv'
<1>1. Within(t) /\ CallInv(pc[t], loc[t], rec[t], phase[t])
  BY Positions DEF CallsInv
<1> DEFINE l == IF rec[t].kind # "pending" THEN "take"
                ELSE IF loc[t].held = NULL THEN "load" ELSE "complete"
           c == [loc[t] EXCEPT !.own = TRUE, !.seen = phase[t]]
<1>2. /\ pc[t] = "ownreq" /\ pc' = [pc EXCEPT ![t] = l]
      /\ loc' = [loc EXCEPT ![t] = c]
      /\ UNCHANGED <<queue, rec, phase, mine>>
      /\ qpos' \in [Threads -> Threads] /\ hpos' \in [Threads -> Threads]
  BY Zenon DEF OwnRequest, Goto, TypeOK
<1>3. c \in Calls
  BY <1>1, Zenon DEF Within, Calls
<1>4. rec[t].kind \in {"empty", "pending", "done"}
  BY <1>1, RequestKinds, Zenon DEF Within
<1>5. l \in Pcs /\ CallInv(l, c, rec[t], phase[t])
  BY <1>1, <1>2, <1>4, Zenon DEF CallInv, Pcs, Within, Calls
<1> QED BY <1>2, <1>3, <1>5, QuietStep, Zenon

(* ... the load of a list's head ...                                       *)
LEMMA PopLoadTypes ==
  ASSUME TypeOK, CallsInv, NEW t \in Threads, PopLoad(t)
  PROVE  TypeOK' /\ CallsInv'
<1>1. Within(t) /\ CallInv(pc[t], loc[t], rec[t], phase[t])
  BY Positions DEF CallsInv
<1> DEFINE c == [loc[t] EXCEPT !.lost = FALSE]
<1>2. /\ pc[t] = "load" /\ pc' = [pc EXCEPT ![t] = "try"]
      /\ loc' = [loc EXCEPT ![t] = c]
      /\ UNCHANGED <<queue, rec, phase, mine>>
      /\ qpos' \in [Threads -> Threads] /\ hpos' \in [Threads -> Threads]
  BY Zenon DEF PopLoad, Goto, TypeOK
<1>3. c \in Calls
  BY <1>1, Zenon DEF Within, Calls
<1>4. CallInv("try", c, rec[t], phase[t])
  BY <1>1, <1>2, Zenon DEF CallInv, Within, Calls
<1> QED BY <1>2, <1>3, <1>4, QuietStep, Zenon DEF Pcs

(* ... a list found empty ...                                              *)
LEMMA PopEmptyTypes ==
  ASSUME TypeOK, CallsInv, NEW t \in Threads, PopEmpty(t)
  PROVE  TypeOK' /\ CallsInv'
<1>1. Within(t) /\ CallInv(pc[t], loc[t], rec[t], phase[t])
  BY Positions DEF CallsInv
<1> DEFINE l == IF loc[t].own THEN "own" ELSE "help"
           c == [loc[t] EXCEPT !.queried = @ + 1, !.own = FALSE, !.lost = FALSE]
<1>2. /\ pc[t] = "try" /\ pc' = [pc EXCEPT ![t] = l]
      /\ loc' = [loc EXCEPT ![t] = c]
      /\ qpos' = [qpos EXCEPT ![t] = Following(qpos[t])]
      /\ UNCHANGED <<queue, rec, phase, hpos, mine>>
  BY Zenon DEF PopEmpty, Goto, Spent
<1>3. loc[t].queried < N
  BY <1>1, <1>2, Zenon DEF CallInv
<1>4. c \in Calls
  BY <1>1, <1>3, Zenon DEF Within, Calls
<1>5. qpos' \in [Threads -> Threads] /\ hpos' \in [Threads -> Threads]
  BY <1>1, <1>2, Zenon DEF TypeOK, Within
<1>6. l \in Pcs /\ CallInv(l, c, rec[t], phase[t])
  BY <1>1, <1>2, Zenon DEF CallInv, Pcs, Within, Calls
<1> QED BY <1>2, <1>4, <1>5, <1>6, QuietStep, Zenon

(* ... and a pop that failed.                                              *)
LEMMA PopFailedTypes ==
  ASSUME TypeOK, CallsInv, NEW t \in Threads, PopFailed(t)
  PROVE  TypeOK' /\ CallsInv'
<1>1. Within(t) /\ CallInv(pc[t], loc[t], rec[t], phase[t])
  BY Positions DEF CallsInv
<1>2. CASE loc[t].own
  <2> DEFINE c == [loc[t] EXCEPT !.lost = FALSE]
  <2>1. /\ pc[t] = "try" /\ pc' = [pc EXCEPT ![t] = "take"]
        /\ loc' = [loc EXCEPT ![t] = c]
        /\ UNCHANGED <<queue, rec, phase, mine>>
        /\ qpos' \in [Threads -> Threads] /\ hpos' \in [Threads -> Threads]
    BY <1>2, Zenon DEF PopFailed, Goto, TypeOK
  <2>2. c \in Calls
    BY <1>1, Zenon DEF Within, Calls
  <2>3. CallInv("take", c, rec[t], phase[t])
    BY <1>1, <2>1, Zenon DEF CallInv, Within, Calls
  <2> QED BY <2>1, <2>2, <2>3, QuietStep, Zenon DEF Pcs
<1>3. CASE ~loc[t].own
  <2> DEFINE c == [loc[t] EXCEPT !.lost = FALSE, !.helped = @ + 1]
  <2>1. /\ pc[t] = "try" /\ pc' = [pc EXCEPT ![t] = "help"]
        /\ loc' = [loc EXCEPT ![t] = c]
        /\ hpos' = [hpos EXCEPT ![t] = Following(hpos[t])]
        /\ UNCHANGED <<queue, rec, phase, qpos, mine>>
    BY <1>3, Zenon DEF PopFailed, Goto
  <2>2. loc[t].helped < H
    BY <1>1, <1>3, <2>1, Zenon DEF CallInv
  <2>3. c \in Calls
    BY <1>1, <2>2, Zenon DEF Within, Calls
  <2>4. /\ qpos' \in [Threads -> Threads] /\ hpos' \in [Threads -> Threads]
        /\ UNCHANGED <<queue, rec, phase, mine>>
    BY <1>1, <2>1, Zenon DEF TypeOK, Within
  <2>5. CallInv("help", c, rec[t], phase[t])
    BY <1>1, <1>3, <2>1, Zenon DEF CallInv, Within, Calls
  <2> HIDE DEF c
  <2> QED BY <2>1, <2>3, <2>4, <2>5, QuietStep, Zenon DEF Pcs
<1> QED BY <1>2, <1>3, Zenon

(* The ways out of a call that empty the record.                           *)
LEMMA ReturnTypes ==
  ASSUME TypeOK, CallsInv, NEW t \in Threads, NEW s \in Spans \cup {NULL},
         rec' = [rec EXCEPT ![t] = Empty], Return(t, s), UNCHANGED <<queue, phase, qpos, hpos>>
  PROVE  TypeOK' /\ CallsInv'
<1>1. /\ pc' = [pc EXCEPT ![t] = "idle"] /\ loc' = [loc EXCEPT ![t] = NoCall]
      /\ mine' = [mine EXCEPT ![t] = mine[t] \cup ({s} \ {NULL})]
  BY Zenon DEF Return, Goto
<1>2. /\ mine' \in [Threads -> SUBSET Spans] /\ queue' \in [Threads -> Seq(Spans)]
      /\ qpos' \in [Threads -> Threads] /\ hpos' \in [Threads -> Threads]
      /\ phase[t] \in 0 .. MaxPhase /\ phase' = [phase EXCEPT ![t] = phase[t]]
  BY <1>1, Zenon DEF TypeOK
<1>3. Empty \in Requests /\ CallInv("idle", NoCall, Empty, phase[t])
  BY NoCallTyped, RequestKinds, Zenon DEF CallInv
<1> QED BY <1>1, <1>2, <1>3, NoCallTyped, OwnStep, Zenon DEF Pcs

(* finish_with, with the held span still to be stored or nothing to store. *)
LEMMA FinishTypes ==
  ASSUME TypeOK, CallsInv, NEW t \in Threads, NEW s \in Spans \cup {NULL},
         rec' = [rec EXCEPT ![t] = Empty], FinishWith(t, s), UNCHANGED <<queue, phase, qpos, hpos>>
  PROVE  TypeOK' /\ CallsInv'
<1>0. Within(t) /\ CallInv(pc[t], loc[t], rec[t], phase[t])
  BY Positions, Zenon DEF CallsInv
<1>1. CASE loc[t].held = NULL
  <2>1. Return(t, s)
    BY <1>1, Zenon DEF FinishWith
  <2> QED BY <2>1, ReturnTypes, Zenon
<1>2. CASE loc[t].held # NULL
  <2> DEFINE c == [loc[t] EXCEPT !.seen = 0, !.own = FALSE]
  <2>1. /\ pc' = [pc EXCEPT ![t] = "stash"] /\ loc' = [loc EXCEPT ![t] = c]
        /\ mine' = [mine EXCEPT ![t] = mine[t] \cup ({s} \ {NULL})]
    BY <1>2, Zenon DEF FinishWith, Goto
  <2>2. /\ mine' \in [Threads -> SUBSET Spans] /\ queue' \in [Threads -> Seq(Spans)]
        /\ qpos' \in [Threads -> Threads] /\ hpos' \in [Threads -> Threads]
        /\ phase[t] \in 0 .. MaxPhase /\ phase' = [phase EXCEPT ![t] = phase[t]]
    BY <2>1, Zenon DEF TypeOK
  <2>0. 0 \in 0 .. MaxPhase
    BY Constants
  <2>3. c \in Calls
    BY <1>0, <2>0, Zenon DEF Within, Calls
  <2>4. Empty \in Requests /\ CallInv("stash", c, Empty, phase[t])
    BY <1>0, <1>2, RequestKinds, Zenon DEF CallInv, Within, Calls
  <2> HIDE DEF c
  <2> QED BY <2>1, <2>2, <2>3, <2>4, OwnStep, Zenon DEF Pcs
<1> QED BY <1>1, <1>2, Zenon

(* A published span touches no call.                                       *)
LEMMA PublishTypes ==
  ASSUME TypeOK, CallsInv, NEW t \in Threads, NEW s \in Spans, Publish(t, s)
  PROVE  TypeOK' /\ CallsInv'
<1>1. TypeOK'
  BY AppendProperties, Zenon DEF TypeOK, Publish
<1> QED BY <1>1, Zenon DEF CallsInv, Publish

(* The start of a call reclaims a span completed earlier, or goes on with  *)
(* an empty record.                                                        *)
LEMMA StartTypes ==
  ASSUME TypeOK, CallsInv, NEW t \in Threads, Start(t)
  PROVE  TypeOK' /\ CallsInv'
<1>1. Within(t) /\ CallInv(pc[t], loc[t], rec[t], phase[t])
  BY Positions DEF CallsInv
<1>2. /\ pc[t] = "idle" /\ phase[t] < MaxPhase /\ rec' = [rec EXCEPT ![t] = Empty]
      /\ UNCHANGED <<queue, phase, qpos, hpos>>
  BY Zenon DEF Start
<1>3. CASE rec[t].kind = "done"
  <2>1. Return(t, rec[t].val) /\ rec[t].val \in Spans
    BY <1>1, <1>3, RequestKinds, Zenon DEF Start, Within
  <2> QED BY <1>2, <2>1, ReturnTypes, Zenon
<1>4. CASE rec[t].kind # "done"
  <2>1. /\ pc' = [pc EXCEPT ![t] = "publish"] /\ loc[t] \in Calls /\ loc' = [loc EXCEPT ![t] = loc[t]]
        /\ phase[t] \in 0 .. MaxPhase /\ phase' = [phase EXCEPT ![t] = phase[t]]
        /\ mine' \in [Threads -> SUBSET Spans] /\ queue' \in [Threads -> Seq(Spans)]
        /\ qpos' \in [Threads -> Threads] /\ hpos' \in [Threads -> Threads]
    BY <1>2, <1>4 DEF Start, Goto, TypeOK
  <2>2. Empty \in Requests /\ CallInv("publish", loc[t], Empty, phase[t])
    BY <1>1, <1>2, RequestKinds, Zenon DEF CallInv
  <2> QED BY <1>2, <2>1, <2>2, OwnStep, Zenon DEF Pcs
<1> QED BY <1>3, <1>4, Zenon

(* A request is published with the fresh phase.                            *)
LEMMA PublishRequestTypes ==
  ASSUME TypeOK, CallsInv, NEW t \in Threads, PublishRequest(t)
  PROVE  TypeOK' /\ CallsInv'
<1>1. Within(t) /\ CallInv(pc[t], loc[t], rec[t], phase[t])
  BY Positions DEF CallsInv
<1> DEFINE p == phase[t] + 1
<1>2. /\ pc[t] = "publish" /\ pc' = [pc EXCEPT ![t] = "help"]
      /\ phase' = [phase EXCEPT ![t] = p] /\ rec' = [rec EXCEPT ![t] = Pending(p)]
      /\ loc[t] \in Calls /\ loc' = [loc EXCEPT ![t] = loc[t]]
      /\ mine' \in [Threads -> SUBSET Spans] /\ queue' \in [Threads -> Seq(Spans)]
      /\ qpos' \in [Threads -> Threads] /\ hpos' \in [Threads -> Threads]
  BY Zenon DEF PublishRequest, Goto, TypeOK
<1>3. p \in 0 .. MaxPhase /\ p \in 1 .. MaxPhase
  BY <1>1, <1>2, Constants DEF CallInv, Within
<1>4. Pending(p) \in Requests
  BY <1>3, RequestKinds, Zenon
<1>6. CallInv("help", loc[t], Pending(p), p)
  BY <1>1, <1>2, RequestKinds, Zenon DEF CallInv
<1> HIDE DEF p
<1> QED BY <1>2, <1>3, <1>4, <1>6, OwnStep, Zenon DEF Pcs

(* The held span is stored in the record, which is empty.                  *)
LEMMA StashTypes ==
  ASSUME TypeOK, CallsInv, NEW t \in Threads, Stash(t)
  PROVE  TypeOK' /\ CallsInv'
<1>1. Within(t) /\ CallInv(pc[t], loc[t], rec[t], phase[t])
  BY Positions DEF CallsInv
<1>2. /\ pc[t] = "stash" /\ pc' = [pc EXCEPT ![t] = "idle"]
      /\ loc' = [loc EXCEPT ![t] = NoCall] /\ rec' = [rec EXCEPT ![t] = Done(loc[t].held)]
      /\ phase[t] \in 0 .. MaxPhase /\ phase' = [phase EXCEPT ![t] = phase[t]]
      /\ mine' \in [Threads -> SUBSET Spans] /\ queue' \in [Threads -> Seq(Spans)]
      /\ qpos' \in [Threads -> Threads] /\ hpos' \in [Threads -> Threads]
  BY Zenon DEF Stash, Goto, TypeOK
<1>3. loc[t].held \in Spans
  BY <1>1, <1>2, Zenon DEF CallInv, Within, Calls
<1>4. Done(loc[t].held) \in Requests /\ CallInv("idle", NoCall, Done(loc[t].held), phase[t])
  BY <1>3, RequestKinds, NoCallTyped, Zenon DEF CallInv
<1> QED BY <1>2, <1>4, NoCallTyped, OwnStep, Zenon DEF Pcs

(* The reclaim after a helper's completion.                                *)
LEMMA HelpedTypes ==
  ASSUME TypeOK, CallsInv, NEW t \in Threads, Helped(t)
  PROVE  TypeOK' /\ CallsInv'
<1> DEFINE s == IF rec[t].kind = "done" THEN rec[t].val ELSE NULL
<1>1. s \in Spans \cup {NULL}
  BY Positions, RequestKinds, Zenon DEF Within
<1>2. rec' = [rec EXCEPT ![t] = Empty] /\ FinishWith(t, s) /\ UNCHANGED <<queue, phase, qpos, hpos>>
  BY Zenon DEF Helped
<1> HIDE DEF s
<1> QED BY <1>1, <1>2, FinishTypes, Zenon

(* The reclaim after help_finishing_req: the record holds a span, or the   *)
(* call holds none.                                                        *)
LEMMA TakeTypes ==
  ASSUME TypeOK, CallsInv, NEW t \in Threads, Take(t)
  PROVE  TypeOK' /\ CallsInv'
<1>1. Within(t) /\ CallInv(pc[t], loc[t], rec[t], phase[t])
  BY Positions DEF CallsInv
<1>2. /\ pc[t] = "take" /\ rec' = [rec EXCEPT ![t] = Empty] /\ UNCHANGED <<queue, phase, hpos>>
  BY Zenon DEF Take
<1>3. CASE rec[t].kind = "done"
  <2>1. FinishWith(t, rec[t].val) /\ UNCHANGED qpos /\ rec[t].val \in Spans
    BY <1>1, <1>3, RequestKinds, Zenon DEF Take, Within
  <2> QED BY <1>2, <2>1, FinishTypes, Zenon
<1>4. CASE rec[t].kind # "done"
  <2>1. loc[t].held = NULL /\ loc[t].queried < N
    BY <1>1, <1>2, <1>4, Zenon DEF CallInv
  <2> DEFINE c == [loc[t] EXCEPT !.queried = @ + 1, !.own = FALSE]
  <2>2. /\ pc' = [pc EXCEPT ![t] = "own"] /\ loc' = [loc EXCEPT ![t] = c]
        /\ qpos' = [qpos EXCEPT ![t] = Following(qpos[t])] /\ UNCHANGED mine
    BY <1>4, <2>1, Zenon DEF Take, Goto, Spent
  <2>3. c \in Calls
    BY <1>1, <2>1, Zenon DEF Within, Calls
  <2>4. /\ mine' \in [Threads -> SUBSET Spans] /\ queue' \in [Threads -> Seq(Spans)]
        /\ qpos' \in [Threads -> Threads] /\ hpos' \in [Threads -> Threads]
        /\ phase[t] \in 0 .. MaxPhase /\ phase' = [phase EXCEPT ![t] = phase[t]]
    BY <1>1, <1>2, <2>2, Zenon DEF TypeOK, Within
  <2>5. Empty \in Requests /\ CallInv("own", c, Empty, phase[t])
    BY <1>1, <2>1, RequestKinds, Zenon DEF CallInv, Within, Calls
  <2> HIDE DEF c
  <2> QED BY <1>2, <2>2, <2>3, <2>4, <2>5, OwnStep, Zenon DEF Pcs
<1> QED BY <1>3, <1>4

(* A request still pending is the one of this call, and is cleared.        *)
LEMMA ClearTypes ==
  ASSUME TypeOK, CallsInv, NEW t \in Threads, Clear(t)
  PROVE  TypeOK' /\ CallsInv'
<1>1. Within(t) /\ CallInv(pc[t], loc[t], rec[t], phase[t])
  BY Positions DEF CallsInv
<1> DEFINE r == Cleared(rec[t], phase[t])
<1>2. /\ pc[t] = "clear" /\ pc' = [pc EXCEPT ![t] = "last"]
      /\ loc[t] \in Calls /\ loc' = [loc EXCEPT ![t] = loc[t]] /\ rec' = [rec EXCEPT ![t] = r]
      /\ phase[t] \in 0 .. MaxPhase /\ phase' = [phase EXCEPT ![t] = phase[t]]
      /\ mine' \in [Threads -> SUBSET Spans] /\ queue' \in [Threads -> Seq(Spans)]
      /\ qpos' \in [Threads -> Threads] /\ hpos' \in [Threads -> Threads]
  BY Zenon DEF Clear, Goto, TypeOK
<1>3. rec[t] \in Requests /\ (rec[t].kind = "pending" => rec[t] = Pending(phase[t]))
  BY <1>1, RequestKinds, Zenon DEF CallInv, Within
<1>4. r \in Requests /\ r.kind # "pending"
  BY <1>3, RequestKinds, Zenon DEF Cleared
<1>5. CallInv("last", loc[t], r, phase[t])
  BY <1>1, <1>2, <1>4, Zenon DEF CallInv
<1> HIDE DEF r
<1> QED BY <1>2, <1>4, <1>5, OwnStep, Zenon DEF Pcs

(* The reclaim after the clear.                                            *)
LEMMA LastTypes ==
  ASSUME TypeOK, CallsInv, NEW t \in Threads, Last(t)
  PROVE  TypeOK' /\ CallsInv'
<1>1. Within(t)
  BY Positions, Zenon
<1>2. rec' = [rec EXCEPT ![t] = Empty] /\ UNCHANGED <<queue, phase, qpos, hpos>>
  BY Zenon DEF Last
<1>3. CASE rec[t].kind = "done"
  <2>1. FinishWith(t, rec[t].val) /\ rec[t].val \in Spans
    BY <1>1, <1>3, RequestKinds, Zenon DEF Last, Within
  <2> QED BY <1>2, <2>1, FinishTypes, Zenon
<1>4. CASE rec[t].kind # "done"
  <2>1. Return(t, loc[t].held) /\ loc[t].held \in Spans \cup {NULL}
    BY <1>1, <1>4, Zenon DEF Last, Within, Calls
  <2> QED BY <1>2, <2>1, ReturnTypes, Zenon
<1> QED BY <1>3, <1>4

(* Completing a pending request keeps its owner's call invariant.          *)
LEMMA CompletedCall ==
  ASSUME NEW l, NEW c, NEW r \in Requests, NEW p, NEW s \in Spans, r.kind = "pending", CallInv(l, c, r, p)
  PROVE  CallInv(l, c, Done(s), p)
<1>1. r # Empty
  BY RequestKinds, Zenon
<1> QED BY <1>1, RequestKinds, Zenon DEF CallInv

(* The completion CAS.  When it fails on our own request a helper has      *)
(* completed that, so that the record holds a span; when it succeeds on    *)
(* another's, that owner's call stays in order.                            *)
LEMMA CompleteTypes ==
  ASSUME TypeOK, CallsInv, NEW t \in Threads, Complete(t)
  PROVE  TypeOK' /\ CallsInv'
<1>1. Within(t) /\ CallInv(pc[t], loc[t], rec[t], phase[t])
  BY Positions DEF CallsInv
<1> DEFINE r == IF loc[t].own THEN t ELSE hpos[t]
           ok == rec[r] = Pending(loc[t].seen)
           left == IF ok THEN NULL ELSE loc[t].held
<1>2. pc[t] = "complete" /\ r \in Threads /\ UNCHANGED <<queue, phase, qpos, mine>>
  BY <1>1, Zenon DEF Complete, Within
<1>3. loc[t].held \in Spans /\ left \in Spans \cup {NULL} /\ rec[r] \in Requests
  BY <1>1, <1>2, Zenon DEF CallInv, Within, Calls, TypeOK
<1>4. rec' = IF ok THEN [rec EXCEPT ![r] = Done(loc[t].held)] ELSE rec
  BY Zenon DEF Complete, Completes
<1>5. PICK c \in Calls, l \in Pcs :
         /\ pc' = [pc EXCEPT ![t] = l] /\ loc' = [loc EXCEPT ![t] = c]
         /\ c.held = left /\ c.own = loc[t].own /\ c.queried = loc[t].queried
         /\ l = (IF loc[t].own THEN "take" ELSE "help")
         /\ hpos' \in [Threads -> Threads]
  <2>1. CASE loc[t].own
    <3> DEFINE c == [loc[t] EXCEPT !.held = left]
    <3>1. pc' = [pc EXCEPT ![t] = "take"] /\ loc' = [loc EXCEPT ![t] = c] /\ UNCHANGED hpos
      BY <2>1, Zenon DEF Complete, Completes, Goto
    <3>2. c \in Calls /\ c.held = left /\ c.own = loc[t].own /\ c.queried = loc[t].queried
      BY <1>1, <1>3, Zenon DEF Within, Calls
    <3> HIDE DEF c, left
    <3> QED BY <2>1, <3>1, <3>2, Zenon DEF Pcs, TypeOK
  <2>2. CASE ~loc[t].own
    <3> DEFINE c == [loc[t] EXCEPT !.held = left, !.helped = @ + 1]
    <3>1. /\ pc' = [pc EXCEPT ![t] = "help"] /\ loc' = [loc EXCEPT ![t] = c]
          /\ hpos' = [hpos EXCEPT ![t] = Following(hpos[t])]
      BY <2>2, Zenon DEF Complete, Completes, Goto
    <3>2. loc[t].helped < H
      BY <1>1, <1>2, <2>2, Zenon DEF CallInv
    <3>3. c \in Calls /\ c.held = left /\ c.own = loc[t].own /\ c.queried = loc[t].queried
      BY <1>1, <1>3, <3>2, Zenon DEF Within, Calls
    <3>4. hpos' \in [Threads -> Threads]
      BY <1>1, <3>1, Zenon DEF Within, TypeOK
    <3> HIDE DEF c, left
    <3> QED BY <2>2, <3>1, <3>3, <3>4, Zenon DEF Pcs
  <2> QED BY <2>1, <2>2, Zenon
<1>6. /\ queue' \in [Threads -> Seq(Spans)] /\ mine' \in [Threads -> SUBSET Spans]
      /\ qpos' \in [Threads -> Threads]
      /\ phase[t] \in 0 .. MaxPhase /\ phase' = [phase EXCEPT ![t] = phase[t]]
  BY <1>2, Zenon DEF TypeOK
<1>7. rec[t].kind # "empty" /\ c.queried < N
  BY <1>1, <1>2, <1>5, Zenon DEF CallInv
<1>8. CASE ~ok
  <2>1. l = "take" => rec[t].kind = "done"
    <3>1. ASSUME l = "take", rec[t].kind = "pending" PROVE FALSE
      <4>1. loc[t].own
        BY <1>5, <3>1, Zenon
      <4>2. rec[t] = Pending(loc[t].seen)
        BY <1>1, <1>2, <3>1, <4>1, RequestKinds DEF CallInv, Within
      <4> QED BY <1>8, <4>1, <4>2, Zenon
    <3>2. rec[t].kind \in {"empty", "pending", "done"}
      BY <1>1, RequestKinds, Zenon DEF Within
    <3> QED BY <1>7, <3>1, <3>2, Zenon
  <2>2. CallInv(l, c, rec[t], phase[t])
    BY <1>1, <1>2, <1>5, <1>7, <2>1, Zenon DEF CallInv
  <2>3. UNCHANGED <<queue, rec, phase, mine>>
    BY <1>2, <1>4, <1>8, Zenon
  <2> QED BY <1>5, <1>6, <2>2, <2>3, QuietStep, Zenon
<1>9. CASE ok /\ r = t
  <2>1. rec' = [rec EXCEPT ![t] = Done(loc[t].held)] /\ Done(loc[t].held) \in Requests
    BY <1>3, <1>4, <1>9, RequestKinds, Zenon
  <2>2. CallInv(l, c, Done(loc[t].held), phase[t])
    BY <1>5, <1>7, <1>9, RequestKinds, Zenon DEF CallInv
  <2> QED BY <1>5, <1>6, <2>1, <2>2, OwnStep, Zenon
<1>10. CASE ok /\ r # t
  <2> DEFINE d == Done(loc[t].held)
  <2>1. rec' = [rec EXCEPT ![r] = d] /\ d \in Requests /\ rec[r].kind = "pending"
    BY <1>3, <1>4, <1>10, RequestKinds, Zenon
  <2>2. l = "help" /\ c.held = NULL /\ ~c.own
    BY <1>5, <1>10, Zenon
  <2>3. CallInv(l, c, rec[t], phase[t])
    BY <1>1, <1>2, <1>7, <2>2, Zenon DEF CallInv
  <2>4. CallInv(pc[r], loc[r], d, phase[r])
    BY <1>2, <1>3, <2>1, CompletedCall, Zenon DEF CallsInv
  <2> HIDE DEF d, r
  <2>5. TypeOK'
    BY <1>2, <1>5, <1>6, <2>1, Zenon DEF TypeOK
  <2>6. ASSUME NEW u \in Threads
        PROVE  CallInv(pc'[u], loc'[u], rec'[u], phase'[u])
    <3>1. CASE u = t
      <4>1. pc'[u] = l /\ loc'[u] = c /\ rec'[u] = rec[t] /\ phase'[u] = phase[t]
        BY <1>2, <1>5, <1>10, <2>1, <3>1, Zenon DEF TypeOK
      <4> QED BY <2>3, <4>1, Zenon
    <3>2. CASE u = r
      <4>1. pc'[u] = pc[r] /\ loc'[u] = loc[r] /\ rec'[u] = d /\ phase'[u] = phase[r]
        BY <1>2, <1>5, <1>10, <2>1, <3>2, Zenon DEF TypeOK
      <4> QED BY <2>4, <4>1, Zenon
    <3>3. CASE u # t /\ u # r
      <4>1. pc'[u] = pc[u] /\ loc'[u] = loc[u] /\ rec'[u] = rec[u] /\ phase'[u] = phase[u]
        BY <1>2, <1>5, <2>1, <3>3, Zenon DEF TypeOK
      <4> QED BY <4>1, Zenon DEF CallsInv
    <3> QED BY <3>1, <3>2, <3>3, Zenon
  <2>7. CallsInv'
    BY <2>6, Zenon DEF CallsInv
  <2> QED BY <2>5, <2>7, Zenon
<1> QED BY <1>8, <1>9, <1>10, Zenon

(* A pop marks the pops it beats as lost, and leaves their calls in order. *)
LEMMA PopSpanTypes ==
  ASSUME TypeOK, CallsInv, NEW t \in Threads, PopSpan(t)
  PROVE  TypeOK' /\ CallsInv'
<1>1. Within(t) /\ CallInv(pc[t], loc[t], rec[t], phase[t])
  BY Positions DEF CallsInv
<1> DEFINE q == queue[qpos[t]]
           c == [loc[t] EXCEPT !.held = Head(q)]
<1>2. /\ pc[t] = "try" /\ q # <<>> /\ q \in Seq(Spans)
      /\ queue' = [queue EXCEPT ![qpos[t]] = Tail(q)]
      /\ pc' = [pc EXCEPT ![t] = "complete"]
      /\ UNCHANGED <<rec, phase, qpos, hpos, mine>>
  BY <1>1, Zenon DEF PopSpan, Goto, Within, TypeOK
<1>3. Head(q) \in Spans /\ Tail(q) \in Seq(Spans)
  BY <1>2, HeadTailProperties, Zenon
<1>4. c \in Calls /\ c.held = Head(q) /\ c.held # NULL
  BY <1>1, <1>3, Constants, Zenon DEF Within, Calls
<1>5. /\ DOMAIN loc' = Threads /\ loc' = [u \in Threads |-> loc'[u]] /\ loc'[t] = c
      /\ \A u \in Threads \ {t} : loc'[u] = loc[u] \/ loc'[u] = [loc[u] EXCEPT !.lost = TRUE]
  BY Zenon DEF PopSpan
<1>6. ASSUME NEW u \in Threads
      PROVE  loc'[u] \in Calls /\ CallInv(pc'[u], loc'[u], rec'[u], phase'[u])
  <2>1. CASE u = t
    <3>1. pc'[u] = "complete" /\ loc'[u] = c /\ rec'[u] = rec[t] /\ phase'[u] = phase[t]
      BY <1>2, <1>5, <2>1, Zenon DEF TypeOK
    <3>2. CallInv("complete", c, rec[t], phase[t])
      BY <1>1, <1>2, <1>4, Zenon DEF CallInv, Within, Calls
    <3> HIDE DEF c
    <3> QED BY <1>4, <3>1, <3>2, Zenon
  <2>2. CASE u # t
    <3>1. pc'[u] = pc[u] /\ rec'[u] = rec[u] /\ phase'[u] = phase[u]
      BY <1>2, <2>2, Zenon DEF TypeOK
    <3>2. loc[u] \in Calls /\ CallInv(pc[u], loc[u], rec[u], phase[u])
      BY Zenon DEF TypeOK, CallsInv
    <3>3. CASE loc'[u] = loc[u]
      BY <3>1, <3>2, <3>3, Zenon
    <3>4. CASE loc'[u] = [loc[u] EXCEPT !.lost = TRUE]
      <4>1. loc'[u] \in Calls
        BY <3>2, <3>4, Zenon DEF Calls
      <4>2. /\ loc'[u].held = loc[u].held /\ loc'[u].own = loc[u].own /\ loc'[u].queried = loc[u].queried
            /\ loc'[u].helped = loc[u].helped /\ loc'[u].seen = loc[u].seen
        BY <3>2, <3>4, Zenon DEF Calls
      <4> QED BY <3>1, <3>2, <4>1, <4>2 DEF CallInv
    <3> QED BY <1>5, <2>2, <3>3, <3>4, Zenon
  <2> QED BY <2>1, <2>2, Zenon
<1>7. loc' \in [Threads -> Calls]
  BY <1>5, <1>6, Zenon
<1>8. TypeOK'
  BY <1>1, <1>2, <1>3, <1>7, Zenon DEF TypeOK, Pcs, Within
<1>9. CallsInv'
  BY <1>6, Zenon DEF CallsInv
<1> QED BY <1>8, <1>9, Zenon

-----------------------------------------------------------------------------
(* Where the spans are.                                                    *)

(* The span that a request carries, if any.                                *)
SpanOf(r) == {s \in Spans : r = Done(s)}

(* Every span is held once, by F.                                          *)
OneHolder(F) == \A s \in Spans : \E h \in Holders : \A i \in Holders : s \in F[i] <=> i = h

(* Only a done request carries a span, and just one.                       *)
LEMMA SpanOfKinds ==
  /\ SpanOf(Empty) = {} /\ \A p : SpanOf(Pending(p)) = {}
  /\ \A s \in Spans : SpanOf(Done(s)) = {s}
  /\ \A r \in Requests : r.kind # "done" => SpanOf(r) = {}
<1>1. \A p, s : Pending(p) # Done(s)
  BY RequestKinds, Zenon
<1>2. \A s : Empty # Done(s)
  BY RequestKinds, Zenon
<1>3. \A s, x : Done(s) = Done(x) => s = x
  BY RequestKinds
<1>4. \A r \in Requests : r.kind # "done" => \A s : r # Done(s)
  BY RequestKinds, Zenon
<1> QED BY <1>1, <1>2, <1>3, <1>4, Zenon DEF SpanOf

(* Every holder is the list, record, call or hands of a thread.            *)
LEMMA HoldersAre ==
  /\ \A u \in Threads : /\ <<"list", u>> \in Holders /\ <<"record", u>> \in Holders
                        /\ <<"call", u>> \in Holders /\ <<"thread", u>> \in Holders
  /\ \A i \in Holders : \E u \in Threads :
       i = <<"list", u>> \/ i = <<"record", u>> \/ i = <<"call", u>> \/ i = <<"thread", u>>
BY DEF Holders

(* What each holder holds ...                                              *)
LEMMA HasIs ==
  ASSUME NEW u \in Threads
  PROVE  /\ Has[<<"list", u>>] = Range(queue[u])
         /\ Has[<<"record", u>>] = SpanOf(rec[u])
         /\ Has[<<"call", u>>] = {loc[u].held} \ {NULL}
         /\ Has[<<"thread", u>>] = mine[u]
BY HoldersAre, Zenon DEF Has, SpanOf

(* ... and after a step.                                                   *)
LEMMA HasIsNext ==
  ASSUME NEW u \in Threads
  PROVE  /\ Has'[<<"list", u>>] = Range(queue'[u])
         /\ Has'[<<"record", u>>] = SpanOf(rec'[u])
         /\ Has'[<<"call", u>>] = {loc'[u].held} \ {NULL}
         /\ Has'[<<"thread", u>>] = mine'[u]
BY HoldersAre, Zenon DEF Has, SpanOf

(* Holders that hold the same leave every span where it is.                *)
LEMMA Kept ==
  ASSUME NEW F, NEW G, OneHolder(F), \A i \in Holders : G[i] = F[i]
  PROVE  OneHolder(G)
BY Zenon DEF OneHolder

(* One span changes hands.                                                 *)
LEMMA Moved ==
  ASSUME NEW F, NEW G, OneHolder(F), NEW s \in Spans, NEW a \in Holders, NEW b \in Holders, a # b,
         s \in F[a], \A x \in Spans : x \in G[a] <=> x \in F[a] /\ x # s,
         \A x \in Spans : x \in G[b] <=> x \in F[b] \/ x = s,
         \A i \in Holders : i # a /\ i # b => G[i] = F[i]
  PROVE  OneHolder(G)
<1> SUFFICES ASSUME NEW x \in Spans PROVE \E h \in Holders : \A i \in Holders : x \in G[i] <=> i = h
  BY Zenon DEF OneHolder
<1>1. PICK h \in Holders : \A i \in Holders : x \in F[i] <=> i = h
  BY Zenon DEF OneHolder
<1>2. CASE x = s
  <2>1. h = a
    BY <1>1, <1>2, Zenon
  <2>2. \A i \in Holders : x \in G[i] <=> i = b
    BY <1>1, <1>2, <2>1, Zenon
  <2> QED BY <2>2, Zenon
<1>3. CASE x # s
  BY <1>1, <1>3, Zenon
<1> QED BY <1>2, <1>3, Zenon

(* A list holds a span once.                                               *)
Injective == \A u \in Threads : IsInjective(queue[u])

(* SpanInOnePlace in two parts ...                                         *)
LEMMA PlaceParts == SpanInOnePlace <=> Injective /\ OneHolder(Has)
BY Zenon DEF SpanInOnePlace, Injective, OneHolder

(* ... and after a step.                                                   *)
LEMMA PlacePartsNext == SpanInOnePlace' <=> Injective' /\ OneHolder(Has')
BY Zenon DEF SpanInOnePlace, Injective, OneHolder

(* The holders that a step leaves alone.                                   *)
LEMMA Untouched ==
  /\ \A u \in Threads : queue'[u] = queue[u] => Has'[<<"list", u>>] = Has[<<"list", u>>]
  /\ \A u \in Threads : SpanOf(rec'[u]) = SpanOf(rec[u]) => Has'[<<"record", u>>] = Has[<<"record", u>>]
  /\ \A u \in Threads : loc'[u].held = loc[u].held => Has'[<<"call", u>>] = Has[<<"call", u>>]
  /\ \A u \in Threads : mine'[u] = mine[u] => Has'[<<"thread", u>>] = Has[<<"thread", u>>]
<1>1. ASSUME NEW u \in Threads
      PROVE  /\ queue'[u] = queue[u] => Has'[<<"list", u>>] = Has[<<"list", u>>]
             /\ SpanOf(rec'[u]) = SpanOf(rec[u]) => Has'[<<"record", u>>] = Has[<<"record", u>>]
             /\ loc'[u].held = loc[u].held => Has'[<<"call", u>>] = Has[<<"call", u>>]
             /\ mine'[u] = mine[u] => Has'[<<"thread", u>>] = Has[<<"thread", u>>]
  <2>1. /\ Has[<<"list", u>>] = Range(queue[u]) /\ Has'[<<"list", u>>] = Range(queue'[u])
        /\ Has[<<"record", u>>] = SpanOf(rec[u]) /\ Has'[<<"record", u>>] = SpanOf(rec'[u])
        /\ Has[<<"call", u>>] = {loc[u].held} \ {NULL} /\ Has'[<<"call", u>>] = {loc'[u].held} \ {NULL}
        /\ Has[<<"thread", u>>] = mine[u] /\ Has'[<<"thread", u>>] = mine'[u]
    BY HasIs, HasIsNext, Zenon
  <2> QED BY <2>1, Zenon
<1> QED BY <1>1, Zenon

(* A step that changes no holder keeps SpanInOnePlace.                     *)
LEMMA NothingMoves ==
  ASSUME SpanInOnePlace, UNCHANGED <<queue, mine>>,
         \A u \in Threads : loc'[u].held = loc[u].held /\ SpanOf(rec'[u]) = SpanOf(rec[u])
  PROVE  SpanInOnePlace'
<1>1. \A i \in Holders : Has'[i] = Has[i]
  BY Untouched, HoldersAre
<1>2. OneHolder(Has')
  BY <1>1, Kept, PlaceParts, Zenon
<1>3. Injective'
  BY PlaceParts, Zenon DEF Injective
<1> QED BY <1>2, <1>3, PlacePartsNext, Zenon

(* So does one that takes the span of a record into its owner's hands ...  *)
LEMMA RecordToThread ==
  ASSUME TypeOK, SpanInOnePlace, NEW t \in Threads, NEW s \in Spans, rec[t] = Done(s),
         UNCHANGED queue, rec' = [rec EXCEPT ![t] = Empty], mine' = [mine EXCEPT ![t] = mine[t] \cup {s}],
         \A u \in Threads : loc'[u].held = loc[u].held
  PROVE  SpanInOnePlace'
<1> DEFINE a == <<"record", t>>
           b == <<"thread", t>>
<1>1. a \in Holders /\ b \in Holders /\ a # b
  BY HoldersAre, Zenon
<1>2. \A u \in Threads : u # t => SpanOf(rec'[u]) = SpanOf(rec[u]) /\ mine'[u] = mine[u]
  BY Zenon DEF TypeOK
<1>3. \A i \in Holders : i # a /\ i # b => Has'[i] = Has[i]
  BY <1>2, Untouched, HoldersAre
<1>4. rec'[t] = Empty /\ mine'[t] = mine[t] \cup {s}
  BY Zenon DEF TypeOK
<1>0. /\ Has[a] = SpanOf(rec[t]) /\ Has'[a] = SpanOf(rec'[t])
      /\ Has[b] = mine[t] /\ Has'[b] = mine'[t]
  BY HasIs, HasIsNext, Zenon
<1>5. Has[a] = {s} /\ Has'[a] = {} /\ Has'[b] = Has[b] \cup {s}
  BY <1>0, <1>4, SpanOfKinds, Zenon
<1> HIDE DEF a, b
<1>6. OneHolder(Has')
  BY <1>1, <1>3, <1>5, Moved, PlaceParts
<1>7. Injective'
  BY PlaceParts, Zenon DEF Injective
<1> QED BY <1>6, <1>7, PlacePartsNext, Zenon

(* ... and one that puts the held span into a record without a span.       *)
LEMMA CallToRecord ==
  ASSUME TypeOK, SpanInOnePlace, NEW t \in Threads, NEW r \in Threads, NEW s \in Spans,
         loc[t].held = s, loc'[t].held = NULL, rec[r].kind # "done",
         UNCHANGED <<queue, mine>>, rec' = [rec EXCEPT ![r] = Done(s)],
         \A u \in Threads : u # t => loc'[u].held = loc[u].held
  PROVE  SpanInOnePlace'
<1> DEFINE a == <<"call", t>>
           b == <<"record", r>>
<1>1. a \in Holders /\ b \in Holders /\ a # b
  BY HoldersAre, Zenon
<1>2. \A u \in Threads : u # r => SpanOf(rec'[u]) = SpanOf(rec[u])
  BY Zenon DEF TypeOK
<1>3. \A i \in Holders : i # a /\ i # b => Has'[i] = Has[i]
  BY <1>2, Untouched, HoldersAre
<1>4. rec'[r] = Done(s) /\ rec[r] \in Requests
  BY Zenon DEF TypeOK
<1>0. /\ Has[a] = {loc[t].held} \ {NULL} /\ Has'[a] = {loc'[t].held} \ {NULL}
      /\ Has[b] = SpanOf(rec[r]) /\ Has'[b] = SpanOf(rec'[r])
  BY HasIs, HasIsNext, Zenon
<1>5. Has[b] = {} /\ Has'[b] = {s}
  BY <1>0, <1>4, SpanOfKinds, Zenon
<1>6. Has[a] = {s} /\ Has'[a] = {}
  BY <1>0, Constants, Zenon
<1> HIDE DEF a, b
<1>7. OneHolder(Has')
  BY <1>1, <1>3, <1>5, <1>6, Moved, PlaceParts
<1>8. Injective'
  BY PlaceParts, Zenon DEF Injective
<1> QED BY <1>7, <1>8, PlacePartsNext, Zenon

(* The first and the other elements of an injective sequence, and a        *)
(* sequence with one more.                                                 *)
LEMMA InjectiveTail ==
  ASSUME NEW q \in Seq(Spans), q # <<>>, IsInjective(q)
  PROVE  /\ IsInjective(Tail(q)) /\ Head(q) \in Range(q)
         /\ Range(Tail(q)) = Range(q) \ {Head(q)}
<1>1. /\ Len(q) \in Nat \ {0} /\ DOMAIN q = 1 .. Len(q) /\ Head(q) = q[1]
      /\ DOMAIN Tail(q) = 1 .. Len(q) - 1
      /\ \A i \in 1 .. Len(q) - 1 : Tail(q)[i] = q[i + 1]
  BY HeadTailProperties, LenProperties, EmptySeq
<1>2. \A i, j \in 1 .. Len(q) : q[i] = q[j] => i = j
  BY <1>1, Zenon DEF IsInjective
<1>3. IsInjective(Tail(q))
  BY <1>1, <1>2 DEF IsInjective
<1>4. Head(q) \in Range(q)
  BY <1>1 DEF Range
<1>5. ASSUME NEW x \in Range(Tail(q)) PROVE x \in Range(q) \ {Head(q)}
  BY <1>1, <1>2, <1>5 DEF Range
<1>6. ASSUME NEW x \in Range(q) \ {Head(q)} PROVE x \in Range(Tail(q))
  <2>1. PICK i \in 1 .. Len(q) : x = q[i]
    BY <1>1, Zenon DEF Range
  <2>2. i # 1
    BY <1>1, <1>6, <2>1, Zenon
  <2>3. i - 1 \in 1 .. Len(q) - 1 /\ Tail(q)[i - 1] = x
    BY <1>1, <2>1, <2>2
  <2> QED BY <1>1, <2>3, Zenon DEF Range
<1> QED BY <1>3, <1>4, <1>5, <1>6, Zenon

(* A sequence with one more element that is not in it stays injective.     *)
LEMMA InjectiveAppend ==
  ASSUME NEW q \in Seq(Spans), IsInjective(q), NEW s \in Spans, s \notin Range(q)
  PROVE  IsInjective(Append(q, s)) /\ Range(Append(q, s)) = Range(q) \cup {s}
<1>1. /\ Len(q) \in Nat /\ DOMAIN q = 1 .. Len(q) /\ DOMAIN Append(q, s) = 1 .. Len(q) + 1
      /\ Append(q, s)[Len(q) + 1] = s
      /\ \A i \in 1 .. Len(q) : Append(q, s)[i] = q[i]
  BY AppendProperties, LenProperties
<1>2. \A i, j \in 1 .. Len(q) : q[i] = q[j] => i = j
  BY <1>1, Zenon DEF IsInjective
<1>3. \A i \in 1 .. Len(q) : q[i] # s
  BY <1>1, Zenon DEF Range
<1>4. \A i \in 1 .. Len(q) + 1 : i = Len(q) + 1 \/ i \in 1 .. Len(q)
  BY <1>1
<1>5. IsInjective(Append(q, s))
  BY <1>1, <1>2, <1>3, <1>4, Zenon DEF IsInjective
<1>6. Len(q) + 1 \in 1 .. Len(q) + 1 /\ \A i \in 1 .. Len(q) : i \in 1 .. Len(q) + 1
  BY <1>1
<1>7. Range(Append(q, s)) = Range(q) \cup {s}
  BY <1>1, <1>4, <1>6, Zenon DEF Range
<1> QED BY <1>5, <1>7, Zenon

(* A published span goes from its owner's hands to the list.               *)
LEMMA PublishPlaces ==
  ASSUME TypeOK, SpanInOnePlace, NEW t \in Threads, NEW s \in Spans, Publish(t, s)
  PROVE  SpanInOnePlace'
<1> DEFINE a == <<"thread", t>>
           b == <<"list", t>>
<1>1. a \in Holders /\ b \in Holders /\ a # b
  BY HoldersAre, Zenon
<1>2. /\ s \in mine[t] /\ mine'[t] = mine[t] \ {s} /\ queue[t] \in Seq(Spans)
      /\ queue'[t] = Append(queue[t], s) /\ UNCHANGED <<rec, loc>>
      /\ \A u \in Threads : u # t => queue'[u] = queue[u] /\ mine'[u] = mine[u]
  BY Zenon DEF Publish, TypeOK
<1>3. Has[a] = mine[t] /\ Has[b] = Range(queue[t]) /\ Has'[a] = mine'[t] /\ Has'[b] = Range(queue'[t])
  BY HasIs, HasIsNext, Zenon
<1>4. s \in Has[a] /\ s \notin Has[b]
  BY <1>1, <1>2, <1>3, PlaceParts DEF OneHolder
<1>5. IsInjective(queue'[t]) /\ Has'[b] = Has[b] \cup {s} /\ Has'[a] = Has[a] \ {s}
  BY <1>2, <1>3, <1>4, InjectiveAppend, PlaceParts DEF Injective
<1>6. \A i \in Holders : i # a /\ i # b => Has'[i] = Has[i]
  BY <1>2, Untouched, HoldersAre
<1> HIDE DEF a, b
<1>7. OneHolder(Has')
  BY <1>1, <1>4, <1>5, <1>6, Moved, PlaceParts
<1>8. Injective'
  BY <1>2, <1>5, PlaceParts, Zenon DEF Injective
<1> QED BY <1>7, <1>8, PlacePartsNext, Zenon

(* A popped span goes from the list to the call, which holds none.         *)
LEMMA PopSpanPlaces ==
  ASSUME TypeOK, SpanInOnePlace, CallsInv, NEW t \in Threads, PopSpan(t)
  PROVE  SpanInOnePlace'
<1> DEFINE v == qpos[t]
           q == queue[v]
           s == Head(q)
           a == <<"list", v>>
           b == <<"call", t>>
<1>1. v \in Threads /\ loc[t] \in Calls /\ CallInv(pc[t], loc[t], rec[t], phase[t])
  BY Zenon DEF TypeOK, CallsInv
<1>2. a \in Holders /\ b \in Holders /\ a # b
  BY <1>1, HoldersAre, Zenon
<1>3. /\ pc[t] = "try" /\ q # <<>> /\ q \in Seq(Spans) /\ queue'[v] = Tail(q) /\ UNCHANGED <<rec, mine>>
      /\ \A u \in Threads : u # v => queue'[u] = queue[u]
  BY <1>1, Zenon DEF PopSpan, TypeOK
<1>4. s \in Spans /\ IsInjective(q)
  BY <1>1, <1>3, HeadTailProperties, PlaceParts, Zenon DEF Injective
<1>5. loc'[t] = [loc[t] EXCEPT !.held = s]
  BY Zenon DEF PopSpan
<1>6. loc[t].held = NULL /\ loc'[t].held = s
  BY <1>1, <1>3, <1>5, Zenon DEF CallInv, Calls
<1>7. ASSUME NEW u \in Threads, u # t PROVE loc'[u].held = loc[u].held
  <2>1. loc[u] \in Calls /\ (loc'[u] = loc[u] \/ loc'[u] = [loc[u] EXCEPT !.lost = TRUE])
    BY <1>7, Zenon DEF PopSpan, TypeOK
  <2> QED BY <2>1, Zenon DEF Calls
<1>8. Has[a] = Range(q) /\ Has'[a] = Range(Tail(q))
  BY <1>1, <1>3, HasIs, HasIsNext, Zenon
<1>9. s \in Has[a] /\ Has'[a] = Has[a] \ {s} /\ IsInjective(Tail(q))
  BY <1>3, <1>4, <1>8, InjectiveTail, Zenon
<1>0. Has[b] = {loc[t].held} \ {NULL} /\ Has'[b] = {loc'[t].held} \ {NULL}
  BY HasIs, HasIsNext, Zenon
<1>10. Has[b] = {} /\ Has'[b] = {s}
  BY <1>0, <1>4, <1>6, Constants, Zenon
<1>11. \A i \in Holders : i # a /\ i # b => Has'[i] = Has[i]
  BY <1>3, <1>7, Untouched, HoldersAre
<1>12. Injective'
  BY <1>3, <1>9, PlaceParts, Zenon DEF Injective
<1> HIDE DEF a, b, s
<1>13. OneHolder(Has')
  BY <1>2, <1>4, <1>9, <1>10, <1>11, Moved, PlaceParts
<1> QED BY <1>12, <1>13, PlacePartsNext, Zenon

(* A record emptied into its owner's hands, or found without a span.       *)
LEMMA HandedOver ==
  ASSUME TypeOK, SpanInOnePlace, NEW t \in Threads, NEW s,
         UNCHANGED queue, rec' = [rec EXCEPT ![t] = Empty],
         mine' = [mine EXCEPT ![t] = mine[t] \cup ({s} \ {NULL})],
         \/ s = NULL /\ rec[t].kind # "done"
         \/ s \in Spans /\ rec[t] = Done(s),
         \A u \in Threads : loc'[u].held = loc[u].held
  PROVE  SpanInOnePlace'
<1>1. CASE s \in Spans /\ rec[t] = Done(s)
  <2>1. mine' = [mine EXCEPT ![t] = mine[t] \cup {s}]
    BY <1>1, Constants, Zenon
  <2> QED BY <1>1, <2>1, RecordToThread, Zenon
<1>2. CASE s = NULL /\ rec[t].kind # "done"
  <2>1. UNCHANGED <<queue, mine>>
    BY <1>2, Zenon DEF TypeOK
  <2>2. rec[t] \in Requests /\ rec'[t] = Empty /\ \A u \in Threads : u # t => rec'[u] = rec[u]
    BY Zenon DEF TypeOK
  <2>3. SpanOf(rec'[t]) = SpanOf(rec[t])
    BY <1>2, <2>2, SpanOfKinds, Zenon
  <2>4. \A u \in Threads : SpanOf(rec'[u]) = SpanOf(rec[u])
    BY <2>2, <2>3, Zenon
  <2> QED BY <2>1, <2>4, NothingMoves, Zenon
<1> QED BY <1>1, <1>2, Zenon

(* A call that holds nothing returns what its record had ...               *)
LEMMA ReturnPlaces ==
  ASSUME TypeOK, SpanInOnePlace, NEW t \in Threads, NEW s, loc[t].held = NULL,
         rec' = [rec EXCEPT ![t] = Empty], Return(t, s), UNCHANGED queue,
         \/ s = NULL /\ rec[t].kind # "done"
         \/ s \in Spans /\ rec[t] = Done(s)
  PROVE  SpanInOnePlace'
<1>1. mine' = [mine EXCEPT ![t] = mine[t] \cup ({s} \ {NULL})] /\ loc' = [loc EXCEPT ![t] = NoCall]
  BY Zenon DEF Return
<1>2. \A u \in Threads : loc'[u].held = loc[u].held
  BY <1>1, NoCallTyped, OneCall, Zenon
<1> QED BY <1>1, <1>2, HandedOver, Zenon

(* ... and finish_with leaves the held span in the call until it is        *)
(* stored.                                                                 *)
LEMMA FinishPlaces ==
  ASSUME TypeOK, SpanInOnePlace, NEW t \in Threads, NEW s,
         rec' = [rec EXCEPT ![t] = Empty], FinishWith(t, s), UNCHANGED queue,
         \/ s = NULL /\ rec[t].kind # "done"
         \/ s \in Spans /\ rec[t] = Done(s)
  PROVE  SpanInOnePlace'
<1>1. CASE loc[t].held = NULL
  <2>1. Return(t, s)
    BY <1>1, Zenon DEF FinishWith
  <2> QED BY <1>1, <2>1, ReturnPlaces, Zenon
<1>2. CASE loc[t].held # NULL
  <2> DEFINE c == [loc[t] EXCEPT !.seen = 0, !.own = FALSE]
  <2>1. /\ mine' = [mine EXCEPT ![t] = mine[t] \cup ({s} \ {NULL})]
        /\ loc' = [loc EXCEPT ![t] = c]
    BY <1>2, Zenon DEF FinishWith
  <2>2. 0 \in 0 .. MaxPhase /\ loc[t] \in Calls
    BY Constants DEF TypeOK
  <2>3. c \in Calls /\ c.held = loc[t].held
    BY <2>2, Zenon DEF Calls
  <2> HIDE DEF c
  <2>4. \A u \in Threads : loc'[u].held = loc[u].held
    BY <2>1, <2>3, OneCall, Zenon
  <2> QED BY <2>1, <2>4, HandedOver, Zenon
<1> QED BY <1>1, <1>2, Zenon

(* The span that a reclaimed record gives, or null.                        *)
LEMMA Reclaimed ==
  ASSUME TypeOK, NEW t \in Threads
  PROVE  rec[t].kind = "done" => rec[t].val \in Spans /\ rec[t] = Done(rec[t].val)
BY RequestKinds, Zenon DEF TypeOK

(* The start of a call takes the span of its record, if any.               *)
LEMMA StartPlaces ==
  ASSUME TypeOK, SpanInOnePlace, CallsInv, NEW t \in Threads, Start(t)
  PROVE  SpanInOnePlace'
<1>1. pc[t] = "idle" /\ rec' = [rec EXCEPT ![t] = Empty] /\ UNCHANGED queue
  BY Zenon DEF Start
<1>2. CASE rec[t].kind = "done"
  <2>1. Return(t, rec[t].val) /\ loc[t].held = NULL
    BY <1>1, <1>2, Zenon DEF Start, CallsInv, CallInv
  <2> QED BY <1>1, <1>2, <2>1, ReturnPlaces, Reclaimed, Zenon
<1>3. CASE rec[t].kind # "done"
  <2>1. UNCHANGED <<mine, loc>>
    BY <1>3, Zenon DEF Start
  <2>2. mine' = [mine EXCEPT ![t] = mine[t] \cup ({NULL} \ {NULL})]
    BY <2>1, Zenon DEF TypeOK
  <2>3. \A u \in Threads : loc'[u].held = loc[u].held
    BY <2>1, Zenon
  <2> QED BY <1>1, <1>3, <2>2, <2>3, HandedOver, Zenon
<1> QED BY <1>2, <1>3, Zenon

(* So do the reclaims after a helper's completion ...                      *)
LEMMA HelpedPlaces ==
  ASSUME TypeOK, SpanInOnePlace, NEW t \in Threads, Helped(t)
  PROVE  SpanInOnePlace'
<1>1. rec' = [rec EXCEPT ![t] = Empty] /\ UNCHANGED queue
  BY Zenon DEF Helped
<1>2. CASE rec[t].kind = "done"
  <2>1. FinishWith(t, rec[t].val)
    BY <1>2, Zenon DEF Helped
  <2> QED BY <1>1, <1>2, <2>1, FinishPlaces, Reclaimed, Zenon
<1>3. CASE rec[t].kind # "done"
  <2>1. FinishWith(t, NULL)
    BY <1>3, Zenon DEF Helped
  <2> QED BY <1>1, <1>3, <2>1, FinishPlaces, Zenon
<1> QED BY <1>2, <1>3, Zenon

(* ... after help_finishing_req ...                                        *)
LEMMA TakePlaces ==
  ASSUME TypeOK, SpanInOnePlace, CallsInv, NEW t \in Threads, Take(t)
  PROVE  SpanInOnePlace'
<1>1. pc[t] = "take" /\ rec' = [rec EXCEPT ![t] = Empty] /\ UNCHANGED queue
  BY Zenon DEF Take
<1>2. CASE rec[t].kind = "done"
  <2>1. FinishWith(t, rec[t].val)
    BY <1>2, Zenon DEF Take
  <2> QED BY <1>1, <1>2, <2>1, FinishPlaces, Reclaimed, Zenon
<1>3. CASE rec[t].kind # "done"
  <2>0. Within(t) /\ CallInv(pc[t], loc[t], rec[t], phase[t])
    BY Positions, Zenon DEF CallsInv
  <2>1. loc[t].held = NULL /\ loc[t].queried < N
    BY <1>1, <1>3, <2>0, Zenon DEF CallInv
  <2> DEFINE c == [loc[t] EXCEPT !.queried = @ + 1, !.own = FALSE]
  <2>2. loc' = [loc EXCEPT ![t] = c] /\ UNCHANGED mine
    BY <1>3, <2>1, Zenon DEF Take, Spent
  <2>3. c \in Calls /\ c.held = loc[t].held
    BY <2>0, <2>1, Zenon DEF Within, Calls
  <2>4. mine' = [mine EXCEPT ![t] = mine[t] \cup ({NULL} \ {NULL})]
    BY <2>2, Zenon DEF TypeOK
  <2> HIDE DEF c
  <2>5. \A u \in Threads : loc'[u].held = loc[u].held
    BY <2>2, <2>3, OneCall, Zenon
  <2> QED BY <1>1, <1>3, <2>4, <2>5, HandedOver, Zenon
<1> QED BY <1>2, <1>3

(* ... and at the end of the budget.                                       *)
LEMMA LastPlaces ==
  ASSUME TypeOK, SpanInOnePlace, CallsInv, NEW t \in Threads, Last(t)
  PROVE  SpanInOnePlace'
<1>1. pc[t] = "last" /\ rec' = [rec EXCEPT ![t] = Empty] /\ UNCHANGED queue
  BY Zenon DEF Last
<1>2. CASE rec[t].kind = "done"
  <2>1. FinishWith(t, rec[t].val)
    BY <1>2, Zenon DEF Last
  <2> QED BY <1>1, <1>2, <2>1, FinishPlaces, Reclaimed, Zenon
<1>3. CASE rec[t].kind # "done"
  <2>1. loc[t].held = NULL
    BY <1>1, Zenon DEF CallsInv, CallInv
  <2>2. Return(t, NULL)
    BY <1>3, <2>1, Zenon DEF Last
  <2> QED BY <1>1, <1>3, <2>1, <2>2, ReturnPlaces, Zenon
<1> QED BY <1>2, <1>3

(* The stored span overwrites none, as the record is empty.                *)
LEMMA StashPlaces ==
  ASSUME TypeOK, SpanInOnePlace, CallsInv, NEW t \in Threads, Stash(t)
  PROVE  SpanInOnePlace'
<1>1. /\ pc[t] = "stash" /\ rec' = [rec EXCEPT ![t] = Done(loc[t].held)]
      /\ loc' = [loc EXCEPT ![t] = NoCall] /\ UNCHANGED <<queue, mine>>
  BY Zenon DEF Stash
<1>2. loc[t] \in Calls /\ CallInv(pc[t], loc[t], rec[t], phase[t])
  BY Zenon DEF TypeOK, CallsInv
<1>3. loc[t].held \in Spans /\ rec[t].kind # "done"
  BY <1>1, <1>2, RequestKinds, Zenon DEF CallInv, Calls
<1>4. loc'[t].held = NULL /\ \A u \in Threads : u # t => loc'[u].held = loc[u].held
  BY <1>1, NoCallTyped, OneCall, Zenon
<1> QED BY <1>1, <1>3, <1>4, CallToRecord, Zenon

(* The completion CAS succeeds only on a pending request, which carries no *)
(* span.                                                                   *)
LEMMA CompletePlaces ==
  ASSUME TypeOK, SpanInOnePlace, CallsInv, NEW t \in Threads, Complete(t)
  PROVE  SpanInOnePlace'
<1>1. Within(t) /\ CallInv(pc[t], loc[t], rec[t], phase[t])
  BY Positions DEF CallsInv
<1> DEFINE r == IF loc[t].own THEN t ELSE hpos[t]
           ok == rec[r] = Pending(loc[t].seen)
           left == IF ok THEN NULL ELSE loc[t].held
<1>2. pc[t] = "complete" /\ r \in Threads /\ UNCHANGED <<queue, mine>>
  BY <1>1, Zenon DEF Complete, Within
<1>3. loc[t].held \in Spans /\ left \in Spans \cup {NULL}
  BY <1>1, <1>2, Zenon DEF CallInv, Within, Calls
<1>4. rec' = IF ok THEN [rec EXCEPT ![r] = Done(loc[t].held)] ELSE rec
  BY Zenon DEF Complete, Completes
<1>5. PICK c \in Calls : loc' = [loc EXCEPT ![t] = c] /\ c.held = left
  <2>1. CASE loc[t].own
    <3> DEFINE c == [loc[t] EXCEPT !.held = left]
    <3>1. loc' = [loc EXCEPT ![t] = c]
      BY <2>1, Zenon DEF Complete, Completes
    <3>2. c \in Calls /\ c.held = left
      BY <1>1, <1>3, Zenon DEF Within, Calls
    <3> HIDE DEF c, left
    <3> QED BY <3>1, <3>2, Zenon
  <2>2. CASE ~loc[t].own
    <3> DEFINE c == [loc[t] EXCEPT !.held = left, !.helped = @ + 1]
    <3>1. loc' = [loc EXCEPT ![t] = c]
      BY <2>2, Zenon DEF Complete, Completes
    <3>2. loc[t].helped < H
      BY <1>1, <1>2, <2>2, Zenon DEF CallInv
    <3>3. c \in Calls /\ c.held = left
      BY <1>1, <1>3, <3>2, Zenon DEF Within, Calls
    <3> HIDE DEF c, left
    <3> QED BY <3>1, <3>3, Zenon
  <2> QED BY <2>1, <2>2, Zenon
<1>6. loc'[t].held = left /\ \A u \in Threads : u # t => loc'[u].held = loc[u].held
  BY <1>5, OneCall, Zenon
<1>7. CASE ok
  <2>1. rec[r].kind # "done"
    BY <1>7, RequestKinds, Zenon
  <2>2. rec' = [rec EXCEPT ![r] = Done(loc[t].held)] /\ loc'[t].held = NULL
    BY <1>4, <1>6, <1>7, Zenon
  <2> HIDE DEF r
  <2> QED BY <1>2, <1>3, <1>6, <2>1, <2>2, CallToRecord, Zenon
<1>8. CASE ~ok
  <2>1. rec' = rec /\ \A u \in Threads : loc'[u].held = loc[u].held
    BY <1>4, <1>6, <1>8, Zenon
  <2> QED BY <1>2, <2>1, NothingMoves, Zenon
<1> QED BY <1>7, <1>8, Zenon

(* The steps that move no span.                                            *)
LEMMA QuietPlaces ==
  ASSUME TypeOK, SpanInOnePlace, CallsInv, NEW t \in Threads,
         \/ PublishRequest(t) \/ Help(t) \/ Reread(t) \/ Own(t) \/ OwnRequest(t)
         \/ PopLoad(t) \/ PopEmpty(t) \/ PopFailed(t) \/ Clear(t)
  PROVE  SpanInOnePlace'
<1>1. UNCHANGED <<queue, mine>>
  BY Zenon DEF PublishRequest, Help, Reread, Own, OwnRequest, PopLoad, PopEmpty, PopFailed, Clear
<1>2. ASSUME NEW u \in Threads PROVE loc'[u].held = loc[u].held
  <2>0. loc \in [Threads -> Calls] /\ loc[u] \in Calls
    BY Zenon DEF TypeOK
  <2>1. CASE PublishRequest(t) \/ Own(t) \/ Clear(t)
    BY <2>1, Zenon DEF PublishRequest, Own, Clear
  <2>2. CASE Help(t)
    BY <2>0, <2>2 DEF Help, NextHelped, Calls
  <2>3. CASE Reread(t)
    BY <2>0, <2>3 DEF Reread, NextHelped, Calls
  <2>4. CASE OwnRequest(t) \/ PopLoad(t)
    BY <2>0, <2>4 DEF OwnRequest, PopLoad, Calls
  <2>5. CASE PopEmpty(t)
    BY <2>0, <2>5, Zenon DEF PopEmpty, Calls
  <2>6. CASE PopFailed(t)
    <3>1. CASE loc[t].own
      BY <2>0, <2>6, <3>1 DEF PopFailed, Calls
    <3>2. CASE ~loc[t].own
      BY <2>0, <2>6, <3>2 DEF PopFailed, Calls
    <3> QED BY <3>1, <3>2, Zenon
  <2> QED BY <2>1, <2>2, <2>3, <2>4, <2>5, <2>6, Zenon
<1>3. ASSUME NEW u \in Threads PROVE SpanOf(rec'[u]) = SpanOf(rec[u])
  <2>1. CASE PublishRequest(t)
    <3>1. rec'[u] = rec[u] \/ (u = t /\ rec'[t] = Pending(phase[t] + 1) /\ rec[t] = Empty)
      BY <2>1, Zenon DEF PublishRequest, CallsInv, CallInv, TypeOK
    <3> QED BY <3>1, SpanOfKinds, Zenon
  <2>2. CASE Clear(t)
    <3>1. rec'[u] = rec[u] \/ (u = t /\ rec'[t] = Empty /\ rec[t] = Pending(phase[t]))
      BY <2>2, Zenon DEF Clear, Cleared, TypeOK
    <3> QED BY <3>1, SpanOfKinds, Zenon
  <2>3. CASE ~PublishRequest(t) /\ ~Clear(t)
    BY <2>3, Zenon DEF Help, Reread, Own, OwnRequest, PopLoad, PopEmpty, PopFailed
  <2> QED BY <2>1, <2>2, <2>3, Zenon
<1> QED BY <1>1, <1>2, <1>3, NothingMoves, Zenon

-----------------------------------------------------------------------------
(* The invariant.                                                          *)

(* Every initial state satisfies the invariant.                            *)
LEMMA InitInv == Init => HelpInv
<1> SUFFICES ASSUME Init PROVE HelpInv
  BY Zenon
<1>1. PICK first \in [Spans -> Threads] : mine = [t \in Threads |-> {s \in Spans : first[s] = t}]
  BY Zenon DEF Init
<1>2. 0 \in Threads /\ 0 \in 0 .. MaxPhase
  BY Constants DEF Threads
<1>3. TypeOK
  BY <1>1, <1>2, NoCallTyped, RequestKinds DEF Init, TypeOK, Pcs
<1>4. \A t \in Threads : CallInv(pc[t], loc[t], rec[t], phase[t])
  BY NoCallTyped, RequestKinds, Zenon DEF Init, CallInv
<1>5. Injective
  BY DEF Init, Injective, IsInjective
<1>6. ASSUME NEW s \in Spans PROVE \E h \in Holders : \A i \in Holders : s \in Has[i] <=> i = h
  <2> DEFINE h == <<"thread", first[s]>>
  <2>1. h \in Holders /\ first[s] \in Threads
    BY HoldersAre, Zenon
  <2>2. ASSUME NEW u \in Threads
        PROVE  /\ s \notin Has[<<"list", u>>] /\ s \notin Has[<<"record", u>>] /\ s \notin Has[<<"call", u>>]
               /\ s \in Has[<<"thread", u>>] <=> u = first[s]
    <3>1. /\ Has[<<"list", u>>] = Range(queue[u]) /\ Has[<<"record", u>>] = SpanOf(rec[u])
          /\ Has[<<"call", u>>] = {loc[u].held} \ {NULL} /\ Has[<<"thread", u>>] = mine[u]
      BY HasIs, Zenon
    <3>2. queue[u] = <<>> /\ rec[u] = Empty /\ loc[u] = NoCall /\ mine[u] = {x \in Spans : first[x] = u}
      BY <1>1, Zenon DEF Init
    <3>3. Range(queue[u]) = {} /\ SpanOf(rec[u]) = {} /\ {loc[u].held} \ {NULL} = {}
      BY <3>2, SpanOfKinds, NoCallTyped DEF Range
    <3> QED BY <3>1, <3>2, <3>3, Zenon
  <2>3. \A i \in Holders : s \in Has[i] <=> i = h
    BY <2>2, HoldersAre, Zenon
  <2> QED BY <2>1, <2>3, Zenon
<1>7. OneHolder(Has)
  BY <1>6, Zenon DEF OneHolder
<1> QED BY <1>3, <1>4, <1>5, <1>7, PlaceParts, Zenon DEF HelpInv

(* Every step keeps it.                                                    *)
LEMMA StepInv == HelpInv /\ [Next]_vars => HelpInv'
<1> SUFFICES ASSUME HelpInv, [Next]_vars PROVE TypeOK' /\ CallsInv' /\ SpanInOnePlace'
  BY Zenon DEF HelpInv, CallsInv
<1> DEFINE Goal == TypeOK' /\ CallsInv' /\ SpanInOnePlace'
<1>0. TypeOK /\ CallsInv /\ SpanInOnePlace
  BY Zenon DEF HelpInv, CallsInv
<1>1. CASE UNCHANGED vars
  <2>1. TypeOK' /\ CallsInv'
    BY <1>0, <1>1, Zenon DEF vars, TypeOK, CallsInv
  <2>2. SpanInOnePlace'
    BY <1>0, <1>1, NothingMoves, Zenon DEF vars
  <2> QED BY <2>1, <2>2, Zenon
<1>2. ASSUME NEW t \in Threads, NEW s \in Spans, Publish(t, s) PROVE Goal
  BY <1>0, <1>2, PublishTypes, PublishPlaces, Zenon
<1>3. ASSUME NEW t \in Threads, Start(t) PROVE Goal
  BY <1>0, <1>3, StartTypes, StartPlaces, Zenon
<1>4. ASSUME NEW t \in Threads, PublishRequest(t) PROVE Goal
  BY <1>0, <1>4, PublishRequestTypes, QuietPlaces, Zenon
<1>5. ASSUME NEW t \in Threads, Help(t) PROVE Goal
  BY <1>0, <1>5, HelpTypes, QuietPlaces, Zenon
<1>6. ASSUME NEW t \in Threads, Reread(t) PROVE Goal
  BY <1>0, <1>6, RereadTypes, QuietPlaces, Zenon
<1>7. ASSUME NEW t \in Threads, Own(t) PROVE Goal
  BY <1>0, <1>7, OwnTypes, QuietPlaces, Zenon
<1>8. ASSUME NEW t \in Threads, OwnRequest(t) PROVE Goal
  BY <1>0, <1>8, OwnRequestTypes, QuietPlaces, Zenon
<1>9. ASSUME NEW t \in Threads, PopLoad(t) PROVE Goal
  BY <1>0, <1>9, PopLoadTypes, QuietPlaces, Zenon
<1>10. ASSUME NEW t \in Threads, PopSpan(t) PROVE Goal
  BY <1>0, <1>10, PopSpanTypes, PopSpanPlaces
<1>11. ASSUME NEW t \in Threads, PopEmpty(t) PROVE Goal
  BY <1>0, <1>11, PopEmptyTypes, QuietPlaces, Zenon
<1>12. ASSUME NEW t \in Threads, PopFailed(t) PROVE Goal
  BY <1>0, <1>12, PopFailedTypes, QuietPlaces
<1>13. ASSUME NEW t \in Threads, Complete(t) PROVE Goal
  BY <1>0, <1>13, CompleteTypes, CompletePlaces
<1>14. ASSUME NEW t \in Threads, Stash(t) PROVE Goal
  BY <1>0, <1>14, StashTypes, StashPlaces
<1>15. ASSUME NEW t \in Threads, Helped(t) PROVE Goal
  BY <1>0, <1>15, HelpedTypes, HelpedPlaces, Zenon
<1>16. ASSUME NEW t \in Threads, Take(t) PROVE Goal
  BY <1>0, <1>16, TakeTypes, TakePlaces
<1>17. ASSUME NEW t \in Threads, Clear(t) PROVE Goal
  BY <1>0, <1>17, ClearTypes, QuietPlaces, Zenon
<1>18. ASSUME NEW t \in Threads, Last(t) PROVE Goal
  BY <1>0, <1>18, LastTypes, LastPlaces
<1> HIDE DEF Goal
<1>19. ASSUME NEW t \in Threads, Step(t) PROVE Goal
  BY <1>19, <1>4, <1>5, <1>6, <1>7, <1>8, <1>9, <1>10, <1>11, <1>12, <1>13, <1>14,
     <1>15, <1>16, <1>17, <1>18, Zenon DEF Step
<1>20. ASSUME Next PROVE Goal
  BY <1>2, <1>3, <1>19, <1>20, Zenon DEF Next
<1> QED BY <1>1, <1>20, Zenon DEF Goal

(* The invariant implies the properties.                                   *)
LEMMA InvFacts == HelpInv => SpanInOnePlace /\ PendingOnlyInCall /\ HeldSpanIsPlaced
BY Zenon DEF HelpInv, PendingOnlyInCall, HeldSpanIsPlaced, CallInv

(* The inductive invariant holds in every reachable state.                 *)
THEOREM HelpInvariant == Spec => []HelpInv
BY InitInv, StepInv, PTL DEF Spec

(* "It is never dropped" (acquire.rs:14): for every number of threads,     *)
(* every budget and every set of spans, helpers, owners and late           *)
(* completions neither drop nor double a span.                             *)
THEOREM NoSpanLost == Spec => []SpanInOnePlace
BY HelpInvariant, InvFacts, PTL

(* No request stays pending after its owner's call (acquire.rs:232), so    *)
(* that no helper completes a request whose owner has left.                *)
THEOREM NoRequestLeft == Spec => []PendingOnlyInCall
BY HelpInvariant, InvFacts, PTL

(* The branches of acquire.rs:220 and 247, which return the held span when *)
(* the record has none, are never taken.                                   *)
THEOREM HeldBranchesDead == Spec => []HeldSpanIsPlaced
BY HelpInvariant, InvFacts, PTL
=============================================================================
