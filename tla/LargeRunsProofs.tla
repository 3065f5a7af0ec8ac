-------------------------- MODULE LargeRunsProofs ---------------------------
(* Proofs about LargeRuns, for every number of threads, every list limit,  *)
(* every geometry and every set of layouts: no run is lost, doubled or     *)
(* filed under a wrong class, and every payload lies in its run.           *)
EXTENDS LargeRuns, LayoutsProofs

(* The number of spans of a class is positive.                             *)
LEMMA ClassNumbers ==
  /\ \A c \in ClassSet : c \in Nat /\ run_class_spans(c) \in Nat \ {0}
  /\ 0 \in ClassSet
<1>1. ASSUME NEW c \in ClassSet PROVE c \in 0 .. WORD_BITS
  BY Geometry DEF ClassSet
<1>2. \A c \in ClassSet : 2^c \in Nat \ {0}
  BY <1>1, PowersAssumption, Zenon
<1> QED BY <1>2, Geometry DEF ClassSet, run_class_spans

(* The payload of a request in a run is an address.                        *)
LEMMA PayloadNat ==
  ASSUME NEW r \in 0 .. Count - 1, NEW l \in Requests
  PROVE  large_payload(span_addr(r), l) \in Nat
<1>1. l \in AllLayouts /\ span_addr(r) \in Nat
  BY LargeAssumption, SpansPlaced, Zenon
<1>2. LargeAlign(l) \in Nat \ {0}
  BY <1>1, LayoutNumbers, Geometry, Zenon DEF LargeAlign, Larger
<1>3. span_addr(r) + SPAN_HEADER_RESERVE + HDR_SIZE \in Nat
  BY <1>1, Geometry
<1> QED BY <1>2, <1>3, RoundUp, Zenon DEF large_payload

-----------------------------------------------------------------------------
(* The steps that a thread makes in the pool keep the pool's invariant     *)
(* (PoolSteps below).                                                      *)
PoolKeeps(t) ==
  /\ Pool!AcquireRawSpan(t) => Pool!PoolInv'
  /\ \A c \in ClassSet : Pool!AcquireRawRun(t, run_class_spans(c)) => Pool!PoolInv'
  /\ Pool!Rollback(t) => Pool!PoolInv'

(* A step that leaves the pool alone keeps its invariant.                  *)
LEMMA PoolUnchanged ==
  ASSUME Pool!PoolInv, UNCHANGED pool
  PROVE  Pool!PoolInv'
  BY Zenon DEF pool, Pool!PoolInv, Pool!TypeOK, Pool!HandedOutOnce, Pool!HandedUpTo,
     Pool!WasteBounded, Pool!Outstanding, Pool!Pending

-----------------------------------------------------------------------------
(* What pop_front leaves in a list: everything but the head.               *)
LEMMA TailOf ==
  ASSUME NEW S, NEW q \in Seq(S), q # <<>>, IsInjective(q)
  PROVE  /\ Tail(q) \in Seq(S) /\ IsInjective(Tail(q))
         /\ Head(q) \in Range(q) /\ Head(q) \in S /\ Head(q) \notin Range(Tail(q))
         /\ \A x : x # Head(q) => (x \in Range(Tail(q)) <=> x \in Range(q))
<1>1. /\ Len(q) \in Nat \ {0} /\ q \in [1 .. Len(q) -> S]
      /\ Tail(q) \in Seq(S) /\ Len(Tail(q)) = Len(q) - 1 /\ Head(q) = q[1]
      /\ DOMAIN Tail(q) = 1 .. Len(q) - 1 /\ DOMAIN q = 1 .. Len(q)
  OBVIOUS
<1>2. \A i \in 1 .. Len(q) - 1 : Tail(q)[i] = q[i + 1] /\ i + 1 \in 1 .. Len(q)
  BY <1>1
<1>3. \A i, j \in 1 .. Len(q) : q[i] = q[j] => i = j
  BY <1>1, Zenon DEF IsInjective
<1>4. ASSUME NEW i \in 1 .. Len(q) - 1, NEW j \in 1 .. Len(q) - 1, Tail(q)[i] = Tail(q)[j]
      PROVE  i = j
  <2>1. i + 1 = j + 1
    BY <1>2, <1>3, <1>4, Zenon
  <2> QED BY <2>1
<1>5. 1 \in 1 .. Len(q)
  BY <1>1
<1>6. ASSUME NEW i \in 1 .. Len(q) - 1 PROVE Tail(q)[i] # Head(q)
  <2>1. i + 1 # 1
    OBVIOUS
  <2> QED BY <1>1, <1>2, <1>3, <1>5, <2>1
<1>7. ASSUME NEW i \in 1 .. Len(q), q[i] # Head(q) PROVE \E j \in 1 .. Len(q) - 1 : Tail(q)[j] = q[i]
  <2>1. i # 1
    BY <1>1, <1>7, Zenon
  <2>2. i - 1 \in 1 .. Len(q) - 1 /\ (i - 1) + 1 = i
    BY <1>1, <2>1
  <2> QED BY <1>2, <2>2, Zenon
<1>8. IsInjective(Tail(q))
  BY <1>1, <1>4, Zenon DEF IsInjective
<1>9. Head(q) \in Range(q) /\ Head(q) \in S /\ Head(q) \notin Range(Tail(q))
  BY <1>1, <1>5, <1>6, Zenon DEF Range
<1>10. ASSUME NEW x, x # Head(q) PROVE x \in Range(Tail(q)) <=> x \in Range(q)
  <2>1. ASSUME x \in Range(Tail(q)) PROVE x \in Range(q)
    <3>1. PICK i \in 1 .. Len(q) - 1 : Tail(q)[i] = x
      BY <1>1, <2>1, Zenon DEF Range
    <3> QED BY <1>1, <1>2, <3>1, Zenon DEF Range
  <2>2. ASSUME x \in Range(q) PROVE x \in Range(Tail(q))
    <3>1. PICK i \in 1 .. Len(q) : q[i] = x
      BY <1>1, <2>2, Zenon DEF Range
    <3> QED BY <1>1, <1>7, <1>10, <3>1, Zenon DEF Range
  <2> QED BY <2>1, <2>2, Zenon
<1> QED BY <1>1, <1>8, <1>9, <1>10, Zenon

(* What push_front makes of a list: one element more.                      *)
LEMMA PushedOnto ==
  ASSUME NEW S, NEW q \in Seq(S), IsInjective(q), NEW r \in S, r \notin Range(q)
  PROVE  /\ <<r>> \o q \in Seq(S) /\ IsInjective(<<r>> \o q)
         /\ r \in Range(<<r>> \o q)
         /\ \A x : x # r => (x \in Range(<<r>> \o q) <=> x \in Range(q))
<1> DEFINE p == <<r>> \o q
<1>1. /\ Len(q) \in Nat /\ DOMAIN q = 1 .. Len(q)
      /\ p \in Seq(S) /\ Len(p) = Len(q) + 1 /\ DOMAIN p = 1 .. Len(q) + 1
      /\ p[1] = r
  OBVIOUS
<1>2. \A i \in 1 .. Len(q) : p[i + 1] = q[i] /\ i + 1 \in 1 .. Len(q) + 1
  BY <1>1
<1>3. \A i \in 1 .. Len(q) + 1 : i # 1 => i - 1 \in 1 .. Len(q) /\ p[i] = q[i - 1]
  BY <1>1
<1> HIDE DEF p
<1>4. \A i \in 1 .. Len(q) : q[i] # r
  BY <1>1, Zenon DEF Range
<1>5. \A i, j \in 1 .. Len(q) : q[i] = q[j] => i = j
  BY <1>1, Zenon DEF IsInjective
<1>6. ASSUME NEW i \in 1 .. Len(q) + 1, NEW j \in 1 .. Len(q) + 1, p[i] = p[j]
      PROVE  i = j
  <2>1. CASE i = 1 \/ j = 1
    BY <1>1, <1>3, <1>4, <1>6, <2>1, Zenon
  <2>2. CASE i # 1 /\ j # 1
    <3>1. i - 1 = j - 1
      BY <1>3, <1>5, <1>6, <2>2
    <3> QED BY <3>1
  <2> QED BY <2>1, <2>2, Zenon
<1>7. IsInjective(p)
  BY <1>1, <1>6, Zenon DEF IsInjective
<1>8. r \in Range(p)
  BY <1>1 DEF Range
<1>9. ASSUME NEW x, x # r PROVE x \in Range(p) <=> x \in Range(q)
  <2>1. ASSUME x \in Range(p) PROVE x \in Range(q)
    <3>1. PICK i \in 1 .. Len(q) + 1 : p[i] = x
      BY <1>1, <2>1, Zenon DEF Range
    <3> QED BY <1>1, <1>3, <1>9, <3>1, Zenon DEF Range
  <2>2. ASSUME x \in Range(q) PROVE x \in Range(p)
    BY <1>1, <1>2, <2>2, Zenon DEF Range
  <2> QED BY <2>1, <2>2, Zenon
<1> QED BY <1>1, <1>7, <1>8, <1>9, Zenon DEF p

-----------------------------------------------------------------------------
(* Run r moves: its header becomes x and says where r is now, and nothing  *)
(* else moves.                                                             *)
Moved(r, x) ==
  /\ hdr' = [hdr EXCEPT ![r] = x]
  /\ \A t \in Threads, c \in ClassSet : IsInjective(local'[t][c])
  /\ \A t \in Threads, c \in ClassSet : \A q : q # r => (q \in Range(local'[t][c]) <=> q \in Range(local[t][c]))
  /\ \A c \in ClassSet : \A q : q # r => (q \in public'[c] <=> q \in public[c])
  /\ \A h : h.run # r => (h \in live' <=> h \in live)
  /\ \A t \in Threads, c \in ClassSet :
       r \in Range(local'[t][c]) => x = [class |-> c, owner |-> t, state |-> "freeLocal"]
  /\ \A c \in ClassSet : r \in public'[c] => x = [class |-> c, owner |-> PUBLIC, state |-> "freePublic"]
  /\ \A h \in live' : h.run = r => x.class = h.class /\ x.state = "allocated"
  /\ \A h, g \in live' : h.run = r /\ g.run = r => h = g
  /\ x.state = "allocated" => \E h \in live' : h.run = r
  /\ x.state = "freeLocal" => x.owner \in Threads /\ r \in Range(local'[x.owner][x.class])
  /\ x.state = "freePublic" => r \in public'[x.class]

(* Headers keep telling the place of every run when one run moves.         *)
LEMMA MovedIsFiled ==
  ASSUME FiledAsMarked, PlaceInv, TypeOK', NEW r \in 0 .. Count - 1, NEW x \in Headers, Moved(r, x)
  PROVE  FiledAsMarked' /\ PlaceInv'
<1>1. /\ hdr'[r] = x /\ x # NoRun
      /\ \A q \in 0 .. Count - 1 : q # r => hdr'[q] = hdr[q]
  BY LargeAssumption, Zenon DEF FiledAsMarked, TypeOK, Moved
<1>2. /\ \A t \in Threads, c \in ClassSet : \A q \in Range(local[t][c]) : q \in 0 .. Count - 1
      /\ \A t \in Threads, c \in ClassSet : \A q \in Range(local'[t][c]) : q \in 0 .. Count - 1
  <2>1. ASSUME NEW S, NEW s \in Seq(S), NEW q \in Range(s) PROVE q \in S
    BY DEF Range
  <2>2. /\ \A t \in Threads, c \in ClassSet : local[t][c] \in Seq(0 .. Count - 1)
        /\ \A t \in Threads, c \in ClassSet : local'[t][c] \in Seq(0 .. Count - 1)
    <3>1. /\ local \in [Threads -> [ClassSet -> Seq(0 .. Count - 1)]]
          /\ local' \in [Threads -> [ClassSet -> Seq(0 .. Count - 1)]]
      BY Zenon DEF FiledAsMarked, TypeOK
    <3> QED BY <3>1, Zenon
  <2> QED BY <2>1, <2>2, Zenon
<1>3. /\ \A c \in ClassSet : public'[c] \subseteq 0 .. Count - 1
      /\ \A h \in live' : h.run \in 0 .. Count - 1
      /\ \A h \in live : h.run \in 0 .. Count - 1
  BY Zenon DEF FiledAsMarked, TypeOK
<1>4. /\ r \in Runs'
      /\ \A q : q # r => (q \in Runs' <=> q \in Runs)
  BY <1>1, Zenon DEF Runs
<1>5. ASSUME NEW t \in Threads, NEW c \in ClassSet, NEW q \in Range(local'[t][c])
      PROVE  hdr'[q] = [class |-> c, owner |-> t, state |-> "freeLocal"]
  BY <1>1, <1>2 DEF FiledAsMarked, Moved
<1>6. ASSUME NEW c \in ClassSet, NEW q \in public'[c]
      PROVE  hdr'[q] = [class |-> c, owner |-> PUBLIC, state |-> "freePublic"]
  BY <1>1, <1>3, Zenon DEF FiledAsMarked, Moved
<1>7. ASSUME NEW h \in live'
      PROVE  h.run \in Runs' /\ hdr'[h.run].class = h.class /\ hdr'[h.run].state = "allocated"
  <2>1. CASE h.run = r
    BY <1>1, <1>4, <2>1, Zenon DEF Moved
  <2>2. CASE h.run # r
    <3>1. h \in live
      BY <2>2, Zenon DEF Moved
    <3> QED BY <1>1, <1>3, <1>4, <2>2, <3>1, Zenon DEF FiledAsMarked
  <2> QED BY <2>1, <2>2, Zenon
<1>8. ASSUME NEW h \in live', NEW g \in live', h.run = g.run
      PROVE  h = g
  BY <1>8, Zenon DEF PlaceInv, Moved
<1>9. ASSUME NEW q \in Runs'
      PROVE  /\ hdr'[q].state = "allocated" => \E h \in live' : h.run = q
             /\ hdr'[q].state = "freeLocal" =>
                  hdr'[q].owner \in Threads /\ q \in Range(local'[hdr'[q].owner][hdr'[q].class])
             /\ hdr'[q].state = "freePublic" => q \in public'[hdr'[q].class]
  <2>1. CASE q = r
    BY <1>1, <2>1, Zenon DEF Moved
  <2>2. CASE q # r
    <3>1. q \in Runs /\ hdr'[q] = hdr[q] /\ hdr[q] \in Headers
      BY <1>1, <1>4, <2>2, Zenon DEF Runs, FiledAsMarked, TypeOK
    <3>2. hdr[q].class \in ClassSet
      BY <3>1, Zenon DEF Headers
    <3>3. hdr[q].state = "allocated" => \E h \in live' : h.run = q
      BY <2>2, <3>1, Zenon DEF PlaceInv, Moved
    <3>4. hdr[q].state = "freeLocal" =>
            hdr[q].owner \in Threads /\ q \in Range(local'[hdr[q].owner][hdr[q].class])
      BY <2>2, <3>1, <3>2, Zenon DEF PlaceInv, Moved
    <3>5. hdr[q].state = "freePublic" => q \in public'[hdr[q].class]
      BY <2>2, <3>1, <3>2, Zenon DEF PlaceInv, Moved
    <3> QED BY <3>1, <3>3, <3>4, <3>5, Zenon
  <2> QED BY <2>1, <2>2, Zenon
<1>10. FiledAsMarked'
  BY <1>5, <1>6, <1>7, Zenon DEF FiledAsMarked
<1>11. \A t \in Threads, c \in ClassSet : IsInjective(local'[t][c])
  BY Zenon DEF Moved
<1>12. PlaceInv'
  BY <1>8, <1>9, <1>11, Zenon DEF PlaceInv
<1> QED BY <1>10, <1>12, Zenon

(* A run that moves keeps its spans.                                       *)
LEMMA MovedKeepsSpans ==
  ASSUME TypeOK, CarvedIsAccountedFor, NEW r \in Runs, NEW x \in Headers,
         hdr' = [hdr EXCEPT ![r] = x], x.class = hdr[r].class, UNCHANGED <<pool, small>>
  PROVE  CarvedIsAccountedFor'
<1>1. /\ hdr'[r] = x /\ x # NoRun /\ r \in 0 .. Count - 1
      /\ \A q \in 0 .. Count - 1 : q # r => hdr'[q] = hdr[q]
  BY LargeAssumption, Zenon DEF TypeOK, Runs
<1>2. Runs' = Runs
  BY <1>1, Zenon DEF Runs
<1>3. \A q \in Runs : hdr'[q].class = hdr[q].class
  BY <1>1, Zenon DEF Runs
<1>4. \A q \in Runs : SpansOf(q)' = SpansOf(q)
  BY <1>3, Zenon DEF SpansOf
<1>5. handed' = handed /\ small' = small
  BY Zenon DEF pool
<1>6. \A q \in Runs : q + run_class_spans(hdr'[q].class) <= Count
  BY <1>3, Zenon DEF CarvedIsAccountedFor
<1> QED BY <1>2, <1>4, <1>5, <1>6 DEF CarvedIsAccountedFor, Pool!Indices

-----------------------------------------------------------------------------
(* The types of the call in progress.                                      *)
CallTypes ==
  /\ pc \in [Threads -> {"idle", "local", "public", "carve", "rollback"}]
  /\ want \in [Threads -> Requests \cup {NoRequest}]
  /\ class \in [Threads -> ClassSet]

(* What the steps inside a call keep.                                      *)
CallKept == CallTypes' /\ RequestInv' /\ ServedUpwards'

(* A step inside a call moves no run.                                      *)
LEMMA NothingMoves ==
  ASSUME LargeInv, CallKept, UNCHANGED <<small, hdr, local, public, live, handed>>
  PROVE  FiledAsMarked' /\ PlaceInv' /\ CarvedIsAccountedFor'
<1>1. TypeOK'
  BY Zenon DEF LargeInv, FiledAsMarked, TypeOK, CallKept, CallTypes
<1>2. Runs' = Runs /\ \A r : SpansOf(r)' = SpansOf(r)
  BY Zenon DEF Runs, SpansOf
<1>3. FiledAsMarked'
  BY <1>1, <1>2, Zenon DEF LargeInv, FiledAsMarked
<1>4. PlaceInv'
  BY <1>2, Zenon DEF LargeInv, PlaceInv
<1>5. CarvedIsAccountedFor'
  BY <1>2, Zenon DEF LargeInv, CarvedIsAccountedFor, Pool!Indices
<1> QED BY <1>3, <1>4, <1>5, Zenon

(* The call of t goes on at l with request w and class c.                  *)
LEMMA CallGoesOn ==
  ASSUME LargeInv, NEW t \in Threads, UNCHANGED live,
         NEW l \in {"idle", "local", "public", "carve", "rollback"},
         NEW w \in Requests \cup {NoRequest}, NEW c \in ClassSet,
         pc' = [pc EXCEPT ![t] = l], want' = [want EXCEPT ![t] = w], class' = [class EXCEPT ![t] = c],
         l # "idle" => /\ w \in Requests /\ Path(w) = "large" /\ run_class_for_layout(w) # None
                       /\ c >= run_class_for_layout(w)
  PROVE  CallKept
<1>1. CallTypes
  BY Zenon DEF LargeInv, FiledAsMarked, TypeOK, CallTypes
<1>2. CallTypes'
  BY <1>1, Zenon DEF CallTypes
<1>3. /\ pc'[t] = l /\ want'[t] = w /\ class'[t] = c
      /\ \A u \in Threads : u # t => pc'[u] = pc[u] /\ want'[u] = want[u] /\ class'[u] = class[u]
  BY <1>1, Zenon DEF CallTypes
<1>4. RequestInv'
  BY <1>3, Zenon DEF LargeInv, RequestInv
<1>5. ServedUpwards'
  BY <1>3 DEF LargeInv, ServedUpwards
<1> QED BY <1>2, <1>4, <1>5, Zenon DEF CallKept

(* What the invariant says of a call in progress.                          *)
LEMMA CallFacts ==
  ASSUME LargeInv, NEW t \in Threads
  PROVE  /\ pc[t] \in {"idle", "local", "public", "carve", "rollback"}
         /\ want[t] \in Requests \cup {NoRequest}
         /\ class[t] \in ClassSet /\ class[t] \in Nat
         /\ want = [want EXCEPT ![t] = want[t]]
         /\ class = [class EXCEPT ![t] = class[t]]
         /\ pc[t] # "idle" => /\ want[t] \in Requests /\ Path(want[t]) = "large"
                              /\ run_class_for_layout(want[t]) # None
                              /\ run_class_for_layout(want[t]) \in ClassSet
                              /\ class[t] >= run_class_for_layout(want[t])
<1>1. /\ pc[t] \in {"idle", "local", "public", "carve", "rollback"}
      /\ want[t] \in Requests \cup {NoRequest}
      /\ class[t] \in ClassSet
      /\ want = [want EXCEPT ![t] = want[t]]
      /\ class = [class EXCEPT ![t] = class[t]]
  BY Zenon DEF LargeInv, FiledAsMarked, TypeOK
<1>2. pc[t] # "idle" => /\ want[t] \in Requests /\ Path(want[t]) = "large"
                       /\ run_class_for_layout(want[t]) # None
                       /\ class[t] >= run_class_for_layout(want[t])
  BY Zenon DEF LargeInv, RequestInv, ServedUpwards
<1>3. \A l \in Requests : run_class_for_layout(l) # None => run_class_for_layout(l) \in ClassSet
  BY LargeAssumption, LargeClassHolds, Zenon DEF ClassSet
<1> QED BY <1>1, <1>2, <1>3, ClassNumbers, Zenon

(* The next class is above the one asked for, and null ends the call.      *)
LEMMA NextClassKeeps ==
  ASSUME LargeInv, NEW t \in Threads, pc[t] # "idle", NextClass(t), UNCHANGED live
  PROVE  CallKept
<1>1. CASE More(class[t])
  <2> DEFINE d == class[t] + 1
  <2>1. d \in ClassSet
    BY <1>1, CallFacts, Geometry DEF More, ClassSet
  <2>2. d >= run_class_for_layout(want[t])
    BY CallFacts, ClassNumbers
  <2>3. pc' = [pc EXCEPT ![t] = "local"] /\ class' = [class EXCEPT ![t] = d] /\ want' = [want EXCEPT ![t] = want[t]]
    BY <1>1, CallFacts, Zenon DEF NextClass, Goto
  <2> HIDE DEF d
  <2>4. want[t] \in Requests /\ Path(want[t]) = "large" /\ run_class_for_layout(want[t]) # None
    BY CallFacts, Zenon
  <2> QED BY <2>1, <2>2, <2>3, <2>4, CallGoesOn, Zenon
<1>2. CASE ~More(class[t])
  <2>1. /\ pc' = [pc EXCEPT ![t] = "idle"] /\ class' = [class EXCEPT ![t] = 0]
        /\ want' = [want EXCEPT ![t] = NoRequest]
    BY <1>2, Zenon DEF NextClass, Return, Goto
  <2> QED BY <2>1, CallGoesOn, ClassNumbers, Zenon
<1> QED BY <1>1, <1>2, Zenon

(* The allocation that finish_large makes of run r, and the header it      *)
(* leaves.                                                                 *)
Given(t, r) ==
  [ptr |-> large_payload(span_addr(r), want[t]), layout |-> want[t], run |-> r, class |-> class[t]]

InUse(h) == [h EXCEPT !.state = "allocated"]

(* What finish_large makes of run r with header h.                         *)
Finished(t, r, h) ==
  /\ CallKept
  /\ InUse(h) \in Headers /\ InUse(h).state = "allocated" /\ InUse(h).class = h.class
  /\ hdr' = [hdr EXCEPT ![r] = InUse(h)]
  /\ hdr' \in [0 .. Count - 1 -> Headers \cup {NoRun}]
  /\ live' = live \cup {Given(t, r)}
  /\ live' \subseteq [ptr : Nat, layout : Requests, run : 0 .. Count - 1, class : ClassSet]
  /\ Given(t, r).run = r /\ Given(t, r).class = class[t]

(* finish_large ends the call and gives out the run.                       *)
LEMMA FinishKeeps ==
  ASSUME LargeInv, NEW t \in Threads, pc[t] # "idle", NEW r \in 0 .. Count - 1, NEW h \in Headers,
         Finish(t, r, h)
  PROVE  Finished(t, r, h)
<1>1. InUse(h) \in Headers /\ InUse(h).state = "allocated" /\ InUse(h).class = h.class
  BY Zenon DEF Headers, InUse
<1>2. hdr' = [hdr EXCEPT ![r] = InUse(h)]
  BY Zenon DEF Finish, InUse
<1>3. hdr' \in [0 .. Count - 1 -> Headers \cup {NoRun}]
  BY <1>1, <1>2, Zenon DEF LargeInv, FiledAsMarked, TypeOK
<1>4. live' = live \cup {Given(t, r)}
  BY Zenon DEF Finish, Given, HeaderClass
<1>5. /\ want[t] \in Requests /\ class[t] \in ClassSet /\ Path(want[t]) = "large"
      /\ run_class_for_layout(want[t]) # None /\ class[t] >= run_class_for_layout(want[t])
  BY CallFacts, Zenon
<1>6. large_payload(span_addr(r), want[t]) \in Nat
  BY <1>5, PayloadNat, Zenon
<1>7. Given(t, r) \in [ptr : Nat, layout : Requests, run : 0 .. Count - 1, class : ClassSet]
  BY <1>5, <1>6, Zenon DEF Given
<1>8. live' \subseteq [ptr : Nat, layout : Requests, run : 0 .. Count - 1, class : ClassSet]
  BY <1>4, <1>7, Zenon DEF LargeInv, FiledAsMarked, TypeOK
<1>9. /\ pc' = [pc EXCEPT ![t] = "idle"] /\ class' = [class EXCEPT ![t] = 0]
      /\ want' = [want EXCEPT ![t] = NoRequest]
  BY Zenon DEF Finish, Return, Goto
<1>10. CallTypes
  BY Zenon DEF LargeInv, FiledAsMarked, TypeOK, CallTypes
<1>11. CallTypes'
  BY <1>9, <1>10, ClassNumbers, Zenon DEF CallTypes
<1>12. /\ pc'[t] = "idle"
       /\ \A u \in Threads : u # t => pc'[u] = pc[u] /\ want'[u] = want[u] /\ class'[u] = class[u]
  BY <1>9, <1>10, Zenon DEF CallTypes
<1>13. /\ Given(t, r).ptr = large_payload(span_addr(Given(t, r).run), Given(t, r).layout)
       /\ Path(Given(t, r).layout) = "large" /\ run_class_for_layout(Given(t, r).layout) # None
       /\ Given(t, r).class >= run_class_for_layout(Given(t, r).layout)
  BY <1>5, Zenon DEF Given
<1>14. RequestInv'
  BY <1>4, <1>12, <1>13, Zenon DEF LargeInv, RequestInv
<1>15. ServedUpwards'
  BY <1>4, <1>12, <1>13, Zenon DEF LargeInv, ServedUpwards
<1>16. Given(t, r).run = r /\ Given(t, r).class = class[t]
  BY Zenon DEF Given
<1> QED BY <1>1, <1>2, <1>3, <1>4, <1>8, <1>11, <1>14, <1>15, <1>16 DEF Finished, CallKept

(* The types of the lists and that they hold a run once.                   *)
LEMMA ListTypes ==
  ASSUME LargeInv
  PROVE  /\ local \in [Threads -> [ClassSet -> Seq(0 .. Count - 1)]]
         /\ public \in [ClassSet -> SUBSET (0 .. Count - 1)]
         /\ \A u \in Threads, d \in ClassSet : local[u][d] \in Seq(0 .. Count - 1)
         /\ \A u \in Threads, d \in ClassSet : IsInjective(local[u][d])
<1>1. TypeOK /\ PlaceInv
  BY Zenon DEF LargeInv, FiledAsMarked
<1>2. local \in [Threads -> [ClassSet -> Seq(0 .. Count - 1)]] /\ public \in [ClassSet -> SUBSET (0 .. Count - 1)]
  BY <1>1, Zenon DEF TypeOK
<1>3. \A u \in Threads, d \in ClassSet : IsInjective(local[u][d])
  BY <1>1, Zenon DEF PlaceInv
<1> QED BY <1>2, <1>3, Zenon

(* An index without a run header is in no list.                            *)
LEMMA ListedIsRun ==
  ASSUME LargeInv, NEW r, hdr[r] = NoRun
  PROVE  /\ \A u \in Threads, d \in ClassSet : r \notin Range(local[u][d])
         /\ \A d \in ClassSet : r \notin public[d]
<1>1. \A u \in Threads, d \in ClassSet : [class |-> d, owner |-> u, state |-> "freeLocal"] # NoRun
  BY LargeAssumption DEF Headers
<1>2. \A d \in ClassSet : [class |-> d, owner |-> PUBLIC, state |-> "freePublic"] # NoRun
  BY LargeAssumption DEF Headers
<1>3. FiledAsMarked
  BY Zenon DEF LargeInv
<1>4. ASSUME NEW u \in Threads, NEW d \in ClassSet, r \in Range(local[u][d]) PROVE FALSE
  <2>1. hdr[r] = [class |-> d, owner |-> u, state |-> "freeLocal"]
    BY <1>3, <1>4, Zenon DEF FiledAsMarked
  <2> QED BY <1>1, <2>1, Zenon
<1>5. ASSUME NEW d \in ClassSet, r \in public[d] PROVE FALSE
  <2>1. hdr[r] = [class |-> d, owner |-> PUBLIC, state |-> "freePublic"]
    BY <1>3, <1>5, Zenon DEF FiledAsMarked
  <2> QED BY <1>2, <2>1, Zenon
<1> QED BY <1>4, <1>5, Zenon

(* The header of a run tells its place.                                    *)
LEMMA HeaderTells ==
  ASSUME LargeInv
  PROVE  /\ \A u \in Threads, d \in ClassSet : \A q \in Range(local[u][d]) :
              hdr[q].state = "freeLocal" /\ hdr[q].owner = u /\ hdr[q].class = d
         /\ \A d \in ClassSet : \A q \in public[d] : hdr[q].state = "freePublic" /\ hdr[q].class = d
         /\ \A g \in live : hdr[g.run].state = "allocated" /\ hdr[g.run].class = g.class
<1>1. ASSUME NEW u \in Threads, NEW d \in ClassSet, NEW q \in Range(local[u][d])
      PROVE  hdr[q].state = "freeLocal" /\ hdr[q].owner = u /\ hdr[q].class = d
  <2>1. hdr[q] = [class |-> d, owner |-> u, state |-> "freeLocal"]
    BY Zenon DEF LargeInv, FiledAsMarked
  <2> QED BY <2>1
<1>2. ASSUME NEW d \in ClassSet, NEW q \in public[d]
      PROVE  hdr[q].state = "freePublic" /\ hdr[q].class = d
  <2>1. hdr[q] = [class |-> d, owner |-> PUBLIC, state |-> "freePublic"]
    BY Zenon DEF LargeInv, FiledAsMarked
  <2> QED BY <2>1
<1>3. \A g \in live : hdr[g.run].state = "allocated" /\ hdr[g.run].class = g.class
  BY Zenon DEF LargeInv, FiledAsMarked
<1> QED BY <1>1, <1>2, <1>3, Zenon

(* A run that was in no allocation, and is now in no list, moves to the    *)
(* user.                                                                   *)
LEMMA FinishMoves ==
  ASSUME LargeInv, TypeOK', NEW t \in Threads, pc[t] # "idle", NEW r \in 0 .. Count - 1,
         NEW h \in Headers, h.class = class[t], Finish(t, r, h),
         \A g \in live : g.run # r,
         \A u \in Threads, c \in ClassSet : IsInjective(local'[u][c]),
         \A u \in Threads, c \in ClassSet : r \notin Range(local'[u][c]),
         \A u \in Threads, c \in ClassSet : \A q : q # r => (q \in Range(local'[u][c]) <=> q \in Range(local[u][c])),
         \A c \in ClassSet : r \notin public'[c],
         \A c \in ClassSet : \A q : q # r => (q \in public'[c] <=> q \in public[c])
  PROVE  FiledAsMarked' /\ PlaceInv'
<1>1. /\ InUse(h) \in Headers /\ InUse(h).state = "allocated" /\ InUse(h).class = h.class
      /\ hdr' = [hdr EXCEPT ![r] = InUse(h)]
      /\ live' = live \cup {Given(t, r)}
      /\ Given(t, r).run = r /\ Given(t, r).class = class[t]
  <2>1. Finished(t, r, h)
    BY FinishKeeps, Zenon
  <2> QED BY <2>1, Zenon DEF Finished
<1>2. \A g : g.run # r => (g \in live' <=> g \in live)
  BY <1>1, Zenon
<1>3. \A g \in live' : g.run = r => g = Given(t, r)
  BY <1>1, Zenon
<1>4. Moved(r, InUse(h))
  BY <1>1, <1>2, <1>3, Zenon DEF Moved
<1> QED BY <1>1, <1>4, MovedIsFiled, Zenon DEF LargeInv

(* The own list of the class: its head leaves it.                          *)
LEMMA PopLocalKeeps ==
  ASSUME LargeInv, NEW t \in Threads, PopLocal(t)
  PROVE  LargeInv'
<1> DEFINE c == class[t]
           q == local[t][c]
           r == Head(q)
<1>1. /\ pc[t] # "idle" /\ q # <<>> /\ Finish(t, r, hdr[r])
      /\ local' = [local EXCEPT ![t] = [local[t] EXCEPT ![c] = Tail(q)]]
      /\ UNCHANGED <<pool, small, public>>
  BY Zenon DEF PopLocal, Popped
<1>2. /\ c \in ClassSet /\ local \in [Threads -> [ClassSet -> Seq(0 .. Count - 1)]]
      /\ q \in Seq(0 .. Count - 1) /\ IsInjective(q)
  BY CallFacts, ListTypes, Zenon
<1>3. /\ Tail(q) \in Seq(0 .. Count - 1) /\ IsInjective(Tail(q))
      /\ r \in Range(q) /\ r \in 0 .. Count - 1 /\ r \notin Range(Tail(q))
      /\ \A x : x # r => (x \in Range(Tail(q)) <=> x \in Range(q))
  BY <1>1, <1>2, TailOf, Zenon
<1>4. hdr[r] = [class |-> c, owner |-> t, state |-> "freeLocal"]
  BY <1>2, <1>3, Zenon DEF LargeInv, FiledAsMarked
<1>5. hdr[r] \in Headers /\ hdr[r].class = c /\ hdr[r].state = "freeLocal" /\ hdr[r].owner = t
  <2>1. hdr[r].class = c /\ hdr[r].state = "freeLocal" /\ hdr[r].owner = t
    BY <1>4
  <2>2. [class |-> c, owner |-> t, state |-> "freeLocal"] \in Headers
    BY <1>2, Zenon DEF Headers
  <2> QED BY <1>4, <2>1, <2>2, Zenon
<1>6. r \in Runs
  BY <1>3, <1>5, LargeAssumption, Zenon DEF Runs
<1> HIDE DEF r
<1>7. /\ local'[t][c] = Tail(q)
      /\ \A u \in Threads, d \in ClassSet : u # t \/ d # c => local'[u][d] = local[u][d]
      /\ local' \in [Threads -> [ClassSet -> Seq(0 .. Count - 1)]]
  <2>1. [local[t] EXCEPT ![c] = Tail(q)] \in [ClassSet -> Seq(0 .. Count - 1)]
    BY <1>2, <1>3, Zenon
  <2> QED BY <1>1, <1>2, <2>1, Zenon
<1>8. /\ CallKept
      /\ InUse(hdr[r]) \in Headers /\ InUse(hdr[r]).class = c
      /\ hdr' = [hdr EXCEPT ![r] = InUse(hdr[r])]
      /\ hdr' \in [0 .. Count - 1 -> Headers \cup {NoRun}]
      /\ live' \subseteq [ptr : Nat, layout : Requests, run : 0 .. Count - 1, class : ClassSet]
  <2>1. Finished(t, r, hdr[r])
    BY <1>1, <1>3, <1>5, FinishKeeps, Zenon
  <2> QED BY <1>5, <2>1, Zenon DEF Finished
<1>9. TypeOK'
  BY <1>1, <1>7, <1>8, Zenon DEF LargeInv, FiledAsMarked, TypeOK, CallKept, CallTypes
<1>10. \A g \in live : g.run # r
  BY <1>5, HeaderTells, Zenon
<1>11. \A d \in ClassSet : r \notin public[d]
  BY <1>5, HeaderTells
<1>12. \A u \in Threads, d \in ClassSet : r \in Range(local[u][d]) => u = t /\ d = c
  BY <1>5, HeaderTells
<1>13. \A u \in Threads, d \in ClassSet : IsInjective(local'[u][d])
  <2>1. \A u \in Threads, d \in ClassSet : IsInjective(local[u][d])
    BY ListTypes, Zenon
  <2> QED BY <1>3, <1>7, <2>1, Zenon
<1>14. ASSUME NEW u \in Threads, NEW d \in ClassSet PROVE r \notin Range(local'[u][d])
  <2>1. CASE u = t /\ d = c
    BY <1>3, <1>7, <2>1, Zenon
  <2>2. CASE ~(u = t /\ d = c)
    BY <1>7, <1>12, <2>2, Zenon
  <2> QED BY <2>1, <2>2, Zenon
<1>15. ASSUME NEW u \in Threads, NEW d \in ClassSet
       PROVE  \A x : x # r => (x \in Range(local'[u][d]) <=> x \in Range(local[u][d]))
  <2>1. CASE u = t /\ d = c
    BY <1>3, <1>7, <2>1, Zenon
  <2>2. CASE ~(u = t /\ d = c)
    BY <1>7, <2>2, Zenon
  <2> QED BY <2>1, <2>2, Zenon
<1>16. public' = public
  BY <1>1, Zenon
<1>17. FiledAsMarked' /\ PlaceInv'
  BY <1>1, <1>3, <1>5, <1>9, <1>10, <1>11, <1>13, <1>14, <1>15, <1>16, FinishMoves
<1>18. CarvedIsAccountedFor'
  BY <1>1, <1>5, <1>6, <1>8, MovedKeepsSpans, Zenon DEF LargeInv, FiledAsMarked
<1>19. Pool!PoolInv'
  BY <1>1, PoolUnchanged, Zenon DEF LargeInv
<1> QED BY <1>8, <1>17, <1>18, <1>19 DEF LargeInv, CallKept

(* A public list of the class: the run acquired leaves it.                 *)
LEMMA AcquireRunKeeps ==
  ASSUME LargeInv, NEW t \in Threads, AcquireRun(t)
  PROVE  LargeInv'
<1> DEFINE c == class[t]
<1>1. PICK r \in public[c] :
        /\ public' = [public EXCEPT ![c] = public[c] \ {r}]
        /\ Finish(t, r, [hdr[r] EXCEPT !.owner = t])
  BY Zenon DEF AcquireRun
<1>2. pc[t] # "idle" /\ UNCHANGED <<pool, small, local>>
  BY Zenon DEF AcquireRun
<1>3. c \in ClassSet /\ public \in [ClassSet -> SUBSET (0 .. Count - 1)] /\ r \in 0 .. Count - 1
  BY CallFacts, Zenon DEF LargeInv, FiledAsMarked, TypeOK
<1>4. hdr[r] = [class |-> c, owner |-> PUBLIC, state |-> "freePublic"]
  BY <1>3, Zenon DEF LargeInv, FiledAsMarked
<1> DEFINE h == [hdr[r] EXCEPT !.owner = t]
<1>5. h \in Headers /\ h.class = c /\ hdr[r].class = c /\ hdr[r].state = "freePublic" /\ hdr[r] \in Headers
  BY <1>3, <1>4 DEF Headers
<1>6. r \in Runs
  BY <1>3, <1>5, LargeAssumption, Zenon DEF Runs
<1>7. Finish(t, r, h)
  BY <1>1, Zenon
<1> HIDE DEF h
<1>8. /\ CallKept
      /\ InUse(h) \in Headers /\ InUse(h).class = c
      /\ hdr' = [hdr EXCEPT ![r] = InUse(h)]
      /\ hdr' \in [0 .. Count - 1 -> Headers \cup {NoRun}]
      /\ live' \subseteq [ptr : Nat, layout : Requests, run : 0 .. Count - 1, class : ClassSet]
  <2>1. Finished(t, r, h)
    BY <1>2, <1>3, <1>5, <1>7, FinishKeeps, Zenon
  <2> QED BY <1>5, <2>1, Zenon DEF Finished
<1>9. public' \in [ClassSet -> SUBSET (0 .. Count - 1)]
  BY <1>1, <1>3, Zenon
<1>10. TypeOK'
  BY <1>2, <1>8, <1>9, Zenon DEF LargeInv, FiledAsMarked, TypeOK, CallKept, CallTypes
<1>11. \A g \in live : g.run # r
  BY <1>5, HeaderTells, Zenon
<1>12. local' = local /\ \A u \in Threads, d \in ClassSet : r \notin Range(local[u][d])
  BY <1>2, <1>5, HeaderTells, Zenon
<1>13. \A u \in Threads, d \in ClassSet : IsInjective(local[u][d])
  BY Zenon DEF LargeInv, PlaceInv
<1>14. \A d \in ClassSet : r \notin public'[d]
  <2>1. \A d \in ClassSet : r \in public[d] => d = c
    BY <1>5, HeaderTells, Zenon
  <2> QED BY <1>1, <1>3, <2>1, Zenon
<1>15. \A d \in ClassSet : \A x : x # r => (x \in public'[d] <=> x \in public[d])
  BY <1>1, <1>3, Zenon
<1>16. FiledAsMarked' /\ PlaceInv'
  BY <1>2, <1>3, <1>5, <1>7, <1>10, <1>11, <1>12, <1>13, <1>14, <1>15, FinishMoves
<1>17. CarvedIsAccountedFor'
  BY <1>2, <1>5, <1>6, <1>8, MovedKeepsSpans, Zenon DEF LargeInv, FiledAsMarked
<1>18. Pool!PoolInv'
  BY <1>2, PoolUnchanged, Zenon DEF LargeInv
<1> QED BY <1>8, <1>16, <1>17, <1>18, Zenon DEF LargeInv, CallKept

(* The spans that a fitting carve is handed belong to nothing yet.         *)
LEMMA FreshSpans ==
  ASSUME LargeInv, NEW n \in Nat \ {0}, next + n <= Count, next + n <= MaxNext
  PROVE  /\ next \in 0 .. Count - 1 /\ next \notin Runs
         /\ \A s \in next .. next + n - 1 :
              s \in Pool!Indices /\ handed[s] = 0 /\ s \notin small /\ s \in 0 .. Count - 1
         /\ \A s \in next .. next + n - 1 : \A r \in Runs : s \notin SpansOf(r)
<1>1. next \in Nat /\ Count \in Nat /\ MaxNext \in Nat
  BY CountNat, LargeAssumption, Zenon DEF LargeInv, Pool!PoolInv, Pool!TypeOK
<1>2. \A s \in next .. next + n - 1 : s \in Pool!Indices /\ s \in 0 .. Count - 1
  BY <1>1 DEF Pool!Indices
<1>3. \A s \in next .. next + n - 1 : handed[s] = 0
  BY <1>1, <1>2 DEF LargeInv, Pool!PoolInv, Pool!HandedUpTo
<1>4. \A s \in Pool!Indices : handed[s] = IF s \in small \/ \E r \in Runs : s \in SpansOf(r) THEN 1 ELSE 0
  BY Zenon DEF LargeInv, CarvedIsAccountedFor
<1>5. \A s \in next .. next + n - 1 : s \notin small /\ \A r \in Runs : s \notin SpansOf(r)
  BY <1>2, <1>3, <1>4
<1>6. next \in next .. next + n - 1
  BY <1>1
<1>7. next \notin Runs
  <2> SUFFICES ASSUME next \in Runs PROVE FALSE
    BY Zenon
  <2>1. hdr[next] \in Headers
    BY Zenon DEF Runs, LargeInv, FiledAsMarked, TypeOK
  <2>2. run_class_spans(hdr[next].class) \in Nat \ {0}
    BY <2>1, ClassNumbers, Zenon DEF Headers
  <2>3. next \in SpansOf(next)
    BY <1>1, <2>2 DEF SpansOf
  <2> QED BY <1>5, <1>6, <2>3, Zenon
<1> QED BY <1>2, <1>3, <1>5, <1>6, <1>7, Zenon

(* A carve that fits makes a run of fresh spans.                           *)
LEMMA CarveFits ==
  ASSUME LargeInv, NEW t \in Threads, PoolKeeps(t), pc[t] # "idle",
         Pool!AcquireRawRun(t, run_class_spans(class[t])),
         ~Pool!DoesNotFit(next, run_class_spans(class[t])),
         Finish(t, next, [class |-> class[t], owner |-> t, state |-> "allocated"]),
         UNCHANGED <<small, local, public>>
  PROVE  LargeInv'
<1> DEFINE c == class[t]
           n == run_class_spans(c)
           h == [class |-> c, owner |-> t, state |-> "allocated"]
<1>1. c \in ClassSet /\ n \in Nat \ {0}
  BY CallFacts, ClassNumbers, Zenon
<1>2. h \in Headers /\ h.class = c /\ Finish(t, next, h)
  BY <1>1, Zenon DEF Headers
<1>3. next \in Nat /\ Count \in Nat /\ handed \in [Pool!Indices -> Nat]
  BY CountNat, Zenon DEF LargeInv, Pool!PoolInv, Pool!TypeOK
<1>4. next + n <= Count /\ next + n <= MaxNext
  <2>1. ~(next >= Count \/ Count - next < n) /\ next + n <= MaxNext
    BY Zenon DEF Pool!AcquireRawRun, Pool!DoesNotFit
  <2>2. \A i, k, m \in Nat : ~(i >= m \/ m - i < k) => i + k <= m
    OBVIOUS
  <2> HIDE DEF n
  <2> QED BY <1>1, <1>3, <2>1, <2>2, Zenon
<1>5. handed' = [s \in Pool!Indices |-> IF s \in next .. next + n - 1 THEN handed[s] + 1 ELSE handed[s]]
  BY Zenon DEF Pool!AcquireRawRun, Pool!HandOut
<1>6. Pool!PoolInv'
  BY <1>1, Zenon DEF PoolKeeps
<1>7. /\ next \in 0 .. Count - 1 /\ next \notin Runs
      /\ \A s \in next .. next + n - 1 :
           s \in Pool!Indices /\ handed[s] = 0 /\ s \notin small /\ s \in 0 .. Count - 1
      /\ \A s \in next .. next + n - 1 : \A r \in Runs : s \notin SpansOf(r)
  BY <1>1, <1>4, FreshSpans, Zenon
<1> HIDE DEF h, n
<1>8. /\ CallKept
      /\ InUse(h) \in Headers /\ InUse(h).class = c
      /\ hdr' = [hdr EXCEPT ![next] = InUse(h)]
      /\ hdr' \in [0 .. Count - 1 -> Headers \cup {NoRun}]
      /\ live' \subseteq [ptr : Nat, layout : Requests, run : 0 .. Count - 1, class : ClassSet]
  <2>1. Finished(t, next, h)
    BY <1>2, <1>7, FinishKeeps, Zenon
  <2> QED BY <1>2, <2>1, Zenon DEF Finished
<1>9. TypeOK'
  BY <1>8, Zenon DEF LargeInv, FiledAsMarked, TypeOK, CallKept, CallTypes
<1>10. hdr[next] = NoRun
  BY <1>7, Zenon DEF Runs
<1>11. \A g \in live : g.run # next
  BY <1>7, Zenon DEF LargeInv, FiledAsMarked
<1>12. \A u \in Threads, d \in ClassSet : next \notin Range(local[u][d])
  BY <1>10, ListedIsRun, Zenon
<1>13. \A d \in ClassSet : next \notin public[d]
  BY <1>10, ListedIsRun, Zenon
<1>14. \A u \in Threads, d \in ClassSet : IsInjective(local[u][d])
  BY Zenon DEF LargeInv, PlaceInv
<1>15. local' = local /\ public' = public /\ small' = small
  BY Zenon
<1>16. FiledAsMarked' /\ PlaceInv'
  BY <1>2, <1>7, <1>9, <1>11, <1>12, <1>13, <1>14, <1>15, FinishMoves
<1>17. CarvedIsAccountedFor'
  <2>0. PICK b : b = next
    BY Zenon
  <2>1. Runs' = Runs \cup {b}
    BY <1>7, <1>8, <1>9, <2>0, LargeAssumption DEF Runs, LargeInv, FiledAsMarked, TypeOK
  <2>2. /\ hdr'[b] = InUse(h) /\ hdr'[b].class = c
        /\ \A r \in Runs : hdr'[r] = hdr[r]
    BY <1>7, <1>8, <2>0 DEF Runs, LargeInv, FiledAsMarked, TypeOK
  <2>3. SpansOf(b)' = b .. b + n - 1
    BY <2>2, Zenon DEF SpansOf, n
  <2>4. \A r \in Runs : SpansOf(r)' = SpansOf(r)
    BY <2>2, Zenon DEF SpansOf
  <2>5. \A r \in Runs' : r + run_class_spans(hdr'[r].class) <= Count
    BY <1>4, <2>0, <2>1, <2>2 DEF n, LargeInv, CarvedIsAccountedFor
  <2>6. ASSUME NEW r \in Runs', NEW q \in Runs', r # q
        PROVE  SpansOf(r)' \cap SpansOf(q)' = {}
    <3>0. \A p \in Runs : SpansOf(b)' \cap SpansOf(p)' = {}
      BY <1>7, <2>0, <2>3, <2>4
    <3>1. CASE r = b
      <4>1. q \in Runs
        BY <2>1, <2>6, <3>1, Zenon
      <4> QED BY <3>0, <3>1, <4>1, Zenon
    <3>2. CASE q = b
      <4>1. r \in Runs
        BY <2>1, <2>6, <3>2, Zenon
      <4> QED BY <3>0, <3>2, <4>1, Zenon
    <3>3. CASE r # b /\ q # b
      BY <2>1, <2>4, <2>6, <3>3 DEF LargeInv, CarvedIsAccountedFor
    <3> QED BY <3>1, <3>2, <3>3, Zenon
  <2>7. \A r \in Runs' : small' \cap SpansOf(r)' = {}
    BY <1>7, <1>15, <2>0, <2>1, <2>3, <2>4, Zenon DEF LargeInv, CarvedIsAccountedFor
  <2>8. ASSUME NEW s \in Pool!Indices
        PROVE  handed'[s] = IF s \in small' \/ \E r \in Runs' : s \in SpansOf(r)' THEN 1 ELSE 0
    <3>1. CASE s \in b .. b + n - 1
      <4>1. handed'[s] = 1
        BY <1>5, <1>7, <2>0, <3>1
      <4> QED BY <2>1, <2>3, <3>1, <4>1, Zenon
    <3>2. CASE s \notin b .. b + n - 1
      <4>1. handed'[s] = handed[s]
        BY <1>5, <2>0, <3>2, Zenon
      <4>2. (\E r \in Runs' : s \in SpansOf(r)') <=> \E r \in Runs : s \in SpansOf(r)
        BY <2>1, <2>3, <2>4, <3>2, Zenon
      <4> QED BY <1>15, <4>1, <4>2, Zenon DEF LargeInv, CarvedIsAccountedFor
    <3> QED BY <3>1, <3>2, Zenon
  <2> QED BY <2>5, <2>6, <2>7, <2>8 DEF CarvedIsAccountedFor, Pool!Indices
<1> QED BY <1>6, <1>8, <1>16, <1>17, Zenon DEF LargeInv, CallKept

(* A carve that is larger than the region goes on to the next class, one   *)
(* that does not fit to its rollback.                                      *)
LEMMA CarveKeeps ==
  ASSUME LargeInv, NEW t \in Threads, PoolKeeps(t), Carve(t)
  PROVE  LargeInv'
<1> DEFINE n == run_class_spans(class[t])
<1>1. pc[t] # "idle" /\ UNCHANGED <<small, local, public>> /\ class[t] \in ClassSet /\ n \in Nat \ {0}
  BY CallFacts, ClassNumbers, Zenon DEF Carve
<1>2. CASE n > Count
  <2>1. NextClass(t) /\ UNCHANGED <<pool, hdr, live>>
    BY <1>2, Zenon DEF Carve, CarveSize
  <2>2. CallKept
    BY <1>1, <2>1, NextClassKeeps, Zenon
  <2>3. FiledAsMarked' /\ PlaceInv' /\ CarvedIsAccountedFor'
    BY <1>1, <2>1, <2>2, NothingMoves, Zenon DEF pool
  <2>4. Pool!PoolInv'
    BY <2>1, PoolUnchanged DEF LargeInv
  <2> QED BY <2>2, <2>3, <2>4, Zenon DEF LargeInv, CallKept
<1>3. CASE ~(n > Count) /\ Pool!DoesNotFit(next, n)
  <2>1. Pool!AcquireRawRun(t, n)
    BY <1>3, Zenon DEF Carve, CarveSize
  <2>2. pending' = [pending EXCEPT ![t] = [at |-> next, len |-> n]] /\ handed' = handed
    BY <1>3, <2>1, Zenon DEF Pool!AcquireRawRun
  <2>3. pending'[t].len = n
    BY <2>2, Zenon DEF LargeInv, Pool!PoolInv, Pool!TypeOK
  <2>4. pc' = [pc EXCEPT ![t] = "rollback"] /\ UNCHANGED <<hdr, live, want, class>>
    BY <1>1, <1>3, <2>3, Zenon DEF Carve, CarveSize, Goto
  <2>5. CallKept
    <3>1. want' = [want EXCEPT ![t] = want[t]] /\ class' = [class EXCEPT ![t] = class[t]]
      BY <2>4, CallFacts, Zenon
    <3>2. /\ want[t] \in Requests /\ Path(want[t]) = "large" /\ run_class_for_layout(want[t]) # None
          /\ class[t] >= run_class_for_layout(want[t])
      BY <1>1, CallFacts, Zenon
    <3> QED BY <1>1, <2>4, <3>1, <3>2, CallGoesOn, Zenon
  <2>6. FiledAsMarked' /\ PlaceInv' /\ CarvedIsAccountedFor'
    BY <1>1, <2>2, <2>4, <2>5, NothingMoves, Zenon
  <2>7. Pool!PoolInv'
    BY <1>1, <2>1, Zenon DEF PoolKeeps
  <2> QED BY <2>5, <2>6, <2>7 DEF LargeInv, CallKept
<1>4. CASE ~(n > Count) /\ ~Pool!DoesNotFit(next, n)
  <2>1. Pool!AcquireRawRun(t, n)
    BY <1>4, Zenon DEF Carve, CarveSize
  <2>2. pending' = pending /\ pending[t].len = 0
    BY <1>4, <2>1, Zenon DEF Pool!AcquireRawRun, Pool!Pending
  <2>3. Finish(t, next, [class |-> class[t], owner |-> t, state |-> "allocated"])
    BY <1>4, <2>2, Zenon DEF Carve, CarveSize
  <2> QED BY <1>1, <1>4, <2>1, <2>3, CarveFits, Zenon
<1> QED BY <1>2, <1>3, <1>4, Zenon

(* The header h with owner o and state s.                                  *)
Relabel(h, o, s) == [h EXCEPT !.owner = o, !.state = s]

(* A header that is relabelled keeps its class and nothing else.           *)
LEMMA Relabelled ==
  ASSUME NEW x \in Headers, NEW o \in Threads \cup {PUBLIC}, NEW s \in {"allocated", "freeLocal", "freePublic"}
  PROVE  Relabel(x, o, s) \in Headers /\ Relabel(x, o, s) = [class |-> x.class, owner |-> o, state |-> s]
<1> DEFINE y == [x EXCEPT !.owner = o]
           z == [class |-> x.class, owner |-> o, state |-> s]
<1>1. y \in Headers /\ y.owner = o /\ y.class = x.class
  BY Zenon DEF Headers
<1>2. Relabel(x, o, s) = [y EXCEPT !.state = s]
  BY Zenon DEF Relabel
<1> HIDE DEF y
<1>3. [y EXCEPT !.state = s] \in Headers
  BY <1>1, Zenon DEF Headers
<1>4. [y EXCEPT !.state = s] = z
  BY <1>1 DEF Headers
<1> QED BY <1>2, <1>3, <1>4, Zenon

(* A free moves the run from the user to the list its header names.        *)
LEMMA DeallocLargeKeeps ==
  ASSUME LargeInv, NEW t \in Threads, NEW h \in live, DeallocLarge(t, h)
  PROVE  LargeInv'
<1> DEFINE r == h.run
           c == h.class
           q == local[t][c]
<1>1. live' = live \ {h} /\ UNCHANGED <<pool, small, pc, want, class>>
  BY Zenon DEF DeallocLarge
<1>2. /\ r \in Runs /\ r \in 0 .. Count - 1 /\ c \in ClassSet
      /\ hdr[r] \in Headers /\ hdr[r].class = c /\ hdr[r].state = "allocated"
  BY Zenon DEF LargeInv, FiledAsMarked, TypeOK, Runs
<1>3. /\ q \in Seq(0 .. Count - 1) /\ IsInjective(q)
      /\ local \in [Threads -> [ClassSet -> Seq(0 .. Count - 1)]]
      /\ public \in [ClassSet -> SUBSET (0 .. Count - 1)]
  BY <1>2, ListTypes, Zenon
<1>4. \A u \in Threads, d \in ClassSet : r \notin Range(local[u][d])
  BY <1>2, HeaderTells, Zenon
<1>5. \A d \in ClassSet : r \notin public[d]
  BY <1>2, HeaderTells, Zenon
<1>6. \A g \in live' : g \in live /\ g.run # r
  BY <1>1, Zenon DEF LargeInv, PlaceInv
<1>7. \A g : g.run # r => (g \in live' <=> g \in live)
  BY <1>1, Zenon
<1>8. CallTypes' /\ live' \subseteq live
  BY <1>1, Zenon DEF LargeInv, FiledAsMarked, TypeOK, CallTypes
<1>9. RequestInv' /\ ServedUpwards'
  BY <1>1, Zenon DEF LargeInv, RequestInv, ServedUpwards
<1>10. Pool!PoolInv'
  BY <1>1, PoolUnchanged, Zenon DEF LargeInv
<1>11. \A u \in Threads, d \in ClassSet : IsInjective(local[u][d])
  BY Zenon DEF LargeInv, PlaceInv
<1>12. \A x \in Headers : [hdr EXCEPT ![r] = x] \in [0 .. Count - 1 -> Headers \cup {NoRun}]
  BY <1>2, Zenon DEF LargeInv, FiledAsMarked, TypeOK
<1>13. CASE Len(q) >= K
  <2> DEFINE x == Relabel(hdr[r], PUBLIC, "freePublic")
  <2>1. /\ hdr' = [hdr EXCEPT ![r] = x] /\ local' = local
        /\ public' = [public EXCEPT ![c] = public[c] \cup {r}]
    BY <1>13, Zenon DEF DeallocLarge, Relabel
  <2>2. x \in Headers /\ x = [class |-> c, owner |-> PUBLIC, state |-> "freePublic"]
    <3> HIDE DEF r
    <3> QED BY <1>2, Relabelled, Zenon
  <2> HIDE DEF x
  <2>3. x.class = c /\ x.state = "freePublic"
    BY <2>2, Zenon
  <2>4. public' \in [ClassSet -> SUBSET (0 .. Count - 1)]
    BY <1>2, <1>3, <2>1, Zenon
  <2>5. TypeOK'
    BY <1>1, <1>8, <1>12, <2>1, <2>2, <2>4 DEF LargeInv, FiledAsMarked, TypeOK, CallTypes
  <2>6. \A d \in ClassSet : \A y : y # r => (y \in public'[d] <=> y \in public[d])
    BY <1>2, <1>3, <2>1, Zenon
  <2>7. r \in public'[c] /\ \A d \in ClassSet : r \in public'[d] => d = c
    BY <1>2, <1>3, <1>5, <2>1, Zenon
  <2>8. Moved(r, x)
    BY <1>4, <1>6, <1>7, <1>11, <2>1, <2>2, <2>3, <2>6, <2>7 DEF Moved
  <2>9. FiledAsMarked' /\ PlaceInv'
    BY <1>2, <2>2, <2>5, <2>8, MovedIsFiled DEF LargeInv
  <2>10. CarvedIsAccountedFor'
    BY <1>1, <1>2, <2>1, <2>2, <2>3, MovedKeepsSpans, Zenon DEF LargeInv, FiledAsMarked
  <2> QED BY <1>9, <1>10, <2>9, <2>10, Zenon DEF LargeInv
<1>14. CASE ~(Len(q) >= K)
  <2> DEFINE x == Relabel(hdr[r], t, "freeLocal")
             p == <<r>> \o q
  <2>1. /\ hdr' = [hdr EXCEPT ![r] = x] /\ public' = public
        /\ local' = [local EXCEPT ![t] = [local[t] EXCEPT ![c] = p]]
    BY <1>14, Zenon DEF DeallocLarge, Relabel
  <2>2. x \in Headers /\ x = [class |-> c, owner |-> t, state |-> "freeLocal"]
    <3> HIDE DEF r
    <3> QED BY <1>2, Relabelled, Zenon
  <2> HIDE DEF x
  <2>3. x.class = c /\ x.state = "freeLocal" /\ x.owner = t
    BY <2>2, Zenon
  <2>4. /\ p \in Seq(0 .. Count - 1) /\ IsInjective(p) /\ r \in Range(p)
        /\ \A y : y # r => (y \in Range(p) <=> y \in Range(q))
    <3>1. r \notin Range(q)
      BY <1>2, <1>4, Zenon
    <3> HIDE DEF r, q
    <3>2. q \in Seq(0 .. Count - 1) /\ IsInjective(q) /\ r \in 0 .. Count - 1
      BY <1>2, <1>3, Zenon
    <3> QED BY <3>1, <3>2, PushedOnto, Zenon
  <2> HIDE DEF p
  <2>5. [local[t] EXCEPT ![c] = p] \in [ClassSet -> Seq(0 .. Count - 1)]
    BY <1>2, <1>3, <2>4, Zenon
  <2>6. /\ local'[t][c] = p
        /\ \A u \in Threads, d \in ClassSet : u # t \/ d # c => local'[u][d] = local[u][d]
        /\ local' \in [Threads -> [ClassSet -> Seq(0 .. Count - 1)]]
    BY <1>2, <1>3, <2>1, <2>5, Zenon
  <2>7. TypeOK'
    BY <1>1, <1>8, <1>12, <2>1, <2>2, <2>6 DEF LargeInv, FiledAsMarked, TypeOK, CallTypes
  <2>8. \A u \in Threads, d \in ClassSet : IsInjective(local'[u][d])
    BY <1>11, <2>4, <2>6, Zenon
  <2>9. \A u \in Threads, d \in ClassSet : \A y : y # r => (y \in Range(local'[u][d]) <=> y \in Range(local[u][d]))
    BY <2>4, <2>6, Zenon
  <2>10. r \in Range(local'[t][c]) /\ \A u \in Threads, d \in ClassSet : r \in Range(local'[u][d]) => u = t /\ d = c
    BY <1>4, <2>4, <2>6, Zenon
  <2>11. Moved(r, x)
    BY <1>5, <1>6, <1>7, <2>1, <2>2, <2>3, <2>8, <2>9, <2>10 DEF Moved
  <2>12. FiledAsMarked' /\ PlaceInv'
    BY <1>2, <2>2, <2>7, <2>11, MovedIsFiled, Zenon DEF LargeInv
  <2>13. CarvedIsAccountedFor'
    BY <1>1, <1>2, <2>1, <2>2, <2>3, MovedKeepsSpans, Zenon DEF LargeInv, FiledAsMarked
  <2> QED BY <1>9, <1>10, <2>12, <2>13 DEF LargeInv
<1> QED BY <1>13, <1>14, Zenon

(* The small path is handed a span that belongs to nothing yet.            *)
LEMMA CarveSpanKeeps ==
  ASSUME LargeInv, NEW t \in Threads, PoolKeeps(t), CarveSpan(t)
  PROVE  LargeInv'
<1>1. /\ Pool!AcquireRawSpan(t) /\ UNCHANGED <<hdr, local, public, live, pc, want, class>>
      /\ small' = IF next < Count THEN small \cup {next} ELSE small
  BY Zenon DEF CarveSpan
<1>2. next \in Nat /\ Count \in Nat /\ handed \in [Pool!Indices -> Nat] /\ next < MaxNext /\ MaxNext \in Nat
  BY <1>1, CountNat, LargeAssumption, Zenon DEF LargeInv, Pool!PoolInv, Pool!TypeOK, Pool!AcquireRawSpan
<1>3. Pool!PoolInv'
  BY <1>1, Zenon DEF PoolKeeps
<1>4. CallTypes' /\ RequestInv' /\ ServedUpwards'
  BY <1>1, Zenon DEF LargeInv, FiledAsMarked, TypeOK, CallTypes, RequestInv, ServedUpwards
<1>5. CASE ~(next < Count)
  <2>1. small' = small /\ handed' = handed
    BY <1>1, <1>2, <1>5 DEF Pool!AcquireRawSpan
  <2>2. FiledAsMarked' /\ PlaceInv' /\ CarvedIsAccountedFor'
    BY <1>1, <1>4, <2>1, NothingMoves, Zenon DEF CallKept
  <2> QED BY <1>3, <1>4, <2>2, Zenon DEF LargeInv
<1>6. CASE next < Count
  <2>1. /\ small' = small \cup {next}
        /\ handed' = [s \in Pool!Indices |-> IF s \in next .. next + 1 - 1 THEN handed[s] + 1 ELSE handed[s]]
    BY <1>1, <1>2, <1>6 DEF Pool!AcquireRawSpan, Pool!HandOut
  <2>2. next + 1 <= Count /\ next + 1 <= MaxNext /\ next \in next .. next + 1 - 1
    BY <1>2, <1>6
  <2>3. /\ next \in 0 .. Count - 1 /\ next \in Pool!Indices /\ handed[next] = 0 /\ next \notin small
        /\ \A r \in Runs : next \notin SpansOf(r)
    BY <2>2, FreshSpans
  <2>4. /\ handed'[next] = 1
        /\ \A s \in Pool!Indices : s # next => handed'[s] = handed[s]
    BY <1>2, <2>1, <2>3 DEF Pool!Indices
  <2>5. Runs' = Runs /\ \A r : SpansOf(r)' = SpansOf(r)
    BY <1>1, Zenon DEF Runs, SpansOf
  <2>6. TypeOK'
    BY <1>1, <1>4, <2>1, <2>3 DEF LargeInv, FiledAsMarked, TypeOK, CallTypes
  <2>7. FiledAsMarked'
    BY <1>1, <2>5, <2>6, Zenon DEF LargeInv, FiledAsMarked
  <2>8. PlaceInv'
    BY <1>1, <2>5, Zenon DEF LargeInv, PlaceInv
  <2>9. \A r \in Runs : small' \cap SpansOf(r) = {}
    BY <2>1, <2>3 DEF LargeInv, CarvedIsAccountedFor
  <2>10. \A s \in Pool!Indices :
           handed'[s] = IF s \in small' \/ \E r \in Runs : s \in SpansOf(r) THEN 1 ELSE 0
    BY <2>1, <2>3, <2>4, Zenon DEF LargeInv, CarvedIsAccountedFor
  <2>11. CarvedIsAccountedFor'
    BY <1>1, <2>5, <2>9, <2>10, Zenon DEF LargeInv, CarvedIsAccountedFor, Pool!Indices
  <2> QED BY <1>3, <1>4, <2>7, <2>8, <2>11, Zenon DEF LargeInv
<1> QED BY <1>5, <1>6, Zenon

(* The steps of a call that find nothing, and its start.                   *)
LEMMA SearchKeeps ==
  ASSUME LargeInv, NEW t \in Threads, PoolKeeps(t),
         \/ \E l \in Requests : AllocLarge(t, l)
         \/ MissLocal(t) \/ MissPublic(t) \/ Rollback(t)
  PROVE  LargeInv'
<1>1. UNCHANGED <<small, hdr, local, public, live, handed>>
  BY Zenon DEF AllocLarge, MissLocal, MissPublic, Rollback, Pool!Rollback, pool
<1>2. Pool!PoolInv'
  <2>1. CASE Rollback(t)
    BY <2>1, Zenon DEF Rollback, PoolKeeps
  <2>2. CASE ~Rollback(t)
    <3>1. UNCHANGED pool
      BY <2>2, Zenon DEF AllocLarge, MissLocal, MissPublic
    <3> QED BY <3>1, PoolUnchanged, Zenon DEF LargeInv
  <2> QED BY <2>1, <2>2, Zenon
<1>3. ASSUME NEW l \in Requests, AllocLarge(t, l) PROVE CallKept
  <2> DEFINE d == run_class_for_layout(l)
  <2>1. /\ Path(l) = "large" /\ d # None
        /\ want' = [want EXCEPT ![t] = l] /\ class' = [class EXCEPT ![t] = d]
        /\ pc' = [pc EXCEPT ![t] = "local"]
    BY <1>3, Zenon DEF AllocLarge, Goto
  <2>2. d \in ClassSet
    BY <2>1, LargeAssumption, LargeClassHolds, Zenon DEF ClassSet
  <2>3. d >= d
    BY <2>2, ClassNumbers
  <2> HIDE DEF d
  <2>4. d = run_class_for_layout(l)
    BY Zenon DEF d
  <2> QED BY <1>1, <2>1, <2>2, <2>3, <2>4, CallGoesOn, Zenon
<1>4. ASSUME pc[t] # "idle", NEW m \in {"public", "carve"}, pc' = [pc EXCEPT ![t] = m], UNCHANGED <<want, class>>
      PROVE  CallKept
  <2>1. want' = [want EXCEPT ![t] = want[t]] /\ class' = [class EXCEPT ![t] = class[t]]
    BY <1>4, CallFacts, Zenon
  <2>2. /\ want[t] \in Requests /\ Path(want[t]) = "large" /\ run_class_for_layout(want[t]) # None
        /\ class[t] \in ClassSet /\ class[t] >= run_class_for_layout(want[t])
    BY <1>4, CallFacts, Zenon
  <2> QED BY <1>1, <1>4, <2>1, <2>2, CallGoesOn, Zenon
<1>5. ASSUME MissLocal(t) PROVE CallKept
  BY <1>4, <1>5, Zenon DEF MissLocal, Goto
<1>6. ASSUME MissPublic(t) PROVE CallKept
  <2>1. CASE class[t] = run_class_for_layout(want[t])
    BY <1>4, <1>6, <2>1, Zenon DEF MissPublic, Goto
  <2>2. CASE class[t] # run_class_for_layout(want[t])
    <3>1. pc[t] # "idle" /\ NextClass(t)
      BY <1>6, <2>2, Zenon DEF MissPublic
    <3> QED BY <1>1, <3>1, NextClassKeeps, Zenon
  <2> QED BY <2>1, <2>2, Zenon
<1>7. ASSUME Rollback(t) PROVE CallKept
  <2>1. pc[t] # "idle" /\ NextClass(t)
    BY <1>7, Zenon DEF Rollback
  <2> QED BY <1>1, <2>1, NextClassKeeps
<1>8. CallKept
  BY <1>3, <1>5, <1>6, <1>7, Zenon
<1>9. FiledAsMarked' /\ PlaceInv' /\ CarvedIsAccountedFor'
  BY <1>1, <1>8, NothingMoves, Zenon
<1> QED BY <1>2, <1>8, <1>9, Zenon DEF LargeInv, CallKept

PoolProofs == INSTANCE SpanPoolProofs WITH RunSizes <- {run_class_spans(c) : c \in ClassSet}

(* The pool of the large path satisfies the assumptions of SpanPool, ...   *)
LEMMA PoolConstants == PoolProofs!PoolAssumption
  BY ClassNumbers, CountNat, LargeAssumption, Zenon DEF PoolProofs!PoolAssumption

(* ... so what is proved of the pool there holds here.                     *)
LEMMA SamePool ==
  /\ Pool!Init <=> PoolProofs!Init
  /\ Pool!PoolInv <=> PoolProofs!PoolInv
  /\ Pool!PoolInv' <=> PoolProofs!PoolInv'
<1>1. Pool!Init <=> PoolProofs!Init
  BY Zenon DEF Pool!Init, PoolProofs!Init, Pool!Indices, PoolProofs!Indices, Pool!NoCarve, PoolProofs!NoCarve
<1>2. /\ Pool!PoolInv <=> PoolProofs!PoolInv
      /\ Pool!PoolInv' <=> PoolProofs!PoolInv'
  BY Zenon DEF Pool!PoolInv, PoolProofs!PoolInv, Pool!TypeOK, PoolProofs!TypeOK,
     Pool!Indices, PoolProofs!Indices, Pool!HandedOutOnce, PoolProofs!HandedOutOnce,
     Pool!HandedUpTo, PoolProofs!HandedUpTo, Pool!WasteBounded, PoolProofs!WasteBounded,
     Pool!Outstanding, PoolProofs!Outstanding, Pool!Pending, PoolProofs!Pending
<1> QED BY <1>1, <1>2, Zenon

(* The pool's actions keep its inductive invariant.                        *)
LEMMA PoolSteps ==
  ASSUME Pool!PoolInv, NEW t \in Threads
  PROVE  PoolKeeps(t)
<1>1. Pool!AcquireRawSpan(t) => PoolProofs!AcquireRawSpan(t)
  BY Zenon DEF Pool!AcquireRawSpan, PoolProofs!AcquireRawSpan, Pool!Pending, PoolProofs!Pending,
     Pool!HandOut, PoolProofs!HandOut, Pool!Indices, PoolProofs!Indices
<1>2. ASSUME NEW c \in ClassSet
      PROVE  Pool!AcquireRawRun(t, run_class_spans(c)) => PoolProofs!AcquireRawRun(t, run_class_spans(c))
  BY Zenon DEF Pool!AcquireRawRun, PoolProofs!AcquireRawRun, Pool!Pending, PoolProofs!Pending,
     Pool!HandOut, PoolProofs!HandOut, Pool!Indices, PoolProofs!Indices,
     Pool!DoesNotFit, PoolProofs!DoesNotFit
<1>3. Pool!Rollback(t) => PoolProofs!Rollback(t)
  BY Zenon DEF Pool!Rollback, PoolProofs!Rollback, Pool!Pending, PoolProofs!Pending,
     Pool!NoCarve, PoolProofs!NoCarve
<1>4. Pool!AcquireRawSpan(t) => Pool!PoolInv'
  BY <1>1, SamePool, PoolConstants, PoolProofs!AcquireRawSpanPoolInv
<1>5. ASSUME NEW c \in ClassSet, Pool!AcquireRawRun(t, run_class_spans(c))
      PROVE  Pool!PoolInv'
  BY <1>2, <1>5, SamePool, PoolConstants, PoolProofs!AcquireRawRunPoolInv
<1>6. Pool!Rollback(t) => Pool!PoolInv'
  BY <1>3, SamePool, PoolConstants, PoolProofs!RollbackPoolInv
<1> QED BY <1>4, <1>5, <1>6, Zenon DEF PoolKeeps

(* At first nothing is carved and every list is empty.                     *)
LEMMA InitLargeInv == Init => LargeInv
<1> SUFFICES ASSUME Init PROVE LargeInv
  BY Zenon
<1>1. Pool!PoolInv
  BY SamePool, PoolConstants, PoolProofs!InitPoolInv, Zenon DEF Init
<1>2. TypeOK
  BY ClassNumbers DEF Init, TypeOK
<1>3. Runs = {} /\ live = {} /\ small = {}
  BY Zenon DEF Init, Runs
<1>4. /\ \A t \in Threads, c \in ClassSet : local[t][c] = <<>>
      /\ \A c \in ClassSet : public[c] = {}
      /\ \A t \in Threads : pc[t] = "idle"
  BY Zenon DEF Init
<1>5. \A x : x \notin Range(<<>>)
  BY DEF Range
<1>6. FiledAsMarked
  BY <1>2, <1>3, <1>4, <1>5 DEF FiledAsMarked
<1>7. PlaceInv
  BY <1>3, <1>4 DEF PlaceInv, IsInjective
<1>8. RequestInv /\ ServedUpwards
  BY <1>3, <1>4, Zenon DEF RequestInv, ServedUpwards
<1>9. \A s \in Pool!Indices : handed[s] = 0
  BY Zenon DEF Init, Pool!Init
<1>10. CarvedIsAccountedFor
  BY <1>3, <1>9, Zenon DEF CarvedIsAccountedFor
<1> QED BY <1>1, <1>6, <1>7, <1>8, <1>10 DEF LargeInv

-----------------------------------------------------------------------------
(* LargeInv is an inductive invariant of the large path.                   *)
THEOREM LargeInvariant == Spec => []LargeInv
<1>1. ASSUME LargeInv, Next
      PROVE  LargeInv'
  <2>1. \A t \in Threads : PoolKeeps(t)
    BY <1>1, PoolSteps, Zenon DEF LargeInv
  <2> QED BY <1>1, <2>1, SearchKeeps, PopLocalKeeps, AcquireRunKeeps, CarveKeeps, DeallocLargeKeeps, CarveSpanKeeps, Zenon
     DEF Next
<1>2. ASSUME LargeInv, UNCHANGED vars
      PROVE  LargeInv'
  <2>1. CallKept
    BY <1>2 DEF vars, LargeInv, FiledAsMarked, TypeOK, CallKept, CallTypes, RequestInv, ServedUpwards
  <2>2. UNCHANGED pool /\ UNCHANGED <<small, hdr, local, public, live, handed>>
    BY <1>2, Zenon DEF vars, pool
  <2>3. FiledAsMarked' /\ PlaceInv' /\ CarvedIsAccountedFor'
    BY <1>2, <2>1, <2>2, NothingMoves
  <2>4. Pool!PoolInv'
    BY <1>2, <2>2, PoolUnchanged, Zenon DEF LargeInv
  <2> QED BY <2>1, <2>3, <2>4 DEF LargeInv, CallKept
<1>3. LargeInv /\ [Next]_vars => LargeInv'
  BY <1>1, <1>2, Zenon
<1> QED BY <1>3, InitLargeInv, PTL DEF Spec

(* Every free run is under its own class in the list that its header       *)
(* names, and every run in use has the class its free will read.           *)
THEOREM LargeFiledAsMarked == Spec => []FiledAsMarked
<1>1. LargeInv => FiledAsMarked
  BY Zenon DEF LargeInv
<1> QED BY <1>1, LargeInvariant, PTL

(* No carved span is lost and none is in two runs.                         *)
THEOREM LargeSpansAccounted == Spec => []CarvedIsAccountedFor
<1>1. LargeInv => CarvedIsAccountedFor
  BY Zenon DEF LargeInv
<1> QED BY <1>1, LargeInvariant, PTL

(* Every run is with one user, in one local list or in one public list.    *)
THEOREM LargeRunsPlacedOnce == Spec => []RunInOnePlace
<1>1. ASSUME LargeInv PROVE RunInOnePlace
  <2>1. \A t \in Threads, c \in ClassSet : IsInjective(local[t][c])
    BY <1>1, Zenon DEF LargeInv, PlaceInv
  <2>2. ASSUME NEW r \in Runs PROVE \E p \in Places(r) : Places(r) = {p}
    <3> DEFINE users == {g \in live : g.run = r}
               lists == {q \in Threads \X ClassSet : r \in Range(local[q[1]][q[2]])}
               publics == {d \in ClassSet : r \in public[d]}
               o == hdr[r].owner
               c == hdr[r].class
    <3>1. hdr[r] \in Headers /\ c \in ClassSet /\ hdr[r].state \in {"allocated", "freeLocal", "freePublic"}
      BY <1>1, Zenon DEF LargeInv, FiledAsMarked, TypeOK, Runs, Headers
    <3>2. /\ \A g \in users : hdr[r].state = "allocated"
          /\ \A q \in lists : hdr[r].state = "freeLocal" /\ q[1] = o /\ q[2] = c
          /\ \A d \in publics : hdr[r].state = "freePublic" /\ d = c
      <4>1. \A g \in users : hdr[r].state = "allocated"
        BY <1>1, HeaderTells
      <4>2. ASSUME NEW q \in lists PROVE hdr[r].state = "freeLocal" /\ q[1] = o /\ q[2] = c
        <5>1. q[1] \in Threads /\ q[2] \in ClassSet /\ r \in Range(local[q[1]][q[2]])
          BY Zenon
        <5> QED BY <1>1, <5>1, HeaderTells
      <4>3. \A d \in publics : hdr[r].state = "freePublic" /\ d = c
        BY <1>1, HeaderTells, Zenon
      <4> QED BY <4>1, <4>2, <4>3, Zenon
    <3>3. Places(r) = {<<"user", g>> : g \in users} \cup {<<"list", q>> : q \in lists}
                        \cup {<<"public", d>> : d \in publics}
      BY Zenon DEF Places
    <3>4. CASE hdr[r].state = "allocated"
      <4>1. PICK g \in users : users = {g}
        <5>1. PlaceInv
          BY <1>1, Zenon DEF LargeInv
        <5>2. PICK g \in live : g.run = r
          BY <3>4, <5>1, Zenon DEF PlaceInv
        <5>3. \A f \in users : f = g
          BY <5>1, <5>2, Zenon DEF PlaceInv
        <5> QED BY <5>2, <5>3, Zenon
      <4>2. lists = {} /\ publics = {}
        BY <3>2, <3>4, Zenon
      <4> HIDE DEF users, lists, publics
      <4>3. Places(r) = {<<"user", g>>}
        BY <3>3, <4>1, <4>2, Zenon
      <4> QED BY <4>3, Zenon
    <3>5. CASE hdr[r].state = "freeLocal"
      <4>1. users = {} /\ publics = {}
        BY <3>2, <3>5, Zenon
      <4>2. lists = {<<o, c>>}
        <5>1. <<o, c>> \in lists
          BY <1>1, <3>1, <3>5, Zenon DEF LargeInv, PlaceInv
        <5>2. \A q \in lists : q = <<o, c>>
          BY <3>2
        <5> QED BY <5>1, <5>2, Zenon
      <4> HIDE DEF users, lists, publics, o, c
      <4>3. Places(r) = {<<"list", <<o, c>>>>}
        BY <3>3, <4>1, <4>2, Zenon
      <4> QED BY <4>3, Zenon
    <3>6. CASE hdr[r].state = "freePublic"
      <4>1. users = {} /\ lists = {}
        BY <3>2, <3>6, Zenon
      <4>2. publics = {c}
        <5>1. c \in publics
          BY <1>1, <3>1, <3>6 DEF LargeInv, PlaceInv
        <5> QED BY <3>2, <5>1, Zenon
      <4> HIDE DEF users, lists, publics, o, c
      <4>3. Places(r) = {<<"public", c>>}
        BY <3>3, <4>1, <4>2, Zenon
      <4> QED BY <4>3, Zenon
    <3> HIDE DEF users, lists, publics, o, c
    <3> QED BY <3>1, <3>4, <3>5, <3>6, Zenon
  <2> QED BY <2>1, <2>2, Zenon DEF RunInOnePlace
<1>2. LargeInv => RunInOnePlace
  BY <1>1
<1> QED BY <1>2, LargeInvariant, PTL

(* Every payload is aligned, it and its hidden header lie in the run that  *)
(* the header names, and its free takes the path that allocated it, for    *)
(* every geometry and every layout.                                        *)
THEOREM LargePayloadsPlaced == Spec => []PayloadsPlaced
<1>1. ASSUME LargeInv, NEW h \in live
      PROVE  /\ FreePath(h.layout) = "large"
             /\ Divides(h.layout.align, h.ptr)
             /\ h.ptr - HDR_SIZE >= span_addr(h.run) + SPAN_HEADER_RESERVE
             /\ h.ptr + h.layout.size <= span_addr(h.run) + run_class_bytes(h.class)
  <2> DEFINE l == h.layout
             k == run_class_for_layout(l)
  <2>1. /\ l \in AllLayouts /\ h.run \in 0 .. Count - 1 /\ h.class \in ClassSet
        /\ h.ptr = large_payload(span_addr(h.run), l) /\ k # None /\ h.class >= k
        /\ Path(l) = "large"
    BY <1>1, LargeAssumption DEF LargeInv, FiledAsMarked, TypeOK, RequestInv, ServedUpwards
  <2>2. k \in 0 .. MAX_LARGE_RUN_CLASSES - 1 /\ \A c \in k .. MAX_LARGE_RUN_CLASSES - 1 : run_class_bytes(c) >= Needed(l)
    BY <2>1, LargeClassHolds, Zenon
  <2> HIDE DEF k
  <2>3. h.class \in k .. MAX_LARGE_RUN_CLASSES - 1
    BY <2>1, <2>2, Geometry DEF ClassSet
  <2>4. LargePlaced(l)
    BY <2>1, LargeIsPlaced, Zenon
  <2>5. h.class \in 0 .. MAX_LARGE_RUN_CLASSES - 1 /\ run_class_bytes(h.class) >= Needed(l)
    BY <2>1, <2>2, <2>3, Zenon DEF ClassSet
  <2>6. FreePath(l) = "large"
    BY <2>1, SamePath, Zenon
  <2> QED BY <2>1, <2>4, <2>5, <2>6, Zenon DEF LargePlaced
<1>2. LargeInv => PayloadsPlaced
  BY <1>1, PlacementIsSound, SamePath, Zenon DEF PayloadsPlaced, DispatchAgrees
<1> QED BY <1>2, LargeInvariant, PTL
=============================================================================
