----------------------------- MODULE LargeRuns ------------------------------
(***************************************************************************)
(* The large path of src/large.rs over the span pool: runs of 2^class      *)
(* spans, kept after a free in the freeing thread's list of the class or,  *)
(* past K of them, in its public list.  An allocation tries its own list   *)
(* and the public lists class by class, and carves a fresh run at the      *)
(* exact class only.                                                       *)
(*                                                                         *)
(* A run is named by the index of its first span; a payload lies at an     *)
(* address in bytes (Layouts), behind its hidden header.  public[c] holds  *)
(* the runs in the public lists and the run help records of class c: which *)
(* of them an acquisition gets, and that it may get none although some are *)
(* there, is the subject of HelpAcquire and SpmcSpanList.                  *)
(***************************************************************************)
EXTENDS Layouts, Sequences, FiniteSets, Functions

CONSTANTS
  Threads,
  Requests,  \* the layouts asked for
  K,         \* LARGE_LOCAL_RUN_LIMIT_K
  MaxNext,
  PUBLIC,    \* OWNER_PUBLIC
  NoRun      \* no run header at this index

ClassSet == 0 .. MAX_LARGE_RUN_CLASSES - 1

Headers == [class : ClassSet, owner : Threads \cup {PUBLIC}, state : {"allocated", "freeLocal", "freePublic"}]

ASSUME LargeAssumption ==
  /\ Requests \subseteq AllLayouts
  /\ K \in Nat \ {0} /\ MaxNext \in Nat
  /\ PUBLIC \notin Threads /\ NoRun \notin Headers

VARIABLES
  next, handed, pending,   \* the pool
  small,    \* spans carved by the small path
  hdr,      \* hdr[r]: class, owner and state in the run header at index r
  local,    \* local[t][c]: local_runs, front first
  public,
  live,     \* the user's allocations: pointer, layout, run and class in
            \* the hidden header
  pc,
  want,     \* want[t]: the layout that the allocation in progress is for
  class     \* class[t]: the class it has come to

pool == <<next, handed, pending>>
vars == <<next, handed, pending, small, hdr, local, public, live, pc, want, class>>

Pool == INSTANCE SpanPool WITH RunSizes <- {run_class_spans(c) : c \in ClassSet}

NoRequest == [size |-> 0, align |-> 1]

Goto(t, l) == pc' = [pc EXCEPT ![t] = l]

Init ==
  /\ Pool!Init
  /\ small = {}
  /\ hdr = [r \in 0 .. Count - 1 |-> NoRun]
  /\ local = [t \in Threads |-> [c \in ClassSet |-> <<>>]]
  /\ public = [c \in ClassSet |-> {}]
  /\ live = {}
  /\ pc = [t \in Threads |-> "idle"]
  /\ want = [t \in Threads |-> NoRequest]
  /\ class = [t \in Threads |-> 0]

-----------------------------------------------------------------------------
(* alloc_large_with_token_counted.  A layout without a class gets null at  *)
(* once.                                                                   *)
AllocLarge(t, l) ==
  /\ pc[t] = "idle"
  /\ Path(l) = "large"
  /\ run_class_for_layout(l) # None
  /\ want' = [want EXCEPT ![t] = l]
  /\ class' = [class EXCEPT ![t] = run_class_for_layout(l)]
  /\ Goto(t, "local")
  /\ UNCHANGED <<pool, small, hdr, local, public, live>>

(* The class written in the hidden header: that of the run.  The mutant    *)
(* writes the class that was asked for.                                    *)
RequestedClass(t) == run_class_for_layout(want[t])

HeaderClass(t) == class[t]

(* The call returns.                                                       *)
Return(t) ==
  /\ Goto(t, "idle")
  /\ want' = [want EXCEPT ![t] = NoRequest]
  /\ class' = [class EXCEPT ![t] = 0]

(* finish_large and place_large_payload for run r with header h.           *)
Finish(t, r, h) ==
  /\ hdr' = [hdr EXCEPT ![r] = [h EXCEPT !.state = "allocated"]]
  /\ live' = live \cup {[ptr |-> large_payload(span_addr(r), want[t]), layout |-> want[t],
                        run |-> r, class |-> HeaderClass(t)]}
  /\ Return(t)

(* (a) pop_front of the own list of the class.  The mutant leaves the run  *)
(* in the list.                                                            *)
Unpopped(q) == q

Popped(q) == Tail(q)

PopLocal(t) ==
  /\ pc[t] = "local"
  /\ local[t][class[t]] # <<>>
  /\ LET r == Head(local[t][class[t]]) IN Finish(t, r, hdr[r])
  /\ local' = [local EXCEPT ![t][class[t]] = Popped(@)]
  /\ UNCHANGED <<pool, small, public>>

MissLocal(t) ==
  /\ pc[t] = "local"
  /\ local[t][class[t]] = <<>>
  /\ Goto(t, "public")
  /\ UNCHANGED <<pool, small, hdr, local, public, live, want, class>>

(* (b) runlists_acquire_run, ...                                           *)
AcquireRun(t) ==
  /\ pc[t] = "public"
  /\ \E r \in public[class[t]] :
       /\ public' = [public EXCEPT ![class[t]] = @ \ {r}]
       /\ Finish(t, r, [hdr[r] EXCEPT !.owner = t])
  /\ UNCHANGED <<pool, small, local>>

(* The next class, or null after the last.                                 *)
More(c) == c + 1 < MAX_LARGE_RUN_CLASSES

NextClass(t) ==
  IF More(class[t]) THEN class' = [class EXCEPT ![t] = @ + 1] /\ Goto(t, "local") /\ UNCHANGED want
                    ELSE Return(t)

(* ... or null from it: carve at the exact class, else go on.              *)
MissPublic(t) ==
  /\ pc[t] = "public"
  /\ IF class[t] = run_class_for_layout(want[t]) THEN Goto(t, "carve") /\ UNCHANGED <<want, class>> ELSE NextClass(t)
  /\ UNCHANGED <<pool, small, hdr, local, public, live>>

(* (c) acquire_raw_run and init_run.  The mutant miscounts the spans of    *)
(* the larger classes.                                                     *)
CarveLinear(c) == c + 1

CarveSize(c) == run_class_spans(c)

Carve(t) ==
  /\ pc[t] = "carve"
  /\ LET n == CarveSize(class[t])
     IN IF n > Count
          THEN NextClass(t) /\ UNCHANGED <<pool, hdr, live>>
          ELSE /\ Pool!AcquireRawRun(t, n)
               /\ IF pending'[t].len = 0
                    THEN Finish(t, next, [class |-> class[t], owner |-> t, state |-> "allocated"])
                    ELSE Goto(t, "rollback") /\ UNCHANGED <<hdr, live, want, class>>
  /\ UNCHANGED <<small, local, public>>

Rollback(t) ==
  /\ pc[t] = "rollback"
  /\ Pool!Rollback(t)
  /\ NextClass(t)
  /\ UNCHANGED <<small, hdr, local, public, live>>

-----------------------------------------------------------------------------
(* dealloc_large_with_token_counted, chosen by the layout: the run and its *)
(* class come from the hidden header h; the freeing thread becomes the     *)
(* owner or publishes.                                                     *)
DeallocLarge(t, h) ==
  /\ pc[t] = "idle"
  /\ FreePath(h.layout) = "large"
  /\ live' = live \ {h}
  /\ IF Len(local[t][h.class]) >= K
       THEN /\ hdr' = [hdr EXCEPT ![h.run] = [@ EXCEPT !.owner = PUBLIC, !.state = "freePublic"]]
            /\ public' = [public EXCEPT ![h.class] = @ \cup {h.run}]
            /\ UNCHANGED local
       ELSE /\ hdr' = [hdr EXCEPT ![h.run] = [@ EXCEPT !.owner = t, !.state = "freeLocal"]]
            /\ local' = [local EXCEPT ![t][h.class] = <<h.run>> \o @]
            /\ UNCHANGED public
  /\ UNCHANGED <<pool, small, pc, want, class>>

(* The small path takes a span from the same pool.                         *)
CarveSpan(t) ==
  /\ pc[t] = "idle"
  /\ Pool!AcquireRawSpan(t)
  /\ small' = IF next < Count THEN small \cup {next} ELSE small
  /\ UNCHANGED <<hdr, local, public, live, pc, want, class>>

Next ==
  \E t \in Threads :
    \/ \E l \in Requests : AllocLarge(t, l)
    \/ PopLocal(t) \/ MissLocal(t) \/ AcquireRun(t) \/ MissPublic(t) \/ Carve(t) \/ Rollback(t)
    \/ \E h \in live : DeallocLarge(t, h)
    \/ CarveSpan(t)

Spec == Init /\ [][Next]_vars

-----------------------------------------------------------------------------
TypeOK ==
  /\ hdr \in [0 .. Count - 1 -> Headers \cup {NoRun}]
  /\ local \in [Threads -> [ClassSet -> Seq(0 .. Count - 1)]]
  /\ public \in [ClassSet -> SUBSET (0 .. Count - 1)]
  /\ small \subseteq 0 .. Count - 1
  /\ live \subseteq [ptr : Nat, layout : Requests, run : 0 .. Count - 1, class : ClassSet]
  /\ pc \in [Threads -> {"idle", "local", "public", "carve", "rollback"}]
  /\ want \in [Threads -> Requests \cup {NoRequest}]
  /\ class \in [Threads -> ClassSet]

Runs == {r \in 0 .. Count - 1 : hdr[r] # NoRun}

SpansOf(r) == r .. r + run_class_spans(hdr[r].class) - 1

(* The allocations, local lists and public lists that have run r.          *)
Places(r) ==
  {<<"user", h>> : h \in {g \in live : g.run = r}}
  \cup {<<"list", p>> : p \in {q \in Threads \X ClassSet : r \in Range(local[q[1]][q[2]])}}
  \cup {<<"public", c>> : c \in {d \in ClassSet : r \in public[d]}}

(* Every run is in exactly one place, and once in a list ("appears in two  *)
(* lists", verify.rs:101, and no carved run is lost).                      *)
RunInOnePlace ==
  /\ \A t \in Threads, c \in ClassSet : IsInjective(local[t][c])
  /\ \A r \in Runs : \E p \in Places(r) : Places(r) = {p}

(* check_run of verify.rs:281, here at every moment: a free run is filed   *)
(* under its own class although it may have served a smaller request, with *)
(* the owner and the state of the list it is in, and a run in use has the  *)
(* class that its free will read from the hidden header.                   *)
FiledAsMarked ==
  /\ TypeOK
  /\ \A t \in Threads, c \in ClassSet : \A r \in Range(local[t][c]) :
       hdr[r] = [class |-> c, owner |-> t, state |-> "freeLocal"]
  /\ \A c \in ClassSet : \A r \in public[c] :
       hdr[r] = [class |-> c, owner |-> PUBLIC, state |-> "freePublic"]
  /\ \A h \in live : h.run \in Runs /\ hdr[h.run].class = h.class /\ hdr[h.run].state = "allocated"

(* The escalation (large.rs:164) serves a request from its class up.       *)
ServedUpwards ==
  /\ \A t \in Threads : pc[t] # "idle" => class[t] >= run_class_for_layout(want[t])
  /\ \A h \in live : h.class >= run_class_for_layout(h.layout)

(* The class of a layout is the one the docs define, for every layout, and *)
(* a request is served from that class up.                                 *)
ServedFromClass == ClassesMatchReference /\ ServedUpwards

(* The payload of every allocation is aligned, it and the hidden header    *)
(* that its free will read lie in the run the header names, behind the     *)
(* reserve, whichever class the escalation ended with; its free is sent to *)
(* the path that reads that header ("a pointer allocated here is always    *)
(* freed on the matching path", allocator.rs:424); and so would the        *)
(* payload of any other layout on any path be (place_large_payload).       *)
PayloadsPlaced ==
  /\ PlacementSound
  /\ DispatchAgrees
  /\ \A h \in live :
       /\ FreePath(h.layout) = "large"
       /\ Divides(h.layout.align, h.ptr)
       /\ h.ptr - HDR_SIZE >= span_addr(h.run) + SPAN_HEADER_RESERVE
       /\ h.ptr + h.layout.size <= span_addr(h.run) + run_class_bytes(h.class)

(* "So no already-carved memory is ever lost" (pagemap.rs:66) and "span    *)
(* index claimed twice" (verify.rs:37): the spans the pool has handed out  *)
(* are those of the runs and of the small path, each in exactly one.       *)
CarvedIsAccountedFor ==
  /\ \A r \in Runs : r + run_class_spans(hdr[r].class) <= Count
  /\ \A r, q \in Runs : r # q => SpansOf(r) \cap SpansOf(q) = {}
  /\ \A r \in Runs : small \cap SpansOf(r) = {}
  /\ \A s \in Pool!Indices :
       handed[s] = IF s \in small \/ \E r \in Runs : s \in SpansOf(r) THEN 1 ELSE 0

-----------------------------------------------------------------------------
(* The inductive invariant.  The header of a run tells its place, so that  *)
(* a run filed as marked is in one place only; a request that is served    *)
(* belongs to the large path and has a class, and its pointer is the       *)
(* payload of its run.                                                     *)
PlaceInv ==
  /\ \A t \in Threads, c \in ClassSet : IsInjective(local[t][c])
  /\ \A h, g \in live : h.run = g.run => h = g
  /\ \A r \in Runs :
       /\ hdr[r].state = "allocated" => \E h \in live : h.run = r
       /\ hdr[r].state = "freeLocal" => hdr[r].owner \in Threads /\ r \in Range(local[hdr[r].owner][hdr[r].class])
       /\ hdr[r].state = "freePublic" => r \in public[hdr[r].class]

RequestInv ==
  /\ \A t \in Threads : pc[t] # "idle" =>
       want[t] \in Requests /\ Path(want[t]) = "large" /\ run_class_for_layout(want[t]) # None
  /\ \A h \in live : /\ h.ptr = large_payload(span_addr(h.run), h.layout)
                     /\ Path(h.layout) = "large" /\ run_class_for_layout(h.layout) # None

LargeInv ==
  /\ Pool!PoolInv
  /\ FiledAsMarked
  /\ PlaceInv
  /\ RequestInv
  /\ ServedUpwards
  /\ CarvedIsAccountedFor
=============================================================================
