----------------------------- MODULE SpanQueue ------------------------------
(***************************************************************************)
(* What the public span-lists promise: one queue per thread, appended to   *)
(* by that thread only, popped by everybody, and each span in one queue or *)
(* in one thread's hands.                                                  *)
(***************************************************************************)
EXTENDS Sequences

CONSTANTS Threads, Spans

VARIABLES
  queue,  \* queue[t]: the spans of t's public list, oldest first
  hands   \* hands[t]: the spans t holds exclusively

vars == <<queue, hands>>

Init ==
  /\ queue = [t \in Threads |-> <<>>]
  /\ hands \in [Threads -> SUBSET Spans]
  /\ UNION {hands[t] : t \in Threads} = Spans
  /\ \A t, u \in Threads : t # u => hands[t] \cap hands[u] = {}

Publish(t, s) ==
  /\ s \in hands[t]
  /\ hands' = [hands EXCEPT ![t] = @ \ {s}]
  /\ queue' = [queue EXCEPT ![t] = Append(@, s)]

Pop(t, l) ==
  /\ queue[l] # <<>>
  /\ hands' = [hands EXCEPT ![t] = @ \cup {Head(queue[l])}]
  /\ queue' = [queue EXCEPT ![l] = Tail(@)]

Next ==
  \E t \in Threads :
    \/ \E s \in Spans : Publish(t, s)
    \/ \E l \in Threads : Pop(t, l)

Spec == Init /\ [][Next]_vars
=============================================================================
