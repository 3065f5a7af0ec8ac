------------------------- MODULE HostedGlobalProofs -------------------------
(* Proofs about HostedGlobal, for every number of threads, shards, tokens  *)
(* and live blocks.                                                        *)
EXTENDS HostedGlobal, TLAPS

(* What is assumed of the constants.                                       *)
LEMMA Constants == /\ Slots \in Nat /\ Slots >= 1 /\ MaxShards \in Nat /\ 1 \in Tokens
                   /\ Nobody \notin Threads /\ NoBlock \notin Blocks
BY HostedAssumption DEF Tokens

(* A binding is the null one or names a token of a built shard.            *)
LEMMA BoundIs ==
  ASSUME TypeOK, NEW t \in Threads
  PROVE  /\ Bound(t) => /\ tls[t].shard \in 1 .. built /\ tls[t].token \in Tokens
                        /\ tls[t] = [shard |-> tls[t].shard, token |-> tls[t].token]
         /\ ~Bound(t) => tls[t].shard = 0
<1>1. tls[t] \in [shard : 1 .. built, token : Tokens] \cup {Unbound}
  BY Zenon DEF TypeOK
<1> QED BY <1>1 DEF Bound, Unbound

(* The fields of a call's record.                                          *)
LEMMA LocIs ==
  ASSUME CallInv, NEW t \in Threads
  PROVE  /\ loc[t] \in Locs /\ loc[t].shard \in 0 .. built /\ loc[t].token \in 0 .. Slots
         /\ loc[t].into \in 0 .. built /\ loc[t].old \in Blocks \cup {NoBlock} /\ pc[t] \in Pcs
BY Zenon DEF CallInv, Locs

(* NoCall is such a record, and NoCall with a shard to free into.          *)
LEMMA NoCallIs ==
  ASSUME TypeOK
  PROVE  /\ NoCall \in Locs /\ NoCall.old = NoBlock
         /\ \A s \in 0 .. built : /\ [NoCall EXCEPT !.into = s] \in Locs
                                  /\ [NoCall EXCEPT !.into = s].into = s
                                  /\ [NoCall EXCEPT !.into = s].old = NoBlock
<1>1. built \in Nat /\ Slots \in Nat
  BY Constants DEF TypeOK
<1> QED BY <1>1 DEF NoCall, Locs

(* A call that frees into a shard frees into a built one.                  *)
LEMMA IntoIs ==
  ASSUME TypeOK, CallInv, NEW t \in Threads, pc[t] \in {"lock", "service"}
  PROVE  loc[t].into \in Shards
<1>1. loc[t].into \in 0 .. built /\ loc[t].into # 0 /\ built \in 0 .. MaxShards
  BY LocIs, Zenon DEF CallInv, CallOK, TypeOK
<1> QED BY <1>1, Constants DEF Shards

-----------------------------------------------------------------------------
(* A call that a step of others leaves alone.                              *)
LEMMA OtherCalls ==
  ASSUME HostedInv, NEW u \in Threads, pc'[u] = pc[u], loc'[u] = loc[u], tls'[u] = tls[u],
         head # 0 => head' # 0,
         pc[u] = "service" => service'[loc[u].into] = service[loc[u].into],
         loc[u].old # NoBlock =>
           /\ home'[loc[u].old] = home[loc[u].old]
           /\ \A v \in Threads \ {u} : loc'[v].old # loc[u].old
  PROVE  CallOK(u)'
<1>1. CallOK(u)
  BY Zenon DEF HostedInv, CallInv
<1> QED BY <1>1, Zenon DEF CallOK, Bound, Live

(* A step of a thread that does not create a shard keeps the list.         *)
LEMMA CreationStays ==
  ASSUME HostedInv, UNCHANGED creation,
         \A u \in Threads : \/ pc'[u] = pc[u] /\ loc'[u].shard = loc[u].shard
                            \/ ~Creating(u) /\ ~Creating(u)'
  PROVE  CreationInv'
<1>1. ASSUME NEW u \in Threads
      PROVE  /\ Creating(u)' <=> Creating(u)
             /\ pc'[u] = "build" => pc[u] = "build"
             /\ pc'[u] = "link" => pc[u] = "link" /\ loc'[u].shard = loc[u].shard
  BY Zenon DEF Creating
<1> QED BY <1>1, Zenon DEF HostedInv, CreationInv, creation

(* A step that takes, gives back and moves no token keeps the tokens.      *)
LEMMA TokensStay ==
  ASSUME HostedInv, UNCHANGED <<cell, tls, moveFailed>>,
         \A u \in Threads : pc'[u] = "move" <=> pc[u] = "move"
  PROVE  TokenInv'
<1>1. \A u \in Threads : Holds(u)' <=> Holds(u)
  BY Zenon DEF Holds, Bound
<1> QED BY <1>1 DEF HostedInv, TokenInv

(* A step of t's call that concerns no token and no creation.              *)
LEMMA OwnStep ==
  ASSUME HostedInv, NEW t \in Threads, NEW l \in Pcs, NEW r \in Locs,
         pc' = [pc EXCEPT ![t] = l], loc' = [loc EXCEPT ![t] = r],
         ~Creating(t), l \notin {"build", "link"}, pc[t] = "move" <=> l = "move",
         UNCHANGED <<creation, cell, tls, moveFailed>>,
         service' \in [Shards -> Threads \cup {Nobody}],
         guard' \in [Threads -> {"none", "set", "dropped"}],
         home' \in [Blocks -> Dead .. built],
         CallOK(t)',
         \A u \in Threads \ {t} :
           /\ pc[u] = "service" => service'[loc[u].into] = service[loc[u].into]
           /\ loc[u].old # NoBlock => home'[loc[u].old] = home[loc[u].old] /\ r.old # loc[u].old
  PROVE  HostedInv'
<1>1. TypeOK /\ CallInv /\ CreationInv /\ TokenInv
  BY Zenon DEF HostedInv
<1>2. /\ pc'[t] = l /\ loc'[t] = r /\ pc' \in [Threads -> Pcs] /\ loc' \in [Threads -> Locs]
      /\ \A u \in Threads : u # t => pc'[u] = pc[u] /\ loc'[u] = loc[u]
  BY <1>1, Zenon DEF CallInv
<1>3. UNCHANGED built /\ UNCHANGED head /\ Locs' = Locs
  BY Zenon DEF creation, Locs
<1>4. \A u \in Threads : loc'[u] \in Locs
  BY <1>2, Zenon
<1>5. TypeOK'
  <2>1. \A u \in Threads : loc'[u].shard \in 0 .. built /\ loc'[u].token \in 0 .. Slots /\ loc'[u].into \in 0 .. built
    BY <1>4, Zenon DEF Locs
  <2> QED BY <1>1, <2>1, Zenon DEF TypeOK, creation
<1>6. ASSUME NEW u \in Threads, u # t PROVE CallOK(u)'
  <2>1. \A v \in Threads \ {u} : loc[u].old # NoBlock => loc'[v].old # loc[u].old
    <3>1. CallOK(u)
      BY <1>1, Zenon DEF CallInv
    <3> QED BY <1>2, <1>6, <3>1 DEF CallOK
  <2> QED BY <1>2, <1>3, <1>6, <2>1, OtherCalls, Zenon
<1>7. CallInv'
  BY <1>1, <1>2, <1>3, <1>6, Zenon DEF CallInv
<1>8. CreationInv'
  <2>1. ~Creating(t)'
    BY <1>2, Zenon DEF Creating
  <2> QED BY <1>2, <2>1, CreationStays, Zenon
<1>9. TokenInv'
  BY <1>2, TokensStay, Zenon
<1> QED BY <1>5, <1>7, <1>8, <1>9, Zenon DEF HostedInv

-----------------------------------------------------------------------------
(* The steps of a call, one lemma each.  An allocation starts, ...         *)
LEMMA AllocKeeps ==
  ASSUME HostedInv, NEW t \in Threads, NEW old \in Usable \cup {NoBlock}, Alloc(t, old)
  PROVE  HostedInv'
<1>1. /\ TypeOK /\ CallInv /\ pc[t] = "idle"
      /\ UNCHANGED <<creation, cell, tls, moveFailed>> /\ UNCHANGED service /\ UNCHANGED home
  BY Zenon DEF HostedInv, Alloc
<1> DEFINE r == [loc[t] EXCEPT !.old = old, !.shard = head, !.token = 1]
<1>2. loc[t] \in Locs /\ loc[t].into \in 0 .. built /\ head \in 0 .. built
  BY <1>1, LocIs, Zenon DEF TypeOK
<1>3. old \in Blocks \cup {NoBlock} /\ (old # NoBlock => old \in Usable)
  BY Zenon DEF Usable, Live
<1>4. loc' = [loc EXCEPT ![t] = r]
  BY Zenon DEF Alloc
<1>5. r \in Locs /\ r.old = old /\ r.shard = head /\ r.token = 1 /\ r.into = loc[t].into
  <2>1. 1 \in 0 .. Slots
    BY Constants
  <2> QED BY <1>2, <1>3, <2>1, Zenon DEF Locs
<1> HIDE DEF r
<1>6. PICK l \in Pcs : /\ pc' = [pc EXCEPT ![t] = l]
                       /\ l \in {"use", "system", "create", "scan"}
                       /\ Bound(t) <=> l = "use"
                       /\ l = "scan" => head # 0
  <2>1. CASE Bound(t)
    BY <2>1, Zenon DEF Alloc, Goto, Pcs
  <2>2. CASE ~Bound(t) /\ guard[t] = "dropped"
    BY <2>2, Zenon DEF Alloc, Goto, Pcs
  <2>3. CASE ~Bound(t) /\ guard[t] # "dropped"
    BY <2>3, Zenon DEF Alloc, Goto, Pcs
  <2> QED BY <2>1, <2>2, <2>3, Zenon
<1>7. /\ pc'[t] = l /\ loc'[t] = r /\ (Bound(t)' <=> Bound(t)) /\ Live' = Live
      /\ \A u \in Threads : u # t => loc'[u] = loc[u]
  BY <1>1, <1>4, <1>6, Zenon DEF CallInv, Bound, Live
<1>8. \A u \in Threads : old # NoBlock => loc[u].old # old
  BY <1>3, Zenon DEF Usable
<1>9. CallOK(t)'
  BY <1>1, <1>3, <1>5, <1>6, <1>7, <1>8 DEF CallOK, Usable
<1>10. guard' \in [Threads -> {"none", "set", "dropped"}]
  BY <1>1, Zenon DEF Alloc, TypeOK
<1>11. \A u \in Threads \ {t} :
         /\ pc[u] = "service" => service'[loc[u].into] = service[loc[u].into]
         /\ loc[u].old # NoBlock => home'[loc[u].old] = home[loc[u].old] /\ r.old # loc[u].old
  BY <1>1, <1>5, <1>8, Zenon
<1>12. ~Creating(t) /\ l \notin {"build", "link"} /\ (pc[t] = "move" <=> l = "move")
  BY <1>1, <1>6, Zenon DEF Creating
<1>13. service' \in [Shards -> Threads \cup {Nobody}] /\ home' \in [Blocks -> Dead .. built]
  BY <1>1, Zenon DEF TypeOK
<1> QED BY <1>1, <1>4, <1>5, <1>6, <1>9, <1>10, <1>11, <1>12, <1>13, OwnStep, Zenon

(* Freeing a block of shard s goes by the token, by the service lock or to *)
(* System.                                                                 *)
LEMMA RouteIs ==
  ASSUME HostedInv, NEW t \in Threads, NEW s \in 0 .. built, Route(t, s),
         UNCHANGED <<creation, cell, tls, moveFailed>>, UNCHANGED <<service, guard>>
  PROVE  \E l \in Pcs, r \in Locs :
           /\ pc' = [pc EXCEPT ![t] = l] /\ loc' = [loc EXCEPT ![t] = r]
           /\ l \in {"idle", "free", "lock"} /\ r.old = NoBlock /\ CallOK(t)'
<1>1. TypeOK /\ CallInv
  BY Zenon DEF HostedInv
<1>2. CASE s = System
  <2>1. /\ pc' = [pc EXCEPT ![t] = "idle"] /\ loc' = [loc EXCEPT ![t] = NoCall]
        /\ pc'[t] = "idle" /\ loc'[t] = NoCall
    BY <1>1, <1>2, Zenon DEF Route, Goto, CallInv
  <2>2. NoCall \in Locs /\ NoCall.old = NoBlock /\ "idle" \in Pcs
    BY <1>1, NoCallIs, Zenon DEF Pcs
  <2>3. CallOK(t)'
    BY <2>1, <2>2, Zenon DEF CallOK
  <2> QED BY <2>1, <2>2, <2>3, Zenon
<1>3. CASE s # System
  <2> DEFINE r == [NoCall EXCEPT !.into = s]
             l == IF OwnToken(t, s) THEN "free" ELSE "lock"
  <2>1. pc' = [pc EXCEPT ![t] = l] /\ loc' = [loc EXCEPT ![t] = r] /\ pc'[t] = l /\ loc'[t] = r
    BY <1>1, <1>3, Zenon DEF Route, Goto, CallInv
  <2>2. r \in Locs /\ r.old = NoBlock /\ r.into = s /\ s # 0
    BY <1>1, <1>3, NoCallIs, Zenon DEF System
  <2> HIDE DEF r
  <2>3. l \in Pcs /\ l \in {"free", "lock"} /\ (l = "free" => tls[t].shard = s)
    BY Zenon DEF Pcs, OwnToken
  <2> HIDE DEF l
  <2>4. l = "free" => Bound(t)
    BY <1>1, <2>2, <2>3, BoundIs, Zenon
  <2>5. Bound(t)' <=> Bound(t)
    BY Zenon DEF Bound
  <2>6. CallOK(t)'
    BY <2>1, <2>2, <2>3, <2>4, <2>5, Zenon DEF CallOK
  <2> QED BY <2>1, <2>2, <2>3, <2>6, Zenon
<1> QED BY <1>2, <1>3, Zenon

(* ... a block of shard s is returned, ...                                 *)
LEMMA ServedKeeps ==
  ASSUME HostedInv, NEW t \in Threads, NEW s \in 0 .. built, Served(t, s),
         pc[t] \notin {"build", "link", "move"},
         UNCHANGED <<creation, cell, tls, moveFailed>>, UNCHANGED <<service, guard>>
  PROVE  HostedInv'
<1>1. TypeOK /\ CallInv /\ CallOK(t) /\ ~Creating(t)
  BY Zenon DEF HostedInv, CallInv, Creating
<1>2. s \in Dead .. built /\ Dead \in Dead .. built /\ home \in [Blocks -> Dead .. built]
  <2>1. built \in Nat
    BY <1>1 DEF TypeOK
  <2> QED BY <1>1, <2>1 DEF TypeOK, Dead
<1>3. service' \in [Shards -> Threads \cup {Nobody}] /\ guard' \in [Threads -> {"none", "set", "dropped"}]
  BY <1>1, Zenon DEF TypeOK
<1>4. PICK b \in Blocks \ Live :
        IF loc[t].old = NoBlock
          THEN /\ home' = [home EXCEPT ![b] = s]
               /\ Goto(t, "idle")
               /\ loc' = [loc EXCEPT ![t] = NoCall]
          ELSE /\ home' = [home EXCEPT ![b] = s, ![loc[t].old] = Dead]
               /\ Route(t, home[loc[t].old])
  BY Zenon DEF Served
<1>5. \A u \in Threads \ {t} : loc[u].old # NoBlock => loc[u].old \in Live /\ loc[u].old # loc[t].old
  BY <1>1, Zenon DEF CallInv, CallOK
<1>6. CASE loc[t].old = NoBlock
  <2>1. /\ home' = [home EXCEPT ![b] = s] /\ pc' = [pc EXCEPT ![t] = "idle"] /\ loc' = [loc EXCEPT ![t] = NoCall]
        /\ pc'[t] = "idle" /\ loc'[t] = NoCall
    BY <1>1, <1>4, <1>6, Zenon DEF Goto, CallInv
  <2>2. NoCall \in Locs /\ NoCall.old = NoBlock /\ "idle" \in Pcs
    BY <1>1, NoCallIs, Zenon DEF Pcs
  <2>3. CallOK(t)'
    BY <2>1, <2>2, Zenon DEF CallOK
  <2>4. \A u \in Threads \ {t} : loc[u].old # NoBlock => home'[loc[u].old] = home[loc[u].old] /\ NoCall.old # loc[u].old
    BY <1>2, <1>5, <2>1, <2>2, Zenon DEF Live
  <2>5. home' \in [Blocks -> Dead .. built]
    BY <1>2, <2>1, Zenon
  <2>6. PICK l \in Pcs, r \in Locs :
           /\ pc' = [pc EXCEPT ![t] = l] /\ loc' = [loc EXCEPT ![t] = r]
           /\ l \notin {"build", "link"} /\ (pc[t] = "move" <=> l = "move")
           /\ \A u \in Threads \ {t} :
                /\ pc[u] = "service" => service'[loc[u].into] = service[loc[u].into]
                /\ loc[u].old # NoBlock => home'[loc[u].old] = home[loc[u].old] /\ r.old # loc[u].old
    BY <2>1, <2>2, <2>4, Zenon
  <2>7. ~Creating(t)
    BY <1>1, Zenon
  <2> QED BY <1>3, <2>3, <2>5, <2>6, <2>7, OwnStep, Zenon
<1>7. CASE loc[t].old # NoBlock
  <2> DEFINE o == loc[t].old
  <2>1. home' = [home EXCEPT ![b] = s, ![o] = Dead] /\ Route(t, home[o])
    BY <1>4, <1>7, Zenon
  <2>2. o \in Live /\ o \in Blocks /\ home[o] # Dead
    BY <1>1, <1>7, Zenon DEF CallOK, Live
  <2>3. home[o] \in 0 .. built
    <3>1. built \in Nat /\ home[o] \in Dead .. built
      BY <1>1, <1>2, <2>2 DEF TypeOK
    <3> QED BY <2>2, <3>1 DEF Dead
  <2> HIDE DEF o
  <2>4. PICK l \in Pcs, r \in Locs :
           /\ pc' = [pc EXCEPT ![t] = l] /\ loc' = [loc EXCEPT ![t] = r]
           /\ l \in {"idle", "free", "lock"} /\ r.old = NoBlock /\ CallOK(t)'
    BY <2>1, <2>3, RouteIs, Zenon
  <2>5. \A u \in Threads \ {t} : loc[u].old # NoBlock => home'[loc[u].old] = home[loc[u].old] /\ r.old # loc[u].old
    BY <1>2, <1>5, <2>1, <2>4, Zenon DEF Live, o
  <2>6. home' \in [Blocks -> Dead .. built]
    BY <1>2, <2>1, Zenon
  <2> QED BY <1>1, <1>3, <2>4, <2>5, <2>6, OwnStep, Zenon
<1> QED BY <1>6, <1>7, Zenon

(* ... by the core or by System, ...                                       *)
LEMMA ServesKeeps ==
  ASSUME HostedInv, NEW t \in Threads, CoreServes(t) \/ SystemServes(t)
  PROVE  HostedInv'
<1>1. TypeOK /\ CallOK(t) /\ built \in Nat
  BY DEF HostedInv, CallInv, TypeOK
<1>2. CASE CoreServes(t)
  <2>1. Bound(t)
    BY <1>1, <1>2, Zenon DEF CoreServes, CallOK
  <2>2. tls[t].shard \in 1 .. built
    BY <1>1, <2>1, BoundIs, Zenon
  <2>3. tls[t].shard \in 0 .. built
    BY <1>1, <2>2
  <2> QED BY <1>2, <2>3, ServedKeeps, Zenon DEF CoreServes
<1>3. CASE SystemServes(t)
  <2>1. System \in 0 .. built
    BY <1>1 DEF System
  <2> QED BY <1>3, <2>1, ServedKeeps, Zenon DEF SystemServes
<1> QED BY <1>2, <1>3, Zenon

(* ... a block is freed, ...                                               *)
LEMMA DeallocKeeps ==
  ASSUME HostedInv, NEW t \in Threads, NEW b \in Usable, Dealloc(t, b)
  PROVE  HostedInv'
<1>1. TypeOK /\ CallInv /\ ~Creating(t) /\ pc[t] = "idle" /\ built \in Nat /\ home \in [Blocks -> Dead .. built]
  BY DEF HostedInv, CallInv, Creating, Dealloc, TypeOK
<1>2. service' \in [Shards -> Threads \cup {Nobody}] /\ guard' \in [Threads -> {"none", "set", "dropped"}]
  BY <1>1, Zenon DEF TypeOK, Dealloc
<1>3. b \in Blocks /\ home[b] # Dead /\ \A u \in Threads : loc[u].old # b
  BY Zenon DEF Usable, Live
<1>4. home[b] \in 0 .. built /\ Dead \in Dead .. built
  BY <1>1, <1>3 DEF Dead
<1>5. PICK l \in Pcs, r \in Locs :
           /\ pc' = [pc EXCEPT ![t] = l] /\ loc' = [loc EXCEPT ![t] = r]
           /\ l \in {"idle", "free", "lock"} /\ r.old = NoBlock /\ CallOK(t)'
  BY <1>4, RouteIs, Zenon DEF Dealloc
<1>6. \A u \in Threads \ {t} : loc[u].old # NoBlock => home'[loc[u].old] = home[loc[u].old] /\ r.old # loc[u].old
  <2>1. \A u \in Threads : loc[u].old \in Blocks \cup {NoBlock}
    BY <1>1, LocIs, Zenon
  <2> QED BY <1>1, <1>3, <1>5, <2>1, Zenon DEF Dealloc
<1>7. home' \in [Blocks -> Dead .. built]
  BY <1>1, <1>4, Zenon DEF Dealloc
<1>8. UNCHANGED <<creation, cell, tls, moveFailed>> /\ UNCHANGED service
  BY Zenon DEF Dealloc
<1> QED BY <1>1, <1>2, <1>5, <1>6, <1>7, <1>8, OwnStep, Zenon

(* ... a call ends, without memory or after a free, ...                    *)
LEMMA CallEnds ==
  ASSUME HostedInv, NEW t \in Threads, pc[t] \in {"system", "free", "service"},
         pc' = [pc EXCEPT ![t] = "idle"], loc' = [loc EXCEPT ![t] = NoCall],
         UNCHANGED <<creation, cell, tls, moveFailed>>, UNCHANGED <<guard, home>>,
         \/ service' = service
         \/ pc[t] = "service" /\ service' = [service EXCEPT ![loc[t].into] = Nobody]
  PROVE  HostedInv'
<1>1. TypeOK /\ CallInv /\ ~Creating(t)
  BY Zenon DEF HostedInv, Creating
<1>2. NoCall \in Locs /\ NoCall.old = NoBlock /\ "idle" \in Pcs
  BY <1>1, NoCallIs, Zenon DEF Pcs
<1>3. CallOK(t)'
  BY <1>1, <1>2, Zenon DEF CallOK, CallInv
<1>4. service' \in [Shards -> Threads \cup {Nobody}]
  BY <1>1, Zenon DEF TypeOK
<1>5. ASSUME NEW u \in Threads \ {t}, pc[u] = "service" PROVE service'[loc[u].into] = service[loc[u].into]
  <2>1. service[loc[u].into] = u /\ (pc[t] = "service" => service[loc[t].into] = t)
    BY <1>1, <1>5, Zenon DEF CallInv, CallOK
  <2>2. CASE service' = service
    BY <2>2, Zenon
  <2>3. CASE pc[t] = "service" /\ service' = [service EXCEPT ![loc[t].into] = Nobody]
    <3>1. loc[u].into # loc[t].into
      BY <1>5, <2>1, <2>3, Zenon
    <3>2. service' = [x \in Shards |-> IF x = loc[t].into THEN Nobody ELSE service[x]]
      BY <1>1, <2>3, Zenon DEF TypeOK
    <3>3. loc[u].into \in Shards
      BY <1>1, <1>5, IntoIs, Zenon
    <3> QED BY <3>1, <3>2, <3>3, Zenon
  <2> QED BY <2>2, <2>3, Zenon
<1>6. guard' \in [Threads -> {"none", "set", "dropped"}] /\ home' \in [Blocks -> Dead .. built]
  BY <1>1, Zenon DEF TypeOK
<1>7. \A u \in Threads \ {t} :
        /\ pc[u] = "service" => service'[loc[u].into] = service[loc[u].into]
        /\ loc[u].old # NoBlock => home'[loc[u].old] = home[loc[u].old] /\ NoCall.old # loc[u].old
  BY <1>1, <1>2, <1>5, Zenon
<1>8. "idle" \notin {"build", "link"} /\ (pc[t] = "move" <=> "idle" = "move")
  BY <1>1, Zenon
<1> QED BY <1>1, <1>2, <1>3, <1>4, <1>6, <1>7, <1>8, OwnStep, Zenon

(* that is, System is out of memory or a free returns, ...                 *)
LEMMA EndsKeeps ==
  ASSUME HostedInv, NEW t \in Threads, SystemFails(t) \/ Freed(t) \/ ServiceFreed(t)
  PROVE  HostedInv'
<1>1. CASE SystemFails(t)
  BY <1>1, CallEnds, Zenon DEF SystemFails, Goto
<1>2. CASE Freed(t)
  BY <1>2, CallEnds, Zenon DEF Freed, Goto
<1>3. CASE ServiceFreed(t)
  BY <1>3, CallEnds, Zenon DEF ServiceFreed, Goto
<1> QED BY <1>1, <1>2, <1>3, Zenon

(* ... the service lock is taken, ...                                      *)
LEMMA LockServiceKeeps ==
  ASSUME HostedInv, NEW t \in Threads, LockService(t)
  PROVE  HostedInv'
<1>1. /\ TypeOK /\ CallInv /\ CallOK(t) /\ pc[t] = "lock" /\ ~Creating(t)
      /\ pc' = [pc EXCEPT ![t] = "service"] /\ UNCHANGED loc
      /\ UNCHANGED <<creation, cell, tls, moveFailed>> /\ UNCHANGED <<guard, home>>
      /\ service[loc[t].into] = Nobody /\ service' = [service EXCEPT ![loc[t].into] = t]
  BY Zenon DEF HostedInv, CallInv, Creating, LockService, Goto
<1>2. loc[t] \in Locs /\ loc' = [loc EXCEPT ![t] = loc[t]] /\ "service" \in Pcs
  BY <1>1, LocIs, Zenon DEF Pcs, CallInv
<1>3. loc[t].into \in Shards
  BY <1>1, IntoIs, Zenon
<1>4. service' \in [Shards -> Threads \cup {Nobody}] /\ service'[loc[t].into] = t
  BY <1>1, <1>3, Zenon DEF TypeOK
<1>5. CallOK(t)'
  BY <1>1, <1>3, <1>4, Zenon DEF CallOK, CallInv, Live, Bound
<1>6. ASSUME NEW u \in Threads \ {t}
      PROVE  /\ pc[u] = "service" => service'[loc[u].into] = service[loc[u].into]
             /\ loc[u].old # NoBlock => home'[loc[u].old] = home[loc[u].old] /\ loc[t].old # loc[u].old
  <2>1. CallOK(u) /\ u # Nobody
    BY <1>1, Constants, Zenon DEF CallInv
  <2> QED BY <1>1, <2>1 DEF CallOK
<1>7. guard' \in [Threads -> {"none", "set", "dropped"}] /\ home' \in [Blocks -> Dead .. built]
  BY <1>1, Zenon DEF TypeOK
<1>8. "service" \notin {"build", "link"} /\ (pc[t] = "move" <=> "service" = "move")
  BY <1>1, Zenon
<1>9. PICK l \in Pcs, r \in Locs :
         /\ pc' = [pc EXCEPT ![t] = l] /\ loc' = [loc EXCEPT ![t] = r]
         /\ l \notin {"build", "link"} /\ (pc[t] = "move" <=> l = "move")
         /\ \A u \in Threads \ {t} :
              /\ pc[u] = "service" => service'[loc[u].into] = service[loc[u].into]
              /\ loc[u].old # NoBlock => home'[loc[u].old] = home[loc[u].old] /\ r.old # loc[u].old
  BY <1>1, <1>2, <1>6, <1>8, Zenon
<1>10. ~Creating(t) /\ UNCHANGED <<creation, cell, tls, moveFailed>>
  BY <1>1, Zenon
<1> QED BY <1>4, <1>5, <1>7, <1>9, <1>10, OwnStep, Zenon

(* ... and the core has no memory, or a new thread starts.                 *)
LEMMA CoreFailsKeeps ==
  ASSUME HostedInv, NEW t \in Threads, CoreFails(t) \/ Spawn(t)
  PROVE  HostedInv'
<1>1. /\ TypeOK /\ CallInv /\ CallOK(t) /\ UNCHANGED loc
      /\ UNCHANGED <<creation, cell, tls, moveFailed>> /\ UNCHANGED service /\ UNCHANGED home
  BY Zenon DEF HostedInv, CallInv, CoreFails, Spawn
<1>2. guard' \in [Threads -> {"none", "set", "dropped"}]
  BY <1>1, Zenon DEF TypeOK, CoreFails, Spawn
<1>3. PICK l \in Pcs : /\ pc' = [pc EXCEPT ![t] = l]
                       /\ \/ pc[t] \in {"use", "useMoved"} /\ l \in {"grow", "system"}
                          \/ pc[t] = "idle" /\ l = "idle"
  <2>1. CASE CoreFails(t)
    BY <2>1, Zenon DEF CoreFails, Goto, Pcs
  <2>2. CASE Spawn(t)
    BY <1>1, <2>2, Zenon DEF Spawn, Pcs, CallInv
  <2> QED BY <2>1, <2>2, Zenon
<1>4. loc[t] \in Locs /\ loc' = [loc EXCEPT ![t] = loc[t]] /\ pc'[t] = l
  BY <1>1, <1>3, LocIs, Zenon DEF CallInv
<1>5. CallOK(t)'
  BY <1>1, <1>3, <1>4, Zenon DEF CallOK, Live, Bound
<1>6. ASSUME NEW u \in Threads \ {t}
      PROVE  loc[u].old # NoBlock => loc[t].old # loc[u].old
  BY <1>1, Zenon DEF CallInv, CallOK
<1>7. ~Creating(t) /\ l \notin {"build", "link"} /\ (pc[t] = "move" <=> l = "move")
  BY <1>3, Zenon DEF Creating
<1>8. service' \in [Shards -> Threads \cup {Nobody}] /\ home' \in [Blocks -> Dead .. built]
  BY <1>1, Zenon DEF TypeOK
<1>9. \A u \in Threads \ {t} :
        /\ pc[u] = "service" => service'[loc[u].into] = service[loc[u].into]
        /\ loc[u].old # NoBlock => home'[loc[u].old] = home[loc[u].old] /\ loc[t].old # loc[u].old
  BY <1>1, <1>6, Zenon
<1> QED BY <1>1, <1>2, <1>3, <1>4, <1>5, <1>7, <1>8, <1>9, OwnStep, Zenon

-----------------------------------------------------------------------------
(* A step of t on the tokens.                                              *)
LEMMA TokenStep ==
  ASSUME HostedInv, NEW t \in Threads, NEW l \in Pcs, NEW r \in Locs,
         pc' = [pc EXCEPT ![t] = l], loc' = [loc EXCEPT ![t] = r], r.old = loc[t].old,
         ~Creating(t), l \notin {"build", "link"},
         UNCHANGED creation, UNCHANGED service, UNCHANGED home,
         cell' \in [Shards -> [Tokens -> {0, 1}]],
         tls' \in [Threads -> [shard : 1 .. built, token : Tokens] \cup {Unbound}],
         guard' \in [Threads -> {"none", "set", "dropped"}],
         moveFailed' \in BOOLEAN,
         \A u \in Threads \ {t} : tls'[u] = tls[u],
         CallOK(t)', TokenInv'
  PROVE  HostedInv'
<1>1. TypeOK /\ CallInv /\ CreationInv
  BY Zenon DEF HostedInv
<1>2. /\ pc'[t] = l /\ loc'[t] = r /\ pc' \in [Threads -> Pcs] /\ loc' \in [Threads -> Locs]
      /\ \A u \in Threads : u # t => pc'[u] = pc[u] /\ loc'[u] = loc[u]
  BY <1>1, Zenon DEF CallInv
<1>3. UNCHANGED built /\ UNCHANGED head /\ Locs' = Locs
  BY Zenon DEF creation, Locs
<1>4. TypeOK'
  <2>1. \A u \in Threads : loc'[u] \in Locs
    BY <1>2, Zenon
  <2>2. \A u \in Threads : loc'[u].shard \in 0 .. built /\ loc'[u].token \in 0 .. Slots /\ loc'[u].into \in 0 .. built
    BY <2>1, Zenon DEF Locs
  <2> QED BY <1>1, <2>2, Zenon DEF TypeOK, creation
<1>5. ASSUME NEW u \in Threads, u # t PROVE CallOK(u)'
  <2>1. \A v \in Threads \ {u} : loc[u].old # NoBlock => loc'[v].old # loc[u].old
    <3>1. CallOK(u)
      BY <1>1, Zenon DEF CallInv
    <3> QED BY <1>2, <1>5, <3>1 DEF CallOK
  <2> QED BY <1>2, <1>3, <1>5, <2>1, OtherCalls, Zenon
<1>6. CallInv'
  BY <1>1, <1>2, <1>3, <1>5, Zenon DEF CallInv
<1>7. CreationInv'
  <2>1. ~Creating(t)'
    BY <1>2, Zenon DEF Creating
  <2> QED BY <1>2, <2>1, CreationStays, Zenon
<1> QED BY <1>4, <1>6, <1>7, Zenon DEF HostedInv

(* The token a search tries is one of a built shard.                       *)
LEMMA TriedIs ==
  ASSUME TypeOK, CallInv, NEW t \in Threads, pc[t] \in {"link", "scan", "created", "release", "move"}
  PROVE  loc[t].shard \in 1 .. built /\ loc[t].shard \in Shards /\ loc[t].token \in Tokens
<1>1. /\ loc[t].shard \in 0 .. built /\ loc[t].token \in 0 .. Slots /\ built \in 0 .. MaxShards
      /\ loc[t].shard # 0 /\ loc[t].token # 0
  BY LocIs, Zenon DEF CallInv, CallOK, TypeOK
<1> QED BY <1>1, Constants DEF Shards, Tokens

(* A token is taken, ...                                                   *)
LEMMA TakeCellKeeps ==
  ASSUME HostedInv, NEW t \in Threads, TakeCell(t)
  PROVE  HostedInv'
<1>0. PICK s, i : s = loc[t].shard /\ i = loc[t].token
  BY Zenon
<1>1. /\ TypeOK /\ CallInv /\ CallOK(t) /\ TokenInv /\ pc[t] \in {"scan", "created", "move"} /\ UNCHANGED loc
      /\ UNCHANGED creation /\ UNCHANGED service /\ UNCHANGED home /\ UNCHANGED guard /\ UNCHANGED moveFailed
      /\ cell[s][i] = 0 /\ cell' = [cell EXCEPT ![s][i] = 1]
      /\ tls' = [tls EXCEPT ![t] = [shard |-> s, token |-> i]]
  BY <1>0, Zenon DEF HostedInv, CallInv, TakeCell
<1>2. s \in 1 .. built /\ s \in Shards /\ i \in Tokens
  BY <1>0, <1>1, TriedIs, Zenon
<1>3. PICK l \in Pcs : pc' = [pc EXCEPT ![t] = l] /\ l \in {"use", "useMoved"}
  BY Zenon DEF TakeCell, Goto, Pcs
<1>4. loc[t] \in Locs /\ loc' = [loc EXCEPT ![t] = loc[t]] /\ pc'[t] = l
  BY <1>1, <1>3, LocIs, Zenon DEF CallInv
<1>5. /\ tls'[t] = [shard |-> s, token |-> i] /\ \A u \in Threads \ {t} : tls'[u] = tls[u]
      /\ tls' \in [Threads -> [shard : 1 .. built, token : Tokens] \cup {Unbound}]
  BY <1>1, <1>2, Zenon DEF TypeOK
<1>6. /\ cell' \in [Shards -> [Tokens -> {0, 1}]] /\ cell'[s][i] = 1
      /\ \A x \in Shards, j \in Tokens : x # s \/ j # i => cell'[x][j] = cell[x][j]
  BY <1>1, <1>2, Zenon DEF TypeOK
<1>7. Bound(t)' /\ Holds(t)' /\ \A u \in Threads \ {t} : Holds(u)' <=> Holds(u)
  <2>1. tls'[t] # Unbound
    BY <1>2, <1>5 DEF Unbound
  <2> QED BY <1>1, <1>3, <1>4, <1>5, <2>1, Zenon DEF Bound, Holds, CallInv
<1>8. CallOK(t)'
  BY <1>1, <1>3, <1>4, <1>7, Zenon DEF CallOK, Live
<1>9. ~Holds(t)
  BY <1>1, Zenon DEF CallOK, Holds
<1>10. TokenInv'
  <2>1. ASSUME NEW x \in Shards, NEW j \in Tokens, cell'[x][j] = 1
        PROVE  \E u \in Threads : Holds(u)' /\ tls'[u] = [shard |-> x, token |-> j]
    <3>1. CASE x = s /\ j = i
      BY <1>5, <1>7, <3>1, Zenon
    <3>2. CASE x # s \/ j # i
      <4>1. PICK u \in Threads : Holds(u) /\ tls[u] = [shard |-> x, token |-> j]
        BY <1>1, <1>6, <2>1, <3>2 DEF TokenInv
      <4> QED BY <1>5, <1>7, <1>9, <4>1, Zenon
    <3> QED BY <3>1, <3>2, Zenon
  <2>2. ASSUME ~moveFailed, NEW u \in Threads \ {t}, Holds(u)
        PROVE  tls[u] # [shard |-> s, token |-> i] /\ cell'[tls[u].shard][tls[u].token] = 1
    <3>1. cell[tls[u].shard][tls[u].token] = 1
      BY <1>1, <2>2, Zenon DEF TokenInv
    <3>2. tls[u].shard \in 1 .. built /\ tls[u].token \in Tokens
      BY <1>1, <2>2, BoundIs, Zenon DEF Holds
    <3>3. tls[u].shard \in Shards
      BY <1>1, <3>2, Constants DEF TypeOK, Shards
    <3> QED BY <1>1, <1>6, <3>1, <3>2, <3>3
  <2>3. ASSUME ~moveFailed, NEW u \in Threads, Holds(u)'
        PROVE  /\ cell'[tls'[u].shard][tls'[u].token] = 1
               /\ \A v \in Threads \ {u} : Holds(v)' => tls'[v] # tls'[u]
    <3>1. CASE u = t
      BY <1>5, <1>6, <1>7, <2>2, <2>3, <3>1
    <3>2. CASE u # t
      <4>1. Holds(u) /\ tls'[u] = tls[u] /\ \A v \in Threads \ {u} : Holds(v) => tls[v] # tls[u]
        BY <1>1, <1>5, <1>7, <2>3, <3>2, Zenon DEF TokenInv
      <4> QED BY <1>5, <1>7, <2>2, <2>3, <3>2, <4>1
    <3> QED BY <3>1, <3>2, Zenon
  <2> QED BY <1>1, <2>1, <2>3, Zenon DEF TokenInv
<1>11. guard' \in [Threads -> {"none", "set", "dropped"}] /\ moveFailed' \in BOOLEAN
  BY <1>1, Zenon DEF TypeOK, CallInv
<1>12. ~Creating(t) /\ l \notin {"build", "link"}
  BY <1>1, <1>3, Zenon DEF Creating
<1> QED BY <1>1, <1>3, <1>4, <1>5, <1>6, <1>8, <1>10, <1>11, <1>12, TokenStep, Zenon

(* What becomes of the tokens when t gives its own back.                   *)
LEMMA GivenBack ==
  ASSUME HostedInv, NEW t \in Threads, Holds(t), ~Holds(t)', UNCHANGED moveFailed,
         cell' = [cell EXCEPT ![tls[t].shard][tls[t].token] = 0],
         \A u \in Threads \ {t} : tls'[u] = tls[u] /\ (Holds(u)' <=> Holds(u))
  PROVE  TokenInv' /\ cell' \in [Shards -> [Tokens -> {0, 1}]]
<1>1. TypeOK /\ TokenInv
  BY Zenon DEF HostedInv
<1>2. PICK s, i : s = tls[t].shard /\ i = tls[t].token
  BY Zenon
<1>3. s \in Shards /\ i \in Tokens /\ tls[t] = [shard |-> s, token |-> i]
  <2>1. s \in 1 .. built /\ i \in Tokens /\ tls[t] = [shard |-> s, token |-> i] /\ built \in 0 .. MaxShards
    BY <1>1, <1>2, BoundIs, Zenon DEF Holds, TypeOK
  <2> QED BY <2>1, Constants DEF Shards
<1>4. /\ cell' \in [Shards -> [Tokens -> {0, 1}]] /\ cell'[s][i] = 0
      /\ \A x \in Shards, j \in Tokens : x # s \/ j # i => cell'[x][j] = cell[x][j]
  BY <1>1, <1>2, <1>3, Zenon DEF TypeOK
<1>5. ASSUME NEW x \in Shards, NEW j \in Tokens, cell'[x][j] = 1
      PROVE  \E u \in Threads : Holds(u)' /\ tls'[u] = [shard |-> x, token |-> j]
  <2>1. x # s \/ j # i
    BY <1>4, <1>5
  <2>2. PICK u \in Threads : Holds(u) /\ tls[u] = [shard |-> x, token |-> j]
    BY <1>1, <1>4, <1>5, <2>1 DEF TokenInv
  <2>3. u # t
    BY <1>2, <2>1, <2>2
  <2> QED BY <2>2, <2>3, Zenon
<1>6. ASSUME ~moveFailed, NEW u \in Threads, Holds(u)'
      PROVE  /\ cell'[tls'[u].shard][tls'[u].token] = 1
             /\ \A v \in Threads \ {u} : Holds(v)' => tls'[v] # tls'[u]
  <2>1. u # t /\ tls'[u] = tls[u] /\ Holds(u)
    BY <1>6, Zenon
  <2>2. /\ cell[tls[u].shard][tls[u].token] = 1 /\ tls[u] # tls[t]
        /\ \A v \in Threads \ {u} : Holds(v) => tls[v] # tls[u]
    BY <1>1, <1>6, <2>1, Zenon DEF TokenInv
  <2>3. /\ tls[u].shard \in 1 .. built /\ tls[u].token \in Tokens
        /\ tls[u] = [shard |-> tls[u].shard, token |-> tls[u].token]
    BY <1>1, <2>1, BoundIs, Zenon DEF Holds
  <2>4. tls[u].shard \in Shards
    BY <1>1, <2>3, Constants DEF TypeOK, Shards
  <2>5. cell'[tls[u].shard][tls[u].token] = 1
    BY <1>3, <1>4, <2>2, <2>3, <2>4
  <2> QED BY <1>6, <2>1, <2>2, <2>5, Zenon
<1> QED BY <1>4, <1>5, <1>6, Zenon DEF TokenInv

(* ... given back for a move, ...                                          *)
LEMMA ReleaseTokenKeeps ==
  ASSUME HostedInv, NEW t \in Threads, ReleaseToken(t)
  PROVE  HostedInv'
<1>1. /\ TypeOK /\ CallInv /\ CallOK(t) /\ pc[t] = "release" /\ pc' = [pc EXCEPT ![t] = "move"]
      /\ UNCHANGED creation /\ UNCHANGED service /\ UNCHANGED home /\ UNCHANGED loc /\ UNCHANGED moveFailed
      /\ UNCHANGED tls /\ UNCHANGED guard
      /\ cell' = [cell EXCEPT ![tls[t].shard][tls[t].token] = 0]
  BY Zenon DEF HostedInv, CallInv, ReleaseToken, Goto
<1>2. loc[t] \in Locs /\ loc' = [loc EXCEPT ![t] = loc[t]] /\ pc'[t] = "move" /\ "move" \in Pcs
  BY <1>1, LocIs, Zenon DEF CallInv, Pcs
<1>3. Holds(t) /\ ~Holds(t)' /\ \A u \in Threads \ {t} : tls'[u] = tls[u] /\ (Holds(u)' <=> Holds(u))
  BY <1>1, <1>2, Zenon DEF CallOK, CallInv, Holds, Bound
<1>4. TokenInv' /\ cell' \in [Shards -> [Tokens -> {0, 1}]]
  BY <1>1, <1>3, GivenBack, Zenon
<1>5. CallOK(t)'
  BY <1>1, <1>2, Zenon DEF CallOK, Live, Bound
<1>6. /\ guard' \in [Threads -> {"none", "set", "dropped"}] /\ moveFailed' \in BOOLEAN
      /\ tls' \in [Threads -> [shard : 1 .. built, token : Tokens] \cup {Unbound}]
  BY <1>1, Zenon DEF TypeOK, CallInv
<1>7. ~Creating(t) /\ "move" \notin {"build", "link"}
  BY <1>1, Zenon DEF Creating
<1> QED BY <1>1, <1>2, <1>3, <1>4, <1>5, <1>6, <1>7, TokenStep, Zenon

(* ... or at the end of the thread.                                        *)
LEMMA ExitKeeps ==
  ASSUME HostedInv, NEW t \in Threads, Exit(t)
  PROVE  HostedInv'
<1>1. /\ TypeOK /\ CallInv /\ CallOK(t) /\ pc[t] = "idle" /\ UNCHANGED pc /\ TokenInv
      /\ UNCHANGED creation /\ UNCHANGED service /\ UNCHANGED home /\ UNCHANGED loc /\ UNCHANGED moveFailed
      /\ tls' = [tls EXCEPT ![t] = Unbound] /\ guard' = [guard EXCEPT ![t] = "dropped"]
      /\ cell' = IF Bound(t) THEN [cell EXCEPT ![tls[t].shard][tls[t].token] = 0] ELSE cell
  BY Zenon DEF HostedInv, CallInv, Exit, Cleared
<1>2. /\ loc[t] \in Locs /\ loc' = [loc EXCEPT ![t] = loc[t]]
      /\ pc' = [pc EXCEPT ![t] = "idle"] /\ "idle" \in Pcs
  BY <1>1, LocIs, Zenon DEF CallInv, Pcs
<1>3. /\ tls' \in [Threads -> [shard : 1 .. built, token : Tokens] \cup {Unbound}] /\ tls'[t] = Unbound
      /\ \A u \in Threads \ {t} : tls'[u] = tls[u]
      /\ guard' \in [Threads -> {"none", "set", "dropped"}] /\ moveFailed' \in BOOLEAN
  BY <1>1, Zenon DEF TypeOK, CallInv
<1>4. ~Holds(t)' /\ \A u \in Threads \ {t} : tls'[u] = tls[u] /\ (Holds(u)' <=> Holds(u))
  BY <1>1, <1>3, Zenon DEF Holds, Bound
<1>5. TokenInv' /\ cell' \in [Shards -> [Tokens -> {0, 1}]]
  <2>0. pc[t] # "move"
    BY <1>1, Zenon
  <2>1. CASE Bound(t)
    <3>1. Holds(t)
      BY <2>0, <2>1, Zenon DEF Holds
    <3> QED BY <1>1, <1>4, <2>1, <3>1, GivenBack, Zenon
  <2>2. CASE ~Bound(t)
    <3>1. cell' = cell /\ ~Holds(t)
      BY <1>1, <2>2, Zenon DEF Holds
    <3>2. ASSUME NEW u \in Threads
          PROVE  (Holds(u)' <=> Holds(u)) /\ (Holds(u) => tls'[u] = tls[u])
      BY <1>4, <3>1, Zenon
    <3>3. \A s \in Shards, i \in Tokens :
            cell'[s][i] = 1 => \E u \in Threads : Holds(u)' /\ tls'[u] = [shard |-> s, token |-> i]
      <4>1. ASSUME NEW s \in Shards, NEW i \in Tokens, cell[s][i] = 1
            PROVE  \E u \in Threads : Holds(u)' /\ tls'[u] = [shard |-> s, token |-> i]
        <5>1. PICK u \in Threads : Holds(u) /\ tls[u] = [shard |-> s, token |-> i]
          BY <1>1, <4>1, Zenon DEF TokenInv
        <5> QED BY <3>2, <5>1, Zenon
      <4> QED BY <3>1, <4>1, Zenon
    <3>4. ASSUME ~moveFailed, NEW u \in Threads, Holds(u)'
          PROVE  /\ cell'[tls'[u].shard][tls'[u].token] = 1
                 /\ \A v \in Threads \ {u} : Holds(v)' => tls'[v] # tls'[u]
      BY <1>1, <3>1, <3>2, <3>4 DEF TokenInv
    <3>5. cell' \in [Shards -> [Tokens -> {0, 1}]]
      BY <1>1, <3>1, Zenon DEF TypeOK
    <3>6. UNCHANGED moveFailed
      BY <1>1, Zenon
    <3> QED BY <3>3, <3>4, <3>5, <3>6, Zenon DEF TokenInv
  <2> QED BY <2>1, <2>2, Zenon
<1>6. CallOK(t)'
  BY <1>1, <1>2, Zenon DEF CallOK, Live
<1>7. ~Creating(t) /\ "idle" \notin {"build", "link"}
  BY <1>1, Zenon DEF Creating
<1> QED BY <1>1, <1>2, <1>3, <1>5, <1>6, <1>7, TokenStep, Zenon

(* A token that is in use is passed over.  Only the end of a move in vain  *)
(* concerns the tokens: its thread goes on naming the one it gave back.    *)
LEMMA MissCellKeeps ==
  ASSUME HostedInv, NEW t \in Threads, MissCell(t)
  PROVE  HostedInv'
<1>0. PICK s, i : s = loc[t].shard /\ i = loc[t].token
  OBVIOUS
<1>1. /\ TypeOK /\ CallInv /\ CallOK(t) /\ TokenInv /\ pc[t] \in {"scan", "created", "move"} /\ ~Creating(t)
      /\ UNCHANGED creation /\ UNCHANGED cell /\ UNCHANGED service /\ UNCHANGED tls /\ UNCHANGED guard
      /\ UNCHANGED home /\ moveFailed' = (moveFailed \/ (~NotLast(i) /\ pc[t] = "move"))
  BY <1>0, Zenon DEF HostedInv, CallInv, MissCell, Creating
<1>2. /\ s \in 1 .. built /\ i \in Tokens /\ s \in Shards /\ built \in Nat /\ head \in 0 .. built /\ next[s] \in 0 .. built
      /\ loc[t] \in Locs
  BY <1>0, <1>1, TriedIs, LocIs, Constants DEF TypeOK
<1>3. \E l \in Pcs, r \in Locs :
        /\ pc' = [pc EXCEPT ![t] = l] /\ loc' = [loc EXCEPT ![t] = r] /\ r.old = loc[t].old
        /\ \/ l = pc[t] /\ r.shard # 0 /\ r.token # 0
           \/ pc[t] = "scan" /\ l = "create"
           \/ pc[t] = "created" /\ l = "scan" /\ r.shard # 0 /\ r.token # 0
           \/ pc[t] = "move" /\ l = "system" /\ ~NotLast(i)
        /\ ~NotLast(i) /\ pc[t] = "move" => l = "system"
  <2>1. ASSUME NEW x \in 1 .. built, NEW j \in Tokens, At(t, x, j)
        PROVE  \E r \in Locs : loc' = [loc EXCEPT ![t] = r] /\ r.old = loc[t].old /\ r.shard = x /\ r.token = j
    <3>1. PICK r : r = [loc[t] EXCEPT !.shard = x, !.token = j]
      BY Zenon
    <3>2. loc' = [loc EXCEPT ![t] = r]
      BY <1>1, <2>1, <3>1, Zenon DEF At
    <3>3. r \in Locs /\ r.old = loc[t].old /\ r.shard = x /\ r.token = j
      <4>1. x \in 0 .. built /\ j \in 0 .. Slots
        BY <1>2, Constants DEF Tokens
      <4> QED BY <1>2, <3>1, <4>1, Zenon DEF Locs
    <3> QED BY <3>2, <3>3, Zenon
  <2>2. pc = [pc EXCEPT ![t] = pc[t]] /\ loc = [loc EXCEPT ![t] = loc[t]] /\ pc[t] \in Pcs
    BY <1>1, Zenon DEF CallInv
  <2>3. CASE NotLast(i)
    <3>1. At(t, s, i + 1) /\ UNCHANGED pc
      BY <1>0, <2>3, Zenon DEF MissCell
    <3>2. i + 1 \in Tokens /\ i + 1 # 0 /\ s # 0
      BY <1>2, <2>3, Constants DEF Tokens, NotLast
    <3>3. PICK r \in Locs : loc' = [loc EXCEPT ![t] = r] /\ r.old = loc[t].old /\ r.shard = s /\ r.token = i + 1
      BY <1>2, <2>1, <3>1, <3>2
    <3> QED BY <2>2, <2>3, <3>1, <3>2, <3>3, Zenon
  <2>4. CASE ~NotLast(i) /\ pc[t] = "scan" /\ next[s] # 0
    <3>1. At(t, next[s], 1) /\ UNCHANGED pc
      BY <1>0, <2>4, Zenon DEF MissCell
    <3>2. next[s] \in 1 .. built
      BY <1>2, <2>4
    <3>3. PICK r \in Locs : loc' = [loc EXCEPT ![t] = r] /\ r.old = loc[t].old /\ r.shard = next[s] /\ r.token = 1
      BY <2>1, <3>1, <3>2, Constants
    <3>4. pc' = [pc EXCEPT ![t] = pc[t]] /\ r.shard # 0 /\ r.token # 0
      BY <2>2, <2>4, <3>1, <3>3
    <3> QED BY <2>2, <2>4, <3>3, <3>4, Zenon
  <2>5. CASE ~NotLast(i) /\ pc[t] = "scan" /\ next[s] = 0
    <3>1. pc' = [pc EXCEPT ![t] = "create"] /\ UNCHANGED loc /\ "create" \in Pcs
      BY <1>0, <2>5, Zenon DEF MissCell, Goto, Pcs
    <3> QED BY <1>2, <2>2, <2>5, <3>1, Zenon
  <2>6. CASE ~NotLast(i) /\ pc[t] = "created"
    <3>1. At(t, head, 1) /\ pc' = [pc EXCEPT ![t] = "scan"] /\ "scan" \in Pcs
      BY <1>0, <2>6, Zenon DEF MissCell, Goto, Pcs
    <3>2. head \in 1 .. built /\ head # 0
      <4>1. head # 0
        BY <1>1, <2>6, Zenon DEF CallOK
      <4> QED BY <1>2, <4>1
    <3>3. PICK r \in Locs : loc' = [loc EXCEPT ![t] = r] /\ r.old = loc[t].old /\ r.shard = head /\ r.token = 1
      BY <2>1, <3>1, <3>2, Constants
    <3>4. r.shard # 0 /\ r.token # 0
      BY <3>2, <3>3
    <3> QED BY <2>6, <3>1, <3>3, <3>4, Zenon
  <2>7. CASE ~NotLast(i) /\ pc[t] = "move"
    <3>1. pc' = [pc EXCEPT ![t] = "system"] /\ UNCHANGED loc /\ "system" \in Pcs
      BY <1>0, <2>7, Zenon DEF MissCell, Goto, Pcs
    <3> QED BY <1>2, <2>2, <2>7, <3>1, Zenon
  <2> QED BY <1>1, <2>3, <2>4, <2>5, <2>6, <2>7, Zenon
<1>4. PICK l \in Pcs, r \in Locs :
        /\ pc' = [pc EXCEPT ![t] = l] /\ loc' = [loc EXCEPT ![t] = r] /\ r.old = loc[t].old
        /\ \/ l = pc[t] /\ r.shard # 0 /\ r.token # 0
           \/ pc[t] = "scan" /\ l = "create"
           \/ pc[t] = "created" /\ l = "scan" /\ r.shard # 0 /\ r.token # 0
           \/ pc[t] = "move" /\ l = "system" /\ ~NotLast(i)
        /\ ~NotLast(i) /\ pc[t] = "move" => l = "system"
  BY <1>3, Zenon
<1>5. /\ pc'[t] = l /\ loc'[t] = r
      /\ \A u \in Threads \ {t} : loc'[u] = loc[u] /\ pc'[u] = pc[u]
  BY <1>1, <1>4, Zenon DEF CallInv
<1>6. CallOK(t)'
  <2>1. (Bound(t)' <=> Bound(t)) /\ Live' = Live /\ UNCHANGED head
    BY <1>1, Zenon DEF Bound, Live, creation
  <2>2. l \in {"create", "scan", "created"} => ~Bound(t)
    BY <1>1, <1>4, Zenon DEF CallOK
  <2>3. l \in {"create", "scan", "created", "move", "system"}
    BY <1>1, <1>4, Zenon
  <2>4. l = "created" => head # 0
    BY <1>1, <1>4, Zenon DEF CallOK
  <2>5. l = "move" => Bound(t)
    BY <1>1, <1>4, Zenon DEF CallOK
  <2>6. l \in {"scan", "created", "move"} => r.shard # 0 /\ r.token # 0
    BY <1>1, <1>4, Zenon
  <2>7. r.old # NoBlock => r.old \in Live /\ \A u \in Threads \ {t} : loc'[u].old # r.old
    BY <1>1, <1>4, <1>5, Zenon DEF CallOK
  <2> QED BY <1>5, <2>1, <2>2, <2>3, <2>4, <2>5, <2>6, <2>7, Zenon DEF CallOK
<1>7. TokenInv'
  <2>1. ASSUME NEW u \in Threads, Holds(u) PROVE Holds(u)'
    BY <1>1, <1>4, <1>5, <2>1, Zenon DEF Holds, Bound
  <2>2. \A x \in Shards, j \in Tokens :
          cell'[x][j] = 1 => \E u \in Threads : Holds(u)' /\ tls'[u] = [shard |-> x, token |-> j]
    <3>1. ASSUME NEW x \in Shards, NEW j \in Tokens, cell'[x][j] = 1
          PROVE  \E u \in Threads : Holds(u)' /\ tls'[u] = [shard |-> x, token |-> j]
      <4>1. cell[x][j] = 1 /\ UNCHANGED tls
        BY <1>1, <3>1, Zenon
      <4>2. PICK u \in Threads : Holds(u) /\ tls[u] = [shard |-> x, token |-> j]
        BY <1>1, <4>1, Zenon DEF TokenInv
      <4> QED BY <2>1, <4>1, <4>2, Zenon
    <3> QED BY <3>1, Zenon
  <2>3. CASE moveFailed'
    BY <2>2, <2>3, Zenon DEF TokenInv
  <2>4. CASE ~moveFailed'
    <3>1. ~moveFailed /\ (NotLast(i) \/ pc[t] # "move")
      BY <1>1, <2>4, Zenon
    <3>2. \A u \in Threads : Holds(u)' <=> Holds(u)
      BY <1>1, <1>4, <1>5, <3>1, Zenon DEF Holds, Bound
    <3>3. \A u \in Threads :
            Holds(u)' => /\ cell'[tls'[u].shard][tls'[u].token] = 1
                         /\ \A v \in Threads \ {u} : Holds(v)' => tls'[v] # tls'[u]
      BY <1>1, <3>1, <3>2, Zenon DEF TokenInv
    <3> QED BY <2>2, <3>3, Zenon DEF TokenInv
  <2> QED BY <2>3, <2>4, Zenon
<1>8. /\ cell' \in [Shards -> [Tokens -> {0, 1}]] /\ guard' \in [Threads -> {"none", "set", "dropped"}]
      /\ tls' \in [Threads -> [shard : 1 .. built, token : Tokens] \cup {Unbound}]
  BY <1>1, Zenon DEF TypeOK
<1>9. moveFailed' \in BOOLEAN
  BY <1>1, Zenon
<1>10. l \notin {"build", "link"} /\ \A u \in Threads \ {t} : tls'[u] = tls[u]
  BY <1>1, <1>4, Zenon
<1> QED BY <1>1, <1>4, <1>6, <1>7, <1>8, <1>9, <1>10, TokenStep, Zenon

-----------------------------------------------------------------------------
(* A step of t in the creation of a shard.                                 *)
LEMMA CreateStep ==
  ASSUME HostedInv, NEW t \in Threads, NEW l \in Pcs, NEW r \in Locs',
         pc' = [pc EXCEPT ![t] = l], loc' = [loc EXCEPT ![t] = r], r.old = loc[t].old,
         pc[t] # "move", l # "move",
         UNCHANGED <<cell, tls, moveFailed>>, UNCHANGED <<service, guard, home>>,
         built <= built', built' \in 0 .. MaxShards, shards' \in 0 .. MaxShards, head' \in 0 .. built',
         next' \in [Shards -> 0 .. built'], creator' \in Threads \cup {Nobody},
         held' \in [Threads -> 0 .. 4], parts' \in [Parts -> 0 .. MaxShards],
         head # 0 => head' # 0,
         CallOK(t)', CreationInv'
  PROVE  HostedInv'
<1>1. TypeOK /\ CallInv /\ built \in Nat /\ built' \in Nat
  BY Constants DEF HostedInv, TypeOK
<1>2. 0 .. built \subseteq 0 .. built' /\ 1 .. built \subseteq 1 .. built' /\ Dead .. built \subseteq Dead .. built'
  BY <1>1 DEF Dead
<1>3. Locs \subseteq Locs'
  BY <1>2, Zenon DEF Locs
<1>4. /\ pc'[t] = l /\ loc'[t] = r /\ pc' \in [Threads -> Pcs] /\ loc' \in [Threads -> Locs']
      /\ \A u \in Threads : u # t => pc'[u] = pc[u] /\ loc'[u] = loc[u]
  BY <1>1, <1>3, Zenon DEF CallInv
<1>5. TypeOK'
  <2>1. \A u \in Threads : loc'[u] \in Locs'
    BY <1>4, Zenon
  <2>2. \A u \in Threads : loc'[u].shard \in 0 .. built' /\ loc'[u].token \in 0 .. Slots /\ loc'[u].into \in 0 .. built'
    BY <2>1, Zenon DEF Locs
  <2>3. [shard : 1 .. built, token : Tokens] \subseteq [shard : 1 .. built', token : Tokens]
    BY <1>2, Zenon
  <2>4. tls' \in [Threads -> [shard : 1 .. built', token : Tokens] \cup {Unbound}]
    BY <1>1, <2>3, Zenon DEF TypeOK
  <2>5. home' \in [Blocks -> Dead .. built']
    BY <1>1, <1>2, Zenon DEF TypeOK
  <2>6. /\ cell' \in [Shards -> [Tokens -> {0, 1}]] /\ service' \in [Shards -> Threads \cup {Nobody}]
        /\ guard' \in [Threads -> {"none", "set", "dropped"}]
    BY <1>1, Zenon DEF TypeOK
  <2> QED BY <2>2, <2>4, <2>5, <2>6, Zenon DEF TypeOK
<1>6. ASSUME NEW u \in Threads, u # t PROVE CallOK(u)'
  <2>1. \A v \in Threads \ {u} : loc[u].old # NoBlock => loc'[v].old # loc[u].old
    <3>1. CallOK(u)
      BY <1>1, Zenon DEF CallInv
    <3> QED BY <1>4, <1>6, <3>1 DEF CallOK
  <2> QED BY <1>4, <1>6, <2>1, OtherCalls, Zenon
<1>7. CallInv'
  BY <1>1, <1>4, <1>6, Zenon DEF CallInv
<1>8. TokenInv'
  BY <1>4, TokensStay, Zenon
<1> QED BY <1>5, <1>7, <1>8, Zenon DEF HostedInv

(* What the invariant says of a creation under way.                        *)
LEMMA CreationFacts ==
  ASSUME HostedInv, NEW t \in Threads
  PROVE  /\ built \in Nat /\ built <= MaxShards /\ shards = head /\ head \in Nat /\ held[t] \in 0 .. 4
         /\ Creating(t) <=> creator = t
         /\ Creating(t) => \A u \in Threads \ {t} : ~Creating(u) /\ held[u] = 0
         /\ creator = Nobody => head = built /\ \A u \in Threads : ~Creating(u) /\ held[u] = 0
         /\ Creating(t) => \A p \in Parts : parts[p] = shards + IF held[t] >= p THEN 1 ELSE 0
         /\ creator = Nobody => \A p \in Parts : parts[p] = shards
         /\ pc[t] = "build" => head = built /\ (held[t] > 0 => built < MaxShards)
         /\ pc[t] = "link" => head = built - 1 /\ loc[t].shard = built /\ held[t] = 4
<1>1. TypeOK /\ CreationInv
  BY Zenon DEF HostedInv
<1>2. built \in 0 .. MaxShards /\ head \in 0 .. built /\ held[t] \in 0 .. 4
  BY <1>1, Zenon DEF TypeOK
<1>3. built \in Nat /\ built <= MaxShards /\ head \in Nat
  BY <1>2, Constants
<1>4. /\ Creating(t) <=> creator = t
      /\ Creating(t) => \A u \in Threads \ {t} : ~Creating(u) /\ held[u] = 0
      /\ creator = Nobody => head = built /\ \A u \in Threads : ~Creating(u) /\ held[u] = 0
  BY <1>1, Constants, Zenon DEF CreationInv
<1>5. /\ Creating(t) => \A p \in Parts : parts[p] = shards + IF held[t] >= p THEN 1 ELSE 0
      /\ creator = Nobody => \A p \in Parts : parts[p] = shards + 0
  BY <1>1, <1>4, Constants, Zenon DEF CreationInv
<1>6. /\ pc[t] = "build" => head = built /\ (held[t] > 0 => built < MaxShards)
      /\ pc[t] = "link" => head = built - 1 /\ loc[t].shard = built /\ held[t] = 4
      /\ shards = head
  BY <1>1, Zenon DEF CreationInv
<1> QED BY <1>2, <1>3, <1>4, <1>5, <1>6

(* create_lock is taken, ...                                               *)
LEMMA LockCreateKeeps ==
  ASSUME HostedInv, NEW t \in Threads, LockCreate(t)
  PROVE  HostedInv'
<1>1. /\ TypeOK /\ CallInv /\ CallOK(t) /\ CreationInv /\ pc[t] \in {"create", "grow"} /\ creator = Nobody
      /\ pc' = [pc EXCEPT ![t] = "build"] /\ UNCHANGED loc /\ creator' = t
      /\ UNCHANGED built /\ UNCHANGED head /\ UNCHANGED next /\ UNCHANGED shards /\ UNCHANGED held /\ UNCHANGED parts
      /\ UNCHANGED <<cell, tls, moveFailed>> /\ UNCHANGED <<service, guard, home>>
  BY Zenon DEF HostedInv, CallInv, LockCreate, LockIsFree, Goto
<1>2. loc[t] \in Locs' /\ loc' = [loc EXCEPT ![t] = loc[t]] /\ "build" \in Pcs
  <2>1. loc[t] \in Locs
    BY <1>1, LocIs, Zenon
  <2> QED BY <1>1, <2>1, Zenon DEF Locs, Pcs, CallInv
<1>3. pc'[t] = "build" /\ \A u \in Threads \ {t} : pc'[u] = pc[u]
  BY <1>1, Zenon DEF CallInv
<1>4. CallOK(t)'
  BY <1>1, <1>3, Zenon DEF CallOK, Live
<1>5. /\ head = built /\ \A u \in Threads : ~Creating(u) /\ held[u] = 0
      /\ \A p \in Parts : parts[p] = shards
      /\ built \in Nat /\ head \in Nat /\ shards \in Nat
  BY <1>1, CreationFacts, Zenon
<1>6. Creating(t)' /\ \A u \in Threads \ {t} : ~Creating(u)'
  BY <1>3, <1>5, Zenon DEF Creating
<1>7. CreationInv'
  <2>1. ASSUME NEW u \in Threads
        PROVE  /\ Creating(u)' <=> creator' = u
               /\ ~Creating(u)' => held'[u] = 0
               /\ pc'[u] = "build" => head' = built' /\ (held'[u] > 0 => built' < MaxShards)
               /\ pc'[u] # "link"
    BY <1>1, <1>3, <1>5, <1>6 DEF Creating
  <2>2. ASSUME NEW p \in Parts PROVE parts'[p] = shards' + IF creator' # Nobody /\ held'[creator'] >= p THEN 1 ELSE 0
    BY <1>1, <1>5 DEF Parts
  <2> QED BY <1>1, <1>5, <2>1, <2>2, Constants, Zenon DEF CreationInv
<1>8. /\ built <= built' /\ built' \in 0 .. MaxShards /\ shards' \in 0 .. MaxShards /\ head' \in 0 .. built'
      /\ next' \in [Shards -> 0 .. built'] /\ creator' \in Threads \cup {Nobody}
      /\ held' \in [Threads -> 0 .. 4] /\ parts' \in [Parts -> 0 .. MaxShards]
  BY <1>1, <1>5 DEF TypeOK
<1>9. pc[t] # "move" /\ "build" # "move" /\ (head # 0 => head' # 0)
  BY <1>1, Zenon
<1> QED BY <1>1, <1>2, <1>4, <1>7, <1>8, <1>9, CreateStep, Zenon

(* ... a part is obtained, ...                                             *)
LEMMA ObtainPartKeeps ==
  ASSUME HostedInv, NEW t \in Threads, ObtainPart(t)
  PROVE  HostedInv'
<1>0. PICK h : h = held[t]
  BY Zenon
<1>1. /\ TypeOK /\ CallInv /\ CallOK(t) /\ CreationInv /\ pc[t] = "build" /\ h < 4 /\ built < MaxShards
      /\ UNCHANGED pc /\ UNCHANGED loc /\ UNCHANGED creator
      /\ held' = [held EXCEPT ![t] = h + 1] /\ parts' = [parts EXCEPT ![h + 1] = @ + 1]
      /\ UNCHANGED built /\ UNCHANGED head /\ UNCHANGED next /\ UNCHANGED shards
      /\ UNCHANGED <<cell, tls, moveFailed>> /\ UNCHANGED <<service, guard, home>>
  BY <1>0, Zenon DEF HostedInv, CallInv, ObtainPart
<1>2. /\ loc[t] \in Locs' /\ loc' = [loc EXCEPT ![t] = loc[t]] /\ "build" \in Pcs
      /\ pc' = [pc EXCEPT ![t] = "build"]
  <2>1. loc[t] \in Locs
    BY <1>1, LocIs, Zenon
  <2> QED BY <1>1, <2>1 DEF Locs, Pcs, CallInv
<1>3. CallOK(t)'
  BY <1>1, Zenon DEF CallOK, Live, Bound
<1>4. /\ Creating(t) /\ creator = t /\ head = built /\ shards = built /\ built \in Nat /\ h \in 0 .. 4
      /\ \A u \in Threads \ {t} : ~Creating(u) /\ held[u] = 0
      /\ \A p \in Parts : parts[p] = built + IF h >= p THEN 1 ELSE 0
  <2>1. Creating(t)
    BY <1>1, Zenon DEF Creating
  <2> QED BY <1>0, <1>1, <2>1, CreationFacts, Zenon
<1>5. h + 1 \in Parts /\ h \in Nat /\ Parts \subseteq Nat
  BY <1>1, <1>4 DEF Parts
<1>6. \A p \in Parts : parts'[p] = built + IF h + 1 >= p THEN 1 ELSE 0
  <2>1. ASSUME NEW p \in Parts, p = h + 1 PROVE parts'[p] = built + IF h + 1 >= p THEN 1 ELSE 0
    <3>1. parts[p] = built + 0
      BY <1>4, <1>5, <2>1
    <3>2. parts'[p] = parts[p] + 1
      BY <1>1, <2>1, Zenon DEF TypeOK
    <3> QED BY <1>4, <1>5, <2>1, <3>1, <3>2
  <2>2. ASSUME NEW p \in Parts, p # h + 1 PROVE parts'[p] = built + IF h + 1 >= p THEN 1 ELSE 0
    <3>1. parts'[p] = parts[p]
      BY <1>1, <2>2, Zenon DEF TypeOK
    <3>2. h + 1 >= p <=> h >= p
      BY <1>5, <2>2
    <3> QED BY <1>4, <3>1, <3>2, Zenon
  <2> QED BY <2>1, <2>2, Zenon
<1>7. held' \in [Threads -> 0 .. 4] /\ held'[t] = h + 1 /\ \A u \in Threads \ {t} : held'[u] = held[u]
  <2>1. h + 1 \in 0 .. 4
    BY <1>1, <1>4
  <2> QED BY <1>1, <2>1, Zenon DEF TypeOK
<1>8. CreationInv'
  <2>1. ASSUME NEW u \in Threads
        PROVE  /\ Creating(u)' <=> creator' = u
               /\ ~Creating(u)' => held'[u] = 0
               /\ pc'[u] = "build" => head' = built' /\ (held'[u] > 0 => built' < MaxShards)
               /\ pc'[u] # "link"
    BY <1>1, <1>4, <1>7, Zenon DEF Creating
  <2>2. ASSUME NEW p \in Parts PROVE parts'[p] = shards' + IF creator' # Nobody /\ held'[creator'] >= p THEN 1 ELSE 0
    BY <1>1, <1>4, <1>6, <1>7, Constants, Zenon
  <2>3. shards' = head' /\ (\A s \in 1 .. built' : next'[s] = s - 1) /\ creator' # Nobody
    BY <1>1, <1>4, Constants, Zenon DEF CreationInv
  <2> QED BY <2>1, <2>2, <2>3, Zenon DEF CreationInv
<1>9. parts' \in [Parts -> 0 .. MaxShards]
  <2>1. \A p \in Parts : parts'[p] \in 0 .. MaxShards
    BY <1>1, <1>4, <1>6, Constants
  <2>2. parts' = [p \in Parts |-> parts'[p]]
    BY <1>1, Zenon DEF TypeOK
  <2> QED BY <2>1, <2>2, Zenon
<1>10. /\ built <= built' /\ built' \in 0 .. MaxShards /\ shards' \in 0 .. MaxShards /\ head' \in 0 .. built'
       /\ next' \in [Shards -> 0 .. built'] /\ creator' \in Threads \cup {Nobody}
  BY <1>1, <1>4 DEF TypeOK
<1>11. pc[t] # "move" /\ "build" # "move" /\ (head # 0 => head' # 0)
  BY <1>1, Zenon
<1> QED BY <1>1, <1>2, <1>3, <1>7, <1>8, <1>9, <1>10, <1>11, CreateStep, Zenon

(* ... or refused, ...                                                     *)
LEMMA CreateFailedKeeps ==
  ASSUME HostedInv, NEW t \in Threads, CreateFailed(t)
  PROVE  HostedInv'
<1>0. PICK h : h = held[t]
  OBVIOUS
<1>1. /\ TypeOK /\ CallInv /\ CallOK(t) /\ CreationInv /\ pc[t] = "build"
      /\ pc' = [pc EXCEPT ![t] = "system"] /\ UNCHANGED loc /\ creator' = Nobody
      /\ held' = [held EXCEPT ![t] = 0] /\ parts' = [p \in Parts |-> IF p <= h THEN parts[p] - 1 ELSE parts[p]]
      /\ UNCHANGED built /\ UNCHANGED head /\ UNCHANGED next /\ UNCHANGED shards
      /\ UNCHANGED <<cell, tls, moveFailed>> /\ UNCHANGED <<service, guard, home>>
  BY <1>0, Zenon DEF HostedInv, CallInv, CreateFailed, Goto
<1>2. /\ loc[t] \in Locs' /\ loc' = [loc EXCEPT ![t] = loc[t]] /\ "system" \in Pcs
      /\ pc'[t] = "system" /\ \A u \in Threads \ {t} : pc'[u] = pc[u]
  <2>1. loc[t] \in Locs
    BY <1>1, LocIs, Zenon
  <2> QED BY <1>1, <2>1, Zenon DEF Locs, Pcs, CallInv
<1>3. CallOK(t)'
  BY <1>1, <1>2, Zenon DEF CallOK, Live, Bound
<1>4. /\ Creating(t) /\ creator = t /\ head = built /\ shards = built /\ built \in Nat /\ h \in 0 .. 4
      /\ \A u \in Threads \ {t} : ~Creating(u) /\ held[u] = 0
      /\ \A p \in Parts : parts[p] = built + IF h >= p THEN 1 ELSE 0
  <2>1. Creating(t)
    BY <1>1, Zenon DEF Creating
  <2> QED BY <1>0, <1>1, <2>1, CreationFacts, Zenon
<1>5. \A p \in Parts : parts'[p] = built
  <2>1. Parts \subseteq Nat
    BY DEF Parts
  <2> QED BY <1>1, <1>4, <2>1
<1>6. held' \in [Threads -> 0 .. 4] /\ held'[t] = 0 /\ \A u \in Threads \ {t} : held'[u] = held[u]
  BY <1>1 DEF TypeOK
<1>7. ASSUME NEW u \in Threads PROVE ~Creating(u)' /\ held'[u] = 0
  BY <1>2, <1>4, <1>6, Zenon DEF Creating
<1>8. CreationInv'
  <2>1. ASSUME NEW u \in Threads
        PROVE  (Creating(u)' <=> creator' = u) /\ held'[u] = 0 /\ pc'[u] # "build" /\ pc'[u] # "link"
    BY <1>1, <1>7, Constants, Zenon DEF Creating
  <2>2. \A p \in Parts : parts'[p] = shards' + 0
    BY <1>1, <1>4, <1>5
  <2>3. shards' = head' /\ (\A s \in 1 .. built' : next'[s] = s - 1) /\ head' = built' /\ creator' = Nobody
    BY <1>1, <1>4, Zenon DEF CreationInv
  <2> QED BY <2>1, <2>2, <2>3, Zenon DEF CreationInv
<1>9. /\ built <= built' /\ built' \in 0 .. MaxShards /\ shards' \in 0 .. MaxShards /\ head' \in 0 .. built'
      /\ next' \in [Shards -> 0 .. built'] /\ creator' \in Threads \cup {Nobody}
      /\ parts' \in [Parts -> 0 .. MaxShards]
  <2>1. parts' = [p \in Parts |-> built]
    BY <1>1, <1>5, Zenon
  <2> QED BY <1>1, <1>4, <2>1 DEF TypeOK
<1>10. pc[t] # "move" /\ "system" # "move" /\ (head # 0 => head' # 0)
  BY <1>1, Zenon
<1> QED BY <1>1, <1>2, <1>3, <1>6, <1>8, <1>9, <1>10, CreateStep, Zenon

(* ... the shard is built, ...                                             *)
LEMMA BuildShardKeeps ==
  ASSUME HostedInv, NEW t \in Threads, BuildShard(t)
  PROVE  HostedInv'
<1>1. /\ TypeOK /\ CallInv /\ CallOK(t) /\ CreationInv /\ pc[t] = "build" /\ held[t] = 4
      /\ pc' = [pc EXCEPT ![t] = "link"] /\ At(t, built + 1, 1)
      /\ built' = built + 1 /\ next' = [next EXCEPT ![built + 1] = head]
      /\ UNCHANGED head /\ UNCHANGED shards /\ UNCHANGED creator /\ UNCHANGED held /\ UNCHANGED parts
      /\ UNCHANGED <<cell, tls, moveFailed>> /\ UNCHANGED <<service, guard, home>>
  BY Zenon DEF HostedInv, CallInv, BuildShard, Goto
<1>2. /\ Creating(t) /\ creator = t /\ head = built /\ shards = built /\ built \in Nat /\ built < MaxShards
      /\ \A u \in Threads \ {t} : ~Creating(u) /\ held[u] = 0
  <2>1. Creating(t)
    BY <1>1, Zenon DEF Creating
  <2>2. /\ creator = t /\ head = built /\ shards = head /\ built \in Nat
        /\ held[t] > 0 => built < MaxShards
        /\ \A u \in Threads \ {t} : ~Creating(u) /\ held[u] = 0
    BY <1>1, <2>1, CreationFacts, Zenon
  <2>3. held[t] = 4
    BY <1>1, Zenon
  <2> QED BY <2>1, <2>2, <2>3
<1>3. /\ built <= built' /\ built' \in 0 .. MaxShards /\ built + 1 \in 0 .. built' /\ built + 1 \in Shards
      /\ 0 .. built \subseteq 0 .. built' /\ head \in 0 .. built' /\ 1 \in 0 .. Slots
  BY <1>1, <1>2, Constants DEF Shards
<1>4. PICK r : r = [loc[t] EXCEPT !.shard = built + 1, !.token = 1]
  BY Zenon
<1>5. /\ loc' = [loc EXCEPT ![t] = r] /\ loc'[t] = r /\ r.shard = built + 1 /\ r.token = 1 /\ r.old = loc[t].old
      /\ \A u \in Threads : u # t => loc'[u] = loc[u]
  <2>1. loc' = [loc EXCEPT ![t] = r]
    BY <1>1, <1>4, Zenon DEF At
  <2>2. loc[t] \in Locs
    BY <1>1, LocIs, Zenon
  <2> QED BY <1>1, <1>4, <2>1, <2>2, Zenon DEF CallInv, Locs
<1>6. r \in Locs'
  <2>1. loc[t] \in Locs
    BY <1>1, LocIs
  <2> QED BY <1>3, <1>4, <2>1, Zenon DEF Locs
<1>7. pc'[t] = "link" /\ (\A u \in Threads \ {t} : pc'[u] = pc[u]) /\ "link" \in Pcs
  BY <1>1, Zenon DEF CallInv, Pcs
<1>8. CallOK(t)'
  <2>1. r.shard # 0 /\ r.token # 0
    BY <1>2, <1>5
  <2>2. r.old # NoBlock => r.old \in Live' /\ \A u \in Threads \ {t} : loc'[u].old # r.old
    BY <1>1, <1>5, Zenon DEF CallOK, Live
  <2> QED BY <1>5, <1>7, <2>1, <2>2, Zenon DEF CallOK
<1>9. CreationInv'
  <2>1. ASSUME NEW u \in Threads
        PROVE  /\ Creating(u)' <=> creator' = u
               /\ ~Creating(u)' => held'[u] = 0
               /\ pc'[u] # "build"
               /\ pc'[u] = "link" => head' = built' - 1 /\ loc'[u].shard = built' /\ held'[u] = 4
    BY <1>1, <1>2, <1>5, <1>7 DEF Creating
  <2>2. ASSUME NEW s \in 1 .. built' PROVE next'[s] = s - 1
    <3>0. built' = built + 1 /\ next' = [next EXCEPT ![built + 1] = head] /\ DOMAIN next = Shards
      BY <1>1, Zenon DEF TypeOK
    <3>1. CASE s = built + 1
      <4>1. next'[s] = head
        BY <1>3, <3>0, <3>1, Zenon
      <4> QED BY <1>2, <3>1, <4>1
    <3>2. CASE s # built + 1
      <4>1. s \in 1 .. built
        BY <1>2, <3>0, <3>2
      <4>2. next'[s] = next[s]
        <5>1. s \in Shards
          BY <1>2, <4>1, Constants DEF Shards
        <5> QED BY <3>0, <3>2, <5>1, Zenon
      <4> QED BY <1>1, <4>1, <4>2, Zenon DEF CreationInv
    <3> QED BY <3>1, <3>2, Zenon
  <2>3. ASSUME NEW p \in Parts PROVE parts'[p] = shards' + IF creator' # Nobody /\ held'[creator'] >= p THEN 1 ELSE 0
    BY <1>1, Zenon DEF CreationInv
  <2>4. shards' = head' /\ creator' # Nobody
    BY <1>1, <1>2, Constants, Zenon
  <2> QED BY <2>1, <2>2, <2>3, <2>4, Zenon DEF CreationInv
<1>10. /\ shards' \in 0 .. MaxShards /\ head' \in 0 .. built' /\ creator' \in Threads \cup {Nobody}
       /\ held' \in [Threads -> 0 .. 4] /\ parts' \in [Parts -> 0 .. MaxShards]
  BY <1>1, <1>3, Zenon DEF TypeOK
<1>11. next' \in [Shards -> 0 .. built']
  <2>1. next \in [Shards -> 0 .. built']
    BY <1>1, <1>3, Zenon DEF TypeOK
  <2> QED BY <1>1, <1>3, <2>1, Zenon
<1>12. pc[t] # "move" /\ "link" # "move" /\ (head # 0 => head' # 0)
  BY <1>1, Zenon
<1> QED BY <1>1, <1>3, <1>5, <1>6, <1>7, <1>8, <1>9, <1>10, <1>11, <1>12, CreateStep, Zenon

(* ... and linked.                                                         *)
LEMMA LinkShardKeeps ==
  ASSUME HostedInv, NEW t \in Threads, LinkShard(t)
  PROVE  HostedInv'
<1>1. /\ TypeOK /\ CallInv /\ CallOK(t) /\ CreationInv /\ pc[t] = "link"
      /\ head' = loc[t].shard /\ shards' = shards + 1 /\ held' = [held EXCEPT ![t] = 0] /\ creator' = Nobody
      /\ UNCHANGED built /\ UNCHANGED next /\ UNCHANGED parts /\ UNCHANGED loc
      /\ UNCHANGED <<cell, tls, moveFailed>> /\ UNCHANGED <<service, guard, home>>
  BY Zenon DEF HostedInv, CallInv, LinkShard
<1>2. PICK l \in Pcs : pc' = [pc EXCEPT ![t] = l] /\ l \in {"release", "created"} /\ (l = "release" <=> Bound(t))
  <2>1. "release" \in Pcs /\ "created" \in Pcs
    BY Zenon DEF Pcs
  <2>2. CASE Bound(t)
    <3>1. pc' = [pc EXCEPT ![t] = "release"]
      BY <2>2, Zenon DEF LinkShard, Goto
    <3> QED BY <2>1, <2>2, <3>1, Zenon
  <2>3. CASE ~Bound(t)
    <3>1. pc' = [pc EXCEPT ![t] = "created"]
      BY <2>3, Zenon DEF LinkShard, Goto
    <3> QED BY <2>1, <2>3, <3>1, Zenon
  <2> QED BY <2>2, <2>3, Zenon
<1>3. /\ Creating(t) /\ creator = t /\ head = built - 1 /\ shards = head /\ built \in Nat /\ head \in Nat
      /\ loc[t].shard = built /\ held[t] = 4 /\ built <= MaxShards
      /\ \A u \in Threads \ {t} : ~Creating(u) /\ held[u] = 0
      /\ \A p \in Parts : parts[p] = shards + IF held[t] >= p THEN 1 ELSE 0
  <2>1. Creating(t)
    BY <1>1, Zenon DEF Creating
  <2> QED BY <1>1, <2>1, CreationFacts, Zenon
<1>4. /\ loc[t] \in Locs' /\ loc' = [loc EXCEPT ![t] = loc[t]] /\ pc'[t] = l
      /\ \A u \in Threads \ {t} : pc'[u] = pc[u]
  <2>1. loc[t] \in Locs
    BY <1>1, LocIs, Zenon
  <2> QED BY <1>1, <1>2, <2>1, Zenon DEF Locs, CallInv
<1>5. head' = built /\ shards' = built /\ head' # 0
  BY <1>1, <1>3
<1>6. CallOK(t)'
  <2>1. loc[t].shard # 0 /\ loc[t].token # 0
    BY <1>1, Zenon DEF CallOK
  <2> QED BY <1>1, <1>2, <1>4, <1>5, <2>1, Zenon DEF CallOK, Live, Bound
<1>7. held' \in [Threads -> 0 .. 4] /\ held'[t] = 0 /\ \A u \in Threads \ {t} : held'[u] = held[u]
  <2>1. held' = [held EXCEPT ![t] = 0] /\ held \in [Threads -> 0 .. 4]
    BY <1>1, Zenon DEF TypeOK
  <2> QED BY <2>1
<1>8. ASSUME NEW u \in Threads PROVE ~Creating(u)' /\ held'[u] = 0
  BY <1>2, <1>3, <1>4, <1>7, Zenon DEF Creating
<1>9. \A p \in Parts : parts[p] = built
  BY <1>3 DEF Parts
<1>10. CreationInv'
  <2>1. ASSUME NEW u \in Threads
        PROVE  (Creating(u)' <=> creator' = u) /\ held'[u] = 0 /\ pc'[u] # "build" /\ pc'[u] # "link"
    BY <1>1, <1>8, Constants, Zenon DEF Creating
  <2>2. \A p \in Parts : parts'[p] = shards' + 0
    BY <1>1, <1>3, <1>5, <1>9
  <2>3. shards' = head' /\ (\A s \in 1 .. built' : next'[s] = s - 1) /\ head' = built' /\ creator' = Nobody
    BY <1>1, <1>5, Zenon DEF CreationInv
  <2> QED BY <2>1, <2>2, <2>3, Zenon DEF CreationInv
<1>11. /\ built <= built' /\ built' \in 0 .. MaxShards /\ shards' \in 0 .. MaxShards /\ head' \in 0 .. built'
       /\ next' \in [Shards -> 0 .. built'] /\ creator' \in Threads \cup {Nobody}
       /\ parts' \in [Parts -> 0 .. MaxShards]
  BY <1>1, <1>3, <1>5 DEF TypeOK
<1>12. pc[t] # "move" /\ l # "move"
  BY <1>1, <1>2, Zenon
<1> QED BY <1>1, <1>2, <1>4, <1>5, <1>6, <1>7, <1>10, <1>11, <1>12, CreateStep, Zenon

-----------------------------------------------------------------------------
(* Before the first call there is no shard and no token.                   *)
LEMMA InitHostedInv ==
  ASSUME Init
  PROVE  HostedInv
<1>1. 0 \in 0 .. MaxShards /\ 0 \in 0 .. Slots /\ Dead \in Dead .. 0 /\ 0 \in 0 .. 0 /\ 1 .. 0 = {}
  BY Constants DEF Dead
<1>2. NoCall \in Locs /\ NoCall.old = NoBlock
  BY <1>1, Zenon DEF Init, NoCall, Locs
<1>3. \A t \in Threads : loc[t] = NoCall /\ pc[t] = "idle" /\ tls[t] = Unbound /\ held[t] = 0
  BY Zenon DEF Init
<1>4. TypeOK
  <2>1. \A t \in Threads : loc[t].shard = 0 /\ loc[t].token = 0 /\ loc[t].into = 0
    BY <1>3 DEF NoCall
  <2> QED BY <1>1, <2>1 DEF Init, TypeOK
<1>5. CallInv
  <2>1. \A t \in Threads : CallOK(t)
    BY <1>2, <1>3, Zenon DEF CallOK
  <2> QED BY <1>2, <2>1, Zenon DEF Init, CallInv, Pcs
<1>6. CreationInv
  <2>1. \A t \in Threads : ~Creating(t) /\ pc[t] # "build" /\ pc[t] # "link" /\ creator # t
    BY <1>3, Constants, Zenon DEF Creating, Init
  <2>2. \A p \in Parts : parts[p] = shards + 0
    BY DEF Init
  <2> QED BY <1>1, <1>3, <2>1, <2>2, Zenon DEF Init, CreationInv
<1>7. TokenInv
  <2>1. \A t \in Threads : ~Holds(t)
    BY <1>3, Zenon DEF Holds, Bound
  <2>2. \A s \in Shards, i \in Tokens : cell[s][i] # 1
    BY DEF Init
  <2> QED BY <2>1, <2>2, Zenon DEF TokenInv
<1> QED BY <1>4, <1>5, <1>6, <1>7, Zenon DEF HostedInv

(* Every step keeps the invariant.                                         *)
LEMMA NextKeeps ==
  ASSUME HostedInv, [Next]_vars
  PROVE  HostedInv'
<1>1. CASE UNCHANGED vars
  <2>1. TypeOK'
    BY <1>1, Zenon DEF vars, creation, HostedInv, TypeOK
  <2>2. CallInv'
    BY <1>1, Zenon DEF vars, creation, HostedInv, CallInv, CallOK, Locs, Bound, Live
  <2>3. CreationInv' /\ TokenInv'
    BY <1>1, CreationStays, TokensStay, Zenon DEF vars
  <2> QED BY <2>1, <2>2, <2>3, Zenon DEF HostedInv
<1>2. CASE Next
  <2>1. PICK t \in Threads :
          \/ Alloc(t, NoBlock) \/ (\E b \in Usable : Alloc(t, b) \/ Dealloc(t, b))
          \/ TakeCell(t) \/ MissCell(t) \/ ReleaseToken(t)
          \/ LockCreate(t) \/ ObtainPart(t) \/ CreateFailed(t) \/ BuildShard(t) \/ LinkShard(t)
          \/ CoreServes(t) \/ CoreFails(t) \/ SystemServes(t) \/ SystemFails(t)
          \/ Freed(t) \/ LockService(t) \/ ServiceFreed(t)
          \/ Exit(t) \/ Spawn(t)
    BY <1>2, Zenon DEF Next
  <2>2. CASE Alloc(t, NoBlock) \/ \E b \in Usable : Alloc(t, b)
    BY <2>2, AllocKeeps, Zenon
  <2>3. CASE \E b \in Usable : Dealloc(t, b)
    BY <2>3, DeallocKeeps, Zenon
  <2>4. CASE TakeCell(t) \/ MissCell(t) \/ ReleaseToken(t) \/ Exit(t)
    BY <2>4, TakeCellKeeps, MissCellKeeps, ReleaseTokenKeeps, ExitKeeps, Zenon
  <2>5. CASE LockCreate(t) \/ ObtainPart(t) \/ CreateFailed(t) \/ BuildShard(t) \/ LinkShard(t)
    BY <2>5, LockCreateKeeps, ObtainPartKeeps, CreateFailedKeeps, BuildShardKeeps, LinkShardKeeps, Zenon
  <2>6. CASE CoreServes(t) \/ SystemServes(t) \/ CoreFails(t) \/ Spawn(t)
    BY <2>6, ServesKeeps, CoreFailsKeeps, Zenon
  <2>7. CASE SystemFails(t) \/ Freed(t) \/ ServiceFreed(t) \/ LockService(t)
    BY <2>7, EndsKeeps, LockServiceKeeps, Zenon
  <2> QED BY <2>1, <2>2, <2>3, <2>4, <2>5, <2>6, <2>7, Zenon
<1> QED BY <1>1, <1>2, Zenon

(* The invariant of the wrapper: where each call stands with its token,    *)
(* its locks and its blocks, how far a creation is, and who holds the      *)
(* tokens in use (global.rs).                                              *)
THEOREM HostedInvariant == Spec => []HostedInv
<1>1. Init => HostedInv
  BY InitHostedInv, Zenon
<1>2. HostedInv /\ [Next]_vars => HostedInv'
  BY NextKeeps, Zenon
<1> QED BY <1>1, <1>2, PTL DEF Spec

(* A user token is given back at least once, through moves, failed moves   *)
(* and thread exits, and at most once while no move has failed             *)
(* (ThreadTokenGuard::drop, alloc_from_wfspan).                            *)
THEOREM TokensAreHeld == Spec => []TokensHaveHolders
<1>1. HostedInv => TokensHaveHolders
  BY DEF HostedInv, TokensHaveHolders
<1> QED BY <1>1, HostedInvariant, PTL

(* Until a move has failed no two threads use one token, the service token *)
(* included: the contract of alloc_with_token (allocator.rs:360).          *)
THEOREM TokensSharedOnlyAfterFailedMove == Spec => []TokenSharedOnlyAfterFailedMove
<1>1. ASSUME HostedInv, ~moveFailed, NEW t \in Threads, NEW u \in Threads, t # u
      PROVE  InUse(t) \cap InUse(u) = {}
  <2>1. TypeOK /\ CallInv /\ TokenInv
    BY <1>1, Zenon DEF HostedInv
  <2>2. ASSUME NEW v \in Threads
        PROVE  \/ InUse(v) = {}
               \/ Holds(v) /\ tls[v].token # 0 /\ InUse(v) = {<<tls[v].shard, tls[v].token>>}
               \/ service[loc[v].into] = v /\ InUse(v) = {<<loc[v].into, 0>>}
    <3>1. CallOK(v)
      BY <2>1, Zenon DEF CallInv
    <3>2. CASE pc[v] \in {"use", "useMoved", "free"}
      <4>1. Holds(v) /\ (pc[v] = "free" => loc[v].into = tls[v].shard)
        BY <3>1, <3>2, Zenon DEF CallOK, Holds
      <4>2. tls[v].token \in Tokens
        BY <2>1, <4>1, BoundIs, Zenon DEF Holds
      <4>3. tls[v].token # 0
        BY <4>2, Constants DEF Tokens
      <4>4. CASE pc[v] = "free"
        BY <4>1, <4>3, <4>4, Zenon DEF InUse
      <4>5. CASE pc[v] # "free"
        BY <3>2, <4>1, <4>3, <4>5, Zenon DEF InUse
      <4> QED BY <4>4, <4>5, Zenon
    <3>3. CASE pc[v] = "service"
      BY <3>1, <3>3, Zenon DEF CallOK, InUse
    <3>4. CASE pc[v] \notin {"use", "useMoved", "free", "service"}
      BY <3>4, Zenon DEF InUse
    <3> QED BY <3>2, <3>3, <3>4, Zenon
  <2>3. Holds(t) /\ Holds(u) => tls[t] # tls[u]
    BY <1>1, <2>1, Zenon DEF TokenInv
  <2>4. ASSUME NEW v \in Threads, Holds(v) PROVE tls[v] = [shard |-> tls[v].shard, token |-> tls[v].token]
    BY <2>1, <2>4, BoundIs, Zenon DEF Holds
  <2>5. Holds(t) /\ Holds(u) => <<tls[t].shard, tls[t].token>> # <<tls[u].shard, tls[u].token>>
    BY <2>3, <2>4, Zenon
  <2> QED BY <1>1, <2>2, <2>5
<1>2. HostedInv => TokenSharedOnlyAfterFailedMove
  BY <1>1, Zenon DEF TokenSharedOnlyAfterFailedMove, TokenUsedByOne
<1> QED BY <1>2, HostedInvariant, PTL

-----------------------------------------------------------------------------
INSTANCE FiniteSetTheorems

(* A walk from head.                                                       *)
Walk(f) ==
  f = [n \in 0 .. MaxShards |-> IF n = 0 THEN head ELSE IF f[n - 1] = 0 THEN 0 ELSE next[f[n - 1]]]

(* If there is one then Linked is what one of them meets.                  *)
LEMMA LinkedIsWalk ==
  ASSUME NEW g, Walk(g)
  PROVE  \E f : Walk(f) /\ Linked = {f[n] : n \in 0 .. MaxShards} \ {0}
<1> DEFINE c == CHOOSE f : Walk(f)
<1>1. Walk(c)
  BY Zenon
<1>2. Linked = {c[n] : n \in 0 .. MaxShards} \ {0}
  BY Zenon DEF Walk, Linked
<1> QED BY <1>1, <1>2, Zenon

(* The walk meets the shards in the reverse order of their creation.       *)
LEMMA WalkIs ==
  ASSUME HostedInv, NEW f, Walk(f)
  PROVE  \A n \in 0 .. MaxShards : f[n] = IF n <= head THEN head - n ELSE 0
<1> DEFINE g(n) == IF n <= head THEN head - n ELSE 0
           T == {n \in 0 .. MaxShards : f[n] # g(n)}
<1>1. head \in Nat /\ built \in Nat /\ head <= built /\ \A s \in 1 .. built : next[s] = s - 1
  <2>1. built \in 0 .. MaxShards /\ head \in 0 .. built
    BY Zenon DEF HostedInv, TypeOK
  <2> QED BY <2>1, Constants DEF HostedInv, CreationInv
<1>2. ASSUME T # {} PROVE FALSE
  <2>1. T \in SUBSET Nat
    BY Constants
  <2>2. PICK n \in T : \A j \in T : ~(<<j, n>> \in OpToRel(<, Nat))
    BY <1>2, <2>1, NatLessThanWellFounded, WFMin, Zenon
  <2>3. n \in 0 .. MaxShards /\ f[n] # g(n)
    BY <2>2, Zenon
  <2>4. CASE n = 0
    BY <1>1, <2>3, <2>4 DEF Walk
  <2>5. CASE n # 0
    <3>1. n - 1 \in 0 .. MaxShards /\ n - 1 \in Nat /\ n \in Nat /\ n - 1 < n
      BY <2>3, <2>5, Constants
    <3>2. n - 1 \notin T
      BY <2>2, <3>1, Zenon DEF OpToRel
    <3>3. f[n - 1] = g(n - 1)
      BY <3>1, <3>2, Zenon
    <3>4. f[n] = IF f[n - 1] = 0 THEN 0 ELSE next[f[n - 1]]
      BY <2>3, <2>5, Zenon DEF Walk
    <3>5. CASE n <= head
      <4>1. f[n - 1] = head - (n - 1) /\ head - (n - 1) \in 1 .. built
        BY <1>1, <3>1, <3>3, <3>5
      <4>2. f[n] = head - (n - 1) - 1
        BY <1>1, <3>4, <4>1
      <4> QED BY <1>1, <2>3, <3>1, <3>5, <4>2
    <3>6. CASE ~(n <= head)
      <4>1. f[n - 1] = 0
        BY <1>1, <3>1, <3>3, <3>6
      <4> QED BY <2>3, <3>4, <3>6, <4>1, Zenon
    <3> QED BY <3>5, <3>6, Zenon
  <2> QED BY <2>4, <2>5, Zenon
<1> QED BY <1>2, Zenon

(* It meets every linked shard.                                            *)
LEMMA LinkedIs ==
  ASSUME HostedInv
  PROVE  Linked = 1 .. head
<1> DEFINE g == [n \in 0 .. MaxShards |-> IF n <= head THEN head - n ELSE 0]
<1>1. head \in Nat /\ built \in Nat /\ head <= built /\ built <= MaxShards /\ \A s \in 1 .. built : next[s] = s - 1
  <2>1. built \in 0 .. MaxShards /\ head \in 0 .. built
    BY Zenon DEF HostedInv, TypeOK
  <2> QED BY <2>1, Constants DEF HostedInv, CreationInv
<1>2. Walk(g)
  <2>1. ASSUME NEW n \in 0 .. MaxShards
        PROVE  g[n] = IF n = 0 THEN head ELSE IF g[n - 1] = 0 THEN 0 ELSE next[g[n - 1]]
    <3>1. CASE n = 0
      BY <1>1, <3>1
    <3>2. CASE n # 0
      <4>1. n \in Nat /\ n - 1 \in 0 .. MaxShards /\ g[n - 1] = IF n - 1 <= head THEN head - (n - 1) ELSE 0
        BY <3>2, Constants
      <4>2. CASE n <= head
        <5>1. head - (n - 1) \in 1 .. built /\ g[n - 1] = head - (n - 1)
          BY <1>1, <3>2, <4>1, <4>2
        <5>2. next[g[n - 1]] = head - (n - 1) - 1
          BY <1>1, <5>1
        <5> QED BY <1>1, <3>2, <4>1, <4>2, <5>1, <5>2
      <4>3. CASE ~(n <= head)
        <5>1. g[n - 1] = 0
          BY <1>1, <4>1, <4>3
        <5> QED BY <3>2, <4>3, <5>1, Zenon
      <4> QED BY <4>2, <4>3, Zenon
    <3> QED BY <3>1, <3>2, Zenon
  <2> HIDE DEF g
  <2>2. g = [n \in 0 .. MaxShards |-> g[n]]
    BY Zenon DEF g
  <2> QED BY <2>1, <2>2, Zenon DEF Walk
<1> HIDE DEF g
<1>3. PICK f : Walk(f) /\ Linked = {f[n] : n \in 0 .. MaxShards} \ {0}
  BY <1>2, LinkedIsWalk, Zenon
<1>4. \A n \in 0 .. MaxShards : f[n] = IF n <= head THEN head - n ELSE 0
  BY <1>3, WalkIs, Zenon
<1>5. ASSUME NEW s \in Linked PROVE s \in 1 .. head
  <2>1. PICK n \in 0 .. MaxShards : s = f[n]
    BY <1>3, <1>5, Zenon
  <2>2. s # 0 /\ n \in Nat
    BY <1>3, <1>5, Constants
  <2> QED BY <1>1, <1>4, <2>1, <2>2
<1>6. ASSUME NEW s \in 1 .. head PROVE s \in Linked
  <2>1. head - s \in 0 .. MaxShards /\ head - s <= head /\ head - (head - s) = s /\ s # 0
    BY <1>1, Constants
  <2>2. f[head - s] = s
    BY <1>4, <2>1, Zenon
  <2> QED BY <1>3, <2>1, <2>2, Zenon
<1> QED BY <1>5, <1>6, Zenon

(* Nothing is lost in creating shards: all are linked or about to be,      *)
(* shard_count counts the linked ones, and System has handed out one       *)
(* allocation of each kind for each of them (create_and_link_shard).       *)
THEOREM ShardsAreAccountedFor == Spec => []ShardsAccountedFor
<1>1. ASSUME HostedInv PROVE ShardsAccountedFor
  <2>1. Linked = 1 .. head /\ shards = head /\ head \in Nat /\ built \in Nat
    <3>1. built \in 0 .. MaxShards /\ head \in 0 .. built
      BY <1>1, Zenon DEF HostedInv, TypeOK
    <3> QED BY <1>1, <3>1, LinkedIs, Constants DEF HostedInv, CreationInv
  <2>2. shards = Cardinality(Linked)
    BY <2>1, FS_Interval
  <2>3. Linked = 1 .. built \ {loc[t].shard : t \in {u \in Threads : pc[u] = "link"}}
    <3>1. CASE \E t \in Threads : pc[t] = "link"
      <4>1. PICK t \in Threads : pc[t] = "link"
        BY <3>1, Zenon
      <4>2. head = built - 1 /\ \A u \in Threads : pc[u] = "link" => u = t /\ loc[u].shard = built
        BY <1>1, <4>1, CreationFacts, Zenon DEF Creating
      <4>3. {loc[u].shard : u \in {v \in Threads : pc[v] = "link"}} = {built}
        BY <4>1, <4>2, Zenon
      <4>4. 1 .. built - 1 = 1 .. built \ {built}
        BY <2>1
      <4> QED BY <2>1, <4>2, <4>3, <4>4, Zenon
    <3>2. CASE \A t \in Threads : pc[t] # "link"
      <4>1. head = built
        <5>1. CASE creator = Nobody
          BY <1>1, <5>1, Zenon DEF HostedInv, CreationInv
        <5>2. CASE creator # Nobody
          <6>1. creator \in Threads
            BY <1>1, <5>2, Zenon DEF HostedInv, TypeOK
          <6>2. pc[creator] = "build"
            BY <1>1, <3>2, <6>1, CreationFacts, Zenon DEF Creating
          <6> QED BY <1>1, <6>1, <6>2, CreationFacts, Zenon
        <5> QED BY <5>1, <5>2, Zenon
      <4>2. {loc[u].shard : u \in {v \in Threads : pc[v] = "link"}} = {}
        BY <3>2, Zenon
      <4> QED BY <2>1, <4>1, <4>2, Zenon
    <3> QED BY <3>1, <3>2, Zenon
  <2>4. ASSUME NEW p \in Parts PROVE parts[p] = shards + Cardinality({t \in Threads : held[t] >= p})
    <3>1. p \in Nat /\ p >= 1
      BY DEF Parts
    <3>2. CASE creator # Nobody /\ held[creator] >= p
      <4>1. creator \in Threads
        BY <1>1, <3>2, Zenon DEF HostedInv, TypeOK
      <4>2. parts[p] = shards + 1 /\ \A u \in Threads : u # creator => held[u] = 0
        BY <1>1, <3>2, <4>1, CreationFacts, Zenon
      <4>3. {t \in Threads : held[t] >= p} = {creator}
        BY <3>1, <3>2, <4>1, <4>2
      <4> QED BY <4>2, <4>3, FS_Singleton, Zenon
    <3>3. CASE ~(creator # Nobody /\ held[creator] >= p)
      <4>1. parts[p] = shards + 0
        BY <1>1, <3>3 DEF HostedInv, CreationInv
      <4>2. ASSUME NEW u \in Threads PROVE ~(held[u] >= p)
        <5>1. u # creator => held[u] = 0
          BY <1>1, CreationFacts, Zenon DEF HostedInv, CreationInv
        <5> QED BY <3>1, <3>3, <5>1, Constants, SMTT(20)
      <4>3. {t \in Threads : held[t] >= p} = {}
        BY <4>2, Zenon
      <4> QED BY <4>1, <4>3, FS_EmptySet, Zenon
    <3> QED BY <3>2, <3>3, Zenon
  <2> QED BY <2>2, <2>3, <2>4, Zenon DEF ShardsAccountedFor
<1> QED BY <1>1, HostedInvariant, PTL
=============================================================================
