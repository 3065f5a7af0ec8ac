------------------------- MODULE SpmcSpanListProofs -------------------------
(* Proofs about SpmcSpanList, for every number of threads, spans and pops  *)
(* and for both CAS2 backends: until a popper loads the wrong span, which  *)
(* takes another pop of the same list between its CAS2 and that load, the  *)
(* nodes implement one queue of spans per thread.                          *)
EXTENDS SpmcSpanList, FiniteSetTheorems, TLAPS

(* What is assumed of the constants.                                       *)
LEMMA Constants == /\ NULL \notin Nodes /\ NULL \notin Threads /\ NULL \notin Spans
                   /\ MaxVersion \in Nat /\ Threads \cap Spans = {}
                   /\ IsFiniteSet(Nodes)
<1>1. IsFiniteSet(Nodes)
  BY ListAssumption, FS_Union, Zenon DEF Nodes
<1> QED BY <1>1, ListAssumption, Zenon DEF Nodes

-----------------------------------------------------------------------------
(* f follows the links from first on.                                      *)
Walk(f, first, link) ==
  f = [k \in 0 .. Cardinality(Nodes) |-> IF k = 0 THEN <<first>> ELSE Extend(f[k - 1], link)]

(* If such an f exists then ChainFrom is its last value for one of them.   *)
LEMMA ChainIsWalk ==
  ASSUME NEW first, NEW link, NEW f, Walk(f, first, link)
  PROVE  \E g : Walk(g, first, link) /\ ChainFrom(first, link) = g[Cardinality(Nodes)]
  BY Zenon DEF Walk, ChainFrom

(* A set of numbers that is not empty has a least element.                 *)
LEMMA Least ==
  ASSUME NEW T \in SUBSET Nat, T # {}
  PROVE  \E k \in T : \A j \in T : ~(j < k)
<1>1. PICK k \in T : \A j \in T : ~(<<j, k>> \in OpToRel(<, Nat))
  BY NatLessThanWellFounded, WFMin, Zenon
<1> QED BY <1>1, Zenon DEF OpToRel

(* Two walks along the same links agree.                                   *)
LEMMA WalkUnique ==
  ASSUME NEW first, NEW link, NEW f, NEW g, Walk(f, first, link), Walk(g, first, link),
         Cardinality(Nodes) \in Nat
  PROVE  f = g
<1> DEFINE N == Cardinality(Nodes)
           T == {k \in 0 .. N : f[k] # g[k]}
<1>1. DOMAIN f = 0 .. N /\ DOMAIN g = 0 .. N /\ f = [k \in 0 .. N |-> f[k]] /\ g = [k \in 0 .. N |-> g[k]]
  BY Zenon DEF Walk
<1>2. /\ \A k \in 0 .. N : k = 0 => f[k] = <<first>> /\ g[k] = <<first>>
  BY Zenon DEF Walk
<1>3. ASSUME NEW k \in 0 .. N, k # 0, f[k - 1] = g[k - 1] PROVE f[k] = g[k]
  BY <1>3, Zenon DEF Walk
<1>4. ASSUME T # {} PROVE FALSE
  <2>1. T \in SUBSET Nat
    OBVIOUS
  <2>2. PICK k \in T : \A j \in T : ~(j < k)
    BY <1>4, <2>1, Least, Zenon
  <2>3. k \in 0 .. N /\ k # 0 /\ k - 1 \in 0 .. N /\ k - 1 < k
    BY <1>2, <2>2
  <2>4. f[k - 1] = g[k - 1]
    BY <2>2, <2>3, Zenon
  <2> QED BY <1>3, <2>2, <2>3, <2>4, Zenon
<1>5. \A k \in 0 .. N : f[k] = g[k]
  BY <1>4, Zenon
<1> QED BY <1>1, <1>5, Zenon

(* The chain is what the links say.                                        *)
LEMMA ChainIs ==
  ASSUME NEW c, NEW first, NEW last, NEW link, Linked(c, first, last, link), IsInjective(c)
  PROVE  ChainFrom(first, link) = c
<1> DEFINE N == Cardinality(Nodes)
           upto(k) == IF k < Len(c) THEN k + 1 ELSE Len(c)
           w == [k \in 0 .. N |-> [i \in 1 .. upto(k) |-> c[i]]]
<1>1. /\ c \in Seq(Nodes) /\ Len(c) \in Nat \ {0} /\ c \in [1 .. Len(c) -> Nodes]
      /\ c[1] = first /\ link[c[Len(c)]] = NULL
      /\ \A i \in 1 .. Len(c) - 1 : link[c[i]] = c[i + 1]
  BY DEF Linked
<1>2. N \in Nat /\ Len(c) <= N
  <2>1. c \in Injection(1 .. Len(c), Nodes)
    BY <1>1, Zenon DEF IsInjective, Injection
  <2>2. Cardinality(1 .. Len(c)) = Len(c)
    BY <1>1, FS_Interval
  <2>3. N \in Nat
    BY Constants, FS_CardinalityType, Zenon
  <2> QED BY <2>1, <2>2, <2>3, Constants, FS_Injection
<1>3. \A k \in 0 .. N : upto(k) \in 1 .. Len(c)
  BY <1>1, <1>2
<1>4. ASSUME NEW k \in 0 .. N
      PROVE  w[k] \in Seq(Nodes) /\ Len(w[k]) = upto(k) /\ w[k] = [i \in 1 .. upto(k) |-> c[i]]
  BY <1>1, <1>3
<1>5. ASSUME NEW k \in 0 .. N, k # 0 PROVE w[k] = Extend(w[k - 1], link)
  <2> DEFINE v == w[k - 1]
  <2>1. k - 1 \in 0 .. N
    BY <1>2, <1>5
  <2>2. v \in Seq(Nodes) /\ Len(v) = upto(k - 1) /\ v = [i \in 1 .. upto(k - 1) |-> c[i]]
    BY <1>4, <2>1, Zenon
  <2>3. v[Len(v)] = c[upto(k - 1)]
    BY <1>3, <2>1, <2>2
  <2> HIDE DEF v, w
  <2>0. Len(c) \in Nat \ {0} /\ k \in Nat \ {0}
    BY <1>1, <1>2, <1>5
  <2>4. CASE k < Len(c)
    <3>1. upto(k - 1) = k /\ upto(k) = k + 1 /\ k \in 1 .. Len(c) - 1 /\ k + 1 \in 1 .. Len(c)
      BY <2>0, <2>4
    <3>2. link[v[Len(v)]] = c[k + 1] /\ c[k + 1] \in Nodes /\ c[k + 1] # NULL
      BY <1>1, <2>3, <3>1, Constants, Zenon
    <3>3. Extend(v, link) = Append(v, c[k + 1])
      BY <3>2, Zenon DEF Extend
    <3>4. Append(v, c[k + 1]) = [i \in 1 .. k + 1 |-> c[i]]
      BY <2>2, <3>1, <3>2
    <3> QED BY <1>4, <3>1, <3>3, <3>4, Zenon DEF v
  <2>5. CASE ~(k < Len(c))
    <3>1. upto(k - 1) = Len(c) /\ upto(k) = Len(c)
      BY <2>0, <2>5
    <3>2. Extend(v, link) = v
      BY <1>1, <2>3, <3>1, Zenon DEF Extend
    <3> QED BY <1>4, <2>1, <3>1, <3>2, Zenon DEF v
  <2> QED BY <2>4, <2>5, Zenon
<1>6. w[0] = <<first>>
  <2>1. upto(0) = 1 /\ 0 \in 0 .. N
    BY <1>1, <1>2
  <2> QED BY <1>1, <1>4, <2>1
<1>7. Walk(w, first, link)
  BY <1>5, <1>6, Zenon DEF Walk
<1>8. w[N] = c
  <2>1. upto(N) = Len(c) /\ N \in 0 .. N
    BY <1>1, <1>2
  <2> QED BY <1>1, <1>4, <2>1
<1> HIDE DEF w
<1>9. PICK g : Walk(g, first, link) /\ ChainFrom(first, link) = g[N]
  BY <1>7, ChainIsWalk, Zenon
<1>10. g = w
  BY <1>2, <1>7, <1>9, WalkUnique, Zenon
<1> QED BY <1>8, <1>9, <1>10, Zenon

-----------------------------------------------------------------------------
(* A chain that gets one more node, ...                                    *)
LEMMA ChainAppend ==
  ASSUME NEW c, NEW first, NEW last, NEW link, NEW link2, NEW n \in Nodes,
         Linked(c, first, last, link), IsInjective(c), n \notin Range(c),
         link2[last] = n, link2[n] = NULL, \A m \in Range(c) : m # last => link2[m] = link[m]
  PROVE  /\ Linked(Append(c, n), first, n, link2) /\ IsInjective(Append(c, n))
         /\ Range(Append(c, n)) = Range(c) \cup {n}
<1> DEFINE d == Append(c, n)
           m == Len(c)
<1>1. /\ c \in Seq(Nodes) /\ m \in Nat \ {0} /\ c \in [1 .. m -> Nodes] /\ DOMAIN c = 1 .. m
      /\ c[1] = first /\ c[m] = last
      /\ \A i \in 1 .. m - 1 : link[c[i]] = c[i + 1]
      /\ \A i, j \in 1 .. m : c[i] = c[j] => i = j
      /\ \A i \in 1 .. m : c[i] # n /\ c[i] \in Range(c)
  BY DEF Linked, IsInjective, Range
<1>2. /\ d \in Seq(Nodes) /\ Len(d) = m + 1 /\ DOMAIN d = 1 .. m + 1 /\ d[m + 1] = n
      /\ \A i \in 1 .. m : d[i] = c[i]
  BY <1>1
<1> HIDE DEF d, m
<1>3. 1 \in 1 .. m /\ m \in 1 .. m /\ m + 1 \in 1 .. m + 1 /\ d # <<>>
  BY <1>1, <1>2
<1>4. ASSUME NEW i \in 1 .. m PROVE link2[d[i]] = d[i + 1]
  <2>1. CASE i = m
    BY <1>1, <1>2, <1>3, <2>1, Zenon
  <2>2. CASE i # m
    <3>1. i \in 1 .. m - 1 /\ i + 1 \in 1 .. m
      BY <1>1, <2>2
    <3>2. c[i] # last
      BY <1>1, <1>3, <2>2, Zenon
    <3> QED BY <1>1, <1>2, <3>1, <3>2
  <2> QED BY <2>1, <2>2, Zenon
<1>5. Linked(d, first, n, link2)
  <2>1. d[1] = first /\ d[Len(d)] = n
    BY <1>1, <1>2, <1>3, Zenon
  <2>2. 1 .. Len(d) - 1 = 1 .. m
    BY <1>1, <1>2
  <2> QED BY <1>2, <1>3, <1>4, <2>1, <2>2, Zenon DEF Linked
<1>6. \A i \in 1 .. m + 1 : i = m + 1 \/ i \in 1 .. m
  BY <1>1
<1>7. IsInjective(d)
  BY <1>1, <1>2, <1>6 DEF IsInjective
<1>8. Range(d) = Range(c) \cup {n}
  BY <1>1, <1>2, <1>3, <1>6 DEF Range
<1> QED BY <1>5, <1>7, <1>8, Zenon DEF d

(* ... loses its first one, ...                                            *)
LEMMA ChainTail ==
  ASSUME NEW c, NEW first, NEW last, NEW link, Linked(c, first, last, link), IsInjective(c),
         link[first] # NULL
  PROVE  /\ Len(c) >= 2 /\ c[2] = link[first] /\ c[2] \in Range(c)
         /\ Linked(Tail(c), c[2], last, link) /\ IsInjective(Tail(c))
         /\ first \in Range(c) /\ Range(Tail(c)) = Range(c) \ {first}
<1> DEFINE d == Tail(c)
           m == Len(c)
<1>1. /\ c \in Seq(Nodes) /\ m \in Nat \ {0} /\ c \in [1 .. m -> Nodes] /\ DOMAIN c = 1 .. m
      /\ c[1] = first /\ c[m] = last /\ link[last] = NULL
      /\ \A i \in 1 .. m - 1 : link[c[i]] = c[i + 1]
      /\ \A i, j \in 1 .. m : c[i] = c[j] => i = j
  BY DEF Linked, IsInjective
<1>2. m # 1
  BY <1>1, Zenon
<1>3. /\ d \in Seq(Nodes) /\ Len(d) = m - 1 /\ DOMAIN d = 1 .. m - 1
      /\ \A i \in 1 .. m - 1 : d[i] = c[i + 1]
  BY <1>1
<1> HIDE DEF d, m
<1>4. /\ m >= 2 /\ 1 \in 1 .. m - 1 /\ m - 1 \in 1 .. m - 1 /\ 1 + 1 = 2 /\ (m - 1) + 1 = m /\ 1 \in 1 .. m
      /\ 2 \in 1 .. m
  BY <1>1, <1>2
<1>5. \A i \in 1 .. m - 1 : i + 1 \in 1 .. m /\ i \in 1 .. m /\ i + 1 # 1
  BY <1>1
<1>6. Linked(d, c[2], last, link)
  <2>1. d # <<>> /\ d[1] = c[2] /\ d[Len(d)] = last
    BY <1>1, <1>3, <1>4
  <2>2. ASSUME NEW i \in 1 .. Len(d) - 1 PROVE link[d[i]] = d[i + 1]
    <3>1. i \in 1 .. m - 1 /\ i + 1 \in 1 .. m - 1 /\ i + 1 + 1 \in 1 .. m
      BY <1>1, <1>3
    <3> QED BY <1>1, <1>3, <3>1
  <2> QED BY <1>1, <1>3, <2>1, <2>2, Zenon DEF Linked
<1>7. IsInjective(d)
  <2> SUFFICES ASSUME NEW i \in 1 .. m - 1, NEW j \in 1 .. m - 1, d[i] = d[j] PROVE i = j
    BY <1>3, Zenon DEF IsInjective
  <2>1. i + 1 = j + 1
    BY <1>1, <1>3, <1>5
  <2> QED BY <2>1
<1>8. Range(d) = Range(c) \ {first}
  <2>1. ASSUME NEW i \in 1 .. m - 1 PROVE d[i] \in Range(c) \ {first}
    BY <1>1, <1>3, <1>4, <1>5 DEF Range
  <2>2. ASSUME NEW i \in 1 .. m, c[i] # first PROVE c[i] \in Range(d)
    <3>1. i - 1 \in 1 .. m - 1 /\ (i - 1) + 1 = i
      BY <1>1, <2>2
    <3> QED BY <1>3, <3>1, Zenon DEF Range
  <2> QED BY <1>1, <1>3, <2>1, <2>2 DEF Range
<1> QED BY <1>1, <1>4, <1>6, <1>7, <1>8, Zenon DEF d, m, Range

(* ... or is left alone.                                                   *)
LEMMA ChainSame ==
  ASSUME NEW c, NEW first, NEW last, NEW link, NEW link2, Linked(c, first, last, link),
         \A n \in Range(c) : link2[n] = link[n]
  PROVE  Linked(c, first, last, link2)
<1>1. Len(c) \in Nat \ {0} /\ DOMAIN c = 1 .. Len(c) /\ \A i \in 1 .. Len(c) : c[i] \in Range(c)
  BY DEF Linked, Range
<1>2. 1 \in 1 .. Len(c) /\ Len(c) \in 1 .. Len(c) /\ \A i \in 1 .. Len(c) - 1 : i \in 1 .. Len(c)
  BY <1>1
<1> QED BY <1>1, <1>2, Zenon DEF Linked

(* The spans of a chain that gets one more node, ...                       *)
LEMMA CarriesAppend ==
  ASSUME NEW c \in Seq(Nodes), c # <<>>, NEW sp, NEW n \in Nodes,
         Carries(c, sp) \in Seq(Spans), IsInjective(Carries(c, sp)),
         sp[n] \in Spans, sp[n] \notin Range(Carries(c, sp))
  PROVE  /\ Carries(Append(c, n), sp) = Append(Carries(c, sp), sp[n])
         /\ Carries(Append(c, n), sp) \in Seq(Spans)
         /\ IsInjective(Carries(Append(c, n), sp))
         /\ Range(Carries(Append(c, n), sp)) = Range(Carries(c, sp)) \cup {sp[n]}
<1> DEFINE q == Carries(c, sp)
           x == Append(q, sp[n])
           d == Append(c, n)
           m == Len(c)
<1>1. /\ m \in Nat \ {0} /\ Len(d) = m + 1 /\ d[m + 1] = n /\ \A i \in 1 .. m : d[i] = c[i]
  OBVIOUS
<1>2. /\ Len(q) = m - 1 /\ DOMAIN q = 1 .. m - 1 /\ \A i \in 1 .. m - 1 : q[i] = sp[c[i + 1]]
  BY <1>1 DEF Carries
<1>3. q \in Seq(Spans) /\ sp[n] \in Spans /\ \A i, j \in 1 .. m - 1 : q[i] = q[j] => i = j
  BY <1>2, Zenon DEF IsInjective
<1> HIDE DEF d, m, q
<1>4. /\ x \in Seq(Spans) /\ Len(x) = m /\ DOMAIN x = 1 .. m /\ x[m] = sp[n]
      /\ \A i \in 1 .. m - 1 : x[i] = q[i]
  BY <1>1, <1>2, <1>3
<1> HIDE DEF x
<1>5. \A i \in 1 .. m : i = m \/ i \in 1 .. m - 1
  BY <1>1
<1>6. \A i \in 1 .. m : x[i] = sp[d[i + 1]]
  <2> SUFFICES ASSUME NEW i \in 1 .. m PROVE x[i] = sp[d[i + 1]]
    BY Zenon
  <2>1. CASE i = m
    BY <1>1, <1>4, <2>1, Zenon
  <2>2. CASE i \in 1 .. m - 1
    <3>1. i + 1 \in 1 .. m
      BY <1>1, <2>2
    <3> QED BY <1>1, <1>2, <1>4, <2>2, <3>1, Zenon
  <2> QED BY <1>5, <2>1, <2>2, Zenon
<1>7. x = [i \in 1 .. m |-> x[i]]
  BY <1>4
<1>8. Carries(d, sp) = x
  <2>1. 1 .. Len(d) - 1 = 1 .. m
    BY <1>1
  <2> QED BY <1>6, <1>7, <2>1, Zenon DEF Carries
<1>9. \A i \in 1 .. m - 1 : q[i] # sp[n]
  BY <1>2, Zenon DEF Range, q
<1>10. IsInjective(x)
  BY <1>3, <1>4, <1>5, <1>9 DEF IsInjective
<1>11. Range(x) = Range(q) \cup {sp[n]}
  <2>1. m \in 1 .. m /\ \A i \in 1 .. m - 1 : i \in 1 .. m
    BY <1>1
  <2> QED BY <1>2, <1>4, <1>5, <2>1 DEF Range
<1> QED BY <1>4, <1>8, <1>10, <1>11, Zenon DEF d, x, q

(* ... loses its first one, ...                                            *)
LEMMA CarriesTail ==
  ASSUME NEW c \in Seq(Nodes), Len(c) >= 2, NEW sp,
         Carries(c, sp) \in Seq(Spans), IsInjective(Carries(c, sp))
  PROVE  /\ Carries(Tail(c), sp) = Tail(Carries(c, sp)) /\ Carries(Tail(c), sp) \in Seq(Spans)
         /\ Carries(c, sp) # <<>> /\ Head(Carries(c, sp)) = sp[c[2]]
         /\ sp[c[2]] \in Spans /\ sp[c[2]] \in Range(Carries(c, sp))
         /\ IsInjective(Carries(Tail(c), sp))
         /\ Range(Carries(Tail(c), sp)) = Range(Carries(c, sp)) \ {sp[c[2]]}
<1> DEFINE q == Carries(c, sp)
           x == Tail(q)
           d == Tail(c)
           m == Len(c)
<1>1. /\ m \in Nat /\ m >= 2 /\ Len(d) = m - 1 /\ \A i \in 1 .. m - 1 : d[i] = c[i + 1]
  OBVIOUS
<1>2. /\ Len(q) = m - 1 /\ DOMAIN q = 1 .. m - 1 /\ \A i \in 1 .. m - 1 : q[i] = sp[c[i + 1]]
  BY <1>1 DEF Carries
<1>3. q \in Seq(Spans) /\ \A i, j \in 1 .. m - 1 : q[i] = q[j] => i = j
  BY <1>2, Zenon DEF IsInjective
<1> HIDE DEF d, m, q
<1>4. 1 \in 1 .. m - 1 /\ 1 + 1 = 2 /\ \A i \in 1 .. m - 2 : i + 1 \in 1 .. m - 1 /\ i \in 1 .. m - 1 /\ i + 1 # 1
  BY <1>1
<1>5. /\ q # <<>> /\ Head(q) = sp[c[2]] /\ q[1] = sp[c[2]] /\ q[1] \in Spans
      /\ x \in Seq(Spans) /\ Len(x) = m - 2 /\ DOMAIN x = 1 .. m - 2
      /\ \A i \in 1 .. m - 2 : x[i] = q[i + 1]
  BY <1>1, <1>2, <1>3, <1>4
<1> HIDE DEF x
<1>6. ASSUME NEW i \in 1 .. m - 2 PROVE x[i] = sp[d[i + 1]]
  <2>1. i + 1 \in 1 .. m - 1 /\ i + 1 + 1 \in 1 .. m
    BY <1>1
  <2> QED BY <1>1, <1>2, <1>5, <2>1, Zenon
<1>7. x = [i \in 1 .. m - 2 |-> x[i]]
  BY <1>5
<1>8. Carries(d, sp) = x
  <2>1. 1 .. Len(d) - 1 = 1 .. m - 2
    BY <1>1
  <2> QED BY <1>6, <1>7, <2>1, Zenon DEF Carries
<1>9. IsInjective(x)
  <2> SUFFICES ASSUME NEW i \in 1 .. m - 2, NEW j \in 1 .. m - 2, x[i] = x[j] PROVE i = j
    BY <1>5, Zenon DEF IsInjective
  <2>1. i + 1 \in 1 .. m - 1 /\ j + 1 \in 1 .. m - 1
    BY <1>1
  <2>2. q[i + 1] = q[j + 1]
    BY <1>5, Zenon
  <2>3. i + 1 = j + 1
    BY <1>3, <2>1, <2>2, Zenon
  <2> QED BY <2>3
<1>10. Range(x) = Range(q) \ {q[1]}
  <2>1. ASSUME NEW i \in 1 .. m - 2 PROVE x[i] \in Range(q) \ {q[1]}
    <3>1. i + 1 \in 1 .. m - 1 /\ i + 1 # 1
      BY <1>1
    <3>2. q[i + 1] # q[1]
      BY <1>3, <1>4, <3>1, Zenon
    <3> QED BY <1>2, <1>5, <3>1, <3>2, Zenon DEF Range
  <2>2. ASSUME NEW i \in 1 .. m - 1, q[i] # q[1] PROVE q[i] \in Range(x)
    <3>1. i - 1 \in 1 .. m - 2 /\ (i - 1) + 1 = i
      BY <1>1, <2>2
    <3> QED BY <1>5, <3>1, Zenon DEF Range
  <2> QED BY <1>2, <1>5, <2>1, <2>2 DEF Range
<1>11. q[1] \in Range(q)
  BY <1>2, <1>4, Zenon DEF Range
<1> QED BY <1>5, <1>8, <1>9, <1>10, <1>11, Zenon DEF d, x, q

(* ... or is left alone.                                                   *)
LEMMA CarriesSame ==
  ASSUME NEW c \in Seq(Nodes), NEW sp, NEW sp2, \A n \in Range(c) : sp2[n] = sp[n]
  PROVE  Carries(c, sp2) = Carries(c, sp)
<1>1. \A i \in 1 .. Len(c) - 1 : i + 1 \in 1 .. Len(c) /\ c[i + 1] \in Range(c)
  BY DEF Range
<1> QED BY <1>1, Zenon DEF Carries

-----------------------------------------------------------------------------
(* A thing is in one place only.                                           *)
LEMMA Apart ==
  ASSUME NEW things, NEW F, OnePlace(things, F), NEW x \in things,
         NEW p \in DOMAIN F, NEW q \in DOMAIN F, x \in F[p], x \in F[q]
  PROVE  p = q
  BY Zenon DEF OnePlace

(* Places that keep what they have, ...                                    *)
LEMMA Kept ==
  ASSUME NEW things, NEW F, NEW G, OnePlace(things, F), DOMAIN G = DOMAIN F,
         \A p \in DOMAIN F : G[p] = F[p]
  PROVE  OnePlace(things, G)
  BY DEF OnePlace

(* ... and a thing that goes from one to another.                          *)
LEMMA Moved ==
  ASSUME NEW things, NEW F, NEW G, OnePlace(things, F), DOMAIN G = DOMAIN F, NEW x \in things,
         NEW a \in DOMAIN F, NEW b \in DOMAIN F, a # b, x \in F[a],
         G[a] = F[a] \ {x}, G[b] = F[b] \cup {x}, \A p \in DOMAIN F : p # a /\ p # b => G[p] = F[p]
  PROVE  OnePlace(things, G)
<1> SUFFICES ASSUME NEW y \in things PROVE \E p \in DOMAIN F : \A q \in DOMAIN F : y \in G[q] <=> q = p
  BY DEF OnePlace
<1>1. PICK p \in DOMAIN F : \A q \in DOMAIN F : y \in F[q] <=> q = p
  BY Zenon DEF OnePlace
<1>2. CASE y = x
  <2>1. \A q \in DOMAIN F : y \in G[q] <=> q = b
    BY <1>1, <1>2, Zenon
  <2> QED BY <2>1, Zenon
<1>3. CASE y # x
  BY <1>1, <1>3, Zenon
<1> QED BY <1>2, <1>3, Zenon

-----------------------------------------------------------------------------
(* The places of nodes and of spans.                                       *)
LEMMA PlacesAre ==
  /\ DOMAIN NodesAt = Places /\ DOMAIN NodesAt' = Places
  /\ DOMAIN SpansAt = {"list", "hand"} \X Threads /\ DOMAIN SpansAt' = {"list", "hand"} \X Threads
  /\ \A t \in Threads : /\ <<"list", t>> \in Places /\ <<"hand", t>> \in Places
                        /\ <<"list", t>> \in {"list", "hand"} \X Threads
                        /\ <<"hand", t>> \in {"list", "hand"} \X Threads
  /\ \A s \in Spans : <<"span", s>> \in Places
  /\ \A p \in Places : \/ \E t \in Threads : p = <<"list", t>> \/ p = <<"hand", t>>
                       \/ \E s \in Spans : p = <<"span", s>>
  /\ \A p \in {"list", "hand"} \X Threads : \E t \in Threads : p = <<"list", t>> \/ p = <<"hand", t>>
BY DEF NodesAt, SpansAt, Places

(* What is in them ...                                                     *)
LEMMA PlaceHas ==
  /\ \A t \in Threads :
       /\ NodesAt[<<"list", t>>] = NodesIn(t) /\ NodesAt[<<"hand", t>>] = {NodeInHand(t)} \ {NULL}
       /\ SpansAt[<<"list", t>>] = SpansIn(t) /\ SpansAt[<<"hand", t>>] = InHands(t)
  /\ \A s \in Spans : NodesAt[<<"span", s>>] = {node[s]} \ {NULL}
<1>1. ASSUME NEW t \in Threads
      PROVE  NodesAt[<<"list", t>>] = NodesIn(t) /\ NodesAt[<<"hand", t>>] = {NodeInHand(t)} \ {NULL}
  BY PlacesAre, Zenon DEF NodesAt
<1>2. ASSUME NEW t \in Threads
      PROVE  SpansAt[<<"list", t>>] = SpansIn(t) /\ SpansAt[<<"hand", t>>] = InHands(t)
  BY PlacesAre, Zenon DEF SpansAt
<1>3. ASSUME NEW s \in Spans PROVE NodesAt[<<"span", s>>] = {node[s]} \ {NULL}
  BY PlacesAre, Zenon DEF NodesAt
<1> QED BY <1>1, <1>2, <1>3, Zenon

(* ... and after a step.                                                   *)
LEMMA PlaceHasNext ==
  /\ \A t \in Threads :
       /\ NodesAt'[<<"list", t>>] = NodesIn(t)' /\ NodesAt'[<<"hand", t>>] = {NodeInHand(t)'} \ {NULL}
       /\ SpansAt'[<<"list", t>>] = SpansIn(t)' /\ SpansAt'[<<"hand", t>>] = InHands(t)'
  /\ \A s \in Spans : NodesAt'[<<"span", s>>] = {node'[s]} \ {NULL}
<1>1. ASSUME NEW t \in Threads
      PROVE  NodesAt'[<<"list", t>>] = NodesIn(t)' /\ NodesAt'[<<"hand", t>>] = {NodeInHand(t)'} \ {NULL}
  BY PlacesAre, Zenon DEF NodesAt
<1>2. ASSUME NEW t \in Threads
      PROVE  SpansAt'[<<"list", t>>] = SpansIn(t)' /\ SpansAt'[<<"hand", t>>] = InHands(t)'
  BY PlacesAre, Zenon DEF SpansAt
<1>3. ASSUME NEW s \in Spans PROVE NodesAt'[<<"span", s>>] = {node'[s]} \ {NULL}
  BY PlacesAre, Zenon DEF NodesAt
<1> QED BY <1>1, <1>2, <1>3, Zenon

(* The ends of a list are in its chain, and its links lead along it.       *)
LEMMA ListEnds ==
  ASSUME ListInv, NEW l \in Threads
  PROVE  /\ Chain(l) \in Seq(Nodes) /\ NodesIn(l) \subseteq Nodes /\ SpansIn(l) \subseteq Spans
         /\ head[l].ptr \in NodesIn(l) /\ tail[l] \in NodesIn(l) /\ next[tail[l]] = NULL
         /\ Chain(l) # <<>>
<1> DEFINE c == Chain(l)
           q == QueueOf(l)
<1>1. /\ c \in Seq(Nodes) /\ c # <<>> /\ c[1] = head[l].ptr /\ c[Len(c)] = tail[l] /\ next[tail[l]] = NULL
      /\ q \in Seq(Spans)
  BY Zenon DEF ListInv, ListOK, Linked
<1> HIDE DEF c, q
<1>2. /\ Len(c) \in Nat \ {0} /\ DOMAIN c = 1 .. Len(c) /\ DOMAIN q = 1 .. Len(q)
      /\ 1 \in 1 .. Len(c) /\ Len(c) \in 1 .. Len(c)
  BY <1>1
<1>3. Range(c) \subseteq Nodes /\ Range(q) \subseteq Spans
  BY <1>1, <1>2 DEF Range
<1>4. c[1] \in Range(c) /\ c[Len(c)] \in Range(c)
  BY <1>2, Zenon DEF Range
<1> QED BY <1>1, <1>3, <1>4, Zenon DEF NodesIn, SpansIn, c, q

(* Nodes are in different places, ...                                      *)
LEMMA NodeFacts ==
  ASSUME SpmcInv
  PROVE  /\ \A t \in Threads : NodeInHand(t) \in Nodes \cup {NULL}
         /\ \A l, k \in Threads : l # k => NodesIn(l) \cap NodesIn(k) = {}
         /\ \A l, t \in Threads : NodeInHand(t) \notin NodesIn(l)
         /\ \A l \in Threads, s \in Spans : node[s] \notin NodesIn(l)
         /\ \A t, u \in Threads : t # u /\ NodeInHand(t) = NodeInHand(u) => NodeInHand(t) = NULL
         /\ \A t \in Threads, s \in Spans : NodeInHand(t) = node[s] => node[s] = NULL
<1>1. \A t \in Threads : NodeInHand(t) \in Nodes \cup {NULL}
  BY Zenon DEF NodeInHand, SpmcInv, CallInv, CallOK
<1>2. \A s \in Spans : node[s] \in Nodes \cup {NULL}
  BY Zenon DEF SpmcInv, TypeOK
<1>3. \A l \in Threads : NodesIn(l) \subseteq Nodes
  BY ListEnds, Zenon DEF SpmcInv
<1>4. ASSUME NEW n \in Nodes, NEW p \in Places, NEW q \in Places, n \in NodesAt[p], n \in NodesAt[q]
      PROVE  p = q
  BY <1>4, Apart, PlacesAre, Zenon DEF SpmcInv
<1>5. ASSUME NEW l \in Threads, NEW k \in Threads, l # k PROVE NodesIn(l) \cap NodesIn(k) = {}
  <2>1. <<"list", l>> # <<"list", k>>
    BY <1>5, Zenon
  <2>2. /\ <<"list", l>> \in Places /\ <<"list", k>> \in Places
        /\ NodesAt[<<"list", l>>] = NodesIn(l) /\ NodesAt[<<"list", k>>] = NodesIn(k)
    BY PlacesAre, PlaceHas, Zenon
  <2> QED BY <1>3, <1>4, <2>1, <2>2
<1>6. ASSUME NEW l \in Threads, NEW t \in Threads PROVE NodeInHand(t) \notin NodesIn(l)
  <2>1. <<"list", l>> # <<"hand", t>>
    BY Zenon
  <2>2. /\ <<"list", l>> \in Places /\ <<"hand", t>> \in Places
        /\ NodesAt[<<"list", l>>] = NodesIn(l) /\ NodesAt[<<"hand", t>>] = {NodeInHand(t)} \ {NULL}
    BY PlacesAre, PlaceHas, Zenon
  <2> QED BY <1>1, <1>3, <1>4, <2>1, <2>2, Constants
<1>7. ASSUME NEW l \in Threads, NEW s \in Spans PROVE node[s] \notin NodesIn(l)
  <2>1. <<"list", l>> # <<"span", s>>
    BY Zenon
  <2>2. /\ <<"list", l>> \in Places /\ <<"span", s>> \in Places
        /\ NodesAt[<<"list", l>>] = NodesIn(l) /\ NodesAt[<<"span", s>>] = {node[s]} \ {NULL}
    BY PlacesAre, PlaceHas, Zenon
  <2> QED BY <1>2, <1>3, <1>4, <2>1, <2>2, Constants
<1>8. ASSUME NEW t \in Threads, NEW u \in Threads, t # u, NodeInHand(t) = NodeInHand(u), NodeInHand(t) # NULL
      PROVE  FALSE
  <2>1. <<"hand", t>> # <<"hand", u>>
    BY <1>8, Zenon
  <2>2. <<"hand", t>> \in Places /\ <<"hand", u>> \in Places
    BY PlacesAre, Zenon
  <2>3. NodeInHand(t) \in Nodes /\ NodeInHand(t) \in NodesAt[<<"hand", t>>] /\ NodeInHand(t) \in NodesAt[<<"hand", u>>]
    <3>1. NodesAt[<<"hand", t>>] = {NodeInHand(t)} \ {NULL} /\ NodesAt[<<"hand", u>>] = {NodeInHand(u)} \ {NULL}
      BY PlaceHas, Zenon
    <3> QED BY <1>1, <1>8, <3>1, Zenon
  <2> QED BY <1>4, <2>1, <2>2, <2>3, Zenon
<1>9. ASSUME NEW t \in Threads, NEW s \in Spans, NodeInHand(t) = node[s], node[s] # NULL
      PROVE  FALSE
  <2>1. <<"hand", t>> # <<"span", s>>
    BY Zenon
  <2>2. <<"hand", t>> \in Places /\ <<"span", s>> \in Places
    BY PlacesAre, Zenon
  <2>3. node[s] \in Nodes /\ node[s] \in NodesAt[<<"hand", t>>] /\ node[s] \in NodesAt[<<"span", s>>]
    <3>1. NodesAt[<<"hand", t>>] = {NodeInHand(t)} \ {NULL} /\ NodesAt[<<"span", s>>] = {node[s]} \ {NULL}
      BY PlaceHas, Zenon
    <3> QED BY <1>2, <1>9, <3>1, Zenon
  <2> QED BY <1>4, <2>1, <2>2, <2>3, Zenon
<1> QED BY <1>1, <1>5, <1>6, <1>7, <1>8, <1>9, Zenon

(* ... and so are spans.                                                   *)
LEMMA SpanFacts ==
  ASSUME SpmcInv
  PROVE  /\ \A t \in Threads : InHands(t) \subseteq Spans /\ holds[t] \subseteq InHands(t)
         /\ \A t, u \in Threads : t # u => InHands(t) \cap InHands(u) = {}
         /\ \A t, l \in Threads : InHands(t) \cap SpansIn(l) = {}
<1>1. \A t \in Threads : InHands(t) \subseteq Spans /\ holds[t] \subseteq InHands(t)
  BY Zenon DEF InHands, SpmcInv, TypeOK, CallInv, CallOK
<1>2. ASSUME NEW s \in Spans, NEW p \in {"list", "hand"} \X Threads, NEW q \in {"list", "hand"} \X Threads,
             s \in SpansAt[p], s \in SpansAt[q]
      PROVE  p = q
  BY <1>2, Apart, PlacesAre DEF SpmcInv
<1>3. ASSUME NEW t \in Threads, NEW u \in Threads, t # u PROVE InHands(t) \cap InHands(u) = {}
  <2>1. <<"hand", t>> # <<"hand", u>>
    BY <1>3, Zenon
  <2>2. /\ <<"hand", t>> \in {"list", "hand"} \X Threads /\ <<"hand", u>> \in {"list", "hand"} \X Threads
        /\ SpansAt[<<"hand", t>>] = InHands(t) /\ SpansAt[<<"hand", u>>] = InHands(u)
    BY PlacesAre, PlaceHas, Zenon
  <2> QED BY <1>1, <1>2, <2>1, <2>2
<1>4. ASSUME NEW t \in Threads, NEW l \in Threads PROVE InHands(t) \cap SpansIn(l) = {}
  <2>1. <<"hand", t>> # <<"list", l>>
    BY Zenon
  <2>2. /\ <<"hand", t>> \in {"list", "hand"} \X Threads /\ <<"list", l>> \in {"list", "hand"} \X Threads
        /\ SpansAt[<<"hand", t>>] = InHands(t) /\ SpansAt[<<"list", l>>] = SpansIn(l)
    BY PlacesAre, PlaceHas, Zenon
  <2> QED BY <1>1, <1>2, <2>1, <2>2
<1> QED BY <1>1, <1>3, <1>4, Zenon

(* A list whose ends, links and spans a step leaves alone.                 *)
LEMMA ListKept ==
  ASSUME ListInv, NEW l \in Threads, head'[l] = head[l], tail'[l] = tail[l],
         \A n \in NodesIn(l) : next'[n] = next[n] /\ span'[n] = span[n]
  PROVE  /\ ListOK(l)' /\ QueueOf(l)' = QueueOf(l)
         /\ NodesIn(l)' = NodesIn(l) /\ SpansIn(l)' = SpansIn(l)
<1> DEFINE c == Chain(l)
<1>1. /\ Linked(c, head[l].ptr, tail[l], next) /\ IsInjective(c) /\ c \in Seq(Nodes)
      /\ IsInjective(QueueOf(l)) /\ QueueOf(l) \in Seq(Spans)
  BY Zenon DEF ListInv, ListOK, Linked
<1>2. \A n \in Range(c) : next'[n] = next[n] /\ span'[n] = span[n]
  BY Zenon DEF NodesIn
<1> HIDE DEF c
<1>3. Linked(c, head[l].ptr, tail[l], next')
  BY <1>1, <1>2, ChainSame, Zenon
<1>4. ChainFrom(head[l].ptr, next') = c
  BY <1>1, <1>3, ChainIs, Zenon
<1>5. Chain(l)' = c
  BY <1>4, Zenon DEF Chain
<1>6. Carries(c, span') = Carries(c, span)
  BY <1>1, <1>2, CarriesSame, Zenon
<1>7. QueueOf(l)' = QueueOf(l)
  BY <1>5, <1>6, Zenon DEF QueueOf, c
<1> QED BY <1>1, <1>3, <1>5, <1>7, Zenon DEF ListOK, NodesIn, SpansIn, c

(* A step that moves no node, ...                                          *)
LEMMA NodesStay ==
  ASSUME OnePlace(Nodes, NodesAt), UNCHANGED node,
         \A t \in Threads : NodesIn(t)' = NodesIn(t) /\ NodeInHand(t)' = NodeInHand(t)
  PROVE  OnePlace(Nodes, NodesAt')
<1>1. ASSUME NEW t \in Threads
      PROVE  NodesAt'[<<"list", t>>] = NodesAt[<<"list", t>>] /\ NodesAt'[<<"hand", t>>] = NodesAt[<<"hand", t>>]
  <2>1. NodesAt'[<<"list", t>>] = NodesIn(t)' /\ NodesAt[<<"list", t>>] = NodesIn(t)
    BY PlaceHas, PlaceHasNext, Zenon
  <2>2. NodesAt'[<<"hand", t>>] = {NodeInHand(t)'} \ {NULL} /\ NodesAt[<<"hand", t>>] = {NodeInHand(t)} \ {NULL}
    BY PlaceHas, PlaceHasNext, Zenon
  <2>3. NodesIn(t)' = NodesIn(t) /\ NodeInHand(t)' = NodeInHand(t)
    BY Zenon
  <2> QED BY <2>1, <2>2, <2>3, Zenon
<1>2. ASSUME NEW s \in Spans PROVE NodesAt'[<<"span", s>>] = NodesAt[<<"span", s>>]
  BY PlaceHas, PlaceHasNext, Zenon
<1>3. ASSUME NEW p \in Places PROVE NodesAt'[p] = NodesAt[p]
  <2>1. \/ \E t \in Threads : p = <<"list", t>> \/ p = <<"hand", t>>
        \/ \E s \in Spans : p = <<"span", s>>
    BY PlacesAre, Zenon
  <2> QED BY <1>1, <1>2, <2>1, Zenon
<1> QED BY <1>3, PlacesAre, Kept

(* ... and one that moves no span.                                         *)
LEMMA SpansStay ==
  ASSUME OnePlace(Spans, SpansAt),
         \A t \in Threads : SpansIn(t)' = SpansIn(t) /\ InHands(t)' = InHands(t)
  PROVE  OnePlace(Spans, SpansAt')
<1>1. ASSUME NEW t \in Threads
      PROVE  SpansAt'[<<"list", t>>] = SpansAt[<<"list", t>>] /\ SpansAt'[<<"hand", t>>] = SpansAt[<<"hand", t>>]
  BY PlaceHas, PlaceHasNext
<1>2. ASSUME NEW p \in {"list", "hand"} \X Threads PROVE SpansAt'[p] = SpansAt[p]
  <2>1. \E t \in Threads : p = <<"list", t>> \/ p = <<"hand", t>>
    BY PlacesAre, Zenon
  <2> QED BY <1>1, <2>1, Zenon
<1> QED BY <1>2, PlacesAre, Kept, Zenon

(* A step that neither a queue nor a thread's hands show.                  *)
SameQueues == \A t \in Threads : QueueOf(t)' = QueueOf(t) /\ InHands(t)' = InHands(t)

(* Steps of a pop before its CAS2 wins.                                    *)
Searching == {"idle", "half", "next", "cas"}

(* They change nothing but the popper's own call.                          *)
LEMMA SearchStays ==
  ASSUME SpmcInv, NEW t \in Threads, UNCHANGED <<head, tail, next, span, node, holds>>,
         pc[t] \in Searching, pc'[t] \in Searching, CallTypes', CallOK(t)',
         \A u \in Threads : u # t => pc'[u] = pc[u] /\ op'[u] = op[u]
  PROVE  SpmcInv' /\ SameQueues
<1>1. TypeOK'
  BY Zenon DEF SpmcInv, TypeOK
<1>2. ASSUME NEW u \in Threads, u # t PROVE CallOK(u)'
  <2>1. CallOK(u) /\ pc'[u] = pc[u] /\ op'[u] = op[u]
    BY <1>2, Zenon DEF SpmcInv, CallInv
  <2> QED BY <2>1, Zenon DEF CallOK, HeadMatches
<1>3. CallInv'
  BY <1>2, Zenon DEF CallInv
<1>4. \A u \in Threads : NodeInHand(u)' = NodeInHand(u) /\ InHands(u)' = InHands(u)
  BY Zenon DEF NodeInHand, InHands, Searching
<1>5. ASSUME NEW s \in Spans PROVE OwnsNode(s)' <=> OwnsNode(s)
  BY Zenon DEF OwnsNode, Searching
<1>6. NodeOwners'
  BY <1>5, Zenon DEF SpmcInv, NodeOwners
<1>7. \A l \in Threads : /\ ListOK(l)' /\ NodesIn(l)' = NodesIn(l) /\ SpansIn(l)' = SpansIn(l)
                          /\ QueueOf(l)' = QueueOf(l)
  BY ListKept, Zenon DEF SpmcInv
<1>8. OnePlace(Nodes, NodesAt') /\ OnePlace(Spans, SpansAt')
  BY <1>4, <1>7, NodesStay, SpansStay, Zenon DEF SpmcInv
<1> QED BY <1>1, <1>3, <1>4, <1>6, <1>7, <1>8, Zenon DEF SpmcInv, ListInv, OnePlace, SameQueues

(* No call, as a value of op.                                              *)
LEMMA NoOpIs == NoOp \in Calls
  BY Constants DEF NoOp, Calls

(* The call of an enqueue, as a value of op.                               *)
LEMMA EnqueueIs ==
  ASSUME NEW x \in Spans, NEW m \in Nodes
  PROVE  LET o == [NoOp EXCEPT !.span = x, !.node = m]
         IN o \in Calls /\ o.span = x /\ o.node = m
<1>1. 0 \in 0 .. MaxVersion
  BY Constants
<1> QED BY <1>1, Zenon DEF NoOp, Calls

(* Loading the head word ...                                                *)
LEMMA PopLoadHeadKeeps ==
  ASSUME SpmcInv, NEW t \in Threads, NEW l \in Threads, PopLoadHead(t, l)
  PROVE  SpmcInv' /\ SameQueues
<1> DEFINE o == [NoOp EXCEPT !.list = l, !.ptr = head[l].ptr, !.ver = head[l].ver]
<1>1. head[l].ptr \in Nodes /\ head[l].ver \in 0 .. MaxVersion
  BY Zenon DEF SpmcInv, TypeOK
<1>2. o \in Calls /\ o.list = l /\ o.ptr = head[l].ptr /\ o.ver = head[l].ver
  BY <1>1, Constants, Zenon DEF NoOp, Calls
<1>3. op' = [op EXCEPT ![t] = o] /\ pc[t] = "idle" /\ pc' = [pc EXCEPT ![t] = IF LLSC THEN "half" ELSE "next"]
  BY Zenon DEF PopLoadHead, Goto
<1> HIDE DEF o
<1>4. CallTypes /\ CallTypes'
  BY <1>2, <1>3, Zenon DEF SpmcInv, CallInv, CallTypes, Pcs
<1>5. /\ op'[t] = o /\ pc'[t] \in {"half", "next"}
      /\ \A u \in Threads : u # t => pc'[u] = pc[u] /\ op'[u] = op[u]
  BY <1>3, <1>4, Zenon DEF CallTypes
<1>6. UNCHANGED <<head, tail, next, span, node, holds>>
  BY Zenon DEF PopLoadHead
<1>7. CallOK(t)'
  BY <1>1, <1>2, <1>5, <1>6, Constants DEF CallOK
<1> QED BY <1>3, <1>4, <1>5, <1>6, <1>7, SearchStays, Zenon DEF Searching

(* ... or half of it again changes no list; the version is never ahead.     *)
LEMMA PopLoadHalfKeeps ==
  ASSUME SpmcInv, NEW t \in Threads, PopLoadHalf(t)
  PROVE  SpmcInv' /\ SameQueues
<1> DEFINE l == op[t].list
<1>1. CallTypes /\ pc[t] = "half" /\ l \in Threads /\ op[t] \in Calls /\ op[t].ptr \in Nodes /\ op[t].ver <= head[l].ver
  BY Zenon DEF SpmcInv, CallInv, CallTypes, CallOK, PopLoadHalf
<1>2. head[l].ptr \in Nodes /\ head[l].ver \in 0 .. MaxVersion
  BY <1>1, Zenon DEF SpmcInv, TypeOK
<1>3. PICK o \in {[op[t] EXCEPT !.ptr = head[l].ptr], [op[t] EXCEPT !.ver = head[l].ver]} :
        op' = [op EXCEPT ![t] = o] /\ pc' = [pc EXCEPT ![t] = "next"]
  BY Zenon DEF PopLoadHalf, Goto
<1>4. o \in Calls /\ o.list = l /\ o.ptr \in Nodes /\ o.ver <= head[l].ver
  BY <1>1, <1>2, <1>3, Constants DEF Calls
<1>5. CallTypes'
  BY <1>1, <1>3, <1>4, Zenon DEF CallTypes, Pcs
<1>6. /\ op'[t] = o /\ pc'[t] = "next"
      /\ \A u \in Threads : u # t => pc'[u] = pc[u] /\ op'[u] = op[u]
  BY <1>1, <1>3, <1>4, Zenon DEF CallTypes
<1>7. UNCHANGED <<head, tail, next, span, node, holds>>
  BY Zenon DEF PopLoadHalf
<1>8. CallOK(t)'
  BY <1>1, <1>4, <1>6, <1>7, Zenon DEF CallOK
<1> QED BY <1>1, <1>5, <1>6, <1>7, <1>8, SearchStays, Zenon DEF Searching

(* The link of the present head is the one its CAS2 will install.           *)
LEMMA PopLoadNextKeeps ==
  ASSUME SpmcInv, NEW t \in Threads, PopLoadNext(t)
  PROVE  SpmcInv' /\ SameQueues
<1> DEFINE n == next[op[t].ptr]
           o == [op[t] EXCEPT !.next = n]
<1>1. /\ CallTypes /\ pc[t] = "next" /\ op[t] \in Calls /\ op[t].list \in Threads /\ op[t].ptr \in Nodes
      /\ op[t].ver <= head[op[t].list].ver
  BY Zenon DEF SpmcInv, CallInv, CallTypes, CallOK, PopLoadNext
<1>2. n \in Nodes
  BY <1>1, Zenon DEF PopLoadNext, SpmcInv, TypeOK
<1>3. op' = [op EXCEPT ![t] = o] /\ pc' = [pc EXCEPT ![t] = "cas"]
  BY Zenon DEF PopLoadNext, Goto
<1>4. o \in Calls /\ o.list = op[t].list /\ o.ptr = op[t].ptr /\ o.ver = op[t].ver /\ o.next = n
  BY <1>1, <1>2, Zenon DEF Calls
<1> HIDE DEF o
<1>5. CallTypes'
  BY <1>1, <1>3, <1>4, Zenon DEF CallTypes, Pcs
<1>6. /\ op'[t] = o /\ pc'[t] = "cas"
      /\ \A u \in Threads : u # t => pc'[u] = pc[u] /\ op'[u] = op[u]
  BY <1>1, <1>3, <1>4, Zenon DEF CallTypes
<1>7. UNCHANGED <<head, tail, next, span, node, holds>>
  BY Zenon DEF PopLoadNext
<1>8. CallOK(t)'
  BY <1>1, <1>2, <1>4, <1>6, <1>7, Zenon DEF CallOK
<1> QED BY <1>1, <1>5, <1>6, <1>7, <1>8, SearchStays, Zenon DEF Searching

(* A pop that finds no successor, or whose CAS2 fails.                     *)
LEMMA PopEndsKeeps ==
  ASSUME SpmcInv, NEW t \in Threads, PopEmpty(t) \/ PopFail(t)
  PROVE  SpmcInv' /\ SameQueues
<1>1. CallTypes /\ pc[t] \in {"next", "cas"} /\ UNCHANGED <<head, tail, next, span, node, holds>>
  BY Zenon DEF SpmcInv, CallInv, PopEmpty, PopFail
<1>2. op' = [op EXCEPT ![t] = NoOp] /\ pc' = [pc EXCEPT ![t] = "idle"]
  BY Zenon DEF PopEmpty, PopFail, Done, Goto
<1>3. CallTypes'
  BY <1>1, <1>2, NoOpIs, Zenon DEF CallTypes, Pcs
<1>4. pc'[t] = "idle" /\ \A u \in Threads : u # t => pc'[u] = pc[u] /\ op'[u] = op[u]
  BY <1>1, <1>2, Zenon DEF CallTypes
<1>5. CallOK(t)'
  BY <1>4, Zenon DEF CallOK
<1> QED BY <1>1, <1>3, <1>4, <1>5, SearchStays, Zenon DEF Searching

-----------------------------------------------------------------------------
(* A node goes from one place to another.                                  *)
LEMMA NodeMoves ==
  ASSUME OnePlace(Nodes, NodesAt), NEW n \in Nodes, NEW a \in Places, NEW b \in Places, a # b,
         n \in NodesAt[a], NodesAt'[a] = NodesAt[a] \ {n}, NodesAt'[b] = NodesAt[b] \cup {n},
         \A t \in Threads : <<"list", t>> \notin {a, b} => NodesIn(t)' = NodesIn(t),
         \A t \in Threads : <<"hand", t>> \notin {a, b} => NodeInHand(t)' = NodeInHand(t),
         \A s \in Spans : <<"span", s>> \notin {a, b} => node'[s] = node[s]
  PROVE  OnePlace(Nodes, NodesAt')
<1>1. ASSUME NEW t \in Threads
      PROVE  /\ <<"list", t>> \notin {a, b} => NodesAt'[<<"list", t>>] = NodesAt[<<"list", t>>]
             /\ <<"hand", t>> \notin {a, b} => NodesAt'[<<"hand", t>>] = NodesAt[<<"hand", t>>]
  <2>1. /\ NodesAt[<<"list", t>>] = NodesIn(t) /\ NodesAt'[<<"list", t>>] = NodesIn(t)'
        /\ NodesAt[<<"hand", t>>] = {NodeInHand(t)} \ {NULL} /\ NodesAt'[<<"hand", t>>] = {NodeInHand(t)'} \ {NULL}
    BY PlaceHas, PlaceHasNext, Zenon
  <2> QED BY <2>1, Zenon
<1>2. ASSUME NEW s \in Spans, <<"span", s>> \notin {a, b} PROVE NodesAt'[<<"span", s>>] = NodesAt[<<"span", s>>]
  <2>1. NodesAt[<<"span", s>>] = {node[s]} \ {NULL} /\ NodesAt'[<<"span", s>>] = {node'[s]} \ {NULL}
    BY PlaceHas, PlaceHasNext, Zenon
  <2> QED BY <1>2, <2>1, Zenon
<1>3. ASSUME NEW p \in Places, p # a, p # b PROVE NodesAt'[p] = NodesAt[p]
  <2>1. \/ \E t \in Threads : p = <<"list", t>> \/ p = <<"hand", t>>
        \/ \E s \in Spans : p = <<"span", s>>
    BY PlacesAre, Zenon
  <2> QED BY <1>1, <1>2, <1>3, <2>1, Zenon
<1>4. DOMAIN NodesAt = Places /\ DOMAIN NodesAt' = Places
  BY PlacesAre, Zenon
<1> QED BY <1>3, <1>4, Moved

(* enqueue_by_owner takes the node of the span, which is in no list: a     *)
(* winner that is about to load from this node has been overtaken.         *)
LEMMA EnqueuePrepareKeeps ==
  ASSUME SpmcInv, NEW t \in Threads, NEW s \in Spans, EnqueuePrepare(t, s)
  PROVE  SpmcInv' /\ SameQueues
<1> DEFINE n == node[s]
           o == [NoOp EXCEPT !.span = s, !.node = n]
<1>1. /\ TypeOK /\ CallTypes /\ pc[t] = "idle" /\ s \in holds[t] /\ UNCHANGED <<head, tail, holds>>
      /\ pc' = [pc EXCEPT ![t] = "link"] /\ op' = [op EXCEPT ![t] = o] /\ node' = [node EXCEPT ![s] = NULL]
      /\ span' = [span EXCEPT ![n] = s] /\ next' = [next EXCEPT ![n] = NULL]
  BY Zenon DEF EnqueuePrepare, Goto, FreshLink, SpmcInv, CallInv
<1>2. n \in Nodes
  <2>1. OwnsNode(s)
    BY <1>1, Zenon DEF OwnsNode
  <2> QED BY <1>1, <2>1, Zenon DEF SpmcInv, NodeOwners, TypeOK
<1> HIDE DEF n
<1>3. o \in Calls /\ o.span = s /\ o.node = n
  BY <1>2, EnqueueIs, Zenon
<1> HIDE DEF o
<1>4. TypeOK' /\ CallTypes'
  BY <1>1, <1>2, <1>3, Zenon DEF TypeOK, CallTypes, Pcs
<1>5. /\ op'[t] = o /\ pc'[t] = "link" /\ node'[s] = NULL /\ span'[n] = s /\ next'[n] = NULL
      /\ \A u \in Threads : u # t => pc'[u] = pc[u] /\ op'[u] = op[u]
      /\ \A x \in Spans : x # s => node'[x] = node[x]
      /\ \A m \in Nodes : m # n => span'[m] = span[m] /\ next'[m] = next[m]
  BY <1>1, <1>2, <1>3, Zenon DEF TypeOK, CallTypes
<1>6. ASSUME NEW u \in Threads, u # t PROVE CallOK(u)'
  <2>1. CallOK(u) /\ pc'[u] = pc[u] /\ op'[u] = op[u]
    BY <1>5, <1>6, Zenon DEF SpmcInv, CallInv
  <2>2. pc[u] = "link" => op[u].node # n
    BY <1>2, <2>1, NodeFacts, Constants, Zenon DEF NodeInHand, n
  <2>3. pc[u] = "cas" /\ HeadMatches(u) => op[u].ptr # n
    <3>1. pc[u] = "cas" /\ HeadMatches(u) => op[u].ptr = head[op[u].list].ptr /\ op[u].list \in Threads
      BY <2>1 DEF HeadMatches, CallOK
    <3> QED BY <3>1, ListEnds, NodeFacts DEF SpmcInv, n
  <2>4. /\ pc[u] = "link" => span'[op[u].node] = span[op[u].node] /\ next'[op[u].node] = next[op[u].node]
        /\ pc[u] = "cas" /\ HeadMatches(u) => next'[op[u].ptr] = next[op[u].ptr]
    BY <1>5, <2>1, <2>2, <2>3, Zenon DEF CallOK
  <2>5. pc[u] = "read" /\ ~(op[u].ver + 1 < head[op[u].list].ver) => span'[op[u].next] = span[op[u].next]
    <3> SUFFICES ASSUME pc[u] = "read", ~(op[u].ver + 1 < head[op[u].list].ver)
                 PROVE  span'[op[u].next] = span[op[u].next]
      BY Zenon
    <3>1. op[u].list \in Threads /\ op[u].next \in Nodes /\ head[op[u].list].ptr = op[u].next
      BY <2>1, Zenon DEF CallOK
    <3>2. op[u].next \in NodesIn(op[u].list)
      BY <3>1, ListEnds, Zenon DEF SpmcInv
    <3>3. op[u].next # n
      <4>1. node[s] \notin NodesIn(op[u].list)
        BY <3>1, NodeFacts, Zenon
      <4> QED BY <3>2, <4>1, Zenon DEF n
    <3> QED BY <1>5, <3>1, <3>3, Zenon
  <2>6. head' = head /\ holds' = holds /\ (HeadMatches(u)' <=> HeadMatches(u))
    BY <1>1, <2>1, Zenon DEF HeadMatches
  <2> QED BY <2>1, <2>4, <2>5, <2>6, Zenon DEF CallOK
<1>7. CallOK(t)'
  BY <1>1, <1>2, <1>3, <1>5, Zenon DEF CallOK
<1>8. CallInv'
  BY <1>4, <1>6, <1>7, Zenon DEF CallInv
<1>9. ASSUME NEW u \in Threads PROVE InHands(u)' = InHands(u)
  <2>1. CASE u = t
    BY <1>1, <1>5, <2>1, Zenon DEF InHands
  <2>2. CASE u # t
    BY <1>1, <1>5, <2>2, Zenon DEF InHands
  <2> QED BY <2>1, <2>2, Zenon
<1>10. \A l \in Threads : /\ ListOK(l)' /\ NodesIn(l)' = NodesIn(l) /\ SpansIn(l)' = SpansIn(l)
                          /\ QueueOf(l)' = QueueOf(l)
  <2>1. \A l \in Threads : \A m \in NodesIn(l) : m \in Nodes /\ m # n
    BY NodeFacts, ListEnds DEF SpmcInv, n
  <2> QED BY <1>1, <1>5, <2>1, ListKept DEF SpmcInv
<1>11. OnePlace(Spans, SpansAt')
  BY <1>9, <1>10, SpansStay, Zenon DEF SpmcInv
<1>12. OnePlace(Nodes, NodesAt')
  <2> DEFINE a == <<"span", s>>
             b == <<"hand", t>>
  <2>1. /\ a \in Places /\ b \in Places /\ a # b
        /\ NodesAt[a] = {node[s]} \ {NULL} /\ NodesAt'[a] = {node'[s]} \ {NULL}
        /\ NodesAt[b] = {NodeInHand(t)} \ {NULL} /\ NodesAt'[b] = {NodeInHand(t)'} \ {NULL}
    BY PlacesAre, PlaceHas, PlaceHasNext, Zenon
  <2>2. NodeInHand(t) = NULL /\ NodeInHand(t)' = n
    BY <1>1, <1>3, <1>5, Zenon DEF NodeInHand
  <2>3. n # NULL /\ node[s] = n
    BY <1>2, Constants, Zenon DEF n
  <2>4. n \in NodesAt[a] /\ NodesAt'[a] = NodesAt[a] \ {n} /\ NodesAt'[b] = NodesAt[b] \cup {n}
    BY <1>5, <2>1, <2>2, <2>3
  <2>5. \A u \in Threads : u # t => NodeInHand(u)' = NodeInHand(u)
    BY <1>5, Zenon DEF NodeInHand
  <2>6. /\ \A u \in Threads : <<"hand", u>> \notin {a, b} => u # t
        /\ \A x \in Spans : <<"span", x>> \notin {a, b} => x # s
    BY Zenon
  <2>7. \A l \in Threads : <<"list", l>> \notin {a, b} => NodesIn(l)' = NodesIn(l)
    BY <1>10, Zenon
  <2>8. \A u \in Threads : <<"hand", u>> \notin {a, b} => NodeInHand(u)' = NodeInHand(u)
    BY <2>5, <2>6, Zenon
  <2>9. \A x \in Spans : <<"span", x>> \notin {a, b} => node'[x] = node[x]
    BY <1>5, <2>6, Zenon
  <2>10. n \in Nodes /\ OnePlace(Nodes, NodesAt)
    BY <1>2, Zenon DEF SpmcInv, n
  <2> HIDE DEF a, b
  <2> QED BY <2>1, <2>4, <2>7, <2>8, <2>9, <2>10, NodeMoves, Zenon
<1>13. NodeOwners'
  <2>1. ~OwnsNode(s)'
    <3>1. \A u \in Threads : s \in holds[u] => u = t
      BY <1>1, SpanFacts, Zenon
    <3> QED BY <1>1, <1>3, <1>5, <3>1, Zenon DEF OwnsNode
  <2>2. ASSUME NEW x \in Spans, x # s PROVE OwnsNode(x)' <=> OwnsNode(x)
    BY <1>1, <1>3, <1>5, <2>2 DEF OwnsNode
  <2> QED BY <1>5, <2>1, <2>2, Zenon DEF SpmcInv, NodeOwners
<1> QED BY <1>4, <1>8, <1>9, <1>10, <1>11, <1>12, <1>13, Zenon DEF SpmcInv, ListInv, OnePlace, SameQueues

(* Span s goes from the hands of t to the end of its queue, ...            *)
Publishes(t, s) ==
  /\ s \in InHands(t) /\ QueueOf(t)' = Append(QueueOf(t), s) /\ InHands(t)' = InHands(t) \ {s}
  /\ \A u \in Threads : u # t => QueueOf(u)' = QueueOf(u) /\ InHands(u)' = InHands(u)

(* ... or from the front of queue l into the hands of t.                   *)
Takes(t, l) ==
  /\ QueueOf(l) # <<>> /\ QueueOf(l)' = Tail(QueueOf(l))
  /\ InHands(t)' = InHands(t) \cup {Head(QueueOf(l))}
  /\ \A u \in Threads : u # l => QueueOf(u)' = QueueOf(u)
  /\ \A u \in Threads : u # t => InHands(u)' = InHands(u)

(* A span goes from one place to another.                                  *)
LEMMA SpanMoves ==
  ASSUME OnePlace(Spans, SpansAt), NEW s \in Spans,
         NEW a \in {"list", "hand"} \X Threads, NEW b \in {"list", "hand"} \X Threads, a # b,
         s \in SpansAt[a], SpansAt'[a] = SpansAt[a] \ {s}, SpansAt'[b] = SpansAt[b] \cup {s},
         \A t \in Threads : <<"list", t>> \notin {a, b} => SpansIn(t)' = SpansIn(t),
         \A t \in Threads : <<"hand", t>> \notin {a, b} => InHands(t)' = InHands(t)
  PROVE  OnePlace(Spans, SpansAt')
<1>1. ASSUME NEW t \in Threads
      PROVE  /\ <<"list", t>> \notin {a, b} => SpansAt'[<<"list", t>>] = SpansAt[<<"list", t>>]
             /\ <<"hand", t>> \notin {a, b} => SpansAt'[<<"hand", t>>] = SpansAt[<<"hand", t>>]
  <2>1. /\ SpansAt[<<"list", t>>] = SpansIn(t) /\ SpansAt'[<<"list", t>>] = SpansIn(t)'
        /\ SpansAt[<<"hand", t>>] = InHands(t) /\ SpansAt'[<<"hand", t>>] = InHands(t)'
    BY PlaceHas, PlaceHasNext, Zenon
  <2> QED BY <2>1, Zenon
<1>2. ASSUME NEW p \in {"list", "hand"} \X Threads, p # a, p # b PROVE SpansAt'[p] = SpansAt[p]
  <2>1. \E t \in Threads : p = <<"list", t>> \/ p = <<"hand", t>>
    BY PlacesAre, Zenon
  <2> QED BY <1>1, <1>2, <2>1, Zenon
<1>3. DOMAIN SpansAt = {"list", "hand"} \X Threads /\ DOMAIN SpansAt' = {"list", "hand"} \X Threads
  BY PlacesAre, Zenon
<1> QED BY <1>2, <1>3, Moved

(* The store that links the prepared node publishes its span.              *)
LEMMA EnqueueLinkKeeps ==
  ASSUME SpmcInv, NEW t \in Threads, EnqueueLink(t)
  PROVE  SpmcInv' /\ \E s \in Spans : Publishes(t, s)
<1> DEFINE n == op[t].node
           e == tail[t]
           c == Chain(t)
<1>0. PICK s : s = op[t].span
  BY Zenon
<1>1. /\ TypeOK /\ CallTypes /\ pc[t] = "link" /\ UNCHANGED <<head, span, node>>
      /\ next' = [next EXCEPT ![e] = n] /\ tail' = [tail EXCEPT ![t] = n]
      /\ holds' = [holds EXCEPT ![t] = holds[t] \ {s}]
      /\ pc' = [pc EXCEPT ![t] = "idle"] /\ op' = [op EXCEPT ![t] = NoOp]
  BY <1>0, Zenon DEF EnqueueLink, Done, Goto, SpmcInv, CallInv
<1>2. s \in holds[t] /\ n \in Nodes /\ span[n] = s /\ next[n] = NULL /\ s \in Spans
  BY <1>0, <1>1, Zenon DEF SpmcInv, CallInv, CallOK, TypeOK
<1>3. NodeInHand(t) = n /\ InHands(t) = holds[t]
  BY <1>1, Zenon DEF NodeInHand, InHands
<1>4. /\ Linked(c, head[t].ptr, e, next) /\ IsInjective(c) /\ c \in Seq(Nodes) /\ c # <<>>
      /\ Carries(c, span) \in Seq(Spans) /\ IsInjective(Carries(c, span))
      /\ Range(c) = NodesIn(t) /\ Range(Carries(c, span)) = SpansIn(t)
      /\ Chain(t) = c /\ QueueOf(t) = Carries(c, span)
  BY Zenon DEF SpmcInv, ListInv, ListOK, Linked, QueueOf, NodesIn, SpansIn
<1>5. e \in Nodes /\ e \in NodesIn(t) /\ next[e] = NULL /\ n \notin NodesIn(t) /\ s \notin SpansIn(t) /\ e # n
  BY <1>2, <1>3, ListEnds, NodeFacts, SpanFacts DEF SpmcInv
<1> HIDE DEF n, e, c
<1>6. TypeOK' /\ CallTypes'
  BY <1>1, <1>2, <1>5, NoOpIs, Zenon DEF TypeOK, CallTypes, Pcs
<1>7. /\ pc'[t] = "idle" /\ next'[e] = n /\ next'[n] = NULL /\ tail'[t] = n /\ holds'[t] = holds[t] \ {s}
      /\ \A u \in Threads : u # t => pc'[u] = pc[u] /\ op'[u] = op[u] /\ holds'[u] = holds[u] /\ tail'[u] = tail[u]
      /\ \A m \in Nodes : m # e => next'[m] = next[m]
  BY <1>1, <1>2, <1>5, Zenon DEF TypeOK, CallTypes
<1>8. /\ Linked(Append(c, n), head[t].ptr, n, next') /\ IsInjective(Append(c, n))
      /\ Range(Append(c, n)) = Range(c) \cup {n}
  <2>1. \A m \in Range(c) : m # e => next'[m] = next[m]
    BY <1>4, <1>7, ListEnds, Zenon DEF SpmcInv
  <2> QED BY <1>2, <1>4, <1>5, <1>7, <2>1, ChainAppend
<1>9. Chain(t)' = Append(c, n)
  <2>1. ChainFrom(head[t].ptr, next') = Append(c, n)
    BY <1>8, ChainIs, Zenon
  <2> QED BY <1>1, <2>1, Zenon DEF Chain
<1>10. /\ Carries(Append(c, n), span) = Append(Carries(c, span), s)
       /\ Carries(Append(c, n), span) \in Seq(Spans)
       /\ IsInjective(Carries(Append(c, n), span))
       /\ Range(Carries(Append(c, n), span)) = Range(Carries(c, span)) \cup {s}
  BY <1>2, <1>4, <1>5, CarriesAppend
<1>11. /\ QueueOf(t)' = Append(QueueOf(t), s) /\ ListOK(t)'
       /\ NodesIn(t)' = NodesIn(t) \cup {n} /\ SpansIn(t)' = SpansIn(t) \cup {s}
  <2>1. QueueOf(t)' = Carries(Append(c, n), span)
    BY <1>1, <1>9, Zenon DEF QueueOf
  <2> QED BY <1>1, <1>4, <1>7, <1>8, <1>9, <1>10, <2>1, Zenon DEF ListOK, NodesIn, SpansIn
<1>12. ASSUME NEW l \in Threads, l # t
       PROVE  ListOK(l)' /\ NodesIn(l)' = NodesIn(l) /\ SpansIn(l)' = SpansIn(l) /\ QueueOf(l)' = QueueOf(l)
  <2>1. \A m \in NodesIn(l) : m \in Nodes /\ m # e
    BY <1>5, <1>12, ListEnds, NodeFacts DEF SpmcInv
  <2> QED BY <1>1, <1>7, <1>12, <2>1, ListKept, Zenon DEF SpmcInv
<1>13. /\ InHands(t)' = InHands(t) \ {s} /\ NodeInHand(t)' = NULL
       /\ \A u \in Threads : u # t => InHands(u)' = InHands(u) /\ NodeInHand(u)' = NodeInHand(u)
  <2>1. InHands(t)' = holds[t] \ {s} /\ NodeInHand(t)' = NULL
    BY <1>7, Zenon DEF InHands, NodeInHand
  <2>2. ASSUME NEW u \in Threads, u # t PROVE InHands(u)' = InHands(u) /\ NodeInHand(u)' = NodeInHand(u)
    BY <1>1, <1>7, <2>2 DEF InHands, NodeInHand
  <2> QED BY <1>3, <2>1, <2>2, Zenon
<1>14. Publishes(t, s)
  BY <1>2, <1>3, <1>11, <1>12, <1>13, Zenon DEF Publishes
<1>15. OnePlace(Nodes, NodesAt')
  <2> DEFINE a == <<"hand", t>>
             b == <<"list", t>>
  <2>1. /\ a \in Places /\ b \in Places /\ a # b
        /\ NodesAt[a] = {NodeInHand(t)} \ {NULL} /\ NodesAt'[a] = {NodeInHand(t)'} \ {NULL}
        /\ NodesAt[b] = NodesIn(t) /\ NodesAt'[b] = NodesIn(t)'
    BY PlacesAre, PlaceHas, PlaceHasNext, Zenon
  <2>2. n # NULL
    BY <1>2, Constants, Zenon
  <2>3. n \in NodesAt[a] /\ NodesAt'[a] = NodesAt[a] \ {n} /\ NodesAt'[b] = NodesAt[b] \cup {n}
    BY <1>3, <1>11, <1>13, <2>1, <2>2, Zenon
  <2>4. \A u \in Threads : /\ <<"hand", u>> \notin {a, b} => u # t
                           /\ <<"list", u>> \notin {a, b} => u # t
    BY Zenon
  <2> HIDE DEF a, b
  <2> QED BY <1>1, <1>2, <1>12, <1>13, <2>1, <2>3, <2>4, NodeMoves, Zenon DEF SpmcInv
<1>16. OnePlace(Spans, SpansAt')
  <2> DEFINE a == <<"hand", t>>
             b == <<"list", t>>
  <2>1. /\ a \in {"list", "hand"} \X Threads /\ b \in {"list", "hand"} \X Threads /\ a # b
        /\ SpansAt[a] = InHands(t) /\ SpansAt'[a] = InHands(t)'
        /\ SpansAt[b] = SpansIn(t) /\ SpansAt'[b] = SpansIn(t)'
    BY PlacesAre, PlaceHas, PlaceHasNext, Zenon
  <2>2. s \in SpansAt[a] /\ SpansAt'[a] = SpansAt[a] \ {s} /\ SpansAt'[b] = SpansAt[b] \cup {s}
    BY <1>2, <1>3, <1>11, <1>13, <2>1, Zenon
  <2>3. \A u \in Threads : /\ <<"hand", u>> \notin {a, b} => u # t
                           /\ <<"list", u>> \notin {a, b} => u # t
    OBVIOUS
  <2> HIDE DEF a, b
  <2> QED BY <1>2, <1>12, <1>13, <2>1, <2>2, <2>3, SpanMoves, Zenon DEF SpmcInv
<1>17. ASSUME NEW u \in Threads, u # t PROVE CallOK(u)'
  <2>1. CallOK(u) /\ pc'[u] = pc[u] /\ op'[u] = op[u] /\ holds'[u] = holds[u]
    BY <1>7, <1>17, Zenon DEF SpmcInv, CallInv
  <2>2. pc[u] = "link" => op[u].node # e
    <3>1. pc[u] = "link" => NodeInHand(u) = op[u].node
      BY Zenon DEF NodeInHand
    <3> QED BY <1>5, <3>1, NodeFacts, Zenon
  <2>3. pc[u] = "cas" /\ HeadMatches(u) => op[u].ptr # e
    BY <1>5, <2>1, Constants, Zenon DEF CallOK
  <2> QED BY <1>1, <1>7, <2>1, <2>2, <2>3 DEF CallOK, HeadMatches
<1>18. CallInv'
  <2>1. CallOK(t)'
    BY <1>7, Zenon DEF CallOK
  <2> QED BY <1>6, <1>17, <2>1, Zenon DEF CallInv
<1>19. NodeOwners'
  <2>1. ~OwnsNode(s)' /\ ~OwnsNode(s)
    <3>1. \A u \in Threads : s \in holds[u] => u = t
      BY <1>2, SpanFacts, Zenon
    <3> QED BY <1>0, <1>1, <1>7, <3>1, Zenon DEF OwnsNode
  <2>2. ASSUME NEW x \in Spans, x # s PROVE OwnsNode(x)' <=> OwnsNode(x)
    <3>1. ASSUME NEW u \in Threads
          PROVE  (x \in holds'[u] /\ ~(pc'[u] = "link" /\ op'[u].span = x)) <=>
                 (x \in holds[u] /\ ~(pc[u] = "link" /\ op[u].span = x))
      BY <1>0, <1>1, <1>7, <2>2, Zenon
    <3> QED BY <3>1, Zenon DEF OwnsNode
  <2> QED BY <1>1, <2>1, <2>2, Zenon DEF SpmcInv, NodeOwners
<1>20. ListInv'
  BY <1>11, <1>12, Zenon DEF ListInv
<1>21. SpmcInv'
  BY <1>6, <1>15, <1>16, <1>18, <1>19, <1>20 DEF SpmcInv, OnePlace
<1> QED BY <1>2, <1>14, <1>21, Zenon

(* A CAS2 that wins installs the link of the present head, whatever        *)
(* moments its halves were loaded at, and so takes the oldest span.        *)
LEMMA PopWinKeeps ==
  ASSUME SpmcInv, NEW t \in Threads, PopWin(t)
  PROVE  SpmcInv' /\ \E l \in Threads : Takes(t, l)
<1>0. PICK l, p, m : l = op[t].list /\ p = op[t].ptr /\ m = op[t].next
  BY Zenon
<1> DEFINE v == op[t].ver
           c == Chain(l)
<1>1. /\ TypeOK /\ CallTypes /\ pc[t] = "cas" /\ UNCHANGED <<tail, next, span, node, holds>>
      /\ op' = [op EXCEPT ![t] = [op[t] EXCEPT !.span = span[m]]]
      /\ head[l] = [ptr |-> p, ver |-> v] /\ v < MaxVersion
      /\ head' = [head EXCEPT ![l] = [ptr |-> m, ver |-> v + 1]]
      /\ pc' = [pc EXCEPT ![t] = "read"]
  BY <1>0, Zenon DEF PopWin, HeadMatches, Goto, SpmcInv, CallInv
<1>2. CallOK(t) /\ op[t] \in Calls
  BY <1>1, Zenon DEF SpmcInv, CallInv, CallTypes
<1>3. /\ l \in Threads /\ p \in Nodes /\ m \in Nodes /\ v \in Nat /\ v + 1 \in 0 .. MaxVersion
      /\ head[l].ptr = p /\ head[l].ver = v /\ m = next[p]
  <2>1. l \in Threads /\ p \in Nodes /\ m \in Nodes /\ m = next[p]
    BY <1>0, <1>1, <1>2, Zenon DEF CallOK, HeadMatches
  <2>2. v \in 0 .. MaxVersion
    BY <1>2, Zenon DEF Calls
  <2> QED BY <1>1, <2>1, <2>2, Constants
<1>4. /\ Linked(c, p, tail[l], next) /\ IsInjective(c) /\ c \in Seq(Nodes)
      /\ Carries(c, span) \in Seq(Spans) /\ IsInjective(Carries(c, span))
      /\ Range(c) = NodesIn(l) /\ Range(Carries(c, span)) = SpansIn(l)
      /\ QueueOf(l) = Carries(c, span)
  BY <1>3, Zenon DEF SpmcInv, ListInv, ListOK, Linked, QueueOf, NodesIn, SpansIn
<1> HIDE DEF c, v
<1>5. /\ Len(c) >= 2 /\ c[2] = m
      /\ Linked(Tail(c), m, tail[l], next) /\ IsInjective(Tail(c))
      /\ p \in Range(c) /\ Range(Tail(c)) = Range(c) \ {p}
  <2>1. next[p] # NULL
    BY <1>3, Constants, Zenon
  <2> QED BY <1>3, <1>4, <2>1, ChainTail
<1>6. PICK s : s = span[m]
  BY Zenon
<1>7. /\ Carries(Tail(c), span) = Tail(Carries(c, span)) /\ Carries(Tail(c), span) \in Seq(Spans)
      /\ Carries(c, span) # <<>> /\ Head(Carries(c, span)) = s
      /\ s \in Spans /\ s \in Range(Carries(c, span))
      /\ IsInjective(Carries(Tail(c), span))
      /\ Range(Carries(Tail(c), span)) = Range(Carries(c, span)) \ {s}
  BY <1>4, <1>5, <1>6, CarriesTail, Zenon
<1> DEFINE o == [op[t] EXCEPT !.span = s]
<1>o. /\ o \in Calls /\ o.list = l /\ o.ptr = p /\ o.next = m /\ o.span = s /\ o.ver = v
      /\ op' = [op EXCEPT ![t] = o]
  BY <1>0, <1>1, <1>2, <1>6, <1>7, Zenon DEF Calls, v
<1> HIDE DEF o
<1>8. TypeOK' /\ CallTypes'
  BY <1>1, <1>3, <1>o, Zenon DEF TypeOK, CallTypes, Pcs
<1>9. /\ head'[l].ptr = m /\ head'[l].ver = v + 1
      /\ pc'[t] = "read" /\ op'[t] = o
      /\ \A k \in Threads : k # l => head'[k] = head[k]
      /\ \A u \in Threads : u # t => pc'[u] = pc[u] /\ op'[u] = op[u]
  BY <1>1, <1>3, <1>o, Zenon DEF TypeOK, CallTypes
<1>10. Chain(l)' = Tail(c)
  <2>1. ChainFrom(m, next) = Tail(c)
    BY <1>5, ChainIs, Zenon
  <2> QED BY <1>1, <1>9, <2>1, Zenon DEF Chain
<1>11. /\ QueueOf(l)' = Tail(QueueOf(l)) /\ ListOK(l)'
       /\ NodesIn(l)' = NodesIn(l) \ {p} /\ SpansIn(l)' = SpansIn(l) \ {s}
  <2>1. QueueOf(l)' = Carries(Tail(c), span)
    BY <1>1, <1>10, Zenon DEF QueueOf
  <2> QED BY <1>1, <1>4, <1>5, <1>7, <1>9, <1>10, <2>1, Zenon DEF ListOK, NodesIn, SpansIn
<1>12. ASSUME NEW k \in Threads, k # l
       PROVE  ListOK(k)' /\ NodesIn(k)' = NodesIn(k) /\ SpansIn(k)' = SpansIn(k) /\ QueueOf(k)' = QueueOf(k)
  BY <1>1, <1>9, <1>12, ListKept, Zenon DEF SpmcInv
<1>13. /\ InHands(t)' = InHands(t) \cup {s} /\ NodeInHand(t) = NULL /\ NodeInHand(t)' = p
       /\ \A u \in Threads : u # t => InHands(u)' = InHands(u) /\ NodeInHand(u)' = NodeInHand(u)
  <2>1. InHands(t)' = InHands(t) \cup {s} /\ NodeInHand(t) = NULL /\ NodeInHand(t)' = p
    BY <1>1, <1>9, <1>o, Zenon DEF InHands, NodeInHand
  <2>2. ASSUME NEW u \in Threads, u # t PROVE InHands(u)' = InHands(u) /\ NodeInHand(u)' = NodeInHand(u)
    <3>1. pc'[u] = pc[u] /\ op'[u] = op[u] /\ holds' = holds
      BY <1>1, <1>9, <2>2, Zenon
    <3> QED BY <3>1, Zenon DEF InHands, NodeInHand
  <2> QED BY <2>1, <2>2, Zenon
<1>14. Takes(t, l)
  BY <1>4, <1>7, <1>11, <1>12, <1>13, Zenon DEF Takes
<1>15. OnePlace(Nodes, NodesAt')
  <2> DEFINE a == <<"list", l>>
             b == <<"hand", t>>
  <2>1. /\ a \in Places /\ b \in Places /\ a # b
        /\ NodesAt[a] = NodesIn(l) /\ NodesAt'[a] = NodesIn(l)'
        /\ NodesAt[b] = {NodeInHand(t)} \ {NULL} /\ NodesAt'[b] = {NodeInHand(t)'} \ {NULL}
    BY <1>3, PlacesAre, PlaceHas, PlaceHasNext, Zenon
  <2>2. p # NULL
    BY <1>3, Constants, Zenon
  <2>3. p \in NodesAt[a] /\ NodesAt'[a] = NodesAt[a] \ {p} /\ NodesAt'[b] = NodesAt[b] \cup {p}
    BY <1>4, <1>5, <1>11, <1>13, <2>1, <2>2, Zenon
  <2>4. \A u \in Threads : /\ <<"hand", u>> \notin {a, b} => u # t
                           /\ <<"list", u>> \notin {a, b} => u # l
    BY Zenon
  <2> HIDE DEF a, b
  <2> QED BY <1>1, <1>3, <1>12, <1>13, <2>1, <2>3, <2>4, NodeMoves, Zenon DEF SpmcInv
<1>16. OnePlace(Spans, SpansAt')
  <2> DEFINE a == <<"list", l>>
             b == <<"hand", t>>
  <2>1. /\ a \in {"list", "hand"} \X Threads /\ b \in {"list", "hand"} \X Threads /\ a # b
        /\ SpansAt[a] = SpansIn(l) /\ SpansAt'[a] = SpansIn(l)'
        /\ SpansAt[b] = InHands(t) /\ SpansAt'[b] = InHands(t)'
    BY <1>3, PlacesAre, PlaceHas, PlaceHasNext, Zenon
  <2>2. s \in SpansAt[a] /\ SpansAt'[a] = SpansAt[a] \ {s} /\ SpansAt'[b] = SpansAt[b] \cup {s}
    BY <1>4, <1>7, <1>11, <1>13, <2>1, Zenon
  <2>3. \A u \in Threads : /\ <<"hand", u>> \notin {a, b} => u # t
                           /\ <<"list", u>> \notin {a, b} => u # l
    OBVIOUS
  <2> HIDE DEF a, b
  <2> QED BY <1>7, <1>12, <1>13, <2>1, <2>2, <2>3, SpanMoves DEF SpmcInv
<1>17. ASSUME NEW u \in Threads, u # t PROVE CallOK(u)'
  <2>1. CallOK(u) /\ pc'[u] = pc[u] /\ op'[u] = op[u] /\ op[u] \in Calls
    BY <1>1, <1>9, <1>17, Zenon DEF SpmcInv, CallInv, CallTypes
  <2>2. CASE op[u].list = l
    <3>1. op[u].ver \in Nat
      BY <2>1, Constants DEF Calls
    <3>2. pc[u] \in {"half", "next", "cas"} => op[u].ver <= v
      BY <1>3, <2>1, <2>2, Zenon DEF CallOK
    <3>3. pc[u] \in {"half", "next", "cas"} => op[u].ver <= v + 1 /\ op[u].ver # v + 1
      BY <1>3, <3>1, <3>2, SMTT(20)
    <3>4. pc[u] = "cas" => ~HeadMatches(u)'
      BY <1>9, <2>1, <2>2, <3>3 DEF HeadMatches
    <3>5. pc[u] \in {"half", "next", "cas"} => op[u].ver <= head'[op[u].list].ver
      BY <1>9, <2>2, <3>3, Zenon
    <3>6. UNCHANGED <<next, span, holds>>
      BY <1>1, Zenon
    <3>7. pc[u] = "read" => op[u].ver + 1 < v \/ v = op[u].ver + 1
      BY <1>3, <2>1, <2>2, Zenon DEF CallOK
    <3>8. pc[u] = "read" => op[u].ver + 1 < v + 1
      BY <1>3, <3>1, <3>7
    <3>9. pc[u] = "read" => op[u].ver + 1 < head'[op[u].list].ver
      BY <1>9, <2>2, <3>8, Zenon
    <3> QED BY <2>1, <3>4, <3>5, <3>6, <3>9, Zenon DEF CallOK
  <2>3. CASE op[u].list # l
    <3>1. op[u].list \in Threads => head'[op[u].list] = head[op[u].list]
      BY <1>9, <2>3, Zenon
    <3>2. pc[u] = "cas" => (HeadMatches(u)' <=> HeadMatches(u))
      BY <2>1, <3>1, Zenon DEF HeadMatches, CallOK
    <3>3. UNCHANGED <<next, span, holds>>
      BY <1>1
    <3> QED BY <2>1, <3>1, <3>2, <3>3, Zenon DEF CallOK
  <2> QED BY <2>2, <2>3, Zenon
<1>18. CallInv'
  <2>1. s \notin holds[t]
    <3>1. s \in SpansIn(l) /\ l \in Threads
      BY <1>3, <1>4, <1>7, Zenon
    <3> QED BY <3>1, SpanFacts, Zenon
  <2>2. CallOK(t)'
    <3>1. /\ pc'[t] = "read" /\ op'[t].list \in Threads /\ op'[t].ptr \in Nodes /\ op'[t].next \in Nodes
          /\ op'[t].span \in Spans \ holds'[t] /\ span'[op'[t].next] = op'[t].span
          /\ head'[op'[t].list].ptr = op'[t].next /\ head'[op'[t].list].ver = op'[t].ver + 1
      BY <1>1, <1>3, <1>6, <1>7, <1>9, <1>o, <2>1, Zenon
    <3> QED BY <3>1, Zenon DEF CallOK
  <2> QED BY <1>8, <1>17, <2>2 DEF CallInv
<1>19. NodeOwners'
  <2>1. ASSUME NEW x \in Spans PROVE OwnsNode(x)' <=> OwnsNode(x)
    BY <1>1, <1>9, Zenon DEF OwnsNode
  <2> QED BY <1>1, <2>1, Zenon DEF SpmcInv, NodeOwners
<1>20. ListInv'
  BY <1>11, <1>12 DEF ListInv
<1>21. SpmcInv'
  BY <1>8, <1>15, <1>16, <1>18, <1>19, <1>20 DEF SpmcInv, OnePlace
<1> QED BY <1>3, <1>14, <1>21, Zenon

(* If the winner's load yields the span it won, this span has no node and  *)
(* the outgoing dummy becomes its node.                                    *)
LEMMA PopReadKeeps ==
  ASSUME SpmcInv, NEW t \in Threads, PopRead(t), Carried(t) = op[t].span
  PROVE  SpmcInv' /\ SameQueues
<1>0. PICK s, p : s = span[op[t].next] /\ s = op[t].span /\ p = op[t].ptr
  BY Zenon DEF Carried
<1>1. /\ TypeOK /\ CallTypes /\ pc[t] = "read" /\ UNCHANGED <<head, tail, next, span>>
      /\ node' = [node EXCEPT ![s] = p] /\ holds' = [holds EXCEPT ![t] = holds[t] \cup {s}]
      /\ pc' = [pc EXCEPT ![t] = "idle"] /\ op' = [op EXCEPT ![t] = NoOp]
  BY <1>0, Zenon DEF PopRead, Carried, Outgoing, Done, Goto, SpmcInv, CallInv
<1>2. s \in Spans /\ s \notin holds[t] /\ p \in Nodes /\ op[t].next \in Nodes
  BY <1>0, <1>1, Zenon DEF SpmcInv, CallInv, CallOK
<1>3. NodeInHand(t) = p /\ InHands(t) = holds[t] \cup {s}
  BY <1>0, <1>1, Zenon DEF NodeInHand, InHands
<1>4. TypeOK' /\ CallTypes'
  BY <1>1, <1>2, NoOpIs, Zenon DEF TypeOK, CallTypes, Pcs
<1>5. /\ pc'[t] = "idle" /\ node'[s] = p /\ holds'[t] = holds[t] \cup {s}
      /\ \A u \in Threads : u # t => pc'[u] = pc[u] /\ op'[u] = op[u] /\ holds'[u] = holds[u]
      /\ \A x \in Spans : x # s => node'[x] = node[x]
  BY <1>1, <1>2, Zenon DEF TypeOK, CallTypes
<1>6. \A u \in Threads : s \notin holds[u]
  BY <1>2, <1>3, SpanFacts, Zenon
<1>7. node[s] = NULL
  <2>1. ~OwnsNode(s)
    BY <1>6, Zenon DEF OwnsNode
  <2> QED BY <1>2, <2>1, Zenon DEF SpmcInv, NodeOwners
<1>8. ASSUME NEW u \in Threads, u # t PROVE CallOK(u)'
  <2>1. CallOK(u) /\ pc'[u] = pc[u] /\ op'[u] = op[u] /\ holds'[u] = holds[u]
    BY <1>5, <1>8, Zenon DEF SpmcInv, CallInv
  <2> QED BY <1>1, <2>1, Zenon DEF CallOK, HeadMatches
<1>9. CallInv'
  <2>1. CallOK(t)'
    BY <1>5, Zenon DEF CallOK
  <2> QED BY <1>4, <1>8, <2>1 DEF CallInv
<1>10. /\ InHands(t)' = InHands(t) /\ NodeInHand(t)' = NULL
       /\ \A u \in Threads : u # t => InHands(u)' = InHands(u) /\ NodeInHand(u)' = NodeInHand(u)
  <2>1. InHands(t)' = holds[t] \cup {s} /\ NodeInHand(t)' = NULL
    BY <1>5, Zenon DEF InHands, NodeInHand
  <2>2. ASSUME NEW u \in Threads, u # t PROVE InHands(u)' = InHands(u) /\ NodeInHand(u)' = NodeInHand(u)
    <3>1. pc'[u] = pc[u] /\ op'[u] = op[u] /\ holds'[u] = holds[u] /\ span' = span
      BY <1>1, <1>5, <2>2, Zenon
    <3> QED BY <3>1, Zenon DEF InHands, NodeInHand
  <2> QED BY <1>3, <2>1, <2>2, Zenon
<1>11. \A l \in Threads : /\ ListOK(l)' /\ NodesIn(l)' = NodesIn(l) /\ SpansIn(l)' = SpansIn(l)
                          /\ QueueOf(l)' = QueueOf(l)
  BY <1>1, ListKept, Zenon DEF SpmcInv
<1>12. OnePlace(Spans, SpansAt')
  BY <1>10, <1>11, SpansStay, Zenon DEF SpmcInv
<1>13. OnePlace(Nodes, NodesAt')
  <2> DEFINE a == <<"hand", t>>
             b == <<"span", s>>
  <2>1. /\ a \in Places /\ b \in Places /\ a # b
        /\ NodesAt[a] = {NodeInHand(t)} \ {NULL} /\ NodesAt'[a] = {NodeInHand(t)'} \ {NULL}
        /\ NodesAt[b] = {node[s]} \ {NULL} /\ NodesAt'[b] = {node'[s]} \ {NULL}
    BY <1>2, PlacesAre, PlaceHas, PlaceHasNext, Zenon
  <2>2. p # NULL
    BY <1>2, Constants, Zenon
  <2>3. p \in NodesAt[a] /\ NodesAt'[a] = NodesAt[a] \ {p} /\ NodesAt'[b] = NodesAt[b] \cup {p}
    BY <1>3, <1>5, <1>7, <1>10, <2>1, <2>2
  <2>4. /\ \A u \in Threads : <<"hand", u>> \notin {a, b} => u # t
        /\ \A x \in Spans : <<"span", x>> \notin {a, b} => x # s
    BY Zenon
  <2> HIDE DEF a, b
  <2> QED BY <1>2, <1>5, <1>10, <1>11, <2>1, <2>3, <2>4, NodeMoves DEF SpmcInv
<1>14. NodeOwners'
  <2>1. OwnsNode(s)' /\ node'[s] # NULL
    BY <1>2, <1>5, Constants, Zenon DEF OwnsNode
  <2>2. ASSUME NEW x \in Spans, x # s PROVE OwnsNode(x)' <=> OwnsNode(x)
    <3>1. ASSUME NEW u \in Threads
          PROVE  (x \in holds'[u] /\ ~(pc'[u] = "link" /\ op'[u].span = x)) <=>
                 (x \in holds[u] /\ ~(pc[u] = "link" /\ op[u].span = x))
      BY <1>1, <1>5, <2>2, Zenon
    <3> QED BY <3>1 DEF OwnsNode
  <2> QED BY <1>5, <2>1, <2>2, Zenon DEF SpmcInv, NodeOwners
<1> QED BY <1>4, <1>9, <1>10, <1>11, <1>12, <1>13, <1>14, Zenon DEF SpmcInv, ListInv, OnePlace, SameQueues

-----------------------------------------------------------------------------
(* At first every list is its own dummy and every node its span's.         *)
LEMMA InitSpmcInv ==
  ASSUME Init
  PROVE  /\ SpmcInv /\ \A l \in Threads : QueueOf(l) = <<>>
         /\ \A t \in Threads : InHands(t) = holds[t]
         /\ \E first \in [Spans -> Threads] : \A t \in Threads : holds[t] = {s \in Spans : first[s] = t}
<1>1. PICK first \in [Spans -> Threads] : holds = [t \in Threads |-> {s \in Spans : first[s] = t}]
  BY Zenon DEF Init
<1>2. \A t \in Threads : holds[t] = {s \in Spans : first[s] = t}
  BY <1>1, Zenon
<1>3. TypeOK
  BY <1>1, Constants DEF Init, TypeOK, Nodes
<1>4. CallInv
  <2>1. CallTypes
    BY NoOpIs, Zenon DEF Init, CallTypes, Pcs
  <2>2. ASSUME NEW t \in Threads PROVE CallOK(t)
    BY Zenon DEF Init, CallOK
  <2> QED BY <2>1, <2>2, Zenon DEF CallInv
<1>5. NodeOwners
  <2>1. ASSUME NEW s \in Spans PROVE node[s] # NULL /\ OwnsNode(s)
    <3>1. first[s] \in Threads /\ s \in holds[first[s]] /\ pc[first[s]] = "idle"
      BY <1>2 DEF Init
    <3>2. OwnsNode(s)
      BY <3>1, Zenon DEF OwnsNode
    <3> QED BY <3>2, Constants, Zenon DEF Init
  <2> QED BY <2>1, Zenon DEF NodeOwners
<1>6. ASSUME NEW l \in Threads
      PROVE  Chain(l) = <<l>> /\ QueueOf(l) = <<>> /\ ListOK(l) /\ NodesIn(l) = {l} /\ SpansIn(l) = {}
  <2>1. l \in Nodes /\ head[l].ptr = l /\ tail[l] = l /\ next[l] = NULL
    BY Zenon DEF Init, Nodes
  <2>2. Linked(<<l>>, l, l, next) /\ IsInjective(<<l>>)
    BY <2>1 DEF Linked, IsInjective
  <2>3. Chain(l) = <<l>>
    BY <1>3, <2>1, <2>2, ChainIs, Zenon DEF Chain, TypeOK
  <2>4. QueueOf(l) = <<>>
    BY <2>3 DEF QueueOf, Carries
  <2>5. NodesIn(l) = {l} /\ SpansIn(l) = {}
    BY <2>3, <2>4 DEF NodesIn, SpansIn, Range
  <2>6. IsInjective(QueueOf(l)) /\ QueueOf(l) \in Seq(Spans)
    BY <2>4 DEF IsInjective
  <2> QED BY <2>1, <2>2, <2>3, <2>4, <2>5, <2>6, Zenon DEF ListOK
<1>7. \A t \in Threads : InHands(t) = holds[t] /\ NodeInHand(t) = NULL
  BY Zenon DEF Init, InHands, NodeInHand
<1>8. OnePlace(Nodes, NodesAt)
  <2>1. ASSUME NEW q \in Places, NEW n \in NodesAt[q]
        PROVE  \/ n \in Threads /\ q = <<"list", n>>
               \/ n \in Spans /\ q = <<"span", n>>
    <3>1. CASE \E t \in Threads : q = <<"list", t>>
      <4>1. PICK t \in Threads : q = <<"list", t>>
        BY <3>1, Zenon
      <4>2. NodesAt[q] = {t}
        BY <1>6, <4>1, PlaceHas, Zenon
      <4> QED BY <2>1, <4>1, <4>2, Zenon
    <3>2. CASE \E t \in Threads : q = <<"hand", t>>
      <4>1. PICK t \in Threads : q = <<"hand", t>>
        BY <3>2, Zenon
      <4>2. NodesAt[q] = {}
        BY <1>7, <4>1, PlaceHas, Zenon
      <4> QED BY <2>1, <4>2, Zenon
    <3>3. CASE \E s \in Spans : q = <<"span", s>>
      <4>1. PICK s \in Spans : q = <<"span", s>>
        BY <3>3, Zenon
      <4>2. node[s] = s
        BY Zenon DEF Init
      <4>3. NodesAt[q] = {node[s]} \ {NULL}
        BY <4>1, PlaceHas, Zenon
      <4> QED BY <2>1, <4>1, <4>2, <4>3, Zenon
    <3> QED BY <3>1, <3>2, <3>3, PlacesAre, Zenon
  <2>2. ASSUME NEW n \in Threads
        PROVE  \E p \in DOMAIN NodesAt : \A q \in DOMAIN NodesAt : n \in NodesAt[q] <=> q = p
    <3>1. NodesAt[<<"list", n>>] = {n}
      BY <1>6, PlaceHas, Zenon
    <3>2. <<"list", n>> \in Places /\ DOMAIN NodesAt = Places /\ n \notin Spans
      BY PlacesAre, Constants, Zenon
    <3> QED BY <2>1, <3>1, <3>2, Zenon
  <2>3. ASSUME NEW n \in Spans
        PROVE  \E p \in DOMAIN NodesAt : \A q \in DOMAIN NodesAt : n \in NodesAt[q] <=> q = p
    <3>1. node[n] = n /\ n # NULL
      BY Constants, Zenon DEF Init
    <3>2. <<"span", n>> \in Places /\ n \in NodesAt[<<"span", n>>] /\ DOMAIN NodesAt = Places /\ n \notin Threads
      BY <3>1, PlaceHas, PlacesAre, Constants
    <3> QED BY <2>1, <3>2, Zenon
  <2> QED BY <2>2, <2>3, Zenon DEF OnePlace, Nodes
<1>9. OnePlace(Spans, SpansAt)
  <2>1. ASSUME NEW s \in Spans
        PROVE  \E p \in DOMAIN SpansAt : \A q \in DOMAIN SpansAt : s \in SpansAt[q] <=> q = p
    <3>1. /\ first[s] \in Threads /\ <<"hand", first[s]>> \in DOMAIN SpansAt
          /\ s \in SpansAt[<<"hand", first[s]>>]
      <4>1. first[s] \in Threads /\ s \in InHands(first[s])
        BY <1>2, <1>7
      <4>2. <<"hand", first[s]>> \in DOMAIN SpansAt
        BY <4>1, PlacesAre, Zenon
      <4>3. SpansAt[<<"hand", first[s]>>] = InHands(first[s])
        BY <4>1, PlaceHas, Zenon
      <4> QED BY <4>1, <4>2, <4>3, Zenon
    <3>2. ASSUME NEW q \in DOMAIN SpansAt, s \in SpansAt[q] PROVE q = <<"hand", first[s]>>
      <4>1. PICK t \in Threads : q = <<"list", t>> \/ q = <<"hand", t>>
        BY <3>2, PlacesAre, Zenon
      <4>2. SpansAt[<<"list", t>>] = {} /\ SpansAt[<<"hand", t>>] = {x \in Spans : first[x] = t}
        <5>1. SpansAt[<<"list", t>>] = SpansIn(t) /\ SpansAt[<<"hand", t>>] = InHands(t)
          BY PlaceHas, Zenon
        <5> QED BY <1>2, <1>6, <1>7, <5>1, Zenon
      <4> QED BY <3>2, <4>1, <4>2, Zenon
    <3> QED BY <3>1, <3>2, Zenon
  <2> QED BY <2>1, Zenon DEF OnePlace
<1> QED BY <1>2, <1>3, <1>4, <1>5, <1>6, <1>7, <1>8, <1>9 DEF SpmcInv, ListInv

(* What a step does to the queues: nothing, or one move of a span.         *)
QueueStep ==
  \/ SameQueues
  \/ \E t \in Threads : (\E s \in Spans : Publishes(t, s)) \/ (\E l \in Threads : Takes(t, l))

(* Every step but a wrong load keeps the invariant and moves at most one   *)
(* span.                                                                   *)
LEMMA NextKeeps ==
  ASSUME SpmcInv, [Next]_vars, ~misread'
  PROVE  SpmcInv' /\ QueueStep
<1>1. CASE UNCHANGED vars
  <2>1. SpmcInv'
    <3>1. TypeOK' /\ NodeOwners'
      BY <1>1, Zenon DEF vars, SpmcInv, TypeOK, NodeOwners, OwnsNode
    <3>2. CallInv'
      <4>1. ASSUME NEW t \in Threads PROVE CallOK(t)'
        <5>1. CallOK(t)
          BY Zenon DEF SpmcInv, CallInv
        <5> QED BY <1>1, <5>1, Zenon DEF vars, CallOK, HeadMatches
      <4> QED BY <1>1, <4>1, Zenon DEF vars, SpmcInv, CallInv, CallTypes
    <3>3. \A l \in Threads : /\ ListOK(l)' /\ NodesIn(l)' = NodesIn(l) /\ SpansIn(l)' = SpansIn(l)
                             /\ InHands(l)' = InHands(l) /\ NodeInHand(l)' = NodeInHand(l)
      <4>1. \A l \in Threads : ListOK(l)' /\ NodesIn(l)' = NodesIn(l) /\ SpansIn(l)' = SpansIn(l)
        BY <1>1, ListKept, Zenon DEF vars, SpmcInv
      <4> QED BY <1>1, <4>1, Zenon DEF vars, InHands, NodeInHand
    <3>4. OnePlace(Nodes, NodesAt') /\ OnePlace(Spans, SpansAt')
      BY <1>1, <3>3, NodesStay, SpansStay, Zenon DEF vars, SpmcInv
    <3> QED BY <3>1, <3>2, <3>3, <3>4, Zenon DEF SpmcInv, ListInv, OnePlace
  <2>2. SameQueues
    BY <1>1, Zenon DEF vars, SameQueues, QueueOf, Chain, InHands
  <2> QED BY <2>1, <2>2, Zenon DEF QueueStep
<1>2. CASE Next
  <2>1. PICK t \in Threads :
          \/ \E s \in Spans : EnqueuePrepare(t, s)
          \/ EnqueueLink(t)
          \/ \E l \in Threads : PopLoadHead(t, l)
          \/ PopLoadHalf(t) \/ PopLoadNext(t) \/ PopEmpty(t) \/ PopWin(t) \/ PopFail(t) \/ PopRead(t)
    BY <1>2, Zenon DEF Next
  <2>2. CASE \E s \in Spans : EnqueuePrepare(t, s)
    BY <2>2, EnqueuePrepareKeeps, Zenon DEF QueueStep
  <2>3. CASE EnqueueLink(t)
    BY <2>3, EnqueueLinkKeeps, Zenon DEF QueueStep
  <2>4. CASE \E l \in Threads : PopLoadHead(t, l)
    BY <2>4, PopLoadHeadKeeps, Zenon DEF QueueStep
  <2>5. CASE PopLoadHalf(t)
    BY <2>5, PopLoadHalfKeeps, Zenon DEF QueueStep
  <2>6. CASE PopLoadNext(t)
    BY <2>6, PopLoadNextKeeps, Zenon DEF QueueStep
  <2>7. CASE PopEmpty(t) \/ PopFail(t)
    BY <2>7, PopEndsKeeps, Zenon DEF QueueStep
  <2>8. CASE PopWin(t)
    BY <2>8, PopWinKeeps, Zenon DEF QueueStep
  <2>9. CASE PopRead(t)
    <3>1. Carried(t) = op[t].span
      BY <2>9, Zenon DEF PopRead
    <3> QED BY <2>9, <3>1, PopReadKeeps, Zenon DEF QueueStep
  <2> QED BY <2>1, <2>2, <2>3, <2>4, <2>5, <2>6, <2>7, <2>8, <2>9, Zenon
<1> QED BY <1>1, <1>2, Zenon

(* Once a popper has loaded the wrong span, that stays on record.          *)
LEMMA MisreadStays ==
  ASSUME [Next]_vars, misread
  PROVE  misread'
  BY Zenon DEF Next, vars, EnqueuePrepare, EnqueueLink, PopLoadHead, PopLoadHalf, PopLoadNext, PopEmpty,
           PopWin, PopFail, PopRead

(* Whatever threads do, and although a node may be enqueued again while a  *)
(* popper has yet to load its span (try_pop_head_once, enqueue_by_owner),  *)
(* the invariant holds until such a load goes wrong.                       *)
THEOREM SpmcInvariant == Spec => [](misread \/ SpmcInv)
<1>1. Init => misread \/ SpmcInv
  BY InitSpmcInv, Zenon
<1>2. (misread \/ SpmcInv) /\ [Next]_vars => (misread \/ SpmcInv)'
  BY NextKeeps, MisreadStays, Zenon
<1> QED BY <1>1, <1>2, PTL DEF Spec

(* A popped span belongs to one thread: it is in nobody else's hands and   *)
(* in no list (allocator.rs: "acquire hands us exclusive ownership"),      *)
(* until a popper loads the wrong span.                                    *)
THEOREM SpanIsExclusive == Spec => []ExclusiveUntilMisread
<1>1. ASSUME SpmcInv PROVE SpanExclusive
  <2>1. ASSUME NEW t \in Threads, NEW u \in Threads, t # u, NEW s \in holds[t] PROVE s \notin holds[u]
    BY <1>1, <2>1, SpanFacts, Zenon DEF SpmcInv, TypeOK
  <2>2. ASSUME NEW t \in Threads, NEW l \in Threads, NEW s \in holds[t] PROVE s \notin SpansIn(l)
    BY <1>1, <2>2, SpanFacts, Zenon DEF SpmcInv, TypeOK
  <2> QED BY <2>1, <2>2, Zenon DEF SpanExclusive
<1>2. misread \/ SpmcInv => ExclusiveUntilMisread
  BY <1>1, Zenon DEF ExclusiveUntilMisread
<1> QED BY <1>2, SpmcInvariant, PTL

(* No node is lost and none is in two places ("Node count is conserved",   *)
(* spmc_span_list.rs:10), until a popper loads the wrong span.             *)
THEOREM NodesAreConserved == Spec => []ConservedUntilMisread
<1>1. misread \/ SpmcInv => ConservedUntilMisread
  BY Zenon DEF SpmcInv, ConservedUntilMisread, NodesConserved, ListInv, ListOK, Linked
<1> QED BY <1>1, SpmcInvariant, PTL

(* A popper loads the wrong span only if another pop of the same list has  *)
(* won since its own CAS2 (spmc_span_list.rs:139-143): no enqueue alone    *)
(* can mislead it.                                                         *)
THEOREM MisreadTakesAnotherPop == Spec => MisreadNeedsAnotherPop
<1> DEFINE Overtaken(t) == pc[t] = "read" /\ pc'[t] # "read" /\ op[t].ver + 1 < head[op[t].list].ver
<1>1. ASSUME misread \/ SpmcInv, [Next]_vars, misread', ~misread PROVE \E t \in Threads : Overtaken(t)
  <2>1. PICK t \in Threads : PopRead(t) /\ Carried(t) # op[t].span
    BY <1>1, Zenon DEF Next, vars, EnqueuePrepare, EnqueueLink, PopLoadHead, PopLoadHalf, PopLoadNext,
             PopEmpty, PopWin, PopFail, PopRead
  <2>2. CallOK(t) /\ CallTypes
    BY <1>1, Zenon DEF SpmcInv, CallInv
  <2>3. pc[t] = "read" /\ pc'[t] = "idle"
    BY <2>1, <2>2, Zenon DEF PopRead, Done, Goto, CallTypes
  <2>4. op[t].ver + 1 < head[op[t].list].ver
    BY <2>1, <2>2, <2>3, Zenon DEF CallOK, Carried
  <2> QED BY <2>3, <2>4, Zenon
<1>2. (misread \/ SpmcInv) /\ [Next]_vars => [misread' /\ ~misread => \E t \in Threads : Overtaken(t)]_vars
  BY <1>1, Zenon
<1> QED BY <1>2, SpmcInvariant, PTL DEF Spec, MisreadNeedsAnotherPop

(* The lists of nodes implement SpanQueue: an enqueue appends its span     *)
(* once, a won CAS2 takes the oldest span of its list, and no other step   *)
(* shows, until a popper loads the wrong span.                             *)
THEOREM SpmcImplementsQueue == Spec => QueueUntilMisread
<1> DEFINE Q == [l \in Threads |-> QueueOf(l)]
           H == [t \in Threads |-> InHands(t)]
<1>1. Init => Queue!Init
  <2> SUFFICES ASSUME Init PROVE Queue!Init
    BY Zenon
  <2>1. Q = [t \in Threads |-> <<>>]
    BY InitSpmcInv, Zenon
  <2>2. PICK first \in [Spans -> Threads] : \A t \in Threads : H[t] = {s \in Spans : first[s] = t}
    BY InitSpmcInv, Zenon
  <2>3. H \in [Threads -> SUBSET Spans]
    BY <2>2, Zenon
  <2>4. UNION {H[t] : t \in Threads} = Spans
    BY <2>2
  <2>5. \A t, u \in Threads : t # u => H[t] \cap H[u] = {}
    BY <2>2, Zenon
  <2> HIDE DEF Q, H
  <2> QED BY <2>1, <2>3, <2>4, <2>5, Zenon DEF Queue!Init, Q, H
<1>2. (misread \/ SpmcInv) /\ [Next]_vars => [misread' \/ Queue!Next]_(Queue!vars)
  <2> SUFFICES ASSUME SpmcInv, [Next]_vars, ~misread' PROVE [misread' \/ Queue!Next]_(Queue!vars)
    BY MisreadStays, Zenon
  <2>1. CASE SameQueues
    <3>1. Q' = Q /\ H' = H
      BY <2>1, Zenon DEF SameQueues
    <3> QED BY <3>1, Zenon DEF Queue!vars
  <2>2. ASSUME NEW t \in Threads, NEW s \in Spans, Publishes(t, s) PROVE Queue!Next
    <3>1. s \in H[t] /\ H' = [H EXCEPT ![t] = @ \ {s}] /\ Q' = [Q EXCEPT ![t] = Append(@, s)]
      BY <2>2, Zenon DEF Publishes
    <3> QED BY <3>1, Zenon DEF Queue!Next, Queue!Publish
  <2>3. ASSUME NEW t \in Threads, NEW l \in Threads, Takes(t, l) PROVE Queue!Next
    <3>1. Q[l] # <<>> /\ H' = [H EXCEPT ![t] = @ \cup {Head(Q[l])}] /\ Q' = [Q EXCEPT ![l] = Tail(@)]
      BY <2>3, Zenon DEF Takes
    <3> QED BY <3>1, Zenon DEF Queue!Next, Queue!Pop
  <2> QED BY <2>1, <2>2, <2>3, NextKeeps, Zenon DEF QueueStep
<1> QED BY <1>1, <1>2, SpmcInvariant, PTL DEF Spec, QueueUntilMisread
=============================================================================
