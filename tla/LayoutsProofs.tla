--------------------------- MODULE LayoutsProofs ----------------------------
(* Proofs about the arithmetic of Layouts: every payload is placed         *)
(* soundly, for every geometry, every layout and every run.                *)
EXTENDS Layouts, WellFoundedInduction, TLAPS

(* A quotient times its divisor is the number less a remainder.            *)
LEMMA DivBounds ==
  ASSUME NEW x \in Int, NEW a \in Nat \ {0}
  PROVE  /\ x \div a \in Int
         /\ (x \div a) * a \in Int
         /\ (x \div a) * a <= x
         /\ x < (x \div a) * a + a
  OBVIOUS

(* Multiples have no remainder, ...                                        *)
LEMMA MultipleMod ==
  ASSUME NEW k \in Int, NEW a \in Nat \ {0}
  PROVE  Divides(a, k * a)
  BY DEF Divides

(* ... and what has none is a multiple.                                    *)
LEMMA ModMultiple ==
  ASSUME NEW x \in Int, NEW a \in Nat \ {0}, Divides(a, x)
  PROVE  x = (x \div a) * a /\ x \div a \in Int
  BY DEF Divides

(* Sums and differences of multiples are multiples.                        *)
LEMMA ModSum ==
  ASSUME NEW x \in Int, NEW y \in Int, NEW a \in Nat \ {0}, Divides(a, x), Divides(a, y)
  PROVE  Divides(a, x + y) /\ Divides(a, x - y)
<1> DEFINE k == x \div a
           m == y \div a
<1>1. k \in Int /\ m \in Int /\ x = k * a /\ y = m * a
  BY ModMultiple
<1> HIDE DEF k, m
<1>2. k + m \in Int /\ k - m \in Int /\ x + y = (k + m) * a /\ x - y = (k - m) * a
  BY <1>1
<1> QED BY <1>2, MultipleMod

(* A multiple of a multiple is a multiple.                                 *)
LEMMA ModTrans ==
  ASSUME NEW x \in Int, NEW b \in Nat \ {0}, NEW a \in Nat \ {0}, Divides(b, x), Divides(a, b)
  PROVE  Divides(a, x)
<1> DEFINE k == x \div b
           m == b \div a
<1>1. k \in Int /\ x = k * b
  BY ModMultiple
<1>0. m \in Int /\ b = m * a
  BY ModMultiple
<1> HIDE DEF k, m
<1>2. k * m \in Int /\ x = (k * m) * a
  BY <1>0, <1>1
<1> QED BY <1>2, MultipleMod

(* round_up of align.rs: the least multiple of the alignment that is not   *)
(* below the number.                                                       *)
LEMMA RoundUp ==
  ASSUME NEW x \in Nat, NEW a \in Nat \ {0}
  PROVE  /\ round_up(x, a) \in Nat
         /\ round_up(x, a) >= x
         /\ round_up(x, a) <= x + a - 1
         /\ Divides(a, round_up(x, a))
<1>1. (x + a - 1) \in Int /\ (x + a - 1) \div a \in Int
  BY DivBounds
<1>2. round_up(x, a) \in Int /\ round_up(x, a) <= x + a - 1 /\ x + a - 1 < round_up(x, a) + a
  BY <1>1, DivBounds DEF round_up
<1>3. Divides(a, round_up(x, a))
  BY <1>1, MultipleMod DEF round_up
<1> QED BY <1>2, <1>3

(* Two multiples of a number differ by at least that number.               *)
LEMMA MultipleGap ==
  ASSUME NEW x \in Int, NEW y \in Int, NEW a \in Nat \ {0}, Divides(a, x), Divides(a, y), x < y
  PROVE  x + a <= y
<1> DEFINE k == x \div a
           m == y \div a
<1>1. k \in Int /\ m \in Int /\ x = k * a /\ y = m * a
  BY ModMultiple
<1> HIDE DEF k, m
<1>2. k < m
  <2>1. SUFFICES ASSUME k >= m PROVE FALSE
    BY <1>1
  <2>2. k * a >= m * a
    BY <1>1, <2>1
  <2> QED BY <1>1, <2>2
<1>3. (k + 1) * a <= m * a
  BY <1>1, <1>2
<1> QED BY <1>1, <1>3

(* The larger of two commensurate numbers is a multiple of both.           *)
LEMMA LargerMultiple ==
  ASSUME NEW a \in Nat \ {0}, NEW b \in Nat \ {0}, Commensurate(a, b)
  PROVE  Larger(a, b) \in Nat \ {0} /\ Divides(a, Larger(a, b)) /\ Divides(b, Larger(a, b))
<1>1. Divides(a, a) /\ Divides(b, b)
  BY DEF Divides
<1>2. a < b => ~Divides(b, a)
  BY DEF Divides
<1>3. b < a => ~Divides(a, b)
  BY DEF Divides
<1> QED BY <1>1, <1>2, <1>3 DEF Larger, Commensurate

(* The geometry as numbers.                                                *)
LEMMA Geometry ==
  /\ SPAN_SIZE \in Nat \ {0} /\ MIN_BLOCK_SIZE \in Nat \ {0} /\ HUGE_GRANULE_SPANS \in Nat \ {0}
  /\ HDR_SIZE \in Nat \ {0} /\ HDR_ALIGN \in Nat \ {0}
  /\ HEADER_SIZE \in Nat \ {0} /\ HEADER_ALIGN \in Nat \ {0}
  /\ C \in Nat \ {0} /\ C <= WORD_BITS /\ WORD_BITS \in Nat
  /\ MAX_LARGE_RUN_CLASSES <= WORD_BITS /\ MAX_HUGE_RUN_CLASSES <= WORD_BITS
  /\ MAX_LARGE_RUN_CLASSES \in Nat \ {0} /\ MAX_HUGE_RUN_CLASSES \in Nat \ {0}
  /\ SPAN_HEADER_RESERVE \in Nat /\ RegionPtr \in Nat /\ RegionLen \in Nat
  /\ Divides(HDR_ALIGN, HDR_SIZE) /\ Divides(HEADER_ALIGN, HEADER_SIZE)
  BY LayoutsAssumption

(* The number of spans is a number.                                        *)
LEMMA CountNat == Count \in Nat
<1>1. Base \in Nat
  BY Geometry, RoundUp DEF Base
<1> DEFINE x == RegionPtr + RegionLen - Base
<1>2. CASE x >= 0
  <2>1. x \in Int /\ x \div SPAN_SIZE \in Int /\ x < (x \div SPAN_SIZE) * SPAN_SIZE + SPAN_SIZE
    BY <1>1, Geometry, DivBounds
  <2>2. x \div SPAN_SIZE >= 0
    BY <1>2, <2>1, Geometry
  <2> QED BY <1>1, <1>2, <2>1, <2>2, Geometry DEF Count
<1>3. CASE ~(x >= 0)
  BY <1>1, <1>3, Geometry DEF Count
<1> QED BY <1>2, <1>3

(* set_region keeps whole spans: they begin on a span boundary and lie in  *)
(* the memory it was given.                                                *)
LEMMA SpansPlaced ==
  ASSUME NEW r \in 0 .. Count - 1
  PROVE  /\ Count \in Nat
         /\ span_addr(r) \in Nat
         /\ Divides(SPAN_SIZE, span_addr(r))
         /\ span_addr(r) >= RegionPtr
         /\ span_addr(r) + SPAN_SIZE <= RegionPtr + RegionLen
<1> DEFINE end == RegionPtr + RegionLen
           q == (end - Base) \div SPAN_SIZE
<1>1. Base \in Nat /\ Base >= RegionPtr /\ Divides(SPAN_SIZE, Base)
  BY Geometry, RoundUp DEF Base
<1>2. end >= Base /\ Count = q
  <2>1. Count # 0
    OBVIOUS
  <2> QED BY <2>1 DEF Count
<1>3. q \in Int /\ q * SPAN_SIZE <= end - Base
  BY <1>1, Geometry, DivBounds
<1>4. r \in Nat /\ r + 1 <= q
  BY <1>2, <1>3
<1> HIDE DEF q
<1>5. (r + 1) * SPAN_SIZE <= q * SPAN_SIZE
  BY <1>3, <1>4, Geometry
<1>6. r * SPAN_SIZE \in Nat /\ (r + 1) * SPAN_SIZE = r * SPAN_SIZE + SPAN_SIZE
  BY <1>4, Geometry
<1>7. Divides(SPAN_SIZE, r * SPAN_SIZE)
  BY <1>4, Geometry, MultipleMod
<1>8. Divides(SPAN_SIZE, span_addr(r))
  BY <1>1, <1>6, <1>7, Geometry, ModSum DEF span_addr
<1>9. Count \in Nat
  BY <1>2, <1>3, <1>4
<1> QED BY <1>1, <1>3, <1>5, <1>6, <1>8, <1>9, Geometry DEF span_addr

(* init_span: every block of every class is aligned to its size, lies      *)
(* behind the span header and in the span, and masking its address gives   *)
(* the span.                                                               *)
LEMMA SmallIsPlaced == SmallPlaced
<1> SUFFICES ASSUME NEW c \in 0 .. C - 1, NEW r \in 0 .. Count - 1,
                    NEW i \in 0 .. blocks_per_span(class_to_size(c)) - 1
             PROVE  LET p == block_at(span_addr(r), class_to_size(c), i)
                    IN /\ Divides(class_to_size(c), p)
                       /\ p >= span_addr(r) + SPAN_HEADER_RESERVE
                       /\ p + class_to_size(c) <= span_addr(r) + SPAN_SIZE
                       /\ span_from_ptr(p) = span_addr(r)
  BY DEF SmallPlaced
<1> DEFINE size == class_to_size(c)
           s == span_addr(r)
           f == first_block_offset(size)
           p == block_at(s, size, i)
<1>1. size \in Nat \ {0} /\ Divides(size, SPAN_SIZE)
  <2>1. c \in Nat /\ c <= WORD_BITS
    BY Geometry
  <2>2. 2^c \in Nat \ {0} /\ Divides(MIN_BLOCK_SIZE * 2^c, SPAN_SIZE)
    BY <2>1, PowersAssumption, Geometry
  <2> QED BY <2>2, Geometry DEF class_to_size
<1>2. s \in Nat /\ Divides(SPAN_SIZE, s)
  BY SpansPlaced
<1> HIDE DEF size, s
<1>3. f \in Nat /\ f >= SPAN_HEADER_RESERVE /\ Divides(size, f)
  BY <1>1, Geometry, RoundUp DEF first_block_offset
<1> HIDE DEF f
<1>4. /\ (SPAN_SIZE - f) \div size \in Int
      /\ ((SPAN_SIZE - f) \div size) * size <= SPAN_SIZE - f
  BY <1>1, <1>3, Geometry, DivBounds
<1>5. i \in Nat /\ i + 1 <= (SPAN_SIZE - f) \div size
  BY <1>4 DEF blocks_per_span, f, size
<1>6. (i + 1) * size <= SPAN_SIZE - f
  <2> DEFINE m == (SPAN_SIZE - f) \div size
  <2>1. m \in Int /\ i + 1 <= m /\ m * size <= SPAN_SIZE - f
    BY <1>4, <1>5
  <2> HIDE DEF m
  <2>2. (i + 1) * size <= m * size
    BY <1>1, <1>5, <2>1
  <2>3. (i + 1) * size \in Int /\ m * size \in Int /\ SPAN_SIZE - f \in Int
    BY <1>1, <1>3, <1>5, <2>1, Geometry
  <2> QED BY <2>1, <2>2, <2>3
<1>7. i * size \in Nat /\ (i + 1) * size = i * size + size
  BY <1>1, <1>5
<1>12. Divides(size, i * size)
  BY <1>1, <1>5, MultipleMod
<1>8. p = s + f + i * size
  BY DEF block_at, f
<1>9. p >= s + SPAN_HEADER_RESERVE /\ p + size <= s + SPAN_SIZE /\ p \in Nat
  BY <1>1, <1>2, <1>3, <1>6, <1>7, <1>8, Geometry
<1>10. Divides(size, p)
  <2>1. Divides(size, s)
    BY <1>1, <1>2, Geometry, ModTrans
  <2>2. Divides(size, s + f) /\ s + f \in Int
    BY <1>1, <1>2, <1>3, <2>1, ModSum
  <2> QED BY <1>1, <1>7, <1>8, <1>12, <2>2, ModSum
<1>11. span_from_ptr(p) = s
  <2> DEFINE b == (p \div SPAN_SIZE) * SPAN_SIZE
  <2>1. b \in Int /\ b <= p /\ p < b + SPAN_SIZE /\ Divides(SPAN_SIZE, b)
    BY <1>9, Geometry, DivBounds, MultipleMod
  <2> HIDE DEF b
  <2>2. p \in Nat /\ s <= p /\ p < s + SPAN_SIZE
    BY <1>1, <1>2, <1>9, Geometry
  <2>3. ~(b < s)
    BY <1>2, <2>1, <2>2, Geometry, MultipleGap
  <2>4. ~(s < b)
    BY <1>2, <2>1, <2>2, Geometry, MultipleGap
  <2>5. b = s
    BY <1>2, <2>1, <2>3, <2>4
  <2> QED BY <2>5 DEF span_from_ptr, round_down, b
<1> QED BY <1>9, <1>10, <1>11 DEF s, size

(* Sizes and alignments of a layout are numbers, and powers of two.        *)
LEMMA LayoutNumbers ==
  ASSUME NEW l \in AllLayouts
  PROVE  /\ l.size \in Nat /\ l.align \in Nat \ {0}
         /\ Commensurate(l.align, SPAN_SIZE)
         /\ Commensurate(l.align, HDR_ALIGN)
         /\ Commensurate(l.align, HEADER_ALIGN)
         /\ Needed(l) <= 2^WORD_BITS /\ HugeNeeded(l) <= 2^WORD_BITS
  BY AllLayoutsAssumption

(* place_large_payload: in every run that is large enough by the formula   *)
(* of run_class_for_layout the payload is aligned, ends in the run, and    *)
(* the header in front of it is aligned and clear of the span header.      *)
LEMMA LargeIsPlaced ==
  ASSUME NEW l \in AllLayouts
  PROVE  LargePlaced(l)
<1> SUFFICES ASSUME NEW c \in 0 .. MAX_LARGE_RUN_CLASSES - 1, NEW r \in 0 .. Count - 1,
                    run_class_bytes(c) >= Needed(l)
             PROVE  LET p == large_payload(span_addr(r), l)
                    IN /\ Divides(l.align, p)
                       /\ Divides(HDR_ALIGN, p - HDR_SIZE)
                       /\ p - HDR_SIZE >= span_addr(r) + SPAN_HEADER_RESERVE
                       /\ p + l.size <= span_addr(r) + run_class_bytes(c)
  BY DEF LargePlaced
<1> DEFINE run == span_addr(r)
           a == LargeAlign(l)
           p == large_payload(run, l)
<1>1. run \in Nat
  BY SpansPlaced
<1>2. a \in Nat \ {0} /\ Divides(l.align, a) /\ Divides(HDR_ALIGN, a)
  BY LayoutNumbers, Geometry, LargerMultiple DEF LargeAlign
<1> HIDE DEF run, a
<1>3. /\ p \in Nat
      /\ p >= run + SPAN_HEADER_RESERVE + HDR_SIZE
      /\ p <= run + SPAN_HEADER_RESERVE + HDR_SIZE + a - 1
      /\ Divides(a, p)
  <2>1. run + SPAN_HEADER_RESERVE + HDR_SIZE \in Nat
    BY <1>1, Geometry
  <2>2. p = round_up(run + SPAN_HEADER_RESERVE + HDR_SIZE, a)
    BY DEF large_payload, a
  <2> QED BY <1>2, <2>1, <2>2, RoundUp
<1> HIDE DEF p
<1>4. Divides(l.align, p)
  BY <1>2, <1>3, LayoutNumbers, ModTrans
<1>5. Divides(HDR_ALIGN, p)
  BY <1>2, <1>3, Geometry, ModTrans
<1>6. Divides(HDR_ALIGN, p - HDR_SIZE)
  BY <1>3, <1>5, Geometry, ModSum
<1>7. p - HDR_SIZE >= run + SPAN_HEADER_RESERVE
  BY <1>1, <1>3, Geometry
<1>8. run_class_bytes(c) \in Nat
  <2>1. c \in Nat /\ c <= WORD_BITS
    BY Geometry
  <2>2. 2^c \in Nat
    BY <2>1, Geometry, PowersAssumption
  <2> QED BY <2>2, Geometry DEF run_class_bytes
<1>9. SPAN_HEADER_RESERVE + HDR_SIZE + (a - 1) + l.size <= run_class_bytes(c)
  BY DEF Needed, a
<1>10. p + l.size <= run + run_class_bytes(c)
  BY <1>1, <1>2, <1>3, <1>8, <1>9, LayoutNumbers, Geometry
<1> QED BY <1>4, <1>6, <1>7, <1>10 DEF run, p

(* finish_huge: in every run that is large enough by the formula of        *)
(* huge_class_for_layout the payload is aligned and ends in the run.  A    *)
(* run begins on a span boundary, so at most align - SPAN_SIZE bytes are   *)
(* skipped.                                                                *)
LEMMA HugeIsPlaced ==
  ASSUME NEW l \in AllLayouts
  PROVE  HugePlaced(l)
<1> SUFFICES ASSUME NEW c \in 0 .. MAX_HUGE_RUN_CLASSES - 1, NEW r \in 0 .. Count - 1,
                    huge_class_bytes(c) >= HugeNeeded(l)
             PROVE  LET p == huge_payload(span_addr(r), l)
                    IN /\ Divides(l.align, p)
                       /\ p >= span_addr(r)
                       /\ p + l.size <= span_addr(r) + huge_class_bytes(c)
  BY DEF HugePlaced
<1> DEFINE base == span_addr(r)
           a == l.align
           p == huge_payload(base, l)
<1>1. base \in Nat /\ Divides(SPAN_SIZE, base)
  BY SpansPlaced
<1>2. a \in Nat \ {0} /\ l.size \in Nat /\ Commensurate(a, SPAN_SIZE)
  BY LayoutNumbers
<1> HIDE DEF base
<1>3. p \in Nat /\ p >= base /\ p <= base + a - 1 /\ Divides(a, p)
  BY <1>1, <1>2, RoundUp DEF huge_payload
<1>4. huge_class_bytes(c) \in Nat
  <2>1. c \in Nat /\ c <= WORD_BITS
    BY Geometry
  <2>2. 2^c \in Nat
    BY <2>1, Geometry, PowersAssumption
  <2>3. HUGE_GRANULE_SPANS * SPAN_SIZE \in Nat
    BY Geometry
  <2> QED BY <2>2, <2>3 DEF huge_class_bytes
<1> HIDE DEF p
<1>5. CASE a > SPAN_SIZE
  <2>1. Divides(SPAN_SIZE, a)
    <3>1. ~Divides(a, SPAN_SIZE)
      BY <1>2, <1>5, Geometry DEF Divides
    <3> QED BY <1>2, <3>1 DEF Commensurate
  <2>2. Divides(SPAN_SIZE, p)
    BY <1>2, <1>3, <2>1, Geometry, ModTrans
  <2>3. Divides(SPAN_SIZE, base + a) /\ base + a \in Int
    <3>1. base \in Int /\ a \in Int /\ SPAN_SIZE \in Nat \ {0}
      BY <1>1, <1>2, Geometry
    <3>2. Divides(SPAN_SIZE, base + a)
      BY <1>1, <2>1, <3>1, ModSum, Zenon
    <3> QED BY <3>1, <3>2
  <2>4. p + SPAN_SIZE <= base + a
    BY <1>1, <1>2, <1>3, <2>2, <2>3, Geometry, MultipleGap
  <2>5. l.size + (a - SPAN_SIZE) <= huge_class_bytes(c)
    BY <1>5 DEF HugeNeeded
  <2>6. p + l.size <= base + huge_class_bytes(c)
    BY <1>1, <1>2, <1>3, <1>4, <2>4, <2>5, Geometry
  <2> QED BY <1>3, <2>6 DEF base, p
<1>6. CASE ~(a > SPAN_SIZE)
  <2>1. Divides(a, SPAN_SIZE)
    <3>1. a = SPAN_SIZE => Divides(a, SPAN_SIZE)
      BY <1>2 DEF Divides
    <3>2. a < SPAN_SIZE => ~Divides(SPAN_SIZE, a)
      BY <1>2, Geometry DEF Divides
    <3> QED BY <1>2, <1>6, <3>1, <3>2, Geometry DEF Commensurate
  <2>2. Divides(a, base)
    BY <1>1, <1>2, <2>1, Geometry, ModTrans
  <2>3. ~(base < p)
    BY <1>1, <1>2, <1>3, <2>2, MultipleGap
  <2>4. p = base
    BY <1>1, <1>3, <2>3
  <2>5. l.size <= huge_class_bytes(c)
    BY <1>2, <1>6 DEF HugeNeeded
  <2>6. p + l.size <= base + huge_class_bytes(c)
    BY <1>1, <1>2, <1>3, <1>4, <2>4, <2>5
  <2> QED BY <1>3, <2>6 DEF base, p
<1> QED BY <1>5, <1>6

(* The hosted wrapper: in storage aligned as allocation_layout asks the    *)
(* user's pointer is aligned, the header in front of it is aligned and in  *)
(* the storage, and the payload ends with the storage.                     *)
LEMMA HostedIsPlaced ==
  ASSUME NEW l \in AllLayouts
  PROVE  HostedPlaced(l)
<1> SUFFICES ASSUME NEW i \in 0 .. Count
             PROVE  LET a == allocation_layout(l)
                        raw == i * a.storage.align
                        u == user_ptr(raw, l)
                    IN /\ Divides(l.align, u)
                       /\ Divides(HEADER_ALIGN, header_at(u))
                       /\ header_at(u) >= raw
                       /\ u + l.size <= raw + a.storage.size
                       /\ validate_header(a)
  BY DEF HostedPlaced
<1> DEFINE a == Larger(l.align, HEADER_ALIGN)
           h == HeaderOffset(l)
           raw == i * a
           u == raw + h
<1>1. a \in Nat \ {0} /\ Divides(l.align, a) /\ Divides(HEADER_ALIGN, a)
  BY LayoutNumbers, Geometry, LargerMultiple
<1>2. /\ allocation_layout(l).storage.align = a
      /\ allocation_layout(l).storage.size = h + l.size
      /\ allocation_layout(l).offset = h
      /\ user_ptr(raw, l) = u
      /\ header_at(u) = u - HEADER_SIZE
  BY DEF allocation_layout, user_ptr, header_at
<1>0. h = round_up(HEADER_SIZE, a)
  BY DEF HeaderOffset
<1> HIDE DEF a, h
<1>3. h \in Nat /\ h >= HEADER_SIZE /\ Divides(a, h)
  BY <1>0, <1>1, Geometry, RoundUp
<1>4. raw \in Nat
  BY <1>1
<1>5. Divides(a, raw)
  <2>1. i \in Int
    OBVIOUS
  <2> QED BY <1>1, <2>1, MultipleMod, Zenon
<1> HIDE DEF raw
<1>6. u \in Nat /\ Divides(a, u)
  BY <1>1, <1>3, <1>4, <1>5, ModSum
<1> HIDE DEF u
<1>7. Divides(l.align, u)
  BY <1>1, <1>6, LayoutNumbers, ModTrans
<1>8. Divides(HEADER_ALIGN, u)
  BY <1>1, <1>6, Geometry, ModTrans
<1>9. Divides(HEADER_ALIGN, u - HEADER_SIZE)
  BY <1>6, <1>8, Geometry, ModSum
<1>10. u - HEADER_SIZE >= raw /\ u + l.size <= raw + (h + l.size)
  BY <1>3, <1>4, Geometry, LayoutNumbers DEF u
<1>11. validate_header(allocation_layout(l))
  BY <1>2, <1>3, LayoutNumbers DEF validate_header
<1> QED BY <1>2, <1>7, <1>9, <1>10, <1>11 DEF raw

(* Every payload of every path is placed soundly, for every geometry of    *)
(* powers of two, every region and every layout.                           *)
THEOREM PlacementIsSound == PlacementSound
<1>1. RegionPlaced
  BY SpansPlaced DEF RegionPlaced
<1> QED BY <1>1, SmallIsPlaced, LargeIsPlaced, HugeIsPlaced, HostedIsPlaced DEF PlacementSound

(* dealloc_with_token takes a layout to the path that alloc_with_token     *)
(* served it on.                                                           *)
LEMMA SamePath == \A l : FreePath(l) = Path(l)
BY Zenon DEF FreePath, Path

(* The metadata rows carved by from_metadata_region are aligned and do not *)
(* overlap, for every number of threads and every three row types, when    *)
(* the memory is aligned as metadata_region_align asks.                    *)
THEOREM MetadataRowsDisjoint ==
  ASSUME NEW n \in Nat, NEW at \in Nat,
         NEW heap \in [size : Nat, align : Nat \ {0}],
         NEW rec \in [size : Nat, align : Nat \ {0}],
         NEW runrec \in [size : Nat, align : Nat \ {0}],
         Divides(heap.align, at), Divides(rec.align, at), Divides(runrec.align, at)
  PROVE  MetadataPlaced(at, n, heap, rec, runrec)
<1> DEFINE h == n * heap.size
           recOff == round_up(h, rec.align)
           e == recOff + n * rec.size
           runOff == round_up(e, runrec.align)
<1>1. h \in Nat /\ n * rec.size \in Nat /\ n * runrec.size \in Nat
  OBVIOUS
<1>2. 0 + n * heap.size = h /\ at + 0 = at
  BY <1>1
<1> HIDE DEF h
<1>3. recOff \in Nat /\ recOff >= h /\ Divides(rec.align, recOff)
  BY <1>1, RoundUp
<1> HIDE DEF recOff
<1>4. e \in Nat
  BY <1>1, <1>3
<1> HIDE DEF e
<1>5. runOff \in Nat /\ runOff >= e /\ Divides(runrec.align, runOff)
  BY <1>4, RoundUp
<1> HIDE DEF runOff
<1>6. Divides(rec.align, at + recOff) /\ Divides(runrec.align, at + runOff)
  BY <1>3, <1>5, ModSum
<1>7. metadata_offsets(n, heap, rec, runrec)
        = [heap |-> 0, rec |-> recOff, run |-> runOff, end |-> runOff + n * runrec.size]
  BY <1>2 DEF metadata_offsets, recOff, runOff, e
<1> QED BY <1>1, <1>2, <1>3, <1>5, <1>6, <1>7 DEF MetadataPlaced, e

-----------------------------------------------------------------------------
(* Every number up to that of the word has a least power of two above it.  *)
LEMMA Log2Least ==
  ASSUME NEW n \in Nat, n <= 2^WORD_BITS
  PROVE  /\ Log2(n) \in 0 .. WORD_BITS
         /\ 2^Log2(n) >= n
         /\ \A j \in 0 .. WORD_BITS : 2^j >= n => Log2(n) <= j
<1> DEFINE T == {k \in 0 .. WORD_BITS : 2^k >= n}
<1>1. WORD_BITS \in T /\ T \subseteq Nat
  BY Geometry
<1>2. PICK k \in T : \A j \in T : ~(<<j, k>> \in OpToRel(<, Nat))
  BY <1>1, NatLessThanWellFounded, WFMin
<1>3. \A j \in T : ~(j < k)
  BY <1>1, <1>2, Zenon DEF OpToRel
<1>4. \E m \in 0 .. WORD_BITS : 2^m >= n /\ \A j \in 0 .. WORD_BITS : 2^j >= n => m <= j
  BY <1>1, <1>3
<1> QED BY <1>4 DEF Log2

(* A quotient rounded up covers the number and does not exceed it.         *)
LEMMA DivCeil ==
  ASSUME NEW x \in Nat, NEW y \in Nat \ {0}
  PROVE  div_ceil(x, y) \in Nat /\ x <= div_ceil(x, y) * y /\ div_ceil(x, y) <= x
<1> DEFINE q == (x + y - 1) \div y
<1>1. q \in Int /\ q * y \in Int /\ q * y <= x + y - 1 /\ x + y - 1 < q * y + y
  BY DivBounds
<1> HIDE DEF q
<1>2. x <= q * y
  BY <1>1
<1>3. q >= 0
  <2> SUFFICES ASSUME q <= -1 PROVE FALSE
    BY <1>1
  <2>1. q * y <= (-1) * y
    BY <1>1
  <2>2. (-1) * y < 0
    OBVIOUS
  <2> QED BY <1>1, <1>2, <2>1, <2>2
<1>4. q <= x
  <2> SUFFICES ASSUME q >= x + 1 PROVE FALSE
    BY <1>1
  <2>1. q * y >= (x + 1) * y
    BY <1>1
  <2>2. (x + 1) * y = x * y + y /\ x * y >= x /\ x * y \in Nat
    OBVIOUS
  <2> QED BY <1>1, <2>1, <2>2
<1> QED BY <1>1, <1>2, <1>3, <1>4 DEF div_ceil, q

(* The exponent of the power of two above n, if that does not exceed       *)
(* 2^(m - 1), lies below m, and every exponent from it on covers n.        *)
LEMMA Exponent ==
  ASSUME NEW n \in Nat, n <= 2^WORD_BITS,
         NEW m \in Nat \ {0}, m <= WORD_BITS, ~(next_power_of_two(n) > 2^(m - 1))
  PROVE  LET k == Log2(next_power_of_two(n))
         IN k \in 0 .. m - 1 /\ \A c \in k .. m - 1 : 2^c \in Nat /\ 2^c >= n
<1> DEFINE g == next_power_of_two(n)
           k == Log2(g)
<1>1. Log2(n) \in 0 .. WORD_BITS /\ g = 2^Log2(n) /\ g >= n
  BY Log2Least DEF next_power_of_two
<1>2. g \in Nat /\ g <= 2^WORD_BITS
  BY <1>1, Geometry, PowersAssumption
<1> HIDE DEF g
<1>3. /\ k \in 0 .. WORD_BITS /\ 2^k >= g
      /\ \A j \in 0 .. WORD_BITS : 2^j >= g => k <= j
  BY <1>2, Log2Least
<1> HIDE DEF k
<1>4. m - 1 \in 0 .. WORD_BITS /\ 2^(m - 1) \in Nat
  BY Geometry, PowersAssumption
<1>5. 2^(m - 1) >= g
  BY <1>2, <1>4 DEF g
<1>6. k <= m - 1
  BY <1>3, <1>4, <1>5
<1>7. ASSUME NEW c \in k .. m - 1
      PROVE  2^c \in Nat /\ 2^c >= n
  <2>1. c \in 0 .. WORD_BITS /\ k <= c
    BY <1>3, Geometry
  <2>2. 2^c \in Nat /\ 2^k \in Nat /\ 2^k <= 2^c
    BY <1>3, <2>1, PowersAssumption
  <2> QED BY <1>1, <1>2, <1>3, <2>2
<1>8. k \in 0 .. m - 1
  BY <1>3, <1>6
<1> QED BY <1>7, <1>8 DEF k, g

(* The runs of the class that run_class_for_layout computes, and of every  *)
(* class a request escalates to, hold the layout.                          *)
THEOREM LargeClassHolds ==
  ASSUME NEW l \in AllLayouts, run_class_for_layout(l) # None
  PROVE  /\ run_class_for_layout(l) \in 0 .. MAX_LARGE_RUN_CLASSES - 1
         /\ \A c \in run_class_for_layout(l) .. MAX_LARGE_RUN_CLASSES - 1 :
              run_class_bytes(c) >= Needed(l)
<1> DEFINE d == div_ceil(Needed(l), SPAN_SIZE)
           k == Log2(next_power_of_two(d))
<1>0. Needed(l) \in Nat /\ Needed(l) <= 2^WORD_BITS
  <2>1. LargeAlign(l) \in Nat \ {0}
    BY LayoutNumbers, Geometry, LargerMultiple DEF LargeAlign
  <2> QED BY <2>1, LayoutNumbers, Geometry DEF Needed
<1>1. d \in Nat /\ Needed(l) <= d * SPAN_SIZE /\ d <= 2^WORD_BITS
  <2>1. d \in Nat /\ Needed(l) <= d * SPAN_SIZE /\ d <= Needed(l)
    BY <1>0, Geometry, DivCeil
  <2>2. 2^WORD_BITS \in Nat
    BY Geometry, PowersAssumption
  <2> HIDE DEF d
  <2> QED BY <1>0, <2>1, <2>2
<1>2. ~(next_power_of_two(d) > 2^(MAX_LARGE_RUN_CLASSES - 1)) /\ run_class_for_layout(l) = k
  BY DEF run_class_for_layout
<1> HIDE DEF d
<1>3. k \in 0 .. MAX_LARGE_RUN_CLASSES - 1 /\ \A c \in k .. MAX_LARGE_RUN_CLASSES - 1 : 2^c \in Nat /\ 2^c >= d
  BY <1>1, <1>2, Geometry, Exponent
<1> HIDE DEF k
<1>4. ASSUME NEW c \in k .. MAX_LARGE_RUN_CLASSES - 1
      PROVE  run_class_bytes(c) >= Needed(l)
  <2> DEFINE e == 2^c
  <2>1. e \in Nat /\ e >= d
    BY <1>3
  <2>2. run_class_bytes(c) = SPAN_SIZE * e
    BY DEF run_class_bytes
  <2> HIDE DEF e
  <2>3. SPAN_SIZE * e >= SPAN_SIZE * d /\ SPAN_SIZE * d = d * SPAN_SIZE
    BY <1>1, <2>1, Geometry
  <2>4. SPAN_SIZE * e \in Nat /\ d * SPAN_SIZE \in Nat
    BY <1>1, <2>1, Geometry
  <2> QED BY <1>0, <1>1, <2>2, <2>3, <2>4
<1> QED BY <1>2, <1>3, <1>4

(* The same of huge_class_for_layout.                                      *)
THEOREM HugeClassHolds ==
  ASSUME NEW l \in AllLayouts, huge_class_for_layout(l) # None
  PROVE  /\ huge_class_for_layout(l) \in 0 .. MAX_HUGE_RUN_CLASSES - 1
         /\ \A c \in huge_class_for_layout(l) .. MAX_HUGE_RUN_CLASSES - 1 :
              huge_class_bytes(c) >= HugeNeeded(l)
<1> DEFINE d == div_ceil(HugeNeeded(l), HUGE_THRESHOLD)
           x == Larger(d, 1)
           k == Log2(next_power_of_two(x))
<1>0. HugeNeeded(l) \in Nat /\ HugeNeeded(l) <= 2^WORD_BITS
  BY LayoutNumbers, Geometry DEF HugeNeeded
<1>9. HUGE_THRESHOLD \in Nat \ {0} /\ 2^WORD_BITS \in Nat \ {0}
  BY Geometry, PowersAssumption DEF HUGE_THRESHOLD
<1>1. d \in Nat /\ HugeNeeded(l) <= d * HUGE_THRESHOLD /\ d <= HugeNeeded(l)
  BY <1>0, <1>9, DivCeil
<1>2. ~(next_power_of_two(x) > 2^(MAX_HUGE_RUN_CLASSES - 1)) /\ huge_class_for_layout(l) = k
  BY DEF huge_class_for_layout
<1> HIDE DEF d
<1>5. x \in Nat /\ x >= d /\ x <= 2^WORD_BITS
  BY <1>0, <1>1, <1>9 DEF Larger
<1> HIDE DEF x
<1>3. k \in 0 .. MAX_HUGE_RUN_CLASSES - 1 /\ \A c \in k .. MAX_HUGE_RUN_CLASSES - 1 : 2^c \in Nat /\ 2^c >= x
  BY <1>2, <1>5, Geometry, Exponent
<1> HIDE DEF k
<1>4. ASSUME NEW c \in k .. MAX_HUGE_RUN_CLASSES - 1
      PROVE  huge_class_bytes(c) >= HugeNeeded(l)
  <2> DEFINE e == 2^c
             h == HUGE_THRESHOLD
  <2>1. e \in Nat /\ e >= d /\ h \in Nat \ {0} /\ HugeNeeded(l) <= d * h
    BY <1>1, <1>3, <1>5, <1>9
  <2>2. huge_class_bytes(c) = h * e
    BY DEF huge_class_bytes, HUGE_THRESHOLD
  <2> HIDE DEF e, h
  <2>3. h * e >= h * d /\ h * d = d * h
    BY <1>1, <2>1
  <2>4. h * e \in Nat /\ d * h \in Nat
    BY <1>1, <2>1
  <2> QED BY <1>0, <2>1, <2>2, <2>3, <2>4
<1> QED BY <1>2, <1>3, <1>4
=============================================================================
