------------------------------- MODULE Layouts ------------------------------
(***************************************************************************)
(* The arithmetic of the allocator: size classes (src/size_class.rs),      *)
(* rounding (src/align.rs), the region (src/pagemap.rs), the choice among  *)
(* the small, large and huge path (src/allocator.rs), run classes and the  *)
(* place of a payload in its run (src/large.rs, src/huge.rs), the header   *)
(* of the hosted wrapper (src/global.rs) and the carving of the metadata   *)
(* (src/allocator.rs).                                                     *)
(*                                                                         *)
(* Sizes and addresses are natural numbers.  The code adds with            *)
(* checked_add and answers None on overflow, as it does for every sum      *)
(* above the largest run, which is far below the overflow; so exact sums   *)
(* give the same answers.                                                  *)
(***************************************************************************)
EXTENDS Integers

CONSTANTS
  SPAN_SIZE, SPAN_HEADER_RESERVE, MIN_BLOCK_SIZE, MAX_BLOCK_SIZE,
  C,                       \* small classes in use
  MAX_LARGE_RUN_CLASSES,
  MAX_HUGE_RUN_CLASSES,
  HUGE_GRANULE_SPANS,
  HDR_SIZE, HDR_ALIGN,         \* of LargeAllocHeader
  HEADER_SIZE, HEADER_ALIGN,   \* of AllocationHeader
  RegionPtr, RegionLen,    \* the memory given to init
  WORD_BITS,               \* the word has numbers up to 2^WORD_BITS
  AllLayouts,              \* size and align of the layouts considered
  None

(* Alignments are powers of two: the smaller divides the larger.           *)
Divides(a, x) == x % a = 0

Commensurate(a, b) == Divides(a, b) \/ Divides(b, a)

ASSUME LayoutsAssumption ==
  /\ {SPAN_SIZE, MIN_BLOCK_SIZE, MAX_BLOCK_SIZE, HUGE_GRANULE_SPANS} \subseteq Nat \ {0}
  /\ {HDR_SIZE, HDR_ALIGN, HEADER_SIZE, HEADER_ALIGN, C} \subseteq Nat \ {0}
  /\ {MAX_LARGE_RUN_CLASSES, MAX_HUGE_RUN_CLASSES} \subseteq Nat \ {0}
  /\ {SPAN_HEADER_RESERVE, RegionPtr, RegionLen} \subseteq Nat
  /\ Divides(HDR_ALIGN, HDR_SIZE) /\ Divides(HEADER_ALIGN, HEADER_SIZE)
  /\ WORD_BITS \in Nat /\ C <= WORD_BITS
  /\ MAX_LARGE_RUN_CLASSES <= WORD_BITS /\ MAX_HUGE_RUN_CLASSES <= WORD_BITS
  /\ None \notin Nat

(* What the provers do not know of the shifts 1 << n of the code: they are *)
(* positive and grow with n, and those of a small class divide a span.     *)
ASSUME PowersAssumption ==
  /\ \A n \in 0 .. WORD_BITS : 2^n \in Nat \ {0}
  /\ \A m, n \in 0 .. WORD_BITS : m <= n => 2^m <= 2^n
  /\ \A n \in 0 .. C - 1 : Divides(MIN_BLOCK_SIZE * 2^n, SPAN_SIZE)

-----------------------------------------------------------------------------
Larger(a, b) == IF a >= b THEN a ELSE b

(* round_up and round_down with a mask: align is a power of two.           *)
round_up(x, align) == ((x + align - 1) \div align) * align

round_down(x, align) == (x \div align) * align

div_ceil(x, y) == (x + y - 1) \div y

(* The exponent of checked_next_power_of_two.                              *)
Log2(n) == CHOOSE k \in 0 .. WORD_BITS : 2^k >= n /\ \A j \in 0 .. WORD_BITS : 2^j >= n => k <= j

next_power_of_two(n) == 2^Log2(n)

-----------------------------------------------------------------------------
(* size_class.rs.                                                          *)
class_to_size(c) == MIN_BLOCK_SIZE * 2^c

(* The mutant forgets the alignment.                                       *)
BySize(l) == next_power_of_two(Larger(l.size, MIN_BLOCK_SIZE))

BlockFor(l) == next_power_of_two(Larger(Larger(l.size, l.align), MIN_BLOCK_SIZE))

size_to_class(l) ==
  IF l.align > MAX_BLOCK_SIZE \/ BlockFor(l) > MAX_BLOCK_SIZE
    THEN None
    ELSE Log2(BlockFor(l)) - Log2(MIN_BLOCK_SIZE)

first_block_offset(block_size) == round_up(SPAN_HEADER_RESERVE, block_size)

blocks_per_span(block_size) == (SPAN_SIZE - first_block_offset(block_size)) \div block_size

(* init_span puts block i of a span here.                                  *)
block_at(span, block_size, i) == span + first_block_offset(block_size) + i * block_size

span_from_ptr(ptr) == round_down(ptr, SPAN_SIZE)

-----------------------------------------------------------------------------
(* set_region: the whole spans in the memory given to init.                *)
Base == round_up(RegionPtr, SPAN_SIZE)

Count ==
  LET end == RegionPtr + RegionLen
  IN IF end >= Base THEN (end - Base) \div SPAN_SIZE ELSE 0

span_addr(i) == Base + i * SPAN_SIZE

-----------------------------------------------------------------------------
small_class(l) ==
  LET c == size_to_class(l) IN IF c # None /\ c < C THEN c ELSE None

HUGE_THRESHOLD == HUGE_GRANULE_SPANS * SPAN_SIZE

(* The dispatch of alloc_with_token.                                       *)
Path(l) ==
  IF small_class(l) # None THEN "small" ELSE IF l.size >= HUGE_THRESHOLD THEN "huge" ELSE "large"

(* The dispatch of dealloc_with_token, which has only the layout to go by. *)
(* The mutant takes every layout of a small size for a block.              *)
FreePathBySize(l) ==
  IF l.size > MAX_BLOCK_SIZE THEN (IF l.size >= HUGE_THRESHOLD THEN "huge" ELSE "large") ELSE "small"

FreePath(l) ==
  IF small_class(l) = None THEN (IF l.size >= HUGE_THRESHOLD THEN "huge" ELSE "large") ELSE "small"

-----------------------------------------------------------------------------
(* large.rs.                                                               *)
run_class_spans(c) == 2^c

run_class_bytes(c) == SPAN_SIZE * 2^c

LargeAlign(l) == Larger(l.align, HDR_ALIGN)

(* Bytes that hold the reserve, a header and the payload wherever a run    *)
(* begins.                                                                 *)
Needed(l) == SPAN_HEADER_RESERVE + HDR_SIZE + (LargeAlign(l) - 1) + l.size

run_class_for_layout(l) ==
  LET spans == next_power_of_two(div_ceil(Needed(l), SPAN_SIZE))
  IN IF spans > 2^(MAX_LARGE_RUN_CLASSES - 1) THEN None ELSE Log2(spans)

(* place_large_payload in the run at address run.                          *)
large_payload(run, l) == round_up(run + SPAN_HEADER_RESERVE + HDR_SIZE, LargeAlign(l))

-----------------------------------------------------------------------------
(* huge.rs.                                                                *)
huge_class_granules(c) == 2^c

huge_class_bytes(c) == HUGE_GRANULE_SPANS * SPAN_SIZE * 2^c

(* Room for the payload, whose alignment may exceed that of a run.         *)
HugeNeeded(l) == l.size + (IF l.align > SPAN_SIZE THEN l.align - SPAN_SIZE ELSE 0)

huge_class_for_layout(l) ==
  LET g == next_power_of_two(Larger(div_ceil(HugeNeeded(l), HUGE_THRESHOLD), 1))
  IN IF g > 2^(MAX_HUGE_RUN_CLASSES - 1) THEN None ELSE Log2(g)

(* finish_huge in the run at address base.                                 *)
huge_payload(base, l) == round_up(base, l.align)

(* A layout has a power of two as alignment, and the sums made with it do  *)
(* not exceed the word: where they would, the code answers None, as it     *)
(* does for every sum above the largest run.                               *)
ASSUME AllLayoutsAssumption ==
  \A l \in AllLayouts :
    /\ l.size \in Nat /\ l.align \in Nat \ {0}
    /\ \A b \in {SPAN_SIZE, HDR_ALIGN, HEADER_ALIGN} : Commensurate(l.align, b)
    /\ Needed(l) <= 2^WORD_BITS /\ HugeNeeded(l) <= 2^WORD_BITS

-----------------------------------------------------------------------------
(* global.rs: the layout that the wrapper asks of its backends, and the    *)
(* place of the user's pointer in it.                                      *)
HeaderOffset(l) == round_up(HEADER_SIZE, Larger(l.align, HEADER_ALIGN))

allocation_layout(l) ==
  [storage |-> [size |-> HeaderOffset(l) + l.size, align |-> Larger(l.align, HEADER_ALIGN)],
   offset |-> HeaderOffset(l)]

(* finish_allocation at raw, read back by dealloc through the pointer.     *)
user_ptr(raw, l) == raw + allocation_layout(l).offset

header_at(user) == user - HEADER_SIZE

(* validate_header, of a header that alloc wrote: dealloc ignores a        *)
(* pointer whose header it does not accept.                                *)
validate_header(a) == a.offset >= HEADER_SIZE /\ a.offset <= a.storage.size

(* metadata_offsets for n threads and the three row types.                 *)
metadata_offsets(n, heap, rec, runrec) ==
  LET heapOff == 0
      recOff == round_up(heapOff + n * heap.size, rec.align)
      runOff == round_up(recOff + n * rec.size, runrec.align)
  IN [heap |-> heapOff, rec |-> recOff, run |-> runOff, end |-> runOff + n * runrec.size]

-----------------------------------------------------------------------------
Smallest(S) == IF S = {} THEN None ELSE CHOOSE c \in S : \A d \in S : c <= d

(* The bases a run of an over-aligned layout may have, one per remainder.  *)
Bases(l) == {i * SPAN_SIZE : i \in 1 .. Larger(1, l.align \div SPAN_SIZE)}

LargeFits(l, c) ==
  \A b \in Bases(l) : large_payload(b, l) + l.size <= b + run_class_bytes(c)

HugeFits(l, c) ==
  \A b \in Bases(l) : huge_payload(b, l) + l.size <= b + huge_class_bytes(c)

(* The classes computed with shifts, next_power_of_two and trailing_zeros  *)
(* are those the docs define: the small class is the smallest whose blocks *)
(* hold and align the layout ("sized up to satisfy alignment",             *)
(* size_class.rs:40), the huge class the smallest whose runs do wherever   *)
(* they begin (huge.rs:134).  The large class is "guaranteed to hold" the  *)
(* layout (large.rs:82) and at most one above the smallest that is, since  *)
(* align - 1 bytes are reserved even if less would do.  And what is too    *)
(* large for its path has no class there.                                  *)
ClassesMatchReference ==
  \A l \in AllLayouts :
    LET smallFits == {c \in 0 .. C + 1 : /\ class_to_size(c) <= MAX_BLOCK_SIZE
                                       /\ class_to_size(c) >= Larger(l.size, l.align)}
        largest == MAX_LARGE_RUN_CLASSES - 1
        largeFits == {c \in 0 .. largest : LargeFits(l, c)}
        hugeFits == {c \in 0 .. MAX_HUGE_RUN_CLASSES - 1 : HugeFits(l, c)}
        large == run_class_for_layout(l)
    IN /\ size_to_class(l) = Smallest(smallFits)
       /\ huge_class_for_layout(l) = Smallest(hugeFits)
       /\ IF large = None THEN Smallest(largeFits) \in {None, largest}
                         ELSE Smallest(largeFits) \in {large, large - 1}

-----------------------------------------------------------------------------
RegionPlaced ==
  \A r \in 0 .. Count - 1 :
    span_addr(r) >= RegionPtr /\ span_addr(r) + SPAN_SIZE <= RegionPtr + RegionLen

SmallPlaced ==
  \A c \in 0 .. C - 1, r \in 0 .. Count - 1 :
    LET size == class_to_size(c)
        s == span_addr(r)
    IN \A i \in 0 .. blocks_per_span(size) - 1 :
         LET p == block_at(s, size, i)
         IN /\ Divides(size, p)
            /\ p >= s + SPAN_HEADER_RESERVE
            /\ p + size <= s + SPAN_SIZE
            /\ span_from_ptr(p) = s

LargePlaced(l) ==
  \A c \in 0 .. MAX_LARGE_RUN_CLASSES - 1, r \in 0 .. Count - 1 :
    run_class_bytes(c) >= Needed(l) =>
      LET run == span_addr(r)
          p == large_payload(run, l)
      IN /\ Divides(l.align, p)
         /\ Divides(HDR_ALIGN, p - HDR_SIZE)
         /\ p - HDR_SIZE >= run + SPAN_HEADER_RESERVE
         /\ p + l.size <= run + run_class_bytes(c)

HugePlaced(l) ==
  \A c \in 0 .. MAX_HUGE_RUN_CLASSES - 1, r \in 0 .. Count - 1 :
    huge_class_bytes(c) >= HugeNeeded(l) =>
      LET base == span_addr(r)
          p == huge_payload(base, l)
      IN /\ Divides(l.align, p)
         /\ p >= base
         /\ p + l.size <= base + huge_class_bytes(c)

HostedPlaced(l) ==
  \A i \in 0 .. Count :
    LET a == allocation_layout(l)
        raw == i * a.storage.align
        u == user_ptr(raw, l)
    IN /\ Divides(l.align, u)
       /\ Divides(HEADER_ALIGN, header_at(u))
       /\ header_at(u) >= raw
       /\ u + l.size <= raw + a.storage.size
       /\ validate_header(a)

(* Every payload is aligned, lies in the memory it was carved from, leaves *)
(* room for the header in front of it and none of it reaches into the next *)
(* span or run, for every request, run and position: what the debug        *)
(* assertions of place_large_payload and finish_huge state, what           *)
(* span_from_ptr relies on to find a block's span, and what the hosted     *)
(* wrapper relies on to find and accept its header.                        *)
PlacementSound ==
  /\ RegionPlaced
  /\ SmallPlaced
  /\ \A l \in AllLayouts : LargePlaced(l) /\ HugePlaced(l) /\ HostedPlaced(l)

(* "The SAME pure-Layout predicates are used in dealloc" (allocator.rs):   *)
(* every layout is freed on the path that serves it.                       *)
DispatchAgrees == \A l \in AllLayouts : FreePath(l) = Path(l)

(* The carving of the metadata at address at: the rows of each type are    *)
(* aligned, follow one another without overlap and end where               *)
(* metadata_region_size says ("each slot lies in the non-overlapping       *)
(* carved region", allocator.rs:211).                                      *)
MetadataPlaced(at, n, heap, rec, runrec) ==
  LET o == metadata_offsets(n, heap, rec, runrec)
  IN /\ Divides(heap.align, at + o.heap)
     /\ Divides(rec.align, at + o.rec)
     /\ Divides(runrec.align, at + o.run)
     /\ o.heap + n * heap.size <= o.rec
     /\ o.rec + n * rec.size <= o.run
     /\ o.run + n * runrec.size = o.end
=============================================================================
