-------------------------------- MODULE Heap --------------------------------
(***************************************************************************)
(* rtprog/alloc.c: the heap of the JRT core and what the functions of the  *)
(* allocator do to it between the turns of their loops.  The model has the *)
(* memory itself, one cell for each u32, so that headers that overlap,     *)
(* links that wrap and stores outside the heap show.  Addresses and sizes  *)
(* count cells from the base of the heap.                                  *)
(***************************************************************************)
EXTENDS Integers

CONSTANTS
  END,       \* cells in the heap
  BASE,      \* address of the base, of which alignment looks at the low bits
  WORD,      \* number of values of a cell (2^32 in the code)
  Align      \* the alignment asked of aligned_alloc

(* The heap has room for a free block.                                     *)
ASSUME HeapAssumption ==
  /\ END \in Nat /\ BASE \in Nat /\ WORD \in Nat /\ Align \in Nat \ {0}
  /\ 5 <= END /\ END < WORD

(* The fields of ablock_t.                                                 *)
PREV == 0
NEXT == 1
USED == 2
NFREE == 3
PFREE == 4
USED_HEADER_SIZE == 3
UNUSED_HEADER_SIZE == 5
MIN_SPLIT_THRESHOLD == 2 * UNUSED_HEADER_SIZE
BLOCK_PTR(b) == b + USED_HEADER_SIZE
PTR_BLOCK(p) == p - USED_HEADER_SIZE
NULL == -1

(* A heap h has the cells, the head of the free list, spill as above, and  *)
(* "bad" once code has gone astray.                                        *)
ld(h, b, f) == IF b + f \in 0 .. END - 1 THEN h.mem[b + f] ELSE 0
put(h, b, f, v) ==
  IF b + f \in 0 .. END - 1 THEN [h EXCEPT !.mem = [@ EXCEPT ![b + f] = v]]
  ELSE IF b = END /\ f = PFREE THEN [h EXCEPT !.spill = h.free]
  ELSE [h EXCEPT !.bad = TRUE]
st(h, b, f, v) == put(h, b, f, v % WORD)
add(h, b, f, v) == st(h, b, f, ld(h, b, f) + v)

nfree(h, b) == b + ld(h, b, NFREE)
pfree(h, b) == b - ld(h, b, PFREE)
next(h, b) == b + ld(h, b, NEXT)
prev(h, b) == IF ld(h, b, PREV) = 0 THEN NULL ELSE b - ld(h, b, PREV)

alloc_init ==
  LET h0 == [mem |-> [c \in 0 .. END - 1 |-> 0], free |-> 0, spill |-> NULL, bad |-> FALSE]
  IN  st(st(h0, 0, NEXT, END), 0, NFREE, END)

split(h, b, size) ==
  LET s  == b + size
      h1 == st(h, s, NEXT, ld(h, b, NEXT) - size)
      h2 == st(h1, b, NEXT, size)
      h3 == st(h2, s, PREV, size)
      h4 == st(h3, s, NFREE, ld(h3, b, NFREE) - size)
      h5 == st(h4, b, NFREE, ld(h4, b, NEXT))
      h6 == st(h5, s, PFREE, ld(h5, s, PREV))
      h7 == st(h6, s, USED, 0)
      h8 == IF next(h7, s) = END THEN h7 ELSE add(h7, next(h7, s), PREV, -size)
  IN  IF nfree(h8, s) = END THEN h8 ELSE add(h8, nfree(h8, s), PFREE, -size)

(* use_block.  When the last free block is taken, the head of the list is  *)
(* the end of the heap, and its prev_free is stored all the same.          *)
use_block_NoEnd(h, b) ==
  LET f  == nfree(h, b)
      h1 == add(h, pfree(h, b), NFREE, ld(h, b, NFREE))
      h2 == IF b = h.free
            THEN st([h EXCEPT !.free = f], f, PFREE, 0)
            ELSE add(h1, f, PFREE, ld(h1, b, PFREE))
  IN  st(h2, b, USED, 1)
use_block(h, b) ==
  LET f  == nfree(h, b)
      h1 == add(h, pfree(h, b), NFREE, ld(h, b, NFREE))
      h2 == IF b = h.free
            THEN st([h EXCEPT !.free = f], f, PFREE, 0)
            ELSE IF f = END THEN h1 ELSE add(h1, f, PFREE, ld(h1, b, PFREE))
  IN  st(h2, b, USED, 1)

(* The end of alloc and aligned_alloc, once the block is chosen.           *)
Carve(h, b, xlen) ==
  use_block(IF ld(h, b, NEXT) - xlen >= MIN_SPLIT_THRESHOLD
            THEN split(h, b, xlen) ELSE h, b)

get_align(p) == (BASE + p) % Align

(* aligned_alloc splits off what is in front of the boundary.              *)
Padding(b) == IF get_align(BLOCK_PTR(b)) = 0 THEN 0 ELSE Align - get_align(BLOCK_PTR(b))
Aligned(h, b) == IF Padding(b) = 0 THEN h ELSE split(h, b, Padding(b))

(* One round of the loop that coalesces.                                   *)
Merge_NoPrev(h, b, n) ==
  LET h1 == IF nfree(h, n) = END THEN h
            ELSE add(h, nfree(h, n), PFREE, ld(h, b, NFREE))
  IN  IF n = END \/ n # next(h, b) THEN h
      ELSE add(add(h1, b, NFREE, ld(h1, n, NFREE)), b, NEXT, ld(h1, n, NEXT))
Merge_NoPFree(h, b, n) ==
  LET h2 == IF next(h, n) = END THEN h
            ELSE add(h, next(h, n), PREV, ld(h, b, NEXT))
  IN  IF n = END \/ n # next(h, b) THEN h
      ELSE add(add(h2, b, NFREE, ld(h2, n, NFREE)), b, NEXT, ld(h2, n, NEXT))
Merge(h, b, n) ==
  LET h1 == IF nfree(h, n) = END THEN h
            ELSE add(h, nfree(h, n), PFREE, ld(h, b, NFREE))
      h2 == IF next(h1, n) = END THEN h1
            ELSE add(h1, next(h1, n), PREV, ld(h1, b, NEXT))
  IN  IF n = END \/ n # next(h, b) THEN h
      ELSE add(add(h2, b, NFREE, ld(h2, n, NFREE)), b, NEXT, ld(h2, n, NEXT))

(* free up to its loops, b being in use.                                   *)
released(h, b) ==
  LET h1 == st(st(h, b, PFREE, 0), b, USED, 0)
  IN  IF b < h.free THEN [h1 EXCEPT !.free = b] ELSE h1

(* free past its loops, n and p being the neighbours in the free list.     *)
relinked(h, b, n, p) ==
  LET h1 == st(h, b, NFREE, n - b)
      h2 == IF n = END THEN h1 ELSE st(h1, n, PFREE, ld(h1, b, NFREE))
      h3 == IF p = NULL THEN h2 ELSE st(h2, b, PFREE, b - p)
  IN  IF p = NULL THEN h3 ELSE st(h3, p, NFREE, ld(h3, b, PFREE))
coalesced(h, b, n, p) ==
  LET h1 == Merge(h, b, n)
  IN  IF p = NULL THEN h1 ELSE Merge(h1, p, b)

(* The case of realloc that enlarges the block b in place: the block       *)
(* behind it is free and large enough.                                     *)
InPlace(h, b, size) ==
  LET n == next(h, b)
  IN  n # END /\ ld(h, n, USED) = 0
      /\ ld(h, b, NEXT) - USED_HEADER_SIZE + ld(h, n, NEXT) >= size
grown(h, b, size) ==
  LET n  == next(h, b)
      nlen == size - (ld(h, b, NEXT) - USED_HEADER_SIZE)
      h1 == use_block(IF ld(h, n, NEXT) - nlen >= MIN_SPLIT_THRESHOLD
                      THEN split(h, n, nlen) ELSE h, n)
      h2 == IF next(h1, n) = END THEN h1 ELSE add(h1, next(h1, n), PREV, ld(h1, b, NEXT))
  IN  add(h2, b, NEXT, ld(h2, n, NEXT))

(* What the allocator cannot serve: a request, split off from a longer     *)
(* block, that with its header is shorter than a free header; a page for   *)
(* which such a prefix is split off; a block returned below the first free *)
(* one; and growth in place by less than a free header.                    *)
ShortRequest(h, b, xlen) ==
  xlen < UNUSED_HEADER_SIZE /\ ld(h, b, NEXT) - xlen >= MIN_SPLIT_THRESHOLD
ShortPrefix(b) == Padding(b) # 0 /\ Padding(b) < UNUSED_HEADER_SIZE
BelowFirst(h, b) == b < h.free /\ h.free # END
ShortGrowth(h, b, size) ==
  /\ InPlace(h, b, size)
  /\ size - (ld(h, b, NEXT) - USED_HEADER_SIZE) < UNUSED_HEADER_SIZE

Cells == 0 .. END - 1

(* The blocks, in steps of next() from the base, as far as they lead.      *)
BlocksOf(h) ==
  LET From[b \in 0 .. END] ==
        IF b = END \/ ld(h, b, NEXT) = 0 \/ next(h, b) \notin 0 .. END THEN {b}
        ELSE {b} \cup From[next(h, b)]
  IN  From[0]

(* The cells that headers take.                                            *)
HeaderSize(h, b) ==
  IF ld(h, b, USED) = 0 THEN UNUSED_HEADER_SIZE ELSE USED_HEADER_SIZE
Headers(h) == UNION {b .. b + HeaderSize(h, b) - 1 : b \in BlocksOf(h)}

=============================================================================
