----------------------------- MODULE AllocProofs -----------------------------
(***************************************************************************)
(* The heap of Alloc stays whole, whatever the order of the calls, for     *)
(* every size of the heap and every set of requests.                       *)
(***************************************************************************)
EXTENDS HeapLemmas, Alloc, WellFoundedInduction

USE DEF PREV, NEXT, USED, NFREE, PFREE

(* A set of natural numbers below a bound has a greatest one.              *)
LEMMA GreatestNat == GreatestExists
  <1>. SUFFICES ASSUME NEW N \in Nat, NEW S \in SUBSET Nat, S # {}, \A n \in S : n <= N
                PROVE  \E m \in S : \A n \in S : n <= m
    BY Zenon DEF GreatestExists
  <1>. DEFINE R == {p \in Nat \X Nat : p[1] < p[2]}
              T == {N - k : k \in S}
  <1>1. IsWellFoundedOn(R, Nat)
    BY NatLessThanWellFounded, Zenon DEF OpToRel
  <1>2. \A k \in S : N - k \in Nat
    OBVIOUS
  <1>3. T \in SUBSET Nat /\ T # {}
    BY <1>2, Zenon
  <1>4. PICK t \in T : \A n \in T : ~(<<n, t>> \in R)
    <2>. HIDE DEF R, T
    <2>. QED BY <1>1, <1>3, WFMin, Zenon
  <1>5. t \in Nat /\ \A n \in T : n \in Nat /\ ~(n < t)
    BY <1>3, <1>4, Zenon
  <1>6. PICK m \in S : t = N - m
    BY Zenon
  <1>7. ASSUME NEW n \in S PROVE n <= m
    <2>1. N - n \in T
      BY Zenon
    <2>2. ~(N - n < N - m)
      <3>. HIDE DEF T
      <3>. QED BY <1>5, <1>6, <2>1, Zenon
    <2>. QED BY <2>2
  <1>. QED BY <1>7, Zenon

(* The cells of h with what the owners of the blocks wrote.                *)
Written(m, h) ==
  \E w \in [Cells -> Values] : m = [c \in Cells |-> IF c \in Headers(h) THEN h.mem[c] ELSE w[c]]
HeapWith(m, f) == [mem |-> m, free |-> f, spill |-> NULL, bad |-> FALSE]

(* The owners of the blocks do not touch the headers.                      *)
LEMMA Overwrite ==
  ASSUME NEW h, NEW B, IsHeap(h), Tiling(h, B), NEW m, Written(m, h)
  PROVE  Kept(HeapWith(m, h.free), h, B, FreeBlocks(h, B))
  <1>. DEFINE k == HeapWith(m, h.free)
  <1>1. PICK w \in [Cells -> Values] : m = [c \in Cells |-> IF c \in Headers(h) THEN h.mem[c] ELSE w[c]]
    BY Zenon DEF Written
  <1>2. m \in [Cells -> 0 .. WORD - 1]
    <2>1. \A c \in Cells : w[c] \in 0 .. WORD - 1 /\ h.mem[c] \in 0 .. WORD - 1
      <3>1. Values \subseteq 0 .. WORD - 1
        BY AllocAssumption, Zenon
      <3>2. \A c \in Cells : w[c] \in Values
        BY Zenon
      <3>3. \A c \in Cells : h.mem[c] \in 0 .. WORD - 1
        BY Zenon DEF IsHeap
      <3>. QED BY <3>1, <3>2, <3>3, Zenon
    <2>. QED BY <1>1, <2>1, Zenon
  <1>3. k.mem = m /\ k.free = h.free /\ k.bad = FALSE /\ k.spill = NULL
    BY Zenon DEF HeapWith
  <1>4. IsHeap(k)
    <2>1. h.free \in Int /\ NULL \in Int
      BY DEF IsHeap, NULL
    <2>. QED BY <1>2, <2>1, Zenon DEF IsHeap, HeapWith
  <1>. HIDE DEF k
  <1>5. ASSUME NEW b \in B, NEW f \in Field, f < HeaderSize(h, b)
        PROVE  ld(k, b, f) = ld(h, b, f)
    <2>1. b \in Nat /\ b + 5 <= END /\ END \in Nat
      BY TilePlaces, Zenon
    <2>2. f \in Nat /\ f <= 4 /\ HeaderSize(h, b) \in Nat
      BY DEF Field, HeaderSize, UNUSED_HEADER_SIZE, USED_HEADER_SIZE
    <2>3. b + f \in Cells /\ b + f \in 0 .. END - 1 /\ b + f \in b .. b + HeaderSize(h, b) - 1
      BY <1>5, <2>1, <2>2 DEF Cells
    <2>4. b \in BlocksOf(h)
      BY BlocksAre, GreatestNat
    <2>5. b + f \in Headers(h)
      BY <2>3, <2>4, Zenon DEF Headers
    <2>6. m[b + f] = h.mem[b + f]
      BY <1>1, <2>3, <2>5, Zenon
    <2>. QED BY <1>3, <2>3, <2>6, Zenon DEF ld
  <1>6. /\ PREV \in Field /\ NEXT \in Field /\ USED \in Field /\ NFREE \in Field /\ PFREE \in Field
        /\ \A b \in B : PREV < HeaderSize(h, b) /\ NEXT < HeaderSize(h, b) /\ USED < HeaderSize(h, b)
        /\ \A b \in FreeBlocks(h, B) : b \in B /\ NFREE < HeaderSize(h, b) /\ PFREE < HeaderSize(h, b)
    BY DEF Field, HeaderSize, UNUSED_HEADER_SIZE, USED_HEADER_SIZE, FreeBlocks
  <1>7. \A c \in B : /\ ld(k, c, PREV) = ld(h, c, PREV) /\ ld(k, c, NEXT) = ld(h, c, NEXT)
                     /\ ld(k, c, USED) = ld(h, c, USED)
    BY <1>5, <1>6, Zenon
  <1>8. \A c \in FreeBlocks(h, B) : ld(k, c, NFREE) = ld(h, c, NFREE) /\ ld(k, c, PFREE) = ld(h, c, PFREE)
    BY <1>5, <1>6, Zenon
  <1>9. ~k.bad
    BY <1>3, Zenon
  <1>10. Kept(k, h, B, FreeBlocks(h, B))
    BY <1>3, <1>4, <1>7, <1>8, <1>9, Zenon DEF Kept
  <1>. QED BY <1>10, Zenon DEF k

-----------------------------------------------------------------------------
(* The search of alloc and of aligned_alloc: best is large enough.         *)
Suits(h, r, b) ==
  IF r.op \in {"kernel", "page"}
  THEN Padding(b) \in Nat /\ ld(h, b, NEXT) >= Padding(b) + (r.len + USED_HEADER_SIZE)
  ELSE ld(h, b, NEXT) >= r.len + USED_HEADER_SIZE
Searching(F) ==
  /\ curr \in F \cup {END} /\ (best = NULL \/ (best \in F /\ Suits(heap, req, best)))
  /\ req.len \in Nat /\ (req.op # "alloc" => req.len >= 2)
  /\ req.op \in {"alloc", "page", "kernel", "realloc"}
  /\ req.op = "realloc" => req.ptr \in DOMAIN live

(* The searches of free for the neighbours of b: none was passed.          *)
SeekNext(B, F, b) == nxt \in B \cup {END} /\ b < nxt /\ \A c \in F : b < c => nxt <= c
SeekPrev(B, F, b) ==
  /\ nxt = END /\ Succ(F, b, END)
  /\ prv \in B \cup {NULL} /\ prv < b /\ \A c \in F : c < b => c <= prv

(* realloc has the new block, and has to return the old one.               *)
Dropping(B, F) == req.ptr \in Int /\ PTR_BLOCK(req.ptr) \in B \ F /\ req.ptr \notin DOMAIN live

(* The heap is in order, at every turn of every loop.                      *)
InOrder(B, F) ==
  LET b == PTR_BLOCK(req.ptr)
  IN  \/ pc = "idle" /\ Quiet(heap, live, B, F)
      \/ pc = "fit" /\ Quiet(heap, live, B, F) /\ Searching(F)
      \/ pc = "drop" /\ Quiet(heap, live, B, F) /\ Dropping(B, F)
      \/ pc = "next" /\ Freed(heap, live, B, F, b) /\ SeekNext(B, F, b)
      \/ pc = "prev" /\ Freed(heap, live, B, F, b) /\ SeekPrev(B, F, b)
      \/ pc = "link" /\ Freed(heap, live, B, F, b) /\ Between(F, b, nxt, prv)
Ordered == halt = "no" /\ spill \in {NULL, END} /\ \E B, F : InOrder(B, F)
HeapInv == ~spoiled => Ordered

(* Requests for pages are not too short.                                   *)
LEMMA Lengths ==
  /\ \A len \in Lens : len \in Nat
  /\ \A len \in PageLens : len \in Nat /\ len >= 2
  <1>1. Lens \subseteq Nat /\ PageLens \subseteq Nat \ {0, 1}
    BY AllocAssumption, Zenon
  <1>. QED BY <1>1

(* When a caller returns its block, the others still hold theirs.          *)
LEMMA HoldsLess ==
  ASSUME NEW h, NEW l, NEW U, Holds(h, l, U), NEW p, p \in Int
  PROVE  Holds(h, Without(l, p), U \ {PTR_BLOCK(p)})
  <1>1. DOMAIN Without(l, p) = DOMAIN l \ {p} /\ \A q \in DOMAIN l \ {p} : Without(l, p)[q] = l[q]
    BY Zenon DEF Without
  <1>2. ASSUME NEW q \in DOMAIN l \ {p} PROVE Held(h, U \ {PTR_BLOCK(p)}, q, l[q])
    <2>1. Held(h, U, q, l[q]) /\ q \in Int
      BY Zenon DEF Holds, Held
    <2>2. PTR_BLOCK(q) # PTR_BLOCK(p)
      BY <1>2, <2>1 DEF PTR_BLOCK, USED_HEADER_SIZE
    <2>. QED BY <2>1, <2>2, Zenon DEF Held
  <1>. QED BY <1>1, <1>2, Zenon DEF Holds

(* The state's heap.                                                       *)
LEMMA HeapIs ==
  /\ heap = HeapWith(mem, free) /\ heap.spill = NULL /\ ~heap.bad
  /\ heap' = HeapWith(mem', free')
  BY Zenon DEF heap, HeapWith

(* The end of a step that leaves a heap in order.                          *)
LEMMA BecomesWhole ==
  ASSUME NEW k, Becomes(k), NEW B, NEW F, Whole(k, B, F), Apart(k, F), k.spill \in {NULL, END}
  PROVE  /\ Whole(heap', B, F) /\ Apart(heap', F) /\ Same(heap', k, B)
         /\ halt' = "no" /\ spill' \in {NULL, END}
  <1>1. Written(mem', k) /\ free' = k.free /\ spill' = k.spill /\ halt' = IF k.bad THEN "wild" ELSE "no"
    BY Zenon DEF Becomes, Written
  <1>2. IsHeap(k) /\ Tiling(k, B) /\ F = FreeBlocks(k, B) /\ ~k.bad
    BY Zenon DEF Whole
  <1>. DEFINE g == HeapWith(mem', k.free)
  <1>3. Kept(g, k, B, F)
    BY <1>1, <1>2, Overwrite, Zenon
  <1>4. g = heap'
    BY <1>1, HeapIs, Zenon
  <1>. HIDE DEF g
  <1>5. Whole(g, B, F) /\ Same(g, k, B)
    BY <1>3, WholeKept, Zenon
  <1>6. Apart(g, F)
    <2>1. F \subseteq B
      BY <1>2, Zenon DEF FreeBlocks
    <2>. QED BY <1>5, <2>1, Zenon DEF Apart, Same, next
  <1>. QED BY <1>1, <1>2, <1>4, <1>5, <1>6, Zenon

(* And of the one that leaves a block to be put in the list.               *)
LEMMA BecomesPending ==
  ASSUME NEW k, Becomes(k), NEW B, NEW F, NEW b, Pending(k, B, F, b), Apart(k, F), k.spill \in {NULL, END}
  PROVE  /\ Pending(heap', B, F, b) /\ Apart(heap', F) /\ Same(heap', k, B)
         /\ halt' = "no" /\ spill' \in {NULL, END}
  <1>1. Written(mem', k) /\ free' = k.free /\ spill' = k.spill /\ halt' = IF k.bad THEN "wild" ELSE "no"
    BY Zenon DEF Becomes, Written
  <1>2. IsHeap(k) /\ Tiling(k, B) /\ F \cup {b} = FreeBlocks(k, B) /\ ~k.bad
    BY Zenon DEF Pending
  <1>. DEFINE g == HeapWith(mem', k.free)
  <1>3. Kept(g, k, B, F \cup {b})
    BY <1>1, <1>2, Overwrite, Zenon
  <1>4. g = heap'
    BY <1>1, HeapIs, Zenon
  <1>. HIDE DEF g
  <1>5. Pending(g, B, F, b) /\ Same(g, k, B)
    BY <1>3, PendingKept, Zenon
  <1>6. Apart(g, F)
    <2>1. F \subseteq B
      BY <1>2, Zenon DEF FreeBlocks
    <2>. QED BY <1>5, <2>1, Zenon DEF Apart, Same, next
  <1>. QED BY <1>1, <1>2, <1>4, <1>5, <1>6, Zenon

(* alloc_init makes one free block of the heap.                            *)
LEMMA InitWhole ==
  /\ Whole(alloc_init, {0}, {0}) /\ next(alloc_init, 0) = END
  /\ alloc_init.free = 0 /\ alloc_init.spill = NULL
  <1>. DEFINE m == [c \in 0 .. END - 1 |-> 0]
              h0 == [mem |-> m, free |-> 0, spill |-> NULL, bad |-> FALSE]
              h1 == st(h0, 0, NEXT, END)
              h2 == st(h1, 0, NFREE, END)
  <1>1. alloc_init = h2
    BY Zenon DEF alloc_init
  <1>2. END \in Nat /\ END >= 5 /\ WORD \in Nat /\ END \in 0 .. WORD - 1 /\ 0 \in 0 .. WORD - 1
    BY HeapAssumption, AllocAssumption
  <1>3. IsHeap(h0)
    <2>1. NULL \in Int /\ m \in [Cells -> 0 .. WORD - 1]
      BY <1>2 DEF NULL, Cells
    <2>. HIDE DEF m
    <2>. QED BY <2>1 DEF IsHeap
  <1>4. Spaced({0}) /\ 0 \in {0}
    BY <1>2 DEF Spaced
  <1>5. NEXT \in Field /\ PREV \in Field /\ USED \in Field /\ NFREE \in Field /\ PFREE \in Field
    BY DEF Field
  <1>6. \A f \in Field : ld(h0, 0, f) = 0
    BY Zenon DEF ld, Field
  <1>0. h0.free = 0 /\ h0.spill = NULL /\ h0.bad = FALSE
    BY Zenon
  <1>. HIDE DEF h0, h1, h2
  <1>7. Stored(h1, h0, {0}, 0, NEXT, END)
    BY <1>2, <1>3, <1>4, <1>5, LoadStore, Zenon DEF h1
  <1>8. Stored(h2, h1, {0}, 0, NFREE, END)
    BY <1>2, <1>4, <1>5, <1>7, LoadStore DEF h2, Stored
  <1>9. /\ IsHeap(h2) /\ ld(h2, 0, NEXT) = END /\ ld(h2, 0, NFREE) = END
        /\ ld(h2, 0, PREV) = 0 /\ ld(h2, 0, USED) = 0 /\ ld(h2, 0, PFREE) = 0
        /\ h2.free = 0 /\ h2.spill = NULL /\ h2.bad = FALSE
    BY <1>0, <1>4, <1>5, <1>6, <1>7, <1>8 DEF Stored
  <1>12. next(h2, 0) = END /\ nfree(h2, 0) = END
    BY <1>2, <1>9 DEF next, nfree
  <1>13. Succ({0}, 0, END) /\ Succ({0}, -1, 0)
    BY <1>2 DEF Succ
  <1>14. Tiling(h2, {0})
    BY <1>4, <1>9, <1>12, <1>13, Zenon DEF Tiling
  <1>15. Listing(h2, {0})
    BY <1>9, <1>12, <1>13, Zenon DEF Listing
  <1>16. {0} = FreeBlocks(h2, {0})
    BY <1>9, Zenon DEF FreeBlocks
  <1>17. Whole(h2, {0}, {0})
    BY <1>9, <1>14, <1>15, <1>16, Zenon DEF Whole
  <1>. QED BY <1>1, <1>9, <1>12, <1>17, Zenon

(* The heap is in order when kern_map_create asks for the first page.      *)
LEMMA InitInv == Init => HeapInv
  <1>. SUFFICES ASSUME Init PROVE HeapInv
    BY Zenon
  <1>1. /\ mem = alloc_init.mem /\ free = 0 /\ live = [p \in {} |-> 0] /\ spill = NULL /\ halt = "no"
        /\ pc = "fit" /\ curr = 0 /\ best = NULL
    BY Zenon DEF Init
  <1>2. req.op = "kernel" /\ req.len \in PageLens
    BY DEF Init, Call
  <1>3. heap.mem = alloc_init.mem /\ heap.free = 0 /\ heap.bad = FALSE /\ heap.spill = NULL
    BY <1>1, Zenon DEF heap
  <1>4. IsHeap(heap)
    <2>1. alloc_init.mem \in [Cells -> 0 .. WORD - 1] /\ NULL \in Int
      BY InitWhole, Zenon DEF Whole, IsHeap, NULL
    <2>. QED BY <1>1, <2>1 DEF IsHeap, heap
  <1>5. Kept(heap, alloc_init, {0}, {0})
    <2>1. \A c, f : ld(heap, c, f) = ld(alloc_init, c, f)
      BY <1>3, LoadMem
    <2>. QED BY <1>3, <1>4, <2>1, InitWhole, Zenon DEF Kept
  <1>6. Whole(heap, {0}, {0}) /\ Same(heap, alloc_init, {0})
    BY <1>5, InitWhole, WholeKept, Zenon
  <1>7. Apart(heap, {0})
    <2>1. next(heap, 0) = END
      BY <1>6, InitWhole, Zenon DEF Same, next
    <2>2. END # 0
      BY AllocAssumption, HeapAssumption
    <2>. QED BY <2>1, <2>2, Zenon DEF Apart
  <1>8. Holds(heap, live, {0} \ {0})
    BY <1>1, Zenon DEF Holds
  <1>9. Searching({0})
    <2>1. req.len \in Nat /\ req.len >= 2
      BY <1>2, Lengths, Zenon
    <2>. QED BY <1>1, <1>2, <2>1, Zenon DEF Searching
  <1>10. InOrder({0}, {0})
    BY <1>1, <1>6, <1>7, <1>8, <1>9, Zenon DEF InOrder, Quiet
  <1>. QED BY <1>1, <1>10, Zenon DEF HeapInv, Ordered

(* alloc and aligned_alloc start their search at the head of the list.     *)
LEMMA SearchStep ==
  ASSUME NEW B, NEW F, Quiet(heap, live, B, F), NEW r, Search(r), Untouched, live' = live, halt = "no",
         r.len \in Nat, r.op # "alloc" => r.len >= 2, r.op \in {"alloc", "page", "kernel", "realloc"},
         r.op = "realloc" => r.ptr \in DOMAIN live
  PROVE  Ordered'
  <1>1. /\ pc' = "fit" /\ req' = r /\ curr' = free /\ best' = NULL
        /\ mem' = mem /\ free' = free /\ halt' = halt /\ spill' = NULL
    BY Zenon DEF Search, Untouched
  <1>2. heap' = heap /\ heap.free = free
    BY <1>1, Zenon DEF heap
  <1>3. free \in F \cup {END}
    BY <1>2, HeadIn, Zenon DEF Quiet
  <1>4. Searching(F)'
    BY <1>1, <1>3, Zenon DEF Searching
  <1>5. Quiet(heap, live, B, F)'
    BY <1>2, Zenon
  <1>6. InOrder(B, F)'
    BY <1>1, <1>4, <1>5, Zenon DEF InOrder
  <1>. QED BY <1>1, <1>6, Zenon DEF Ordered

(* A request.                                                              *)
LEMMA RequestStep ==
  ASSUME NEW B, NEW F, InOrder(B, F), AllocMem \/ AllocPage
  PROVE  Ordered'
  <1>1. PICK op \in {"alloc", "page"}, len \in Lens \cup PageLens :
          /\ Search(Call(op, len, NULL)) /\ Request /\ Untouched /\ live' = live
          /\ (op = "alloc" /\ len \in Lens) \/ (op = "page" /\ len \in PageLens)
    BY Zenon DEF AllocMem, AllocPage
  <1>2. halt = "no" /\ pc = "idle"
    BY <1>1, Zenon DEF Request
  <1>3. Quiet(heap, live, B, F)
    BY <1>2, Zenon DEF InOrder
  <1>4. len \in Nat /\ (op # "alloc" => len >= 2)
    BY <1>1, Lengths, Zenon
  <1>. DEFINE r == Call(op, len, NULL)
  <1>5. r.len = len /\ r.op = op
    BY Zenon DEF Call
  <1>. HIDE DEF r
  <1>6. Search(r)
    BY <1>1, Zenon DEF r
  <1>7. r.op \in {"alloc", "page", "kernel", "realloc"} /\ r.op # "realloc"
        /\ r.len \in Nat /\ (r.op # "alloc" => r.len >= 2)
    BY <1>1, <1>4, <1>5, Zenon
  <1>. QED BY <1>1, <1>2, <1>3, <1>6, <1>7, SearchStep, Zenon

(* What the loops prefer is large enough.                                  *)
LEMMA PrefersSuits ==
  ASSUME NEW b \in Nat, ld(heap, b, NEXT) \in Nat, req.len \in Nat, Prefers(b)
  PROVE  Suits(heap, req, b)
  <1>1. xlen = req.len + 3
    BY Zenon DEF xlen, USED_HEADER_SIZE
  <1>2. CASE OnBoundary
    <2>1. FitsAligned(b)
      BY <1>2, Zenon DEF Prefers
    <2>. DEFINE ca == get_align(BLOCK_PTR(b))
    <2>2. Padding(b) \in Nat /\ Padding(b) = IF ca = 0 THEN 0 ELSE Align - ca
      BY PaddingFacts, Zenon
    <2>3. ld(heap, b, NEXT) >= req.len + 3 /\ (ca = 0 \/ ld(heap, b, NEXT) >= (Align - ca) + (req.len + 3))
      BY <1>1, <2>1, Zenon DEF FitsAligned
    <2>. HIDE DEF ca
    <2>4. ld(heap, b, NEXT) >= Padding(b) + (req.len + 3)
      BY <2>2, <2>3
    <2>. QED BY <1>2, <2>2, <2>4, Zenon DEF Suits, OnBoundary, USED_HEADER_SIZE
  <1>3. CASE ~OnBoundary
    BY <1>1, <1>3, Zenon DEF Prefers, Fits, Suits, OnBoundary, USED_HEADER_SIZE
  <1>. QED BY <1>2, <1>3, Zenon

(* A turn of the search.                                                   *)
LEMMA FitStep ==
  ASSUME NEW B, NEW F, InOrder(B, F), spill \in {NULL, END}, FindFit
  PROVE  Ordered'
  <1>1. /\ halt = "no" /\ pc = "fit" /\ curr # END
        /\ best' = IF Prefers(curr) THEN curr ELSE best
        /\ curr' = nfree(heap, curr)
        /\ halt' = IF LeadsOn(curr, curr') THEN "no" ELSE "wild"
        /\ mem' = mem /\ free' = free /\ live' = live /\ spill' = spill /\ pc' = pc /\ req' = req
    BY Zenon DEF FindFit
  <1>2. Quiet(heap, live, B, F) /\ Searching(F)
    BY <1>1, Zenon DEF InOrder
  <1>3. heap' = heap
    BY <1>1, Zenon DEF heap
  <1>4. Whole(heap, B, F) /\ curr \in F /\ F \subseteq B
    BY <1>1, <1>2, Zenon DEF Quiet, Searching, Whole, FreeBlocks
  <1>5. /\ curr \in Nat /\ curr < nfree(heap, curr) /\ nfree(heap, curr) <= END /\ END \in Nat
        /\ nfree(heap, curr) = curr + ld(heap, curr, NFREE) /\ ld(heap, curr, NFREE) \in Nat
        /\ ld(heap, curr, NEXT) \in Nat
    <2>1. curr \in B
      BY <1>4, Zenon
    <2>. QED BY <1>4, <2>1, Places, Zenon
  <1>6. nfree(heap, curr) \in F \cup {END}
    BY <1>4, Zenon DEF Whole, Listing, Succ
  <1>7. halt' = "no"
    BY <1>1, <1>5 DEF LeadsOn
  <1>8. best' = NULL \/ (best' \in F /\ Suits(heap', req', best'))
    <2>1. CASE Prefers(curr)
      <3>1. req.len \in Nat
        BY <1>2, Zenon DEF Searching
      <3>2. Suits(heap, req, curr)
        BY <1>5, <2>1, <3>1, PrefersSuits, Zenon
      <3>. QED BY <1>1, <1>3, <1>4, <2>1, <3>2, Zenon
    <2>2. CASE ~Prefers(curr)
      <3>1. best = NULL \/ (best \in F /\ Suits(heap, req, best))
        BY <1>2, Zenon DEF Searching
      <3>. QED BY <1>1, <1>3, <2>2, <3>1, Zenon
    <2>. QED BY <2>1, <2>2, Zenon
  <1>9. Searching(F)'
    BY <1>1, <1>2, <1>6, <1>8, Zenon DEF Searching
  <1>10. Quiet(heap, live, B, F)'
    BY <1>1, <1>2, <1>3, Zenon
  <1>11. InOrder(B, F)'
    BY <1>1, <1>9, <1>10, Zenon DEF InOrder
  <1>. QED BY <1>1, <1>7, <1>11, Zenon DEF Ordered

(* A search that has found nothing.                                        *)
LEMMA NoFitStep ==
  ASSUME NEW B, NEW F, InOrder(B, F), NoFit
  PROVE  Ordered'
  <1>1. /\ halt = "no" /\ pc = "fit" /\ pc' = "idle"
        /\ mem' = mem /\ free' = free /\ halt' = halt /\ spill' = NULL /\ live' = live
    BY Zenon DEF NoFit, Return, Untouched
  <1>2. Quiet(heap, live, B, F)
    BY <1>1, Zenon DEF InOrder
  <1>3. heap' = heap
    BY <1>1, Zenon DEF heap
  <1>4. InOrder(B, F)'
    BY <1>1, <1>2, <1>3, Zenon DEF InOrder
  <1>. QED BY <1>1, <1>4, Zenon DEF Ordered

(* The heap that alloc or aligned_alloc leaves.                            *)
LEMMA GrantWhole ==
  ASSUME NEW B, NEW F, Quiet(heap, live, B, F), NEW k, NEW b, NEW x,
         Carved(k, heap, B, F, b, x), Becomes(k)
  PROVE  Granted(heap', live, B, F, b, x) /\ halt' = "no" /\ spill' \in {NULL, END}
  <1>1. PICK C, G : /\ Whole(k, C, G) /\ Apart(k, G) /\ k.spill \in {heap.spill, END}
                    /\ B \subseteq C /\ b \in C /\ b \notin G /\ ld(k, b, NEXT) >= x
                    /\ (B \ F) \subseteq C \ G /\ Same(k, heap, B \ F)
    BY Zenon DEF Carved
  <1>2. k.spill \in {NULL, END}
    BY <1>1, HeapIs, Zenon
  <1>3. /\ Whole(heap', C, G) /\ Apart(heap', G) /\ Same(heap', k, C)
        /\ halt' = "no" /\ spill' \in {NULL, END}
    BY <1>1, <1>2, BecomesWhole, Zenon
  <1>. DEFINE g == heap'
  <1>. HIDE DEF g
  <1>4. Holds(k, live, C \ G)
    BY <1>1, HoldsKept, Zenon DEF Quiet
  <1>5. Same(g, k, C \ G)
    BY <1>3, Zenon DEF Same, g
  <1>6. Holds(g, live, C \ G)
    BY <1>4, <1>5, HoldsKept, Zenon
  <1>7. Whole(g, C, G) /\ Apart(g, G) /\ ld(g, b, NEXT) >= x
    BY <1>1, <1>3, Zenon DEF Same, g
  <1>8. Quiet(g, live, C, G) /\ b \in C \ G /\ b \in Nat
    <2>1. C \subseteq Nat
      BY <1>1, Zenon DEF Whole, Tiling, Spaced
    <2>. QED BY <1>1, <1>6, <1>7, <2>1, Zenon DEF Quiet
  <1>9. Granted(g, live, B, F, b, x)
    BY <1>1, <1>7, <1>8, Zenon DEF Granted
  <1>. QED BY <1>3, <1>9, Zenon DEF g

(* What the searches end with.                                             *)
LEMMA ChosenFacts ==
  ASSUME NEW B, NEW F, InOrder(B, F), Chosen
  PROVE  /\ Quiet(heap, live, B, F) /\ Whole(heap, B, F) /\ Apart(heap, F)
         /\ best \in F /\ best \in Nat /\ Suits(heap, req, best)
         /\ xlen \in Nat /\ (req.op # "alloc" => xlen >= 5) /\ xlen = req.len + USED_HEADER_SIZE
         /\ req.len \in Nat /\ req.op \in {"alloc", "page", "kernel", "realloc"}
         /\ req.op = "realloc" => req.ptr \in DOMAIN live
  <1>1. pc = "fit" /\ best # NULL
    BY Zenon DEF Chosen
  <1>2. Quiet(heap, live, B, F) /\ Searching(F)
    BY <1>1, Zenon DEF InOrder
  <1>3. Whole(heap, B, F) /\ Apart(heap, F)
    BY <1>2, Zenon DEF Quiet
  <1>4. F \subseteq Nat
    <2>1. F \subseteq B
      BY <1>3, Zenon DEF Whole, FreeBlocks
    <2>2. B \subseteq Nat
      BY <1>3, Zenon DEF Whole, Tiling, Spaced
    <2>. QED BY <2>1, <2>2, Zenon
  <1>5. best \in F /\ Suits(heap, req, best) /\ req.len \in Nat /\ (req.op # "alloc" => req.len >= 2)
    BY <1>1, <1>2, Zenon DEF Searching
  <1>6. /\ req.op \in {"alloc", "page", "kernel", "realloc"}
        /\ req.op = "realloc" => req.ptr \in DOMAIN live
    BY <1>2, Zenon DEF Searching
  <1>7. xlen \in Nat /\ (req.op # "alloc" => xlen >= 5) /\ xlen = req.len + USED_HEADER_SIZE
    BY <1>5 DEF xlen, USED_HEADER_SIZE
  <1>. QED BY <1>2, <1>3, <1>4, <1>5, <1>6, <1>7, Zenon

(* A block that is long enough is long enough for less.                    *)
LEMMA CarvedLess ==
  ASSUME NEW k, NEW h, NEW B, NEW F, NEW b, NEW y \in Nat, NEW x \in Nat, y >= x,
         Carved(k, h, B, F, b, y)
  PROVE  Carved(k, h, B, F, b, x)
  <1>1. PICK C, G : /\ Whole(k, C, G) /\ Apart(k, G) /\ k.spill \in {h.spill, END}
                    /\ B \subseteq C /\ b \in C /\ b \notin G /\ ld(k, b, NEXT) >= y
                    /\ (B \ F) \subseteq C \ G /\ Same(k, h, B \ F)
    BY Zenon DEF Carved
  <1>2. ld(k, b, NEXT) \in Nat
    BY <1>1, Places, Zenon
  <1>3. ld(k, b, NEXT) >= x
    <2>. DEFINE n == ld(k, b, NEXT)
    <2>1. n \in Nat /\ n >= y
      BY <1>1, <1>2, Zenon
    <2>. HIDE DEF n
    <2>2. n >= x
      BY <2>1
    <2>. QED BY <2>2, Zenon DEF n
  <1>. QED BY <1>1, <1>3, Zenon DEF Carved

(* What alloc has chosen is carved, or taken as it is.                     *)
LEMMA TakeWhole ==
  ASSUME NEW B, NEW F, InOrder(B, F), Chosen, req.op \in {"alloc", "realloc"},
         ~ShortRequest(heap, best, xlen)
  PROVE  Carved(Carve(heap, best, xlen), heap, B, F, best, xlen)
  <1>1. /\ Whole(heap, B, F) /\ Apart(heap, F) /\ best \in F /\ Suits(heap, req, best)
        /\ xlen \in Nat /\ xlen = req.len + USED_HEADER_SIZE
    BY ChosenFacts, Zenon
  <1>2. ld(heap, best, NEXT) >= xlen
    BY <1>1, Zenon DEF Suits
  <1>3. ApartBut(heap, F, best)
    BY <1>1, Zenon DEF Apart, ApartBut
  <1>4. CASE xlen >= 5
    BY <1>1, <1>2, <1>3, <1>4, AllocWhole, GreatestNat, Zenon
  <1>5. CASE ~(xlen >= 5)
    <2>. DEFINE y == ld(heap, best, NEXT)
    <2>1. best \in B /\ y \in Nat /\ y >= 5
      <3>1. best \in B
        BY <1>1, Zenon DEF Whole, FreeBlocks
      <3>2. y \in Nat /\ next(heap, best) = best + y /\ best + 5 <= next(heap, best) /\ best \in Nat
        BY <1>1, <3>1, Places, Zenon
      <3>. QED BY <3>1, <3>2
    <2>2. ~(y - xlen >= MIN_SPLIT_THRESHOLD) /\ ~(y - y >= MIN_SPLIT_THRESHOLD) /\ y >= y
      BY <1>1, <1>5, <2>1 DEF ShortRequest, MIN_SPLIT_THRESHOLD, UNUSED_HEADER_SIZE
    <2>3. Carve(heap, best, xlen) = Carve(heap, best, y)
      BY <2>2, Zenon DEF Carve
    <2>4. Carved(Carve(heap, best, y), heap, B, F, best, y)
      BY <1>1, <1>3, <2>1, <2>2, AllocWhole, GreatestNat, Zenon
    <2>. QED BY <1>1, <1>2, <2>1, <2>3, <2>4, CarvedLess, Zenon
  <1>. QED BY <1>4, <1>5, Zenon

(* The end of alloc.                                                       *)
LEMMA TakeMemStep ==
  ASSUME NEW B, NEW F, InOrder(B, F), ~spoiled', TakeMem
  PROVE  Ordered'
  <1>0. ~ShortRequest(heap, best, xlen)
    BY Zenon DEF TakeMem
  <1>1. /\ Chosen /\ req.op = "alloc" /\ Becomes(Carve(heap, best, xlen)) /\ pc' = "idle"
        /\ live' = Holding(BLOCK_PTR(best), req.len, FALSE)
    BY Zenon DEF TakeMem, Return
  <1>2. /\ Quiet(heap, live, B, F) /\ xlen = req.len + USED_HEADER_SIZE /\ req.len \in Nat
    BY <1>1, ChosenFacts, Zenon
  <1>3. Granted(heap', live, B, F, best, xlen) /\ halt' = "no" /\ spill' \in {NULL, END}
    <2>1. Carved(Carve(heap, best, xlen), heap, B, F, best, xlen)
      BY <1>0, <1>1, TakeWhole, Zenon
    <2>. QED BY <1>1, <1>2, <2>1, GrantWhole, Zenon
  <1>4. PICK C, G : /\ Quiet(heap', live, C, G) /\ best \in C \ G /\ best \in Nat /\ ld(heap', best, NEXT) >= xlen
    BY <1>3, Zenon DEF Granted
  <1>5. Quiet(heap, live, C, G)'
    <2>. DEFINE g == heap'
                e == [len |-> req.len, page |-> FALSE]
    <2>1. live' = With(live, BLOCK_PTR(best), e)
      BY <1>1, Zenon DEF Holding, With
    <2>2. /\ ~e.page /\ ld(g, best, NEXT) >= e.len + USED_HEADER_SIZE
          /\ Quiet(g, live, C, G) /\ best \in C \ G /\ best \in Nat
      BY <1>2, <1>4, Zenon
    <2>. HIDE DEF g, e
    <2>3. Quiet(g, With(live, BLOCK_PTR(best), e), C, G)
      BY <2>2, GrantHeld, Zenon
    <2>. QED BY <2>1, <2>3, Zenon DEF g
  <1>6. pc' = "idle"
    BY <1>1, Zenon
  <1>7. InOrder(C, G)'
    BY <1>5, <1>6, Zenon DEF InOrder
  <1>. QED BY <1>3, <1>7, Zenon DEF Ordered

(* The end of aligned_alloc.                                               *)
LEMMA TakePageStep ==
  ASSUME NEW B, NEW F, InOrder(B, F), ~spoiled', TakePage
  PROVE  Ordered'
  <1>. DEFINE b == best + Padding(best)
              k == Carve(Aligned(heap, best), b, xlen)
  <1>1. /\ Chosen /\ OnBoundary /\ Becomes(k) /\ pc' = "idle" /\ ~ShortPrefix(best)
        /\ live' = IF req.op = "kernel" THEN live ELSE Holding(BLOCK_PTR(b), req.len, TRUE)
    <2>1. ~ShortPrefix(best)
      BY Zenon DEF TakePage
    <2>2. Chosen /\ OnBoundary /\ Becomes(k)
      BY Zenon DEF TakePage
    <2>3. pc' = "idle"
      BY Zenon DEF TakePage, Return
    <2>4. live' = IF req.op = "kernel" THEN live ELSE Holding(BLOCK_PTR(b), req.len, TRUE)
      BY Zenon DEF TakePage
    <2>. QED BY <2>1, <2>2, <2>3, <2>4, Zenon
  <1>2. /\ Quiet(heap, live, B, F) /\ Whole(heap, B, F) /\ Apart(heap, F) /\ best \in F /\ best \in Nat
        /\ Suits(heap, req, best) /\ xlen \in Nat /\ xlen >= 5 /\ xlen = req.len + USED_HEADER_SIZE
        /\ req.len \in Nat
    BY <1>1, ChosenFacts, Zenon DEF OnBoundary
  <1>3. Padding(best) \in Nat /\ ld(heap, best, NEXT) >= Padding(best) + xlen
    BY <1>1, <1>2, Zenon DEF Suits, OnBoundary
  <1>4. Carved(k, heap, B, F, b, xlen)
    BY <1>1, <1>2, <1>3, AlignedWhole, GreatestNat, Zenon
  <1>5. get_align(BLOCK_PTR(b)) = 0
    BY <1>2, PaddingFacts, Zenon
  <1>. HIDE DEF b, k
  <1>6. Granted(heap', live, B, F, b, xlen) /\ halt' = "no" /\ spill' \in {NULL, END}
    BY <1>1, <1>2, <1>4, GrantWhole, Zenon
  <1>7. PICK C, G : /\ Quiet(heap', live, C, G) /\ b \in C \ G /\ b \in Nat /\ ld(heap', b, NEXT) >= xlen
    BY <1>6, Zenon DEF Granted
  <1>8. Quiet(heap, live, C, G)'
    <2>1. CASE req.op = "kernel"
      BY <1>1, <1>7, <2>1, Zenon
    <2>2. CASE req.op # "kernel"
      <3>. DEFINE g == heap'
                  e == [len |-> req.len, page |-> TRUE]
      <3>1. live' = With(live, BLOCK_PTR(b), e)
        BY <1>1, <2>2, Zenon DEF Holding, With
      <3>2. /\ ld(g, b, NEXT) >= e.len + USED_HEADER_SIZE
            /\ Quiet(g, live, C, G) /\ b \in C \ G /\ b \in Nat
        BY <1>2, <1>7, Zenon
      <3>. HIDE DEF g, e
      <3>3. Quiet(g, With(live, BLOCK_PTR(b), e), C, G)
        BY <1>5, <3>2, GrantHeld, Zenon
      <3>. QED BY <3>1, <3>3, Zenon DEF g
    <2>. QED BY <2>1, <2>2, Zenon
  <1>9. pc' = "idle"
    BY <1>1, Zenon
  <1>10. InOrder(C, G)'
    BY <1>8, <1>9, Zenon DEF InOrder
  <1>. QED BY <1>6, <1>10, Zenon DEF Ordered

(* The end of alloc for realloc.                                           *)
LEMMA TakeNewStep ==
  ASSUME NEW B, NEW F, InOrder(B, F), TakeNew
  PROVE  Ordered'
  <1>1. /\ Chosen /\ req.op = "realloc" /\ Becomes(Carve(heap, best, xlen)) /\ pc' = "drop" /\ req' = req
        /\ live' = Without(Holding(BLOCK_PTR(best), req.len, FALSE), req.ptr)
    BY Zenon DEF TakeNew
  <1>2. /\ Quiet(heap, live, B, F) /\ xlen = req.len + USED_HEADER_SIZE /\ req.len \in Nat
        /\ req.ptr \in DOMAIN live
    BY <1>1, ChosenFacts, Zenon
  <1>3. req.ptr \in Int /\ PTR_BLOCK(req.ptr) \in B \ F
    BY <1>2, Zenon DEF Quiet, Holds, Held
  <1>4. Granted(heap', live, B, F, best, xlen) /\ halt' = "no" /\ spill' \in {NULL, END}
    <2>0. xlen \in Nat /\ xlen >= 5
      BY <1>1, ChosenFacts
    <2>1. ~ShortRequest(heap, best, xlen)
      BY <2>0 DEF ShortRequest, UNUSED_HEADER_SIZE
    <2>2. Carved(Carve(heap, best, xlen), heap, B, F, best, xlen)
      BY <1>1, <2>1, TakeWhole, Zenon
    <2>. QED BY <1>1, <1>2, <2>2, GrantWhole, Zenon
  <1>5. PICK C, G : /\ Quiet(heap', live, C, G) /\ best \in C \ G /\ best \in Nat /\ ld(heap', best, NEXT) >= xlen
                    /\ B \ F \subseteq C \ G
    BY <1>4, Zenon DEF Granted
  <1>. DEFINE g == heap'
              e == [len |-> req.len, page |-> FALSE]
              l == With(live, BLOCK_PTR(best), e)
  <1>6. live' = Without(l, req.ptr)
    <2>1. Holding(BLOCK_PTR(best), req.len, FALSE) = l
      BY Zenon DEF Holding, With
    <2>2. live' = Without(Holding(BLOCK_PTR(best), req.len, FALSE), req.ptr)
      BY <1>1, Zenon
    <2>. HIDE DEF l
    <2>. QED BY <2>1, <2>2, Zenon
  <1>7. /\ ~e.page /\ ld(g, best, NEXT) >= e.len + USED_HEADER_SIZE
        /\ Quiet(g, live, C, G) /\ best \in C \ G /\ best \in Nat
    BY <1>2, <1>5, Zenon
  <1>. HIDE DEF g, e
  <1>8. Quiet(g, l, C, G)
    BY <1>7, GrantHeld, Zenon
  <1>. HIDE DEF l
  <1>9. Quiet(g, Without(l, req.ptr), C, G)
    <2>1. Holds(g, l, C \ G)
      BY <1>8, Zenon DEF Quiet
    <2>. DEFINE U == (C \ G) \ {PTR_BLOCK(req.ptr)}
    <2>2. Holds(g, Without(l, req.ptr), U)
      BY <1>3, <2>1, HoldsLess, Zenon
    <2>3. U \subseteq C \ G /\ Same(g, g, U)
      BY Zenon DEF Same
    <2>. HIDE DEF U
    <2>4. Holds(g, Without(l, req.ptr), C \ G)
      BY <2>2, <2>3, HoldsKept, Zenon
    <2>. QED BY <1>8, <2>4, Zenon DEF Quiet
  <1>10. Quiet(heap, live, C, G)'
    BY <1>6, <1>9, Zenon DEF g
  <1>11. Dropping(C, G)'
    <2>1. PTR_BLOCK(req.ptr) \in C \ G
      BY <1>3, <1>5, Zenon
    <2>2. req.ptr \notin DOMAIN live'
      BY <1>6, Zenon DEF Without
    <2>3. req' = req
      BY <1>1, Zenon
    <2>. QED BY <1>3, <2>1, <2>2, <2>3, Zenon DEF Dropping
  <1>12. pc' = "drop"
    BY <1>1, Zenon
  <1>13. InOrder(C, G)'
    BY <1>10, <1>11, <1>12, Zenon DEF InOrder
  <1>. QED BY <1>4, <1>13, Zenon DEF Ordered

(* The assertion of free and realloc holds for what callers hold.          *)
LEMMA AssertedHolds ==
  ASSUME NEW B, NEW F, Whole(heap, B, F), NEW p \in Int, PTR_BLOCK(p) \in B \ F
  PROVE  Asserted(p)
  <1>. DEFINE b == PTR_BLOCK(p)
  <1>1. END \in Nat /\ b \in Nat /\ b + 5 <= END
    BY Places, Zenon
  <1>2. ld(heap, b, USED) = 1
    <2>1. ld(heap, b, USED) \in {0, 1} /\ ld(heap, b, USED) # 0
      BY Zenon DEF Whole, Tiling, FreeBlocks
    <2>. QED BY <2>1, Zenon
  <1>3. p < END /\ p > 0
    BY <1>1 DEF PTR_BLOCK, USED_HEADER_SIZE
  <1>. QED BY <1>2, <1>3, Zenon DEF Asserted

(* The start of free, of a block that nothing is held in any more.         *)
LEMMA ReleaseStep ==
  ASSUME NEW B, NEW F, Whole(heap, B, F), Apart(heap, F), NEW p \in Int, PTR_BLOCK(p) \in B \ F,
         Release(p), ~spoiled', req'.ptr = p, NEW l, live' = l,
         Holds(heap, l, (B \ F) \ {PTR_BLOCK(p)})
  PROVE  Ordered'
  <1>. DEFINE b == PTR_BLOCK(p)
              k == released(heap, b)
              U == (B \ F) \ {b}
  <1>1. Becomes(k) /\ pc' = "next" /\ nxt' = next(heap, b)
    BY Zenon DEF Release
  <1>2. ~BelowFirst(heap, b)
    BY Zenon DEF Release
  <1>3. b \in B /\ b \notin F
    BY Zenon
  <1>. HIDE DEF b
  <1>4. Released(k, heap, B, F, b)
    BY <1>2, <1>3, ReleaseWhole, Zenon
  <1>5. /\ Pending(k, B, F, b) /\ k.spill = heap.spill /\ Same(k, heap, B \ {b})
        /\ \A c \in B : next(k, c) = next(heap, c)
    <2>. HIDE DEF k
    <2>. QED BY <1>4, Zenon DEF Released
  <1>. HIDE DEF k
  <1>6. Apart(k, F)
    <2>1. F \subseteq B
      BY Zenon DEF Whole, FreeBlocks
    <2>. QED BY <1>5, <2>1, Zenon DEF Apart
  <1>7. k.spill \in {NULL, END}
    BY <1>5, HeapIs, Zenon
  <1>8. /\ Pending(heap', B, F, b) /\ Apart(heap', F) /\ Same(heap', k, B)
        /\ halt' = "no" /\ spill' \in {NULL, END}
    BY <1>1, <1>5, <1>6, <1>7, BecomesPending, Zenon
  <1>9. Holds(heap', live', U)
    <2>1. Same(heap', heap, U)
      BY <1>5, <1>8, Zenon DEF Same
    <2>2. Holds(heap, l, U)
      BY Zenon DEF b
    <2>. HIDE DEF U
    <2>. DEFINE g == heap'
    <2>3. Same(g, heap, U)
      BY <2>1, Zenon
    <2>. HIDE DEF g
    <2>4. Holds(g, l, U)
      BY <2>2, <2>3, HoldsKept, Zenon
    <2>. QED BY <2>4, Zenon DEF g
  <1>10. Freed(heap, live, B, F, b)'
    BY <1>8, <1>9, Zenon DEF Freed
  <1>11. SeekNext(B, F, b)'
    <2>1. F \subseteq B /\ IsHeap(heap) /\ Tiling(heap, B)
      BY Zenon DEF Whole, FreeBlocks
    <2>2. /\ b \in Nat /\ b + 5 <= next(heap, b)
          /\ next(heap, b) \in B \cup {END} /\ \A c \in B : b < c => next(heap, b) <= c
      BY <1>3, <2>1, TilePlaces, Zenon
    <2>3. next(heap, b) \in Nat
      <3>1. B \subseteq Nat /\ END \in Nat
        BY <2>1, HeapAssumption, Zenon DEF Tiling, Spaced
      <3>2. next(heap, b) \in B \cup {END}
        BY <2>2, Zenon
      <3>. QED BY <3>1, <3>2, Zenon
    <2>4. b < next(heap, b)
      BY <2>2, <2>3
    <2>. DEFINE n == next(heap, b)
    <2>5. nxt' = n /\ n \in B \cup {END} /\ b < n /\ \A c \in F : b < c => n <= c
      BY <1>1, <2>1, <2>2, <2>4, Zenon
    <2>. HIDE DEF n
    <2>. QED BY <2>5, Zenon DEF SeekNext
  <1>12. pc' = "next" /\ PTR_BLOCK(req'.ptr) = b
    BY <1>1, Zenon DEF b
  <1>13. InOrder(B, F)'
    BY <1>10, <1>11, <1>12, Zenon DEF InOrder
  <1>. QED BY <1>8, <1>13, Zenon DEF Ordered

(* free, called for what a caller holds.                                   *)
LEMMA FreeStep ==
  ASSUME NEW B, NEW F, InOrder(B, F), ~spoiled', Free
  PROVE  Ordered'
  <1>1. pc = "idle"
    BY Zenon DEF Free
  <1>2. Quiet(heap, live, B, F)
    BY <1>1, Zenon DEF InOrder
  <1>3. Whole(heap, B, F) /\ Apart(heap, F) /\ Holds(heap, live, B \ F)
    BY <1>2, Zenon DEF Quiet
  <1>4. PICK p \in DOMAIN live :
          \/ ~Asserted(p) /\ Fails
          \/ Asserted(p) /\ Release(p) /\ req' = Call("free", 0, p) /\ live' = Without(live, p)
    BY Zenon DEF Free
  <1>5. p \in Int /\ PTR_BLOCK(p) \in B \ F
    BY <1>3, Zenon DEF Holds, Held
  <1>6. Asserted(p)
    BY <1>3, <1>5, AssertedHolds, Zenon
  <1>7. Release(p) /\ live' = Without(live, p) /\ req' = Call("free", 0, p)
    BY <1>4, <1>6, Zenon
  <1>8. req'.ptr = p
    BY <1>7, Zenon DEF Call
  <1>9. Holds(heap, Without(live, p), (B \ F) \ {PTR_BLOCK(p)})
    BY <1>3, <1>5, HoldsLess, Zenon
  <1>. QED BY <1>3, <1>5, <1>7, <1>8, <1>9, ReleaseStep, Zenon

(* free, called by realloc for the old block.                              *)
LEMMA DropStep ==
  ASSUME NEW B, NEW F, InOrder(B, F), ~spoiled', Drop
  PROVE  Ordered'
  <1>1. pc = "drop"
    BY Zenon DEF Drop
  <1>2. Quiet(heap, live, B, F) /\ Dropping(B, F)
    BY <1>1, Zenon DEF InOrder
  <1>3. Whole(heap, B, F) /\ Apart(heap, F) /\ Holds(heap, live, B \ F)
    BY <1>2, Zenon DEF Quiet
  <1>. DEFINE p == req.ptr
  <1>5. p \in Int /\ PTR_BLOCK(p) \in B \ F /\ p \notin DOMAIN live
    BY <1>2, Zenon DEF Dropping
  <1>6. Asserted(p)
    BY <1>3, <1>5, AssertedHolds, Zenon
  <1>7. Release(p) /\ live' = live /\ req' = req
    BY <1>6, Zenon DEF Drop
  <1>8. req'.ptr = p
    BY <1>7, Zenon
  <1>9. Holds(heap, live, (B \ F) \ {PTR_BLOCK(p)})
    <2>1. \A q \in DOMAIN live : PTR_BLOCK(q) # PTR_BLOCK(p)
      <3>1. \A q \in DOMAIN live : q \in Int /\ q # p
        BY <1>3, <1>5, Zenon DEF Holds, Held
      <3>. QED BY <1>5, <3>1 DEF PTR_BLOCK, USED_HEADER_SIZE
    <2>. QED BY <1>3, <2>1, Zenon DEF Holds, Held
  <1>. HIDE DEF p
  <1>. QED BY <1>3, <1>5, <1>7, <1>8, <1>9, ReleaseStep, Zenon

(* What of the heap a turn of the loops of free leaves as it is.           *)
LEMMA FreedStays ==
  ASSUME NEW B, NEW F, NEW b, Freed(heap, live, B, F, b), mem' = mem, free' = free, live' = live
  PROVE  Freed(heap, live, B, F, b)'
  <1>1. heap' = heap
    BY HeapIs, Zenon
  <1>. QED BY <1>1, Zenon DEF Freed

(* A turn of the loop that looks for the next free block.                  *)
LEMMA FindNextStep ==
  ASSUME NEW B, NEW F, InOrder(B, F), spill \in {NULL, END}, FindNext
  PROVE  Ordered'
  <1>1. /\ pc = "next" /\ nxt # END /\ ld(heap, nxt, USED) # 0 /\ nxt' = next(heap, nxt)
        /\ halt' = IF LeadsOn(nxt, nxt') THEN "no" ELSE "wild"
        /\ mem' = mem /\ free' = free /\ live' = live /\ spill' = spill /\ pc' = pc /\ req' = req
    BY Zenon DEF FindNext
  <1>2. PICK b : b = PTR_BLOCK(req.ptr) /\ Freed(heap, live, B, F, b) /\ SeekNext(B, F, b)
    BY <1>1, Zenon DEF InOrder
  <1>3. /\ IsHeap(heap) /\ Tiling(heap, B) /\ F \subseteq B /\ B \subseteq Nat /\ END \in Nat
        /\ b \in Nat /\ \A c \in B : ld(heap, c, USED) = 0 <=> c \in F \cup {b}
    BY <1>2, FreedFacts
  <1>4. nxt \in B /\ nxt \in Nat /\ b < nxt /\ \A c \in F : b < c => nxt <= c
    BY <1>1, <1>2, <1>3, Zenon DEF SeekNext
  <1>5. nxt \notin F
    BY <1>1, <1>3, <1>4, Zenon
  <1>6. PICK n : n = next(heap, nxt)
    BY Zenon
  <1>7. n \in B \cup {END} /\ nxt + 5 <= n /\ n <= END /\ \A c \in B : nxt < c => n <= c
    BY <1>3, <1>4, <1>6, TilePlaces, Zenon
  <1>8. n \in Nat
    BY <1>3, <1>7, Zenon
  <1>9. halt' = "no"
    <2>1. LeadsOn(nxt, n)
      BY <1>3, <1>4, <1>7, <1>8 DEF LeadsOn
    <2>. QED BY <1>1, <1>6, <2>1, Zenon
  <1>10. SeekNext(B, F, b)'
    <2>1. b < n
      BY <1>3, <1>4, <1>7, <1>8
    <2>2. \A c \in F : b < c => n <= c
      <3>. SUFFICES ASSUME NEW c \in F, b < c PROVE n <= c
        BY Zenon
      <3>1. c \in Nat /\ c \in B /\ c # nxt /\ nxt <= c
        BY <1>3, <1>4, <1>5, Zenon
      <3>2. nxt < c
        BY <1>4, <3>1
      <3>. QED BY <1>7, <3>1, <3>2, Zenon
    <2>3. nxt' = n
      BY <1>1, <1>6, Zenon
    <2>. QED BY <1>7, <2>1, <2>2, <2>3, Zenon DEF SeekNext
  <1>11. Freed(heap, live, B, F, b)'
    BY <1>1, <1>2, FreedStays, Zenon
  <1>12. pc' = "next" /\ PTR_BLOCK(req'.ptr) = b
    BY <1>1, <1>2, Zenon
  <1>13. InOrder(B, F)'
    BY <1>10, <1>11, <1>12, Zenon DEF InOrder
  <1>14. spill' \in {NULL, END}
    BY <1>1, Zenon
  <1>. QED BY <1>9, <1>13, <1>14, Zenon DEF Ordered

(* The end of that loop.                                                   *)
LEMMA AtNextStep ==
  ASSUME NEW B, NEW F, InOrder(B, F), spill \in {NULL, END}, AtNext
  PROVE  Ordered'
  <1>1. /\ halt = "no" /\ pc = "next" /\ (nxt = END \/ ld(heap, nxt, USED) = 0)
        /\ \/ nxt # END /\ prv' = pfree(heap, nxt) /\ pc' = "link"
           \/ nxt = END /\ prv' = prev(heap, PTR_BLOCK(req.ptr)) /\ pc' = "prev"
        /\ mem' = mem /\ free' = free /\ live' = live /\ spill' = spill /\ halt' = halt
        /\ req' = req /\ nxt' = nxt
    BY Zenon DEF AtNext
  <1>2. PICK b : b = PTR_BLOCK(req.ptr) /\ Freed(heap, live, B, F, b) /\ SeekNext(B, F, b)
    BY <1>1, Zenon DEF InOrder
  <1>3. /\ IsHeap(heap) /\ Tiling(heap, B) /\ F \subseteq B /\ B \subseteq Nat /\ END \in Nat
        /\ b \in B /\ b \in Nat /\ (\A c \in B : c < END /\ c \in Nat)
        /\ \A c \in B : ld(heap, c, USED) = 0 <=> c \in F \cup {b}
        /\ F # {} => Linked(heap, B, F) /\ heap.free \in F /\ heap.free < b
    BY <1>2, FreedFacts
  <1>4. nxt \in B \cup {END} /\ nxt \in Nat /\ b < nxt /\ \A c \in F : b < c => nxt <= c
    BY <1>2, <1>3, Zenon DEF SeekNext
  <1>5. Freed(heap, live, B, F, b)' /\ PTR_BLOCK(req'.ptr) = b /\ halt' = "no" /\ spill' \in {NULL, END}
    BY <1>1, <1>2, FreedStays, Zenon
  <1>6. CASE nxt # END
    <2>1. pc' = "link" /\ prv' = pfree(heap, nxt) /\ nxt' = nxt /\ ld(heap, nxt, USED) = 0
      BY <1>1, <1>6, Zenon
    <2>2. nxt \in F
      <3>1. nxt \in B /\ nxt # b
        BY <1>3, <1>4, <1>6
      <3>. QED BY <1>3, <2>1, <3>1, Zenon
    <2>3. Linked(heap, B, F) /\ heap.free \in F /\ heap.free < b
      BY <1>3, <2>2, Zenon
    <2>4. nxt # heap.free
      BY <1>3, <1>4, <2>3
    <2>5. PICK p, n : p = pfree(heap, nxt) /\ n = nxt
      BY Zenon
    <2>6. p \in F /\ p < n /\ nfree(heap, p) = n
      BY <2>2, <2>3, <2>4, <2>5, BeforeInLinks, GreatestNat, Zenon
    <2>7. Succ(F, p, n)
      BY <2>3, <2>6, Zenon DEF Linked, Listing
    <2>8. Succ(F, b, n)
      <3>1. b < n /\ n \in F /\ n \in Nat /\ \A c \in F : b < c => n <= c
        BY <1>4, <2>2, <2>5, Zenon
      <3>2. \A c \in F : c <= b \/ n <= c
        BY <1>3, <3>1
      <3>. QED BY <3>1, <3>2, Zenon DEF Succ
    <2>9. p < b
      <3>1. p \in Nat /\ p \in B /\ n \in Nat
        BY <1>3, <1>4, <2>5, <2>6, Zenon
      <3>2. p <= b
        BY <1>3, <1>4, <2>5, <2>6, <3>1
      <3>3. p # b
        BY <1>2, <2>6, FreedFacts
      <3>. QED BY <1>3, <3>1, <3>2, <3>3
    <2>10. Between(F, b, n, p)
      BY <2>6, <2>7, <2>8, <2>9, Zenon DEF Between
    <2>11. Between(F, b, nxt, prv)'
      BY <2>1, <2>5, <2>10, Zenon
    <2>12. InOrder(B, F)'
      BY <1>5, <2>1, <2>11, Zenon DEF InOrder
    <2>. QED BY <1>5, <2>12, Zenon DEF Ordered
  <1>7. CASE nxt = END
    <2>1. pc' = "prev" /\ prv' = prev(heap, b) /\ nxt' = END
      BY <1>1, <1>2, <1>7, Zenon
    <2>2. PICK p : p = prev(heap, b)
      BY Zenon
    <2>3. p \in B \cup {NULL} /\ p < b /\ \A c \in F : c < b => c <= p
      <3>1. IsHeap(heap) /\ Tiling(heap, B) /\ F \subseteq B /\ B \subseteq Nat /\ b \in B
        BY <1>3, Zenon
      <3>2. /\ prev(heap, b) \in B \cup {NULL} /\ prev(heap, b) < b
            /\ \A c \in F : c < b => c <= prev(heap, b)
        BY <3>1, BeforeStep, GreatestNat, Zenon
      <3>. QED BY <2>2, <3>2, Zenon
    <2>4. Succ(F, b, END)
      <3>1. \A c \in F : c <= b \/ END <= c
        BY <1>3, <1>4, <1>7
      <3>. QED BY <1>3, <3>1, Zenon DEF Succ
    <2>5. SeekPrev(B, F, b)'
      BY <2>1, <2>2, <2>3, <2>4, Zenon DEF SeekPrev
    <2>6. InOrder(B, F)'
      BY <1>5, <2>1, <2>5, Zenon DEF InOrder
    <2>. QED BY <1>5, <2>6, Zenon DEF Ordered
  <1>. QED BY <1>6, <1>7, Zenon

(* A turn of the loop that looks for the free block in front.              *)
LEMMA FindPrevStep ==
  ASSUME NEW B, NEW F, InOrder(B, F), spill \in {NULL, END}, FindPrev
  PROVE  Ordered'
  <1>1. /\ halt = "no" /\ pc = "prev" /\ prv # NULL /\ ld(heap, prv, USED) # 0
        /\ prv' = prev(heap, prv)
        /\ mem' = mem /\ free' = free /\ live' = live /\ spill' = spill /\ halt' = halt
        /\ pc' = pc /\ req' = req /\ nxt' = nxt
    BY Zenon DEF FindPrev
  <1>2. PICK b : b = PTR_BLOCK(req.ptr) /\ Freed(heap, live, B, F, b) /\ SeekPrev(B, F, b)
    BY <1>1, Zenon DEF InOrder
  <1>3. /\ IsHeap(heap) /\ Tiling(heap, B) /\ F \subseteq B /\ B \subseteq Nat
        /\ b \in Nat /\ \A c \in B : ld(heap, c, USED) = 0 <=> c \in F \cup {b}
    BY <1>2, FreedFacts
  <1>4. nxt = END /\ Succ(F, b, END) /\ prv \in B /\ prv < b /\ \A c \in F : c < b => c <= prv
    BY <1>1, <1>2, Zenon DEF SeekPrev
  <1>5. prv \notin F /\ prv \in Nat
    BY <1>1, <1>3, <1>4, Zenon
  <1>6. PICK p : p = prev(heap, prv)
    BY Zenon
  <1>7. p \in B \cup {NULL} /\ p < prv /\ \A c \in F : c < prv => c <= p
    <2>1. IsHeap(heap) /\ Tiling(heap, B) /\ F \subseteq B /\ B \subseteq Nat /\ prv \in B
      BY <1>3, <1>4, Zenon
    <2>2. /\ prev(heap, prv) \in B \cup {NULL} /\ prev(heap, prv) < prv
          /\ \A c \in F : c < prv => c <= prev(heap, prv)
      BY <2>1, BeforeStep, GreatestNat, Zenon
    <2>. QED BY <1>6, <2>2, Zenon
  <1>8. p \in Int
    BY <1>3, <1>7 DEF NULL
  <1>9. p < b
    BY <1>3, <1>4, <1>5, <1>7, <1>8
  <1>10. \A c \in F : c < b => c <= p
    <2>. SUFFICES ASSUME NEW c \in F, c < b PROVE c <= p
      BY Zenon
    <2>1. c \in Nat /\ c # prv /\ c <= prv
      BY <1>3, <1>4, <1>5, Zenon
    <2>2. c < prv
      BY <1>5, <2>1
    <2>. QED BY <1>7, <2>2, Zenon
  <1>11. SeekPrev(B, F, b)'
    <2>1. prv' = p /\ nxt' = END
      BY <1>1, <1>4, <1>6, Zenon
    <2>. QED BY <1>4, <1>7, <1>9, <1>10, <2>1, Zenon DEF SeekPrev
  <1>12. Freed(heap, live, B, F, b)'
    BY <1>1, <1>2, FreedStays, Zenon
  <1>13. pc' = "prev" /\ PTR_BLOCK(req'.ptr) = b
    BY <1>1, <1>2, Zenon
  <1>14. InOrder(B, F)'
    BY <1>11, <1>12, <1>13, Zenon DEF InOrder
  <1>15. halt' = "no" /\ spill' \in {NULL, END}
    BY <1>1, Zenon
  <1>. QED BY <1>14, <1>15, Zenon DEF Ordered

(* The end of free: the neighbours are known, b is put in between and      *)
(* joined with those that touch it.                                        *)
LEMMA LinkStep ==
  ASSUME NEW B, NEW F, InOrder(B, F), Link
  PROVE  Ordered'
  <1>1. PICK b : b = PTR_BLOCK(req.ptr)
    BY Zenon
  <1>. DEFINE k == coalesced(relinked(heap, b, nxt, prv), b, nxt, prv)
  <1>2. /\ pc = "link" \/ (pc = "prev" /\ (prv = NULL \/ ld(heap, prv, USED) = 0))
        /\ Becomes(k) /\ live' = live
    BY <1>1, Zenon DEF Link
  <1>3. pc' = "idle"
    BY Zenon DEF Link, Return
  <1>4. Freed(heap, live, B, F, b) /\ Between(F, b, nxt, prv)
    <2>1. CASE pc = "link"
      BY <1>1, <2>1, Zenon DEF InOrder
    <2>2. CASE pc = "prev" /\ (prv = NULL \/ ld(heap, prv, USED) = 0)
      <3>1. Freed(heap, live, B, F, b) /\ SeekPrev(B, F, b)
        BY <1>1, <2>2, Zenon DEF InOrder
      <3>2. /\ F \subseteq B /\ B \subseteq Nat /\ b \in Nat /\ END \in Nat
            /\ \A c \in B : ld(heap, c, USED) = 0 <=> c \in F \cup {b}
            /\ F # {} => heap.free \in F /\ heap.free < b
        BY <3>1, FreedFacts
      <3>3. /\ nxt = END /\ Succ(F, b, END) /\ prv \in B \cup {NULL} /\ prv < b
            /\ \A c \in F : c < b => c <= prv
        BY <3>1, Zenon DEF SeekPrev
      <3>4. CASE prv = NULL
        <4>1. F = {}
          <5>. SUFFICES ASSUME F # {} PROVE FALSE
            BY Zenon
          <5>0. heap.free \in F /\ heap.free < b
            BY <3>2, Zenon
          <5>1. PICK c \in F : c < b
            BY <5>0, Zenon
          <5>2. c <= -1
            BY <3>3, <3>4, <5>1, Zenon DEF NULL
          <5>3. c \in Nat
            BY <3>2, Zenon
          <5>. QED BY <5>2, <5>3
        <4>. QED BY <3>1, <3>3, <3>4, <4>1, Zenon DEF Between
      <3>5. CASE prv # NULL
        <4>1. prv \in B /\ ld(heap, prv, USED) = 0 /\ prv \in Nat
          BY <2>2, <3>2, <3>3, <3>5, Zenon
        <4>2. prv \in F
          BY <3>2, <3>3, <4>1
        <4>3. Succ(F, prv, END)
          <5>1. \A c \in F : c <= b \/ END <= c
            BY <3>3, Zenon DEF Succ
          <5>2. prv < END
            BY <3>2, <3>3, <4>1 DEF Succ
          <5>3. \A c \in F : c <= prv \/ END <= c
            <6>. SUFFICES ASSUME NEW c \in F PROVE c <= prv \/ END <= c
              BY Zenon
            <6>1. c \in Nat /\ (c <= b \/ END <= c) /\ (c < b => c <= prv) /\ c # b
              BY <3>1, <3>2, <3>3, <5>1, FreedFacts
            <6>. QED BY <3>2, <6>1
          <5>. QED BY <5>2, <5>3, Zenon DEF Succ
        <4>. QED BY <3>1, <3>3, <4>2, <4>3, Zenon DEF Between
      <3>. QED BY <3>4, <3>5, Zenon
    <2>. QED BY <1>2, <2>1, <2>2, Zenon
  <1>5. Pending(heap, B, F, b) /\ Apart(heap, F) /\ Holds(heap, live, (B \ F) \ {b})
    BY <1>4, Zenon DEF Freed
  <1>6. PICK C, G : /\ Whole(k, C, G) /\ Apart(k, G) /\ k.spill = heap.spill
                    /\ (B \ F) \ {b} \subseteq C \ G /\ Same(k, heap, (B \ F) \ {b})
    BY <1>4, <1>5, LinkWhole, Zenon
  <1>. HIDE DEF k
  <1>7. k.spill \in {NULL, END}
    BY <1>6, HeapIs, Zenon
  <1>8. /\ Whole(heap', C, G) /\ Apart(heap', G) /\ Same(heap', k, C)
        /\ halt' = "no" /\ spill' \in {NULL, END}
    BY <1>2, <1>6, <1>7, BecomesWhole, Zenon
  <1>. DEFINE g == heap'
              U == (B \ F) \ {b}
  <1>9. Same(g, heap, U)
    BY <1>6, <1>8, Zenon DEF Same
  <1>10. Holds(heap, live, U) /\ U \subseteq C \ G
    BY <1>5, <1>6, Zenon
  <1>. HIDE DEF g, U
  <1>11. Holds(g, live, C \ G)
    BY <1>9, <1>10, HoldsKept, Zenon
  <1>12. Quiet(heap, live, C, G)'
    BY <1>2, <1>8, <1>11, Zenon DEF Quiet, g
  <1>13. InOrder(C, G)'
    BY <1>3, <1>12, Zenon DEF InOrder
  <1>. QED BY <1>8, <1>13, Zenon DEF Ordered

(* What is held of a block once it is longer.                              *)
LEMMA HoldsLonger ==
  ASSUME NEW h, NEW k, NEW l, NEW U, NEW V, Holds(h, l, U), NEW p, NEW e, p \in DOMAIN l, p \in Int,
         Same(k, h, U \ {PTR_BLOCK(p)}), U \subseteq V, Held(k, V, p, e)
  PROVE  Holds(k, With(l, p, e), V)
  <1>1. Holds(h, Without(l, p), U \ {PTR_BLOCK(p)})
    BY HoldsLess, Zenon
  <1>2. U \ {PTR_BLOCK(p)} \subseteq V
    BY Zenon
  <1>3. Holds(k, Without(l, p), V)
    BY <1>1, <1>2, HoldsKept, Zenon
  <1>4. Holds(k, With(Without(l, p), p, e), V)
    BY <1>3, HoldsMore, Zenon
  <1>5. With(Without(l, p), p, e) = With(l, p, e)
    BY Zenon DEF With, Without
  <1>. QED BY <1>4, <1>5, Zenon

(* realloc, in place.                                                      *)
LEMMA GrowStep ==
  ASSUME NEW B, NEW F, Quiet(heap, live, B, F), pc' = "idle", NEW p \in DOMAIN live, NEW size \in Nat,
         InPlace(heap, PTR_BLOCK(p), size), ~ShortGrowth(heap, PTR_BLOCK(p), size),
         Becomes(grown(heap, PTR_BLOCK(p), size)), live' = Holding(p, size, FALSE)
  PROVE  Ordered'
  <1>1. Whole(heap, B, F) /\ Apart(heap, F) /\ Holds(heap, live, B \ F)
    BY Zenon DEF Quiet
  <1>. DEFINE b == PTR_BLOCK(p)
              k == grown(heap, b, size)
              U == B \ F
  <1>2. p \in Int /\ b \in B /\ b \notin F
    BY <1>1, Zenon DEF Holds, Held
  <1>. HIDE DEF b
  <1>3. PICK C, G : /\ Whole(k, C, G) /\ Apart(k, G) /\ k.spill \in {heap.spill, END}
                    /\ U \subseteq C \ G /\ ld(k, b, NEXT) >= size + USED_HEADER_SIZE
                    /\ Same(k, heap, U \ {b})
    <2>1. InPlace(heap, b, size) /\ ~ShortGrowth(heap, b, size)
      BY Zenon DEF b
    <2>2. Grown(k, heap, B, F, b, size)
      BY <1>1, <1>2, <2>1, GrownWhole, GreatestNat, Zenon
    <2>. HIDE DEF k
    <2>. QED BY <2>2, Zenon DEF Grown
  <1>4. Becomes(k)
    BY Zenon DEF b
  <1>. HIDE DEF k
  <1>5. k.spill \in {NULL, END}
    BY <1>3, HeapIs, Zenon
  <1>6. /\ Whole(heap', C, G) /\ Apart(heap', G) /\ Same(heap', k, C)
        /\ halt' = "no" /\ spill' \in {NULL, END}
    BY <1>3, <1>4, <1>5, BecomesWhole, Zenon
  <1>. DEFINE g == heap'
              e == [len |-> size, page |-> FALSE]
  <1>7. live' = With(live, p, e)
    BY Zenon DEF Holding, With
  <1>8. Same(g, heap, U \ {b})
    BY <1>3, <1>6, Zenon DEF Same
  <1>9. Held(g, C \ G, p, e)
    <2>1. b \in C \ G
      BY <1>2, <1>3, Zenon
    <2>2. ld(g, b, NEXT) = ld(k, b, NEXT)
      BY <1>6, <2>1, Zenon DEF Same
    <2>. HIDE DEF g
    <2>3. ld(g, b, NEXT) >= size + USED_HEADER_SIZE
      BY <1>3, <2>2, Zenon
    <2>. QED BY <1>2, <2>1, <2>3, Zenon DEF Held, b
  <1>10. Holds(heap, live, U) /\ U \subseteq C \ G
    BY <1>1, <1>3, Zenon
  <1>. HIDE DEF g, e, U
  <1>11. Same(g, heap, U \ {PTR_BLOCK(p)})
    BY <1>8, Zenon DEF b
  <1>12. Holds(g, With(live, p, e), C \ G)
    BY <1>2, <1>9, <1>10, <1>11, HoldsLonger, Zenon
  <1>13. Quiet(g, With(live, p, e), C, G)
    BY <1>6, <1>12, Zenon DEF Quiet, g
  <1>14. Quiet(heap, live, C, G)'
    BY <1>7, <1>13, Zenon DEF g
  <1>15. pc' = "idle"
    BY Zenon
  <1>16. InOrder(C, G)'
    BY <1>14, <1>15, Zenon DEF InOrder
  <1>. QED BY <1>6, <1>16, Zenon DEF Ordered

(* realloc, called for what a caller holds.                                *)
LEMMA ReallocStep ==
  ASSUME NEW B, NEW F, InOrder(B, F), ~spoiled', Realloc
  PROVE  Ordered'
  <1>1. halt = "no" /\ pc = "idle"
    BY Zenon DEF Realloc
  <1>2. Quiet(heap, live, B, F)
    BY <1>1, Zenon DEF InOrder
  <1>3. Whole(heap, B, F) /\ Holds(heap, live, B \ F)
    BY <1>2, Zenon DEF Quiet
  <1>4. PICK p \in DOMAIN live, g \in Growth :
          LET b == PTR_BLOCK(p)
              size == ld(heap, b, NEXT) - USED_HEADER_SIZE + g
          IN  \/ ~Asserted(p) /\ Fails
              \/ /\ Asserted(p) /\ InPlace(heap, b, size)
                 /\ Becomes(grown(heap, b, size))
                 /\ live' = Holding(p, size, FALSE)
                 /\ spoiled' = (spoiled \/ ShortGrowth(heap, b, size))
                 /\ UNCHANGED <<pc, req, locals>>
              \/ /\ Asserted(p) /\ ~InPlace(heap, b, size)
                 /\ Search(Call("realloc", size, p))
                 /\ Untouched /\ UNCHANGED <<live, spoiled>>
    BY Zenon DEF Realloc
  <1>5. p \in Int /\ PTR_BLOCK(p) \in B \ F
    BY <1>3, Zenon DEF Holds, Held
  <1>6. Asserted(p)
    BY <1>3, <1>5, AssertedHolds, Zenon
  <1>7. PICK b, size : b = PTR_BLOCK(p) /\ size = ld(heap, b, NEXT) - USED_HEADER_SIZE + g
    BY Zenon
  <1>8. size \in Nat /\ size >= 2
    <2>1. b \in B
      BY <1>5, <1>7, Zenon
    <2>2. ld(heap, b, NEXT) \in Nat /\ next(heap, b) = b + ld(heap, b, NEXT) /\ b + 5 <= next(heap, b) /\ b \in Nat
      BY <1>3, <2>1, Places, Zenon
    <2>3. g \in Nat
      BY AllocAssumption
    <2>. QED BY <1>7, <2>2, <2>3 DEF USED_HEADER_SIZE
  <1>9. \/ /\ InPlace(heap, b, size) /\ Becomes(grown(heap, b, size))
           /\ live' = Holding(p, size, FALSE)
           /\ spoiled' = (spoiled \/ ShortGrowth(heap, b, size)) /\ pc' = pc
        \/ /\ Search(Call("realloc", size, p)) /\ Untouched /\ live' = live
    BY <1>4, <1>6, <1>7, Zenon
  <1>10. CASE /\ InPlace(heap, b, size) /\ Becomes(grown(heap, b, size))
              /\ live' = Holding(p, size, FALSE)
              /\ spoiled' = (spoiled \/ ShortGrowth(heap, b, size)) /\ pc' = pc
    <2>1. ~ShortGrowth(heap, b, size)
      BY <1>10, Zenon
    <2>2. pc' = "idle"
      BY <1>1, <1>10, Zenon
    <2>3. /\ InPlace(heap, PTR_BLOCK(p), size) /\ ~ShortGrowth(heap, PTR_BLOCK(p), size)
          /\ Becomes(grown(heap, PTR_BLOCK(p), size)) /\ live' = Holding(p, size, FALSE)
      BY <1>7, <1>10, <2>1, Zenon
    <2>. QED BY <1>2, <1>8, <2>2, <2>3, GrowStep, Zenon
  <1>11. CASE Search(Call("realloc", size, p)) /\ Untouched /\ live' = live
    <2>. DEFINE r == Call("realloc", size, p)
    <2>1. r.len = size /\ r.op = "realloc" /\ r.ptr = p
      BY Zenon DEF Call
    <2>2. Search(r) /\ Untouched /\ live' = live
      BY <1>11, Zenon
    <2>. HIDE DEF r
    <2>. QED BY <1>1, <1>2, <1>8, <2>1, <2>2, SearchStep, Zenon
  <1>. QED BY <1>9, <1>10, <1>11, Zenon

(* A call that the allocator cannot serve is never forgotten.              *)
LEMMA SpoiledStays ==
  ASSUME [Next]_vars, spoiled PROVE spoiled'
  <1>1. CASE AllocMem \/ AllocPage \/ FindFit \/ NoFit \/ TakeMem \/ TakeNew
    BY <1>1, Zenon DEF AllocMem, AllocPage, FindFit, NoFit, TakeMem, TakeNew
  <1>2. CASE TakePage
    BY <1>2, Zenon DEF TakePage
  <1>3. CASE Free
    BY <1>3, Zenon DEF Free, Fails, Release
  <1>4. CASE Drop
    BY <1>4, Zenon DEF Drop, Fails, Release
  <1>5. CASE FindNext \/ AtNext \/ FindPrev \/ Link
    BY <1>5, Zenon DEF FindNext, AtNext, FindPrev, Link
  <1>6. CASE Realloc
    BY <1>6, Zenon DEF Realloc, Fails
  <1>7. CASE UNCHANGED vars
    BY <1>7, Zenon DEF vars
  <1>. QED BY <1>1, <1>2, <1>3, <1>4, <1>5, <1>6, <1>7, Zenon DEF Next

(* Every step of every call keeps the heap in order.                       *)
LEMMA StepInv == HeapInv /\ [Next]_vars => HeapInv'
  <1>. SUFFICES ASSUME HeapInv, [Next]_vars, ~spoiled' PROVE Ordered'
    BY Zenon DEF HeapInv
  <1>1. Ordered
    BY SpoiledStays, Zenon DEF HeapInv
  <1>2. halt = "no" /\ spill \in {NULL, END}
    BY <1>1, Zenon DEF Ordered
  <1>3. PICK B, F : InOrder(B, F)
    BY <1>1, Zenon DEF Ordered
  <1>4. CASE AllocMem \/ AllocPage
    BY <1>3, <1>4, RequestStep, Zenon
  <1>5. CASE FindFit
    BY <1>2, <1>3, <1>5, FitStep, Zenon
  <1>6. CASE NoFit
    BY <1>3, <1>6, NoFitStep, Zenon
  <1>7. CASE TakeMem
    BY <1>3, <1>7, TakeMemStep, Zenon
  <1>8. CASE TakePage
    BY <1>3, <1>8, TakePageStep, Zenon
  <1>9. CASE TakeNew
    BY <1>3, <1>9, TakeNewStep, Zenon
  <1>10. CASE Free
    BY <1>3, <1>10, FreeStep, Zenon
  <1>11. CASE Drop
    BY <1>3, <1>11, DropStep, Zenon
  <1>12. CASE FindNext
    BY <1>2, <1>3, <1>12, FindNextStep, Zenon
  <1>13. CASE AtNext
    BY <1>2, <1>3, <1>13, AtNextStep, Zenon
  <1>14. CASE FindPrev
    BY <1>2, <1>3, <1>14, FindPrevStep, Zenon
  <1>15. CASE Link
    BY <1>3, <1>15, LinkStep, Zenon
  <1>16. CASE Realloc
    BY <1>3, <1>16, ReallocStep, Zenon
  <1>17. CASE UNCHANGED vars
    <2>1. InOrder(B, F)'
      <3>1. /\ mem' = mem /\ free' = free /\ live' = live /\ pc' = pc /\ req' = req
            /\ curr' = curr /\ best' = best /\ nxt' = nxt /\ prv' = prv
        BY <1>17, Zenon DEF vars, locals
      <3>2. heap' = heap
        BY <3>1, HeapIs, Zenon
      <3>3. Searching(F)' = Searching(F)
        BY <3>1, <3>2, Zenon DEF Searching
      <3>4. /\ Dropping(B, F)' = Dropping(B, F)
            /\ \A b : SeekNext(B, F, b)' = SeekNext(B, F, b) /\ SeekPrev(B, F, b)' = SeekPrev(B, F, b)
        BY <3>1, Zenon DEF Dropping, SeekNext, SeekPrev
      <3>. QED BY <1>3, <3>1, <3>2, <3>3, <3>4, Zenon DEF InOrder
    <2>2. halt' = "no" /\ spill' \in {NULL, END}
      BY <1>2, <1>17, Zenon DEF vars
    <2>. QED BY <2>1, <2>2, Zenon DEF Ordered
  <1>. QED
    BY <1>4, <1>5, <1>6, <1>7, <1>8, <1>9, <1>10, <1>11, <1>12, <1>13, <1>14, <1>15, <1>16, <1>17,
       Zenon DEF Next

(* The inductive invariant of the heap.                                    *)
THEOREM HeapInOrder == Spec => []HeapInv
  BY InitInv, StepInv, PTL DEF Spec

(* No call leaves the heap, follows a link that leads nowhere or fails an  *)
(* assertion of free, unless a call was made that cannot be served.        *)
THEOREM HeapStays == Spec => []StaysUnlessSpoiled
  <1>1. HeapInv => StaysUnlessSpoiled
    BY Zenon DEF HeapInv, Ordered, StaysUnlessSpoiled
  <1>. QED BY <1>1, HeapInOrder, PTL

(* What the properties say of cells, in terms of the fields of blocks.     *)
LEMMA CellsOf ==
  ASSUME NEW B, IsHeap(heap), Tiling(heap, B)
  PROVE  /\ Blocks = B \cup {END} /\ Blocks \ {END} = B
         /\ B \subseteq Nat /\ END \in Nat
         /\ \A b \in B, f \in Field : mem[b + f] = ld(heap, b, f)
  <1>1. Blocks = B \cup {END}
    BY BlocksAre, GreatestNat, Zenon DEF Blocks
  <1>2. B \subseteq Nat /\ END \in Nat /\ \A b \in B : b + 5 <= END
    BY HeapAssumption, Zenon DEF Tiling, Spaced
  <1>3. Blocks \ {END} = B
    BY <1>1, <1>2
  <1>4. \A b \in B, f \in Field : mem[b + f] = ld(heap, b, f)
    <2>. SUFFICES ASSUME NEW b \in B, NEW f \in Field PROVE mem[b + f] = ld(heap, b, f)
      BY Zenon
    <2>1. b + f \in 0 .. END - 1
      BY <1>2 DEF Field
    <2>2. heap.mem = mem
      BY Zenon DEF heap
    <2>. QED BY <2>1, <2>2, Zenon DEF ld
  <1>. QED BY <1>1, <1>2, <1>3, <1>4, Zenon

(* The blocks of a heap in order, between calls and while free runs.       *)
LEMMA OrderedTiles ==
  ASSUME Ordered
  PROVE  \E B, F :
           /\ IsHeap(heap) /\ Tiling(heap, B)
           /\ \E U : U \subseteq B \ FreeBlocks(heap, B) /\ Holds(heap, live, U)
           /\ ~Freeing => Quiet(heap, live, B, F)
  <1>1. PICK B, F : InOrder(B, F)
    BY Zenon DEF Ordered
  <1>2. CASE Quiet(heap, live, B, F)
    <2>1. /\ IsHeap(heap) /\ Tiling(heap, B) /\ F = FreeBlocks(heap, B) /\ Holds(heap, live, B \ F)
      BY <1>2, Zenon DEF Quiet, Whole
    <2>. QED BY <1>2, <2>1, Zenon
  <1>3. CASE Freeing /\ Freed(heap, live, B, F, PTR_BLOCK(req.ptr))
    <2>. DEFINE b == PTR_BLOCK(req.ptr)
    <2>1. /\ IsHeap(heap) /\ Tiling(heap, B) /\ F \cup {b} = FreeBlocks(heap, B)
          /\ Holds(heap, live, (B \ F) \ {b})
      BY <1>3, Zenon DEF Freed, Pending
    <2>. HIDE DEF b
    <2>2. (B \ F) \ {b} \subseteq B \ FreeBlocks(heap, B)
      BY <2>1, Zenon
    <2>. QED BY <1>3, <2>1, <2>2, Zenon
  <1>4. Quiet(heap, live, B, F) \/ (Freeing /\ Freed(heap, live, B, F, PTR_BLOCK(req.ptr)))
    BY <1>1, Zenon DEF InOrder, Freeing
  <1>. QED BY <1>2, <1>3, <1>4, Zenon

(* The blocks tile the heap, next and prev agree, and free has merged      *)
(* every two neighbours that are both free.                                *)
THEOREM HeapTiled == Spec => []Tiled
  <1>1. HeapInv => Tiled
    <2>. SUFFICES ASSUME Ordered PROVE Tiled
      BY Zenon DEF HeapInv, Tiled
    <2>1. PICK B, F : /\ IsHeap(heap) /\ Tiling(heap, B)
                      /\ ~Freeing => Quiet(heap, live, B, F)
      BY OrderedTiles, Zenon
    <2>2. /\ Blocks = B \cup {END} /\ Blocks \ {END} = B
          /\ B \subseteq Nat /\ END \in Nat
          /\ \A b \in B, f \in Field : mem[b + f] = ld(heap, b, f)
      BY <2>1, CellsOf, Zenon
    <2>3. ASSUME NEW b \in B, NEW n, n = next(heap, b), n # END
          PROVE  /\ mem[n + PREV] = mem[b + NEXT]
                 /\ ~Freeing => mem[b + USED] = 1 \/ mem[n + USED] = 1
      <3>1. n \in B /\ ld(heap, n, PREV) = ld(heap, b, NEXT)
        BY <2>1, <2>3, Zenon DEF Tiling, Succ
      <3>2. mem[n + PREV] = mem[b + NEXT]
        BY <2>2, <3>1 DEF Field
      <3>3. ASSUME ~Freeing PROVE mem[b + USED] = 1 \/ mem[n + USED] = 1
        <4>1. F = FreeBlocks(heap, B) /\ Apart(heap, F)
          BY <2>1, <3>3, Zenon DEF Quiet, Whole
        <4>2. b \notin F \/ n \notin F
          BY <2>3, <4>1, Zenon DEF Apart
        <4>3. ld(heap, b, USED) # 0 \/ ld(heap, n, USED) # 0
          BY <3>1, <4>1, <4>2, Zenon DEF FreeBlocks
        <4>4. \A c \in B : ld(heap, c, USED) \in {0, 1}
          BY <2>1, Zenon DEF Tiling
        <4>5. mem[b + USED] = ld(heap, b, USED) /\ mem[n + USED] = ld(heap, n, USED)
          BY <2>2, <3>1 DEF Field
        <4>. QED BY <3>1, <4>3, <4>4, <4>5, Zenon
      <3>. QED BY <3>2, <3>3, Zenon
    <2>. QED BY <2>2, <2>3, Zenon DEF Tiled
  <1>. QED BY <1>1, HeapInOrder, PTL

(* The free list holds the unused blocks, each once and in the order of    *)
(* their addresses, whenever free is not at work on it.                    *)
THEOREM HeapListed == Spec => []FreeListed
  <1>1. HeapInv => FreeListed
    <2>. SUFFICES ASSUME Ordered, ~Freeing PROVE FreeListed
      BY Zenon DEF HeapInv, FreeListed
    <2>1. PICK B, F : /\ IsHeap(heap) /\ Tiling(heap, B) /\ Quiet(heap, live, B, F)
      BY OrderedTiles, Zenon
    <2>2. /\ Blocks = B \cup {END} /\ Blocks \ {END} = B
          /\ B \subseteq Nat /\ END \in Nat
          /\ \A b \in B, f \in Field : mem[b + f] = ld(heap, b, f)
      BY <2>1, CellsOf, Zenon
    <2>3. Whole(heap, B, F) /\ F = FreeBlocks(heap, B) /\ F \subseteq B /\ Listing(heap, F)
      BY <2>1, Zenon DEF Quiet, Whole, FreeBlocks
    <2>4. Unused = F
      <3>1. \A b \in B : mem[b + USED] = ld(heap, b, USED)
        BY <2>2 DEF Field
      <3>2. Unused = {b \in B : mem[b + USED] = 0}
        BY <2>2, Zenon DEF Unused
      <3>. QED BY <2>3, <3>1, <3>2, Zenon DEF FreeBlocks
    <2>5. \A a, c : Follows(a, c) <=> Succ(F, a, c)
      BY <2>4, Zenon DEF Follows, Succ
    <2>6. heap.free = free
      BY Zenon DEF heap
    <2>7. Follows(-1, free)
      BY <2>3, <2>5, <2>6, Zenon DEF Listing
    <2>8. free # END => mem[free + PFREE] = 0
      <3>. SUFFICES ASSUME free # END PROVE mem[free + PFREE] = 0
        BY Zenon
      <3>1. free \in B
        BY <2>3, <2>6, Zenon DEF Listing, Succ
      <3>2. mem[free + PFREE] = ld(heap, free, PFREE)
        BY <2>2, <3>1 DEF Field
      <3>. QED BY <2>3, <2>6, <3>2, Zenon DEF Listing
    <2>9. ASSUME NEW b \in F, NEW n, n = nfree(heap, b)
          PROVE  Follows(b, n) /\ (n # END => pfree(heap, n) = b)
      <3>1. Succ(F, b, n)
        BY <2>3, <2>9, Zenon DEF Listing
      <3>2. ASSUME n # END PROVE pfree(heap, n) = b
        <4>1. ld(heap, n, PFREE) = ld(heap, b, NFREE)
          BY <2>3, <2>9, <3>2, Zenon DEF Listing
        <4>2. b \in Nat /\ ld(heap, b, NFREE) \in Nat
          BY <2>3, Places, Zenon
        <4>. QED BY <2>9, <4>1, <4>2 DEF nfree, pfree
      <3>. QED BY <2>5, <3>1, <3>2, Zenon
    <2>. QED BY <2>4, <2>7, <2>8, <2>9, Zenon DEF FreeListed
  <1>. QED BY <1>1, HeapInOrder, PTL

(* Every pointer handed out and not returned has a block in use that is    *)
(* as long as was asked for, on its boundary if it is a page.              *)
THEOREM HeapKept == Spec => []LiveKept
  <1>1. HeapInv => LiveKept
    <2>. SUFFICES ASSUME Ordered, NEW p \in DOMAIN live
                  PROVE  LET b == PTR_BLOCK(p)
                         IN  /\ b \in Blocks \ {END} /\ mem[b + USED] = 1
                             /\ mem[b + NEXT] >= live[p].len + USED_HEADER_SIZE
                             /\ live[p].page => get_align(p) = 0
      BY Zenon DEF HeapInv, LiveKept
    <2>1. PICK B, U : /\ IsHeap(heap) /\ Tiling(heap, B)
                      /\ U \subseteq B \ FreeBlocks(heap, B) /\ Holds(heap, live, U)
      BY OrderedTiles, Zenon
    <2>2. /\ Blocks \ {END} = B
          /\ \A b \in B, f \in Field : mem[b + f] = ld(heap, b, f)
      BY <2>1, CellsOf, Zenon
    <2>. DEFINE b == PTR_BLOCK(p)
    <2>3. /\ b \in U /\ ld(heap, b, NEXT) >= live[p].len + USED_HEADER_SIZE
          /\ live[p].page => get_align(p) = 0
      BY <2>1, Zenon DEF Holds, Held
    <2>. HIDE DEF b
    <2>4. b \in B /\ ld(heap, b, USED) # 0
      BY <2>1, <2>3, Zenon DEF FreeBlocks
    <2>5. ld(heap, b, USED) = 1
      BY <2>1, <2>4, Zenon DEF Tiling
    <2>6. mem[b + USED] = 1 /\ mem[b + NEXT] >= live[p].len + USED_HEADER_SIZE
      BY <2>2, <2>3, <2>4, <2>5 DEF Field
    <2>. QED BY <2>2, <2>3, <2>4, <2>6, Zenon DEF b
  <1>. QED BY <1>1, HeapInOrder, PTL
=============================================================================
