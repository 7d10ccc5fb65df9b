----------------------------- MODULE HeapLemmas -----------------------------
(***************************************************************************)
(* What the operations of Heap do to a heap that is in order: each of      *)
(* split, carving a block out, releasing, linking, merging and growing     *)
(* gives a heap that is in order again, for every size of the heap.        *)
(***************************************************************************)
EXTENDS Heap, TLAPS

USE DEF PREV, NEXT, USED, NFREE, PFREE

Field == 0 .. 4

IsHeap(h) ==
  h \in [mem : [Cells -> 0 .. WORD - 1], free : Int, spill : Int, bad : BOOLEAN]

(* Every two of the blocks in S are far enough apart for their headers,    *)
(* and so is the end.                                                      *)
Spaced(S) ==
  /\ S \subseteq Nat
  /\ \A b \in S : b + 5 <= END
  /\ \A b, c \in S : b < c => b + 5 <= c

(* k is h with v in the field f of the block b, as far as blocks in S go.  *)
Stored(k, h, S, b, f, v) ==
  /\ IsHeap(k) /\ k.free = h.free /\ k.spill = h.spill /\ k.bad = h.bad
  /\ ld(k, b, f) = v
  /\ \A c \in S, g \in Field : c # b \/ g # f => ld(k, c, g) = ld(h, c, g)

(* A value that fits a cell is stored as it is.                            *)
LEMMA SmallMod ==
  ASSUME NEW v \in 0 .. WORD - 1
  PROVE  v % WORD = v
  BY HeapAssumption

(* What ld loads fits a cell.                                              *)
LEMMA LoadType ==
  ASSUME NEW h, IsHeap(h), NEW b \in Int, NEW f \in Field
  PROVE  ld(h, b, f) \in 0 .. WORD - 1 /\ ld(h, b, f) \in Nat
  BY HeapAssumption DEF ld, IsHeap, Cells, Field

(* st changes the one field it stores to: the headers do not overlap.      *)
LEMMA LoadStore ==
  ASSUME NEW h, IsHeap(h), NEW S, Spaced(S), NEW b \in S, NEW f \in Field,
         NEW v \in 0 .. WORD - 1
  PROVE  Stored(st(h, b, f, v), h, S, b, f, v)
  <1>. DEFINE k == put(h, b, f, v)
  <1>0. END \in Nat /\ b \in Nat /\ b + 5 <= END
    BY HeapAssumption, Zenon DEF Spaced
  <1>1. b + f \in Cells /\ b + f \in 0 .. END - 1
    BY <1>0 DEF Cells, Field
  <1>2. st(h, b, f, v) = k
    BY SmallMod, Zenon DEF st
  <1>3. k = [h EXCEPT !.mem = [h.mem EXCEPT ![b + f] = v]]
    BY <1>1, Zenon DEF put
  <1>4. /\ IsHeap(k) /\ k.free = h.free /\ k.spill = h.spill /\ k.bad = h.bad
        /\ k.mem = [h.mem EXCEPT ![b + f] = v]
    BY <1>1, <1>3, Zenon DEF IsHeap
  <1>. HIDE DEF k
  <1>5. ld(k, b, f) = v
    BY <1>1, <1>4, Zenon DEF ld, IsHeap
  <1>6. ASSUME NEW c \in S, NEW g \in Field, c # b \/ g # f
        PROVE  ld(k, c, g) = ld(h, c, g)
    <2>1. c + g # b + f
      BY <1>6 DEF Spaced, Field
    <2>2. c + g \in 0 .. END - 1 => k.mem[c + g] = h.mem[c + g]
      BY <1>4, <2>1, Zenon DEF IsHeap, Cells
    <2>. QED BY <2>2, Zenon DEF ld
  <1>. QED
    BY <1>2, <1>4, <1>5, <1>6, Zenon DEF Stored

(* What split leaves in the headers of the blocks B and of the new one.    *)
SplitTo(k, h, B, b, size) ==
  LET s == b + size
      n == next(h, b)
      f == nfree(h, b)
  IN  /\ IsHeap(k) /\ k.free = h.free /\ k.spill = h.spill /\ k.bad = h.bad
      /\ ld(k, b, NEXT) = size /\ ld(k, b, NFREE) = size
      /\ ld(k, b, PREV) = ld(h, b, PREV) /\ ld(k, b, PFREE) = ld(h, b, PFREE)
      /\ ld(k, b, USED) = ld(h, b, USED)
      /\ ld(k, s, PREV) = size /\ ld(k, s, NEXT) = ld(h, b, NEXT) - size
      /\ ld(k, s, USED) = 0
      /\ ld(k, s, NFREE) = ld(h, b, NFREE) - size /\ ld(k, s, PFREE) = size
      /\ \A c \in B \ {b} :
           /\ ld(k, c, NEXT) = ld(h, c, NEXT) /\ ld(k, c, USED) = ld(h, c, USED)
           /\ ld(k, c, NFREE) = ld(h, c, NFREE)
           /\ c # n => ld(k, c, PREV) = ld(h, c, PREV)
           /\ c # f => ld(k, c, PFREE) = ld(h, c, PFREE)
      /\ n # END => ld(k, n, PREV) = ld(h, n, PREV) - size
      /\ f # END => ld(k, f, PFREE) = ld(h, f, PFREE) - size

(* split does so, when the fields are large enough to be made smaller.     *)
LEMMA SplitFields ==
  ASSUME NEW h, IsHeap(h), NEW B, NEW b \in B, NEW size \in Nat,
         Spaced(B \cup {b + size}), b + size \notin B,
         next(h, b) \in (B \cup {END}) \ {b}, nfree(h, b) \in (B \cup {END}) \ {b},
         size <= ld(h, b, NEXT), size <= ld(h, b, NFREE), size < WORD,
         next(h, b) # END => size <= ld(h, next(h, b), PREV),
         nfree(h, b) # END => size <= ld(h, nfree(h, b), PFREE)
  PROVE  SplitTo(split(h, b, size), h, B, b, size)
  <1>. DEFINE s == b + size
              S == B \cup {s}
              N == ld(h, b, NEXT)
              L == ld(h, b, NFREE)
              n == next(h, b)
              f == nfree(h, b)
              h1 == st(h, s, NEXT, ld(h, b, NEXT) - size)
              h2 == st(h1, b, NEXT, size)
              h3 == st(h2, s, PREV, size)
              h4 == st(h3, s, NFREE, ld(h3, b, NFREE) - size)
              h5 == st(h4, b, NFREE, ld(h4, b, NEXT))
              h6 == st(h5, s, PFREE, ld(h5, s, PREV))
              h7 == st(h6, s, USED, 0)
              h8 == IF next(h7, s) = END THEN h7 ELSE add(h7, next(h7, s), PREV, -size)
              k == IF nfree(h8, s) = END THEN h8 ELSE add(h8, nfree(h8, s), PFREE, -size)
  <1>1. split(h, b, size) = k
    BY Zenon DEF split
  <1>2. /\ Spaced(S) /\ b \in S /\ s \in S /\ b # s /\ b \in Nat /\ s \in Nat
        /\ B \subseteq S /\ n \in B \cup {END} /\ f \in B \cup {END} /\ n # b /\ f # b
        /\ n # s \/ n = END
    BY Zenon DEF Spaced
  <1>3. /\ PREV \in Field /\ NEXT \in Field /\ USED \in Field /\ NFREE \in Field /\ PFREE \in Field
    BY DEF Field
  <1>4. /\ N \in 0 .. WORD - 1 /\ L \in 0 .. WORD - 1 /\ size \in 0 .. WORD - 1
        /\ 0 \in 0 .. WORD - 1 /\ N - size \in 0 .. WORD - 1 /\ L - size \in 0 .. WORD - 1
        /\ N = ld(h, b, NEXT) /\ L = ld(h, b, NFREE) /\ n = b + N /\ f = b + L
    BY <1>2, <1>3, LoadType, HeapAssumption DEF next, nfree
  <1>. HIDE DEF h1, h2, h3, h4, h5, h6, h7, h8, k, s, S, N, L, n, f
  <1>5. Stored(h1, h, S, s, NEXT, N - size)
    BY <1>2, <1>3, <1>4, LoadStore, Zenon DEF h1
  <1>6. Stored(h2, h1, S, b, NEXT, size)
    BY <1>2, <1>3, <1>4, <1>5, LoadStore DEF h2, Stored
  <1>7. Stored(h3, h2, S, s, PREV, size)
    BY <1>2, <1>3, <1>4, <1>6, LoadStore DEF h3, Stored
  <1>8. Stored(h4, h3, S, s, NFREE, L - size)
    <2>1. ld(h3, b, NFREE) = L
      BY <1>2, <1>3, <1>4, <1>5, <1>6, <1>7 DEF Stored
    <2>2. IsHeap(h3)
      BY <1>7, Zenon DEF Stored
    <2>. QED BY <1>2, <1>3, <1>4, <2>1, <2>2, LoadStore, Zenon DEF h4
  <1>9. Stored(h5, h4, S, b, NFREE, size)
    <2>1. ld(h4, b, NEXT) = size
      BY <1>2, <1>3, <1>4, <1>6, <1>7, <1>8 DEF Stored
    <2>2. IsHeap(h4)
      BY <1>8, Zenon DEF Stored
    <2>. QED BY <1>2, <1>3, <1>4, <2>1, <2>2, LoadStore, Zenon DEF h5
  <1>10. Stored(h6, h5, S, s, PFREE, size)
    <2>1. ld(h5, s, PREV) = size
      BY <1>2, <1>3, <1>4, <1>7, <1>8, <1>9 DEF Stored
    <2>2. IsHeap(h5)
      BY <1>9, Zenon DEF Stored
    <2>. QED BY <1>2, <1>3, <1>4, <2>1, <2>2, LoadStore, Zenon DEF h6
  <1>11. Stored(h7, h6, S, s, USED, 0)
    BY <1>2, <1>3, <1>4, <1>10, LoadStore DEF h7, Stored
  <1>12. /\ IsHeap(h7) /\ h7.free = h.free /\ h7.spill = h.spill /\ h7.bad = h.bad
         /\ ld(h7, b, NEXT) = size /\ ld(h7, b, NFREE) = size
         /\ ld(h7, b, PREV) = ld(h, b, PREV) /\ ld(h7, b, PFREE) = ld(h, b, PFREE)
         /\ ld(h7, b, USED) = ld(h, b, USED)
         /\ ld(h7, s, PREV) = size /\ ld(h7, s, NEXT) = N - size /\ ld(h7, s, USED) = 0
         /\ ld(h7, s, NFREE) = L - size /\ ld(h7, s, PFREE) = size
    BY <1>2, <1>3, <1>5, <1>6, <1>7, <1>8, <1>9, <1>10, <1>11 DEF Stored
  <1>13. \A c \in B \ {b}, g \in Field : ld(h7, c, g) = ld(h, c, g)
    <2>1. \A c \in B \ {b} : c \in S /\ c # s /\ c # b
      BY <1>2, Zenon DEF s
    <2>. QED BY <2>1, <1>5, <1>6, <1>7, <1>8, <1>9, <1>10, <1>11 DEF Stored
  <1>14. next(h7, s) = n /\ nfree(h7, s) = f
    BY <1>2, <1>4, <1>12 DEF next, nfree, s
  <1>15. n = END => h8 = h7
    BY <1>14, Zenon DEF h8
  <1>16. n # END => Stored(h8, h7, S, n, PREV, ld(h, n, PREV) - size)
    <2>. SUFFICES ASSUME n # END PROVE Stored(h8, h7, S, n, PREV, ld(h, n, PREV) - size)
      BY Zenon
    <2>1. n \in B \ {b} /\ n \in S /\ n \in Int
      BY <1>2 DEF Spaced
    <2>2. ld(h7, n, PREV) = ld(h, n, PREV)
      BY <2>1, <1>3, <1>13, Zenon
    <2>3. ld(h, n, PREV) \in 0 .. WORD - 1 /\ size <= ld(h, n, PREV)
      <3>1. size <= ld(h, n, PREV)
        BY Zenon DEF n
      <3>. QED BY <2>1, <1>3, <3>1, LoadType, Zenon
    <2>4. ld(h, n, PREV) - size \in 0 .. WORD - 1 /\ ld(h, n, PREV) + (-size) = ld(h, n, PREV) - size
      BY <2>3, HeapAssumption
    <2>5. h8 = st(h7, n, PREV, ld(h, n, PREV) - size)
      BY <1>14, <2>2, <2>4, Zenon DEF h8, add
    <2>. QED BY <1>2, <1>3, <1>12, <2>1, <2>4, <2>5, LoadStore, Zenon
  <1>17. /\ IsHeap(h8) /\ h8.free = h.free /\ h8.spill = h.spill /\ h8.bad = h.bad
         /\ \A c \in S, g \in Field : c # n \/ g # PREV => ld(h8, c, g) = ld(h7, c, g)
    BY <1>12, <1>15, <1>16, Zenon DEF Stored
  <1>18. nfree(h8, s) = f
    BY <1>2, <1>3, <1>14, <1>17 DEF nfree
  <1>19. f = END => k = h8
    BY <1>18, Zenon DEF k
  <1>20. f # END => Stored(k, h8, S, f, PFREE, ld(h, f, PFREE) - size)
    <2>. SUFFICES ASSUME f # END PROVE Stored(k, h8, S, f, PFREE, ld(h, f, PFREE) - size)
      BY Zenon
    <2>1. f \in B \ {b} /\ f \in S /\ f \in Int
      BY <1>2 DEF Spaced
    <2>2. ld(h8, f, PFREE) = ld(h, f, PFREE)
      BY <2>1, <1>3, <1>13, <1>17
    <2>3. ld(h, f, PFREE) \in 0 .. WORD - 1 /\ size <= ld(h, f, PFREE)
      <3>1. size <= ld(h, f, PFREE)
        BY Zenon DEF f
      <3>. QED BY <2>1, <1>3, <3>1, LoadType, Zenon
    <2>4. ld(h, f, PFREE) - size \in 0 .. WORD - 1 /\ ld(h, f, PFREE) + (-size) = ld(h, f, PFREE) - size
      BY <2>3, HeapAssumption
    <2>5. k = st(h8, f, PFREE, ld(h, f, PFREE) - size)
      BY <1>18, <2>2, <2>4, Zenon DEF k, add
    <2>. QED BY <1>2, <1>3, <1>17, <2>1, <2>4, <2>5, LoadStore, Zenon
  <1>21. /\ IsHeap(k) /\ k.free = h.free /\ k.spill = h.spill /\ k.bad = h.bad
         /\ \A c \in S, g \in Field : c # f \/ g # PFREE => ld(k, c, g) = ld(h8, c, g)
    BY <1>17, <1>19, <1>20, Zenon DEF Stored
  <1>22. \A c \in S, g \in Field :
           (c # n \/ g # PREV) /\ (c # f \/ g # PFREE) => ld(k, c, g) = ld(h7, c, g)
    BY <1>17, <1>21, Zenon
  <1>23. n # END => ld(k, n, PREV) = ld(h, n, PREV) - size
    BY <1>2, <1>3, <1>16, <1>21 DEF Stored
  <1>24. f # END => ld(k, f, PFREE) = ld(h, f, PFREE) - size
    BY <1>20, Zenon DEF Stored
  <1>25. /\ ld(k, b, NEXT) = size /\ ld(k, b, NFREE) = size
         /\ ld(k, b, PREV) = ld(h, b, PREV) /\ ld(k, b, PFREE) = ld(h, b, PFREE)
         /\ ld(k, b, USED) = ld(h, b, USED)
    BY <1>2, <1>3, <1>12, <1>22, Zenon
  <1>26. /\ ld(k, s, PREV) = size /\ ld(k, s, NEXT) = N - size /\ ld(k, s, USED) = 0
         /\ ld(k, s, NFREE) = L - size /\ ld(k, s, PFREE) = size
    <2>1. s # n /\ s # f
      BY <1>2 DEF s, Spaced
    <2>. QED BY <1>2, <1>3, <1>12, <1>22, <2>1, Zenon
  <1>27. ASSUME NEW c \in B \ {b}
         PROVE  /\ ld(k, c, NEXT) = ld(h, c, NEXT) /\ ld(k, c, USED) = ld(h, c, USED)
                /\ ld(k, c, NFREE) = ld(h, c, NFREE)
                /\ c # n => ld(k, c, PREV) = ld(h, c, PREV)
                /\ c # f => ld(k, c, PFREE) = ld(h, c, PFREE)
    BY <1>2, <1>3, <1>13, <1>22
  <1>. QED
    BY <1>1, <1>21, <1>23, <1>24, <1>25, <1>26, <1>27, Zenon DEF SplitTo, s, n, f, N, L

(* c follows a among the blocks in F and the end.                          *)
Succ(F, a, c) == a < c /\ c \in F \cup {END} /\ \A d \in F : d <= a \/ c <= d

(* What follows is an address, and nothing is in between.                  *)
LEMMA SuccFacts ==
  ASSUME NEW F \in SUBSET Nat, NEW a \in Int, NEW c, Succ(F, a, c)
  PROVE  /\ c \in Nat /\ a < c /\ c \in F \cup {END}
         /\ \A d \in F : a < d => c <= d
  <1>1. c \in Nat /\ a < c /\ c \in F \cup {END}
    <2>1. c \in F \/ c = END
      BY Zenon DEF Succ
    <2>2. END \in Nat
      BY HeapAssumption, Zenon
    <2>. QED BY <2>1, <2>2, Zenon DEF Succ
  <1>2. \A d \in F : a < d => c <= d
    <2>1. \A d \in F : d <= a \/ c <= d
      BY Zenon DEF Succ
    <2>. QED BY <2>1
  <1>. QED BY <1>1, <1>2, Zenon

(* The blocks B tile the heap.                                             *)
Tiling(h, B) ==
  /\ Spaced(B) /\ 0 \in B /\ ld(h, 0, PREV) = 0
  /\ \A b \in B : ld(h, b, USED) \in {0, 1}
  /\ \A b \in B : Succ(B, b, next(h, b))
  /\ \A b \in B : next(h, b) # END => ld(h, next(h, b), PREV) = ld(h, b, NEXT)

(* The free list links the blocks F.                                       *)
Listing(h, F) ==
  /\ Succ(F, -1, h.free)
  /\ h.free # END => ld(h, h.free, PFREE) = 0
  /\ \A b \in F : Succ(F, b, nfree(h, b))
  /\ \A b \in F : nfree(h, b) # END => ld(h, nfree(h, b), PFREE) = ld(h, b, NFREE)

FreeBlocks(h, B) == {b \in B : ld(h, b, USED) = 0}

(* A heap in order, but for neighbours that are both free.                 *)
Whole(h, B, F) ==
  /\ IsHeap(h) /\ ~h.bad /\ Tiling(h, B) /\ Listing(h, F) /\ F = FreeBlocks(h, B)

(* Blocks in C have the length and the use that they had.                  *)
Same(k, h, C) ==
  \A c \in C : ld(k, c, NEXT) = ld(h, c, NEXT) /\ ld(k, c, USED) = ld(h, c, USED)

(* The lengths of a block in terms of addresses.                           *)
LEMMA TilePlaces ==
  ASSUME NEW h, NEW B, IsHeap(h), Tiling(h, B), NEW b \in B
  PROVE  /\ END \in Nat /\ b \in Nat /\ b + 5 <= END
         /\ ld(h, b, NEXT) \in Nat /\ ld(h, b, NFREE) \in Nat
         /\ ld(h, b, PREV) \in Nat /\ ld(h, b, PFREE) \in Nat
         /\ next(h, b) = b + ld(h, b, NEXT) /\ nfree(h, b) = b + ld(h, b, NFREE)
         /\ b + 5 <= next(h, b) /\ next(h, b) <= END
         /\ next(h, b) \in B \cup {END} /\ \A c \in B : b < c => next(h, b) <= c
  <1>1. END \in Nat /\ b \in Nat /\ b + 5 <= END
    BY HeapAssumption, Zenon DEF Tiling, Spaced
  <1>2. /\ ld(h, b, NEXT) \in Nat /\ ld(h, b, NFREE) \in Nat
        /\ ld(h, b, PREV) \in Nat /\ ld(h, b, PFREE) \in Nat
    BY <1>1, LoadType DEF Field
  <1>3. next(h, b) = b + ld(h, b, NEXT) /\ nfree(h, b) = b + ld(h, b, NFREE)
    BY Zenon DEF next, nfree
  <1>4. Succ(B, b, next(h, b))
    BY Zenon DEF Tiling
  <1>0. /\ B \subseteq Nat /\ \A c \in B : c + 5 <= END
        /\ \A c, d \in B : c < d => c + 5 <= d
    BY Zenon DEF Tiling, Spaced
  <1>6. b < next(h, b) /\ next(h, b) \in B \cup {END} /\ \A c \in B : b < c => next(h, b) <= c
    BY <1>0, <1>1, <1>4, SuccFacts
  <1>5. b + 5 <= next(h, b) /\ next(h, b) <= END
    <2>2. CASE next(h, b) = END
      BY <2>2, <1>1
    <2>3. CASE next(h, b) \in B
      <3>1. next(h, b) \in Nat /\ b + 5 <= next(h, b) /\ next(h, b) + 5 <= END
        BY <1>6, <2>3, <1>0, Zenon
      <3>. QED BY <3>1, <1>1
    <2>. QED BY <1>6, <2>2, <2>3, Zenon
  <1>. QED BY <1>1, <1>2, <1>3, <1>5, <1>6, Zenon

(* Blocks that tile the heap, with some of them in the free list.          *)
Linked(h, B, F) == IsHeap(h) /\ Tiling(h, B) /\ Listing(h, F) /\ F \subseteq B

(* The links of a block in terms of addresses.                             *)
LEMMA LinkPlaces ==
  ASSUME NEW h, NEW B, NEW F, Linked(h, B, F), NEW b \in F
  PROVE  b < nfree(h, b) /\ next(h, b) <= nfree(h, b) /\ nfree(h, b) <= END
  <1>1. /\ F \subseteq B /\ B \subseteq Nat /\ b \in B /\ F \in SUBSET Nat /\ b \in Int
        /\ \A c \in B : c + 5 <= END
    BY DEF Linked, Tiling, Spaced
  <1>2. Succ(F, b, nfree(h, b))
    BY Zenon DEF Linked, Listing
  <1>3. nfree(h, b) \in Nat /\ b < nfree(h, b) /\ nfree(h, b) \in F \cup {END}
    BY <1>1, <1>2, SuccFacts, Zenon
  <1>4. /\ END \in Nat /\ next(h, b) \in Nat /\ next(h, b) <= END
        /\ \A c \in B : b < c => next(h, b) <= c
    <2>1. IsHeap(h) /\ Tiling(h, B)
      BY Zenon DEF Linked
    <2>. QED BY <1>1, <2>1, TilePlaces, Zenon
  <1>5. CASE nfree(h, b) = END
    BY <1>3, <1>4, <1>5
  <1>6. CASE nfree(h, b) \in F
    BY <1>1, <1>3, <1>4, <1>6
  <1>. QED BY <1>3, <1>5, <1>6, Zenon

(* Both, for a heap in order.                                              *)
LEMMA Places ==
  ASSUME NEW h, NEW B, NEW F, Whole(h, B, F), NEW b \in B
  PROVE  /\ END \in Nat /\ b \in Nat /\ b + 5 <= END
         /\ ld(h, b, NEXT) \in Nat /\ ld(h, b, NFREE) \in Nat
         /\ ld(h, b, PREV) \in Nat /\ ld(h, b, PFREE) \in Nat
         /\ next(h, b) = b + ld(h, b, NEXT) /\ nfree(h, b) = b + ld(h, b, NFREE)
         /\ b + 5 <= next(h, b) /\ next(h, b) <= END
         /\ b \in F => b < nfree(h, b) /\ next(h, b) <= nfree(h, b) /\ nfree(h, b) <= END
  <1>1. IsHeap(h) /\ Tiling(h, B) /\ Linked(h, B, F)
    BY Zenon DEF Whole, Linked, FreeBlocks
  <1>. QED BY <1>1, TilePlaces, LinkPlaces, Zenon

(* k is h with the free block b cut in two.                                *)
Halved(k, h, B, F, b, size) ==
  LET s == b + size
  IN  /\ Whole(k, B \cup {s}, F \cup {s}) /\ s \notin B
      /\ k.free = h.free /\ k.spill = h.spill
      /\ ld(k, b, NEXT) = size /\ ld(k, s, NEXT) = ld(h, b, NEXT) - size
      /\ Same(k, h, B \ {b})

(* split makes two free blocks of one.                                     *)
LEMMA SplitWhole ==
  ASSUME NEW h, NEW B, NEW F, Whole(h, B, F), NEW b \in F, NEW size \in Nat,
         size >= 5, ld(h, b, NEXT) - size >= 5
  PROVE  Halved(split(h, b, size), h, B, F, b, size)
  <1>. DEFINE k == split(h, b, size)
              s == b + size
              n == next(h, b)
              f == nfree(h, b)
  <1>1. F \subseteq B /\ b \in B /\ B \subseteq Nat /\ END \in Nat
    BY HeapAssumption, Zenon DEF Whole, FreeBlocks, Tiling, Spaced
  <1>2. /\ b \in Nat /\ b + 5 <= END
        /\ ld(h, b, NEXT) \in Nat /\ ld(h, b, NFREE) \in Nat
        /\ n = b + ld(h, b, NEXT) /\ f = b + ld(h, b, NFREE)
        /\ n <= END /\ n <= f /\ f <= END
    BY <1>1, Places, Zenon
  <1>3. Succ(B, b, n) /\ Succ(F, b, f)
    BY <1>1, Zenon DEF Whole, Tiling, Listing
  <1>4. /\ s \in Nat /\ b + 5 <= s /\ s + 5 <= n
        /\ \A c \in B : c <= b \/ s + 5 <= c
    BY <1>1, <1>2, <1>3 DEF Succ
  <1>5. Spaced(B \cup {s}) /\ s \notin B
    <2>1. Spaced(B)
      BY Zenon DEF Whole, Tiling
    <2>2. \A c \in B : c < s => c + 5 <= s
      BY <1>1, <1>2, <1>4, <2>1 DEF Spaced
    <2>. QED BY <1>1, <1>2, <1>4, <2>1, <2>2 DEF Spaced
  <1>6. /\ n \in (B \cup {END}) \ {b} /\ f \in (B \cup {END}) \ {b}
        /\ size <= ld(h, b, NEXT) /\ size <= ld(h, b, NFREE) /\ size < WORD
        /\ n # END => size <= ld(h, n, PREV)
        /\ f # END => size <= ld(h, f, PFREE)
    <2>1. n \in (B \cup {END}) \ {b} /\ f \in (B \cup {END}) \ {b}
      BY <1>1, <1>2, <1>3 DEF Succ
    <2>2. size <= ld(h, b, NEXT) /\ size <= ld(h, b, NFREE) /\ size < WORD
      BY <1>2, <1>4, HeapAssumption
    <2>3. n # END => ld(h, n, PREV) = ld(h, b, NEXT)
      BY <1>1, Zenon DEF Whole, Tiling
    <2>4. f # END => ld(h, f, PFREE) = ld(h, b, NFREE)
      BY <1>1, Zenon DEF Whole, Listing
    <2>. QED BY <2>1, <2>2, <2>3, <2>4, Zenon
  <1>7. SplitTo(k, h, B, b, size)
    BY <1>1, <1>5, <1>6, SplitFields, Zenon DEF Whole
  <1>. HIDE DEF k, s, n, f
  <1>8. /\ IsHeap(k) /\ k.free = h.free /\ k.spill = h.spill /\ k.bad = h.bad
        /\ ld(k, b, NEXT) = size /\ ld(k, b, NFREE) = size
        /\ ld(k, b, PREV) = ld(h, b, PREV) /\ ld(k, b, PFREE) = ld(h, b, PFREE)
        /\ ld(k, b, USED) = ld(h, b, USED)
        /\ ld(k, s, PREV) = size /\ ld(k, s, NEXT) = ld(h, b, NEXT) - size
        /\ ld(k, s, USED) = 0
        /\ ld(k, s, NFREE) = ld(h, b, NFREE) - size /\ ld(k, s, PFREE) = size
    BY <1>7, Zenon DEF SplitTo, s
  <1>9. \A c \in B \ {b} :
           /\ ld(k, c, NEXT) = ld(h, c, NEXT) /\ ld(k, c, USED) = ld(h, c, USED)
           /\ ld(k, c, NFREE) = ld(h, c, NFREE)
           /\ c # n => ld(k, c, PREV) = ld(h, c, PREV)
           /\ c # f => ld(k, c, PFREE) = ld(h, c, PFREE)
    BY <1>7, Zenon DEF SplitTo, n, f
  <1>10. /\ n # END => ld(k, n, PREV) = ld(h, n, PREV) - size
         /\ f # END => ld(k, f, PFREE) = ld(h, f, PFREE) - size
    BY <1>7, Zenon DEF SplitTo, n, f
  <1>11. /\ next(k, b) = s /\ next(k, s) = n /\ nfree(k, b) = s /\ nfree(k, s) = f
         /\ \A c \in B \ {b} : next(k, c) = next(h, c) /\ nfree(k, c) = nfree(h, c)
    BY <1>2, <1>8, <1>9 DEF next, nfree, s
  <1>12. Tiling(k, B \cup {s})
    <2>1. 0 \in B /\ ld(k, 0, PREV) = 0
      <3>1. 0 \in B /\ ld(h, 0, PREV) = 0 /\ n # 0
        BY <1>2, <1>4 DEF Whole, Tiling
      <3>. QED BY <3>1, <1>8, <1>9, Zenon
    <2>2. \A c \in B \cup {s} : ld(k, c, USED) \in {0, 1}
      BY <1>8, <1>9, Zenon DEF Whole, Tiling
    <2>3. ASSUME NEW c \in B \cup {s} PROVE Succ(B \cup {s}, c, next(k, c))
      <3>1. CASE c = b
        BY <3>1, <1>1, <1>2, <1>4, <1>11 DEF Succ
      <3>2. CASE c = s
        BY <3>2, <1>1, <1>2, <1>3, <1>4, <1>11 DEF Succ
      <3>3. CASE c \in B \ {b}
        <4>1. Succ(B, c, next(h, c)) /\ next(k, c) = next(h, c)
          BY <3>3, <1>11, Zenon DEF Whole, Tiling
        <4>2. next(h, c) \in Nat /\ c \in Nat
          <5>1. c \in Int /\ c \in Nat
            BY <3>3, <1>1
          <5>. QED BY <4>1, <5>1, <1>1, SuccFacts, Zenon
        <4>3. s <= c \/ next(h, c) <= s
          BY <4>1, <4>2, <3>3, <1>1, <1>2, <1>4 DEF Succ
        <4>. QED BY <4>1, <4>2, <4>3, Zenon DEF Succ
      <3>. QED BY <3>1, <3>2, <3>3, <1>1, Zenon
    <2>4. ASSUME NEW c \in B \cup {s}, next(k, c) # END
          PROVE  ld(k, next(k, c), PREV) = ld(k, c, NEXT)
      <3>1. CASE c = b
        BY <3>1, <1>8, <1>11, Zenon
      <3>2. CASE c = s
        <4>1. ld(h, n, PREV) = ld(h, b, NEXT)
          BY <2>4, <3>2, <1>1, <1>11, Zenon DEF Whole, Tiling, n
        <4>. QED BY <4>1, <2>4, <3>2, <1>8, <1>10, <1>11, Zenon
      <3>3. CASE c \in B \ {b}
        <4>1. /\ Succ(B, c, next(h, c)) /\ next(k, c) = next(h, c)
              /\ ld(h, next(h, c), PREV) = ld(h, c, NEXT)
          BY <2>4, <3>3, <1>11, Zenon DEF Whole, Tiling
        <4>2. next(h, c) # n
          BY <4>1, <3>3, <1>1, <1>2, <1>3 DEF Succ
        <4>3. next(h, c) \in B
          BY <4>1, <2>4, Zenon DEF Succ
        <4>4. ld(k, next(h, c), PREV) = ld(h, next(h, c), PREV)
          BY <4>2, <4>3, <1>8, <1>9, Zenon
        <4>. QED BY <4>1, <4>4, <3>3, <1>9, Zenon
      <3>. QED BY <3>1, <3>2, <3>3, <1>1, Zenon
    <2>. QED BY <1>5, <2>1, <2>2, <2>3, <2>4, Zenon DEF Tiling
  <1>13. Listing(k, F \cup {s})
    <2>1. Succ(F \cup {s}, -1, k.free)
      <3>1. Succ(F, -1, h.free)
        BY Zenon DEF Whole, Listing
      <3>2. h.free <= b /\ h.free \in Nat
        <4>1. F \subseteq Nat /\ -1 \in Int /\ -1 < b
          BY <1>1, <1>2
        <4>. QED BY <3>1, <4>1, SuccFacts, Zenon
      <3>. QED BY <3>1, <3>2, <1>2, <1>4, <1>8 DEF Succ
    <2>2. k.free # END => ld(k, k.free, PFREE) = 0
      <3>. SUFFICES ASSUME h.free # END PROVE ld(k, h.free, PFREE) = 0
        BY <1>8, Zenon
      <3>1. Succ(F, -1, h.free) /\ ld(h, h.free, PFREE) = 0
        BY Zenon DEF Whole, Listing
      <3>2. h.free \in F /\ h.free \in B /\ h.free <= b /\ h.free # f
        <4>1. F \subseteq Nat /\ -1 \in Int /\ -1 < b
          BY <1>1, <1>2
        <4>2. h.free <= b /\ h.free \in Nat /\ h.free \in F
          BY <3>1, <4>1, SuccFacts, Zenon
        <4>. QED BY <4>2, <1>1, <1>2, <1>4
      <3>. QED BY <3>1, <3>2, <1>8, <1>9, Zenon
    <2>3. ASSUME NEW c \in F \cup {s} PROVE Succ(F \cup {s}, c, nfree(k, c))
      <3>1. CASE c = b
        BY <3>1, <1>1, <1>2, <1>4, <1>11 DEF Succ
      <3>2. CASE c = s
        BY <3>2, <1>1, <1>2, <1>3, <1>4, <1>11 DEF Succ
      <3>3. CASE c \in F \ {b}
        <4>1. Succ(F, c, nfree(h, c)) /\ nfree(k, c) = nfree(h, c)
          BY <3>3, <1>1, <1>11, Zenon DEF Whole, Listing
        <4>2. nfree(h, c) \in Nat /\ c \in Nat
          <5>1. c \in Int /\ F \subseteq Nat
            BY <3>3, <1>1
          <5>. QED BY <4>1, <5>1, <3>3, <1>1, SuccFacts, Zenon
        <4>3. s <= c \/ nfree(h, c) <= s
          BY <4>1, <4>2, <3>3, <1>1, <1>2, <1>4 DEF Succ
        <4>. QED BY <4>1, <4>2, <4>3, Zenon DEF Succ
      <3>. QED BY <3>1, <3>2, <3>3, Zenon
    <2>4. ASSUME NEW c \in F \cup {s}, nfree(k, c) # END
          PROVE  ld(k, nfree(k, c), PFREE) = ld(k, c, NFREE)
      <3>1. CASE c = b
        BY <3>1, <1>8, <1>11, Zenon
      <3>2. CASE c = s
        <4>1. ld(h, f, PFREE) = ld(h, b, NFREE)
          BY <2>4, <3>2, <1>11, Zenon DEF Whole, Listing, f
        <4>. QED BY <4>1, <2>4, <3>2, <1>8, <1>10, <1>11, Zenon
      <3>3. CASE c \in F \ {b}
        <4>1. /\ Succ(F, c, nfree(h, c)) /\ nfree(k, c) = nfree(h, c)
              /\ ld(h, nfree(h, c), PFREE) = ld(h, c, NFREE)
          BY <2>4, <3>3, <1>1, <1>11, Zenon DEF Whole, Listing
        <4>2. nfree(h, c) # f
          BY <4>1, <3>3, <1>1, <1>2, <1>3 DEF Succ
        <4>3. nfree(h, c) \in B
          BY <4>1, <2>4, <1>1, Zenon DEF Succ
        <4>4. ld(k, nfree(h, c), PFREE) = ld(h, nfree(h, c), PFREE)
          BY <4>2, <4>3, <1>8, <1>9, Zenon
        <4>. QED BY <4>1, <4>4, <3>3, <1>1, <1>9, Zenon
      <3>. QED BY <3>1, <3>2, <3>3, Zenon
    <2>. QED BY <2>1, <2>2, <2>3, <2>4, Zenon DEF Listing
  <1>14. F \cup {s} = FreeBlocks(k, B \cup {s})
    BY <1>5, <1>8, <1>9, Zenon DEF Whole, FreeBlocks
  <1>15. Whole(k, B \cup {s}, F \cup {s})
    BY <1>8, <1>12, <1>13, <1>14, Zenon DEF Whole
  <1>16. Same(k, h, B \ {b})
    BY <1>9, Zenon DEF Same
  <1>. QED BY <1>5, <1>8, <1>15, <1>16, Zenon DEF Halved, k, s

(* Bounded sets of natural numbers have a greatest element.  What the      *)
(* lemmas need of induction is in this, which AllocProofs shows.           *)
GreatestExists ==
  \A N \in Nat, S \in SUBSET Nat :
    S # {} /\ (\A n \in S : n <= N) => \E m \in S : \A n \in S : n <= m

(* A block of the list but the first has one in front of it, which is      *)
(* where its link back leads.                                              *)
LEMMA BeforeInLinks ==
  ASSUME GreatestExists, NEW h, NEW B, NEW F, Linked(h, B, F), NEW b \in F, b # h.free
  PROVE  /\ pfree(h, b) \in F /\ pfree(h, b) < b /\ nfree(h, pfree(h, b)) = b
         /\ ld(h, b, PFREE) = ld(h, pfree(h, b), NFREE)
  <1>1. F \subseteq B /\ F \subseteq Nat /\ b \in Nat /\ END \in Nat
    BY HeapAssumption, Zenon DEF Linked, Tiling, Spaced
  <1>0. b \in B /\ IsHeap(h) /\ Tiling(h, B)
    BY Zenon DEF Linked
  <1>. DEFINE S == {c \in F : c < b}
  <1>2. h.free \in S
    <2>1. Succ(F, -1, h.free)
      BY Zenon DEF Linked, Listing
    <2>2. h.free \in Nat /\ h.free \in F \cup {END} /\ h.free <= b
      <3>1. -1 \in Int /\ -1 < b
        BY <1>1
      <3>. QED BY <1>1, <2>1, <3>1, SuccFacts, Zenon
    <2>3. b < END
      BY <1>0, <1>1, TilePlaces
    <2>. QED BY <1>1, <2>2, <2>3
  <1>3. PICK p \in S : \A c \in S : c <= p
    <2>1. S \in SUBSET Nat /\ S # {}
      BY <1>1, <1>2, Zenon
    <2>2. \A c \in S : c <= b
      BY <1>1
    <2>. HIDE DEF S
    <2>. QED BY <1>1, <2>1, <2>2, Zenon DEF GreatestExists
  <1>4. p \in F /\ p \in Nat /\ p \in Int /\ p < b /\ Succ(F, p, nfree(h, p))
    BY <1>1 DEF Linked, Listing
  <1>5. nfree(h, p) \in Nat /\ p < nfree(h, p) /\ nfree(h, p) \in F \cup {END} /\ nfree(h, p) <= b
    BY <1>1, <1>4, SuccFacts, Zenon
  <1>6. b + 5 <= END
    BY <1>0, <1>1, TilePlaces, Zenon
  <1>7. nfree(h, p) = b
    BY <1>1, <1>3, <1>4, <1>5, <1>6
  <1>8. ld(h, b, PFREE) = ld(h, p, NFREE) /\ b = p + ld(h, p, NFREE) /\ ld(h, p, NFREE) \in Nat
    <2>1. b # END
      BY <1>1, <1>6
    <2>2. ld(h, b, PFREE) = ld(h, p, NFREE)
      <3>0. \A c \in F : nfree(h, c) # END => ld(h, nfree(h, c), PFREE) = ld(h, c, NFREE)
        BY Zenon DEF Linked, Listing
      <3>1. nfree(h, p) # END => ld(h, nfree(h, p), PFREE) = ld(h, p, NFREE)
        BY <1>4, <3>0, Zenon
      <3>. QED BY <1>7, <2>1, <3>1, Zenon
    <2>3. p \in B
      BY <1>1, <1>4, Zenon
    <2>4. nfree(h, p) = p + ld(h, p, NFREE) /\ ld(h, p, NFREE) \in Nat
      BY <1>0, <2>3, TilePlaces, Zenon
    <2>. QED BY <1>7, <2>2, <2>4, Zenon
  <1>9. pfree(h, b) = p
    BY <1>1, <1>4, <1>8 DEF pfree
  <1>. QED BY <1>4, <1>7, <1>8, <1>9, Zenon

(* The same, for a heap in order.                                          *)
LEMMA BeforeInList ==
  ASSUME GreatestExists, NEW h, NEW B, NEW F, Whole(h, B, F), NEW b \in F, b # h.free
  PROVE  /\ pfree(h, b) \in F /\ pfree(h, b) < b /\ nfree(h, pfree(h, b)) = b
         /\ ld(h, b, PFREE) = ld(h, pfree(h, b), NFREE)
  <1>1. Linked(h, B, F)
    BY Zenon DEF Whole, Linked, FreeBlocks
  <1>. QED BY <1>1, BeforeInLinks, Zenon

(* Loads depend on the cells alone.                                        *)
LEMMA LoadMem ==
  ASSUME NEW h, NEW k, k.mem = h.mem, NEW b, NEW f
  PROVE  ld(k, b, f) = ld(h, b, f)
  BY Zenon DEF ld

(* The store of use_block at the end of the heap leaves the cells alone.   *)
LEMMA StoreEnd ==
  ASSUME NEW h, IsHeap(h)
  PROVE  LET k == st(h, END, PFREE, 0) IN
         /\ IsHeap(k) /\ k.free = h.free /\ k.spill = h.free /\ k.bad = h.bad
         /\ k.mem = h.mem
  <1>. DEFINE k == put(h, END, PFREE, 0)
  <1>1. 0 \in 0 .. WORD - 1 /\ END + PFREE \notin 0 .. END - 1
    BY HeapAssumption
  <1>2. st(h, END, PFREE, 0) = k
    BY <1>1, SmallMod, Zenon DEF st
  <1>3. k = [h EXCEPT !.spill = h.free]
    BY <1>1, Zenon DEF put
  <1>. HIDE DEF k
  <1>. QED BY <1>2, <1>3, Zenon DEF IsHeap

(* So does moving the head of the free list.                               *)
LEMMA MoveHead ==
  ASSUME NEW h, IsHeap(h), NEW x \in Int
  PROVE  LET k == [h EXCEPT !.free = x] IN
         /\ IsHeap(k) /\ k.free = x /\ k.spill = h.spill /\ k.bad = h.bad
         /\ k.mem = h.mem
  BY Zenon DEF IsHeap

(* Blocks with the same links tile the heap as before.                     *)
LEMMA TilingKept ==
  ASSUME NEW h, NEW k, NEW B, Tiling(h, B),
         \A c \in B : ld(k, c, NEXT) = ld(h, c, NEXT) /\ ld(k, c, PREV) = ld(h, c, PREV)
                      /\ ld(k, c, USED) \in {0, 1}
  PROVE  Tiling(k, B)
  <1>1. \A c \in B : next(k, c) = next(h, c)
    BY Zenon DEF next
  <1>2. \A c \in B : Succ(B, c, next(k, c))
    BY <1>1, Zenon DEF Tiling
  <1>3. ASSUME NEW c \in B, next(k, c) # END
        PROVE  ld(k, next(k, c), PREV) = ld(k, c, NEXT)
    <2>1. next(h, c) \in B /\ ld(h, next(h, c), PREV) = ld(h, c, NEXT)
      BY <1>1, <1>2, <1>3, Zenon DEF Tiling, Succ
    <2>. QED BY <1>1, <2>1, Zenon
  <1>. QED BY <1>2, <1>3, Zenon DEF Tiling

(* The fields that use_block changes: the links of the free list around b  *)
(* and the use of b.                                                       *)
LEMMA UseFields ==
  ASSUME GreatestExists, NEW h, NEW B, NEW F, Whole(h, B, F), NEW b \in F
  PROVE  LET k == use_block(h, b)
             f == nfree(h, b)
             p == pfree(h, b)
         IN  /\ IsHeap(k) /\ k.bad = h.bad /\ k.spill \in {h.spill, END}
             /\ ld(k, b, USED) = 1
             /\ \A c \in B : ld(k, c, NEXT) = ld(h, c, NEXT) /\ ld(k, c, PREV) = ld(h, c, PREV)
             /\ \A c \in B \ {b} : ld(k, c, USED) = ld(h, c, USED)
             /\ \A c \in B \ {f} : ld(k, c, PFREE) = ld(h, c, PFREE)
             /\ b = h.free => /\ k.free = f
                              /\ f # END => ld(k, f, PFREE) = 0
                              /\ \A c \in B : ld(k, c, NFREE) = ld(h, c, NFREE)
             /\ b # h.free => /\ k.free = h.free
                              /\ f # END => ld(k, f, PFREE) = ld(h, b, NFREE) + ld(h, b, PFREE)
                              /\ ld(k, p, NFREE) = ld(h, p, NFREE) + ld(h, b, NFREE)
                              /\ \A c \in B \ {p} : ld(k, c, NFREE) = ld(h, c, NFREE)
  <1>. DEFINE k == use_block(h, b)
              f == nfree(h, b)
              p == pfree(h, b)
              hf == [h EXCEPT !.free = f]
              h1 == add(h, p, NFREE, ld(h, b, NFREE))
              h2 == IF b = h.free
                    THEN st(hf, f, PFREE, 0)
                    ELSE IF f = END THEN h1 ELSE add(h1, f, PFREE, ld(h1, b, PFREE))
  <1>1. k = st(h2, b, USED, 1)
    BY Zenon DEF use_block
  <1>2. /\ F \subseteq B /\ b \in B /\ Spaced(B) /\ IsHeap(h) /\ B \subseteq Nat /\ b \in Nat
        /\ END \in Nat /\ END < WORD
    BY HeapAssumption, Zenon DEF Whole, FreeBlocks, Tiling, Spaced
  <1>3. /\ NEXT \in Field /\ PREV \in Field /\ USED \in Field /\ NFREE \in Field /\ PFREE \in Field
        /\ 0 \in 0 .. WORD - 1 /\ 1 \in 0 .. WORD - 1
    BY HeapAssumption DEF Field
  <1>4. /\ ld(h, b, NFREE) \in Nat /\ ld(h, b, PFREE) \in Nat /\ f = b + ld(h, b, NFREE)
        /\ b < f /\ f <= END
    BY <1>2, Places, Zenon
  <1>5. f \in B \cup {END} /\ f \in Int
    <2>1. Succ(F, b, f)
      BY Zenon DEF Whole, Listing
    <2>. QED BY <1>2, <1>4, <2>1 DEF Succ
  <1>6. f # END => ld(h, f, PFREE) = ld(h, b, NFREE)
    BY Zenon DEF Whole, Listing
  <1>. HIDE DEF k, f, p, hf, h1, h2
  <1>7. ASSUME b = h.free
        PROVE  /\ IsHeap(h2) /\ h2.bad = h.bad /\ h2.spill \in {h.spill, END} /\ h2.free = f
               /\ f # END => ld(h2, f, PFREE) = 0
               /\ \A c \in B, g \in Field : c # f \/ g # PFREE => ld(h2, c, g) = ld(h, c, g)
    <2>1. /\ IsHeap(hf) /\ hf.free = f /\ hf.spill = h.spill /\ hf.bad = h.bad /\ hf.mem = h.mem
      BY <1>2, <1>5, MoveHead, Zenon DEF hf
    <2>2. h2 = st(hf, f, PFREE, 0)
      BY <1>7, Zenon DEF h2
    <2>3. \A c \in B, g \in Field : ld(hf, c, g) = ld(h, c, g)
      BY <2>1, LoadMem
    <2>4. CASE f = END
      <3>1. /\ IsHeap(h2) /\ h2.free = f /\ h2.spill = f /\ h2.bad = h.bad /\ h2.mem = h.mem
        BY <2>1, <2>2, <2>4, StoreEnd, Zenon
      <3>2. \A c \in B, g \in Field : ld(h2, c, g) = ld(h, c, g)
        BY <3>1, LoadMem
      <3>. QED BY <2>4, <3>1, <3>2, Zenon
    <2>5. CASE f # END
      <3>1. Stored(h2, hf, B, f, PFREE, 0)
        BY <1>2, <1>3, <1>5, <2>1, <2>2, <2>5, LoadStore, Zenon
      <3>. QED BY <2>1, <2>3, <3>1, Zenon DEF Stored
    <2>. QED BY <2>4, <2>5, Zenon
  <1>8. ASSUME b # h.free
        PROVE  /\ IsHeap(h2) /\ h2.bad = h.bad /\ h2.spill = h.spill /\ h2.free = h.free
               /\ p \in B /\ p # b
               /\ f # END => ld(h2, f, PFREE) = ld(h, b, NFREE) + ld(h, b, PFREE)
               /\ ld(h2, p, NFREE) = ld(h, p, NFREE) + ld(h, b, NFREE)
               /\ \A c \in B, g \in Field : (c # f \/ g # PFREE) /\ (c # p \/ g # NFREE)
                                            => ld(h2, c, g) = ld(h, c, g)
    <2>1. p \in F /\ p < b /\ nfree(h, p) = b /\ ld(h, b, PFREE) = ld(h, p, NFREE)
      BY <1>8, BeforeInList, Zenon DEF p
    <2>2. p \in B /\ p \in Nat /\ b = p + ld(h, p, NFREE) /\ ld(h, p, NFREE) \in Nat
      <3>1. p \in B
        BY <1>2, <2>1, Zenon
      <3>. QED BY <1>2, <2>1, <3>1, Places, Zenon
    <2>3. /\ ld(h, p, NFREE) + ld(h, b, NFREE) \in 0 .. WORD - 1
          /\ ld(h, b, NFREE) + ld(h, b, PFREE) \in 0 .. WORD - 1
      BY <1>2, <1>4, <2>1, <2>2, HeapAssumption
    <2>4. Stored(h1, h, B, p, NFREE, ld(h, p, NFREE) + ld(h, b, NFREE))
      BY <1>2, <1>3, <2>2, <2>3, LoadStore, Zenon DEF h1, add
    <2>5. f # p
      BY <1>2, <1>4, <2>1, <2>2
    <2>6. CASE f = END
      <3>1. h2 = h1
        BY <1>8, <2>6, Zenon DEF h2
      <3>. QED BY <2>1, <2>2, <2>4, <2>6, <3>1 DEF Stored
    <2>7. CASE f # END
      <3>1. ld(h1, f, PFREE) = ld(h, b, NFREE) /\ ld(h1, b, PFREE) = ld(h, b, PFREE)
        BY <1>2, <1>3, <1>5, <1>6, <2>4, <2>7 DEF Stored
      <3>2. h2 = st(h1, f, PFREE, ld(h, b, NFREE) + ld(h, b, PFREE))
        BY <1>8, <2>7, <3>1, Zenon DEF h2, add
      <3>3. f \in B /\ IsHeap(h1)
        BY <1>5, <2>4, <2>7, Zenon DEF Stored
      <3>4. Stored(h2, h1, B, f, PFREE, ld(h, b, NFREE) + ld(h, b, PFREE))
        BY <1>2, <1>3, <2>3, <3>2, <3>3, LoadStore, Zenon
      <3>. QED BY <1>3, <2>1, <2>2, <2>4, <2>5, <3>4 DEF Stored
    <2>. QED BY <2>6, <2>7, Zenon
  <1>9. Stored(k, h2, B, b, USED, 1)
    BY <1>1, <1>2, <1>3, <1>7, <1>8, LoadStore, Zenon
  <1>10. CASE b = h.free
    <2>1. \A c \in B, g \in Field : (c # f \/ g # PFREE) /\ (c # b \/ g # USED) => ld(k, c, g) = ld(h, c, g)
      BY <1>7, <1>9, <1>10, Zenon DEF Stored
    <2>2. f # END => ld(k, f, PFREE) = 0
      BY <1>3, <1>5, <1>7, <1>9, <1>10 DEF Stored
    <2>. QED BY <1>3, <1>7, <1>9, <1>10, <2>1, <2>2 DEF Stored, k, f, p
  <1>11. CASE b # h.free
    <2>1. \A c \in B, g \in Field :
            (c # f \/ g # PFREE) /\ (c # p \/ g # NFREE) /\ (c # b \/ g # USED) => ld(k, c, g) = ld(h, c, g)
      BY <1>8, <1>9, <1>11, Zenon DEF Stored
    <2>2. /\ f # END => ld(k, f, PFREE) = ld(h, b, NFREE) + ld(h, b, PFREE)
          /\ ld(k, p, NFREE) = ld(h, p, NFREE) + ld(h, b, NFREE)
      <3>1. \A c \in B : ld(k, c, PFREE) = ld(h2, c, PFREE) /\ ld(k, c, NFREE) = ld(h2, c, NFREE)
        BY <1>3, <1>9 DEF Stored
      <3>2. f # END => f \in B
        BY <1>5, Zenon
      <3>. QED BY <1>8, <1>11, <3>1, <3>2, Zenon
    <2>. QED BY <1>3, <1>8, <1>9, <1>11, <2>1, <2>2 DEF Stored, k, f, p
  <1>. QED BY <1>10, <1>11, Zenon

(* No two blocks are followed by the same one.                             *)
LEMMA SuccUnique ==
  ASSUME NEW F \in SUBSET Nat, NEW a \in F, NEW b \in F, NEW c, Succ(F, a, c), Succ(F, b, c)
  PROVE  a = b
  <1>1. a \in Int /\ b \in Int /\ a \in Nat /\ b \in Nat
    OBVIOUS
  <1>2. c \in Nat /\ a < c /\ \A d \in F : a < d => c <= d
    BY <1>1, SuccFacts, Zenon
  <1>3. b < c /\ \A d \in F : b < d => c <= d
    BY <1>1, SuccFacts, Zenon
  <1>. QED BY <1>1, <1>2, <1>3

(* Taking out an element that does not follow a leaves what follows a.     *)
LEMMA SuccLess ==
  ASSUME NEW F, NEW a, NEW b, NEW c, Succ(F, a, c), c # b
  PROVE  Succ(F \ {b}, a, c)
  BY Zenon DEF Succ

(* And taking out the one that does leads to the next one.                 *)
LEMMA SuccSkip ==
  ASSUME NEW F \in SUBSET Nat, NEW a \in Int, NEW b \in F, NEW c,
         Succ(F, a, b), Succ(F, b, c)
  PROVE  Succ(F \ {b}, a, c)
  <1>1. b \in Nat /\ b \in Int
    OBVIOUS
  <1>2. a < b /\ \A d \in F : a < d => b <= d
    BY SuccFacts, Zenon
  <1>3. c \in Nat /\ b < c /\ c \in F \cup {END} /\ \A d \in F : b < d => c <= d
    BY <1>1, SuccFacts, Zenon
  <1>4. \A d \in F \ {b} : d <= a \/ c <= d
    BY <1>1, <1>2, <1>3
  <1>. QED BY <1>1, <1>2, <1>3, <1>4 DEF Succ

(* k is h with the free block b in use.                                    *)
Taken(k, h, B, F, b) ==
  /\ Whole(k, B, F \ {b}) /\ k.spill \in {h.spill, END}
  /\ ld(k, b, USED) = 1 /\ ld(k, b, NEXT) = ld(h, b, NEXT)
  /\ Same(k, h, B \ {b})

(* use_block takes b out of the free list.                                 *)
LEMMA UseWhole ==
  ASSUME GreatestExists, NEW h, NEW B, NEW F, Whole(h, B, F), NEW b \in F
  PROVE  Taken(use_block(h, b), h, B, F, b)
  <1>. DEFINE k == use_block(h, b)
              f == nfree(h, b)
              p == pfree(h, b)
              G == F \ {b}
  <1>1. /\ IsHeap(k) /\ k.bad = h.bad /\ k.spill \in {h.spill, END}
        /\ ld(k, b, USED) = 1
        /\ \A c \in B : ld(k, c, NEXT) = ld(h, c, NEXT) /\ ld(k, c, PREV) = ld(h, c, PREV)
        /\ \A c \in B \ {b} : ld(k, c, USED) = ld(h, c, USED)
        /\ \A c \in B \ {f} : ld(k, c, PFREE) = ld(h, c, PFREE)
    BY UseFields
  <1>2. ASSUME b = h.free
        PROVE  /\ k.free = f
               /\ f # END => ld(k, f, PFREE) = 0
               /\ \A c \in B : ld(k, c, NFREE) = ld(h, c, NFREE)
    BY <1>2, UseFields
  <1>3. ASSUME b # h.free
        PROVE  /\ k.free = h.free
               /\ f # END => ld(k, f, PFREE) = ld(h, b, NFREE) + ld(h, b, PFREE)
               /\ ld(k, p, NFREE) = ld(h, p, NFREE) + ld(h, b, NFREE)
               /\ \A c \in B \ {p} : ld(k, c, NFREE) = ld(h, c, NFREE)
    BY <1>3, UseFields
  <1>4. /\ F \subseteq B /\ b \in B /\ B \subseteq Nat /\ F \in SUBSET Nat /\ b \in Nat /\ b \in Int
        /\ END \in Nat /\ -1 \in Int /\ Tiling(h, B) /\ F = FreeBlocks(h, B) /\ ~h.bad
    <2>1. Tiling(h, B) /\ F = FreeBlocks(h, B) /\ ~h.bad
      BY Zenon DEF Whole
    <2>2. F \subseteq B /\ B \subseteq Nat
      BY <2>1, Zenon DEF FreeBlocks, Tiling, Spaced
    <2>3. b \in B /\ F \in SUBSET Nat
      BY <2>2, Zenon
    <2>4. b \in Nat /\ b \in Int /\ END \in Nat /\ -1 \in Int
      BY <2>2, <2>3, HeapAssumption
    <2>. QED BY <2>1, <2>2, <2>3, <2>4, Zenon
  <1>5. /\ Succ(F, -1, h.free) /\ \A c \in F : Succ(F, c, nfree(h, c))
        /\ h.free # END => ld(h, h.free, PFREE) = 0
        /\ \A c \in F : nfree(h, c) # END => ld(h, nfree(h, c), PFREE) = ld(h, c, NFREE)
    BY Zenon DEF Whole, Listing
  <1>6. /\ ld(h, b, NFREE) \in Nat /\ ld(h, b, PFREE) \in Nat /\ f = b + ld(h, b, NFREE)
        /\ b < f /\ f <= END /\ b + 5 <= END
    BY <1>4, Places, Zenon
  <1>. HIDE DEF k, f, p
  <1>7. Tiling(k, B)
    <2>1. \A c \in B : ld(k, c, USED) \in {0, 1}
      BY <1>1, <1>4, Zenon DEF Tiling
    <2>. QED BY <1>1, <1>4, <2>1, TilingKept, Zenon
  <1>8. G = FreeBlocks(k, B)
    <2>1. \A c \in B : c \in F <=> ld(h, c, USED) = 0
      BY <1>4, Zenon DEF FreeBlocks
    <2>2. \A c \in B : c \in G <=> ld(k, c, USED) = 0
      BY <1>1, <1>4, <2>1
    <2>. QED BY <1>4, <2>2, Zenon DEF FreeBlocks
  <1>9. Succ(F, b, f)
    BY <1>5, Zenon DEF f
  <1>10. ASSUME b = h.free PROVE Listing(k, G)
    <2>1. Succ(G, -1, k.free)
      BY <1>2, <1>4, <1>5, <1>9, <1>10, SuccSkip, Zenon
    <2>2. k.free # END => ld(k, k.free, PFREE) = 0
      BY <1>2, <1>10, Zenon
    <2>3. ASSUME NEW c \in G
          PROVE  /\ Succ(G, c, nfree(k, c))
                 /\ nfree(k, c) # END => ld(k, nfree(k, c), PFREE) = ld(k, c, NFREE)
      <3>1. c \in F /\ c \in B /\ c \in Nat /\ c \in Int /\ c # b
        BY <1>4
      <3>2. nfree(k, c) = nfree(h, c) /\ ld(k, c, NFREE) = ld(h, c, NFREE)
        BY <1>2, <1>10, <3>1, Zenon DEF nfree
      <3>3. b <= c
        BY <1>4, <1>5, <1>10, <3>1, SuccFacts
      <3>4. Succ(F, c, nfree(h, c)) /\ c < nfree(h, c) /\ nfree(h, c) \in Nat /\ nfree(h, c) \in F \cup {END}
        BY <1>4, <1>5, <3>1, SuccFacts, Zenon
      <3>5. nfree(h, c) # b
        BY <1>4, <3>1, <3>3, <3>4
      <3>6. Succ(G, c, nfree(h, c))
        BY <3>4, <3>5, SuccLess, Zenon
      <3>7. nfree(h, c) # f
        BY <1>4, <1>9, <3>1, <3>4, SuccUnique, Zenon
      <3>8. ASSUME nfree(h, c) # END PROVE ld(k, nfree(h, c), PFREE) = ld(k, c, NFREE)
        <4>1. nfree(h, c) \in B \ {f}
          BY <1>4, <3>4, <3>7, <3>8, Zenon
        <4>. QED BY <1>1, <1>5, <3>1, <3>2, <3>8, <4>1, Zenon
      <3>. QED BY <3>2, <3>6, <3>8, Zenon
    <2>. QED BY <2>1, <2>2, <2>3, Zenon DEF Listing
  <1>11. ASSUME b # h.free PROVE Listing(k, G)
    <2>0. /\ p \in F /\ p < b /\ nfree(h, p) = b /\ ld(h, b, PFREE) = ld(h, p, NFREE)
          /\ p \in B /\ p \in Nat /\ p \in Int /\ ld(h, p, NFREE) \in Nat /\ b = p + ld(h, p, NFREE)
      <3>1. p \in F /\ p < b /\ nfree(h, p) = b /\ ld(h, b, PFREE) = ld(h, p, NFREE)
        BY <1>11, BeforeInList, Zenon DEF p
      <3>2. p \in B
        BY <1>4, <3>1, Zenon
      <3>3. p \in Nat /\ nfree(h, p) = p + ld(h, p, NFREE) /\ ld(h, p, NFREE) \in Nat
        BY <3>2, Places, Zenon
      <3>. QED BY <3>1, <3>2, <3>3
    <2>1. Succ(G, -1, k.free)
      BY <1>3, <1>5, <1>11, SuccLess, Zenon
    <2>2. k.free # END => ld(k, k.free, PFREE) = 0
      <3>. SUFFICES ASSUME h.free # END PROVE ld(k, h.free, PFREE) = 0
        BY <1>3, <1>11, Zenon
      <3>1. h.free \in Nat /\ h.free \in F /\ h.free <= b
        <4>1. -1 < b
          BY <1>4
        <4>2. h.free \in Nat /\ h.free \in F \cup {END} /\ \A d \in F : -1 < d => h.free <= d
          BY <1>4, <1>5, SuccFacts, Zenon
        <4>. QED BY <4>1, <4>2, Zenon
      <3>2. h.free \in B \ {f}
        BY <1>4, <1>6, <3>1
      <3>. QED BY <1>1, <1>5, <3>2, Zenon
    <2>3. ASSUME NEW c \in G
          PROVE  /\ Succ(G, c, nfree(k, c))
                 /\ nfree(k, c) # END => ld(k, nfree(k, c), PFREE) = ld(k, c, NFREE)
      <3>1. CASE c = p
        <4>1. nfree(k, p) = f
          <5>1. nfree(k, p) = p + (ld(h, p, NFREE) + ld(h, b, NFREE))
            BY <1>3, <1>11, Zenon DEF nfree
          <5>. QED BY <1>4, <1>6, <2>0, <5>1
        <4>2. Succ(G, p, f)
          BY <1>4, <1>5, <1>9, <2>0, SuccSkip, Zenon
        <4>3. f # END => ld(k, f, PFREE) = ld(k, p, NFREE)
          BY <1>3, <1>6, <1>11, <2>0
        <4>. QED BY <3>1, <4>1, <4>2, <4>3, Zenon
      <3>2. CASE c # p
        <4>1. c \in F /\ c \in B /\ c \in Nat /\ c \in Int /\ c # b
          BY <1>4
        <4>2. nfree(k, c) = nfree(h, c) /\ ld(k, c, NFREE) = ld(h, c, NFREE)
          BY <1>3, <1>11, <3>2, <4>1, Zenon DEF nfree
        <4>3. Succ(F, c, nfree(h, c)) /\ nfree(h, c) \in F \cup {END}
          BY <1>4, <1>5, <4>1, SuccFacts, Zenon
        <4>4. nfree(h, c) # b
          <5>1. Succ(F, p, b)
            BY <1>5, <2>0, Zenon
          <5>. QED BY <1>4, <2>0, <3>2, <4>1, <4>3, <5>1, SuccUnique, Zenon
        <4>5. Succ(G, c, nfree(h, c))
          BY <4>3, <4>4, SuccLess, Zenon
        <4>6. nfree(h, c) # f
          BY <1>4, <1>9, <4>1, <4>3, SuccUnique, Zenon
        <4>7. ASSUME nfree(h, c) # END PROVE ld(k, nfree(h, c), PFREE) = ld(k, c, NFREE)
          <5>1. nfree(h, c) \in B \ {f}
            BY <1>4, <4>3, <4>6, <4>7, Zenon
          <5>. QED BY <1>1, <1>5, <4>1, <4>2, <4>7, <5>1, Zenon
        <4>. QED BY <4>2, <4>5, <4>7, Zenon
      <3>. QED BY <3>1, <3>2, Zenon
    <2>. QED BY <2>1, <2>2, <2>3, Zenon DEF Listing
  <1>12. Whole(k, B, G)
    BY <1>1, <1>4, <1>7, <1>8, <1>10, <1>11, Zenon DEF Whole
  <1>13. Same(k, h, B \ {b})
    BY <1>1, Zenon DEF Same
  <1>. QED BY <1>1, <1>4, <1>12, <1>13, Zenon DEF Taken, k

(* No two free blocks are neighbours, or none but the one in front of b.   *)
Apart(h, F) == \A c \in F : next(h, c) \notin F
ApartBut(h, F, b) == \A c \in F : next(h, c) \in F => next(h, c) = b

(* The block that alloc and aligned_alloc have chosen is cut to size and   *)
(* taken.                                                                  *)
LEMMA CarveWhole ==
  ASSUME GreatestExists, NEW h, NEW B, NEW F, Whole(h, B, F), NEW b \in F, ApartBut(h, F, b),
         NEW x \in Nat, x >= 5, ld(h, b, NEXT) >= x
  PROVE  LET k == Carve(h, b, x) IN
         \E C, G : /\ Whole(k, C, G) /\ Apart(k, G) /\ k.spill \in {h.spill, END}
                   /\ B \subseteq C /\ b \notin G
                   /\ ld(k, b, USED) = 1 /\ ld(k, b, NEXT) >= x
                   /\ Same(k, h, B \ {b})
  <1>. DEFINE k == Carve(h, b, x)
              N == ld(h, b, NEXT)
              s == b + x
  <1>1. b \in B /\ F \subseteq B /\ B \subseteq Nat
    BY Zenon DEF Whole, FreeBlocks, Tiling, Spaced
  <1>2. b \in Nat /\ N \in Nat /\ next(h, b) = b + N /\ b < next(h, b) /\ next(h, b) <= END /\ END \in Nat
    BY <1>1, Places
  <1>3. CASE N - x >= MIN_SPLIT_THRESHOLD
    <2>. DEFINE h1 == split(h, b, x)
    <2>1. N - x >= 5
      BY <1>2, <1>3 DEF MIN_SPLIT_THRESHOLD, UNUSED_HEADER_SIZE
    <2>2. k = use_block(h1, b)
      BY <1>3, Zenon DEF Carve
    <2>3. /\ Whole(h1, B \cup {s}, F \cup {s}) /\ s \notin B
          /\ h1.spill = h.spill /\ ld(h1, b, NEXT) = x /\ ld(h1, s, NEXT) = N - x
          /\ Same(h1, h, B \ {b})
      <3>1. Halved(h1, h, B, F, b, x)
        BY <2>1, SplitWhole, Zenon
      <3>. QED BY <3>1, Zenon DEF Halved
    <2>. HIDE DEF h1
    <2>4. b \in F \cup {s} /\ s # b
      BY <1>1, <2>3, Zenon
    <2>. DEFINE C == B \cup {s}
                G == (F \cup {s}) \ {b}
    <2>5. /\ Whole(k, C, G) /\ k.spill \in {h1.spill, END}
          /\ ld(k, b, USED) = 1 /\ ld(k, b, NEXT) = ld(h1, b, NEXT)
          /\ Same(k, h1, C \ {b})
      <3>1. Taken(k, h1, C, F \cup {s}, b)
        BY <2>2, <2>3, <2>4, UseWhole, Zenon
      <3>. QED BY <3>1, Zenon DEF Taken
    <2>6. \A c \in B \ {b} : ld(k, c, NEXT) = ld(h, c, NEXT) /\ ld(k, c, USED) = ld(h, c, USED)
      BY <2>3, <2>5, Zenon DEF Same
    <2>7. ld(k, s, NEXT) = N - x
      BY <2>3, <2>4, <2>5, Zenon DEF Same
    <2>8. next(k, s) = next(h, b) /\ \A c \in B \ {b} : next(k, c) = next(h, c)
      BY <1>2, <2>6, <2>7 DEF next
    <2>9. ASSUME NEW c \in G PROVE next(k, c) \notin G
      <3>1. CASE c = s
        <4>1. next(h, b) \notin F
          BY <1>2 DEF ApartBut
        <4>2. next(h, b) # s
          BY <1>2, <2>1
        <4>. QED BY <3>1, <2>8, <4>1, <4>2, Zenon
      <3>2. CASE c # s
        <4>1. c \in F /\ c \in B \ {b}
          BY <1>1, <3>2, Zenon
        <4>2. next(k, c) = next(h, c) /\ (next(h, c) \in F => next(h, c) = b)
          BY <2>8, <4>1, Zenon DEF ApartBut
        <4>3. next(h, c) \in B \cup {END}
          BY <4>1, Zenon DEF Whole, Tiling, Succ
        <4>4. s # END
          BY <1>2, <2>1
        <4>. QED BY <2>3, <4>2, <4>3, <4>4, Zenon
      <3>. QED BY <3>1, <3>2, Zenon
    <2>10. Apart(k, G)
      BY <2>9, Zenon DEF Apart
    <2>11. Same(k, h, B \ {b})
      BY <2>6, Zenon DEF Same
    <2>12. B \subseteq C /\ b \notin G /\ ld(k, b, NEXT) >= x /\ k.spill \in {h.spill, END}
      BY <2>3, <2>5
    <2>. HIDE DEF C, G, k
    <2>. QED BY <2>5, <2>10, <2>11, <2>12, Zenon DEF k
  <1>4. CASE ~(N - x >= MIN_SPLIT_THRESHOLD)
    <2>. DEFINE G == F \ {b}
    <2>1. k = use_block(h, b)
      BY <1>4, Zenon DEF Carve
    <2>2. /\ Whole(k, B, G) /\ k.spill \in {h.spill, END}
          /\ ld(k, b, USED) = 1 /\ ld(k, b, NEXT) = ld(h, b, NEXT)
          /\ Same(k, h, B \ {b})
      BY <2>1, UseWhole DEF Taken
    <2>3. \A c \in B : next(k, c) = next(h, c)
      BY <2>2, Zenon DEF next, Same
    <2>4. Apart(k, G)
      BY <1>1, <2>3, Zenon DEF Apart, ApartBut
    <2>. HIDE DEF G, k
    <2>5. B \subseteq B /\ b \notin G /\ ld(k, b, NEXT) >= x
      BY <2>2, Zenon DEF G
    <2>. QED BY <2>2, <2>4, <2>5, Zenon DEF k
  <1>. QED BY <1>3, <1>4, Zenon

(* k has the headers of the blocks B of h, those of the free ones F with   *)
(* their links.                                                            *)
Kept(k, h, B, F) ==
  /\ IsHeap(k) /\ ~k.bad /\ k.free = h.free
  /\ \A c \in B : /\ ld(k, c, PREV) = ld(h, c, PREV) /\ ld(k, c, NEXT) = ld(h, c, NEXT)
                  /\ ld(k, c, USED) = ld(h, c, USED)
  /\ \A c \in F : ld(k, c, NFREE) = ld(h, c, NFREE) /\ ld(k, c, PFREE) = ld(h, c, PFREE)

(* What is kept of a heap in order.                                        *)
LEMMA ListingKept ==
  ASSUME NEW h, NEW k, NEW F \in SUBSET Nat, Listing(h, F), k.free = h.free,
         \A c \in F : ld(k, c, NFREE) = ld(h, c, NFREE) /\ ld(k, c, PFREE) = ld(h, c, PFREE)
  PROVE  Listing(k, F)
  <1>0. /\ Succ(F, -1, h.free) /\ \A c \in F : Succ(F, c, nfree(h, c))
        /\ h.free # END => ld(h, h.free, PFREE) = 0
        /\ \A c \in F : nfree(h, c) # END => ld(h, nfree(h, c), PFREE) = ld(h, c, NFREE)
    BY Zenon DEF Listing
  <1>1. \A c \in F : nfree(k, c) = nfree(h, c)
    BY Zenon DEF nfree
  <1>2. h.free # END => h.free \in F
    BY <1>0, Zenon DEF Succ
  <1>3. \A c \in F : nfree(h, c) # END => nfree(h, c) \in F
    BY <1>0, Zenon DEF Succ
  <1>4. k.free # END => ld(k, k.free, PFREE) = 0
    BY <1>0, <1>2, Zenon
  <1>5. ASSUME NEW c \in F, nfree(h, c) # END PROVE ld(k, nfree(h, c), PFREE) = ld(k, c, NFREE)
    <2>1. ld(h, nfree(h, c), PFREE) = ld(h, c, NFREE) /\ nfree(h, c) \in F
      BY <1>0, <1>3, <1>5, Zenon
    <2>2. ld(k, nfree(h, c), PFREE) = ld(h, nfree(h, c), PFREE) /\ ld(k, c, NFREE) = ld(h, c, NFREE)
      BY <2>1, Zenon
    <2>. QED BY <2>1, <2>2, Zenon
  <1>6. \A c \in F : Succ(F, c, nfree(k, c))
    BY <1>0, <1>1, Zenon
  <1>7. \A c \in F : nfree(k, c) # END => ld(k, nfree(k, c), PFREE) = ld(k, c, NFREE)
    BY <1>1, <1>5, Zenon
  <1>. QED BY <1>0, <1>4, <1>6, <1>7, Zenon DEF Listing

(* A heap in order stays so.                                               *)
LEMMA WholeKept ==
  ASSUME NEW h, NEW k, NEW B, NEW F, Whole(h, B, F), Kept(k, h, B, F)
  PROVE  Whole(k, B, F) /\ Same(k, h, B)
  <1>1. Tiling(h, B) /\ Listing(h, F) /\ F = FreeBlocks(h, B)
    BY Zenon DEF Whole
  <1>2. F \subseteq B /\ B \subseteq Nat /\ \A c \in B : ld(h, c, USED) \in {0, 1}
    BY <1>1, Zenon DEF FreeBlocks, Tiling, Spaced
  <1>3. Tiling(k, B)
    <2>1. \A c \in B : ld(k, c, USED) \in {0, 1} /\ ld(k, c, NEXT) = ld(h, c, NEXT) /\ ld(k, c, PREV) = ld(h, c, PREV)
      BY <1>2, Zenon DEF Kept
    <2>. QED BY <1>1, <2>1, TilingKept, Zenon
  <1>4. Listing(k, F)
    <2>1. /\ k.free = h.free
          /\ \A c \in F : ld(k, c, NFREE) = ld(h, c, NFREE) /\ ld(k, c, PFREE) = ld(h, c, PFREE)
      BY Zenon DEF Kept
    <2>. QED BY <1>1, <1>2, <2>1, ListingKept
  <1>5. F = FreeBlocks(k, B)
    <2>1. \A c \in B : ld(k, c, USED) = ld(h, c, USED)
      BY Zenon DEF Kept
    <2>. QED BY <1>1, <2>1, Zenon DEF FreeBlocks
  <1>6. IsHeap(k) /\ ~k.bad /\ Same(k, h, B)
    BY Zenon DEF Kept, Same
  <1>. QED BY <1>3, <1>4, <1>5, <1>6, Zenon DEF Whole

(* free has marked b, which is not yet in the list of the others, F.       *)
Pending(h, B, F, b) ==
  /\ IsHeap(h) /\ ~h.bad /\ Tiling(h, B)
  /\ b \in B /\ b \notin F /\ F \cup {b} = FreeBlocks(h, B)
  /\ ld(h, b, PFREE) = 0
  /\ F = {} => h.free = b
  /\ F # {} => Listing(h, F) /\ h.free < b

(* It stays so.                                                            *)
LEMMA PendingKept ==
  ASSUME NEW h, NEW k, NEW B, NEW F, NEW b, Pending(h, B, F, b), Kept(k, h, B, F \cup {b})
  PROVE  Pending(k, B, F, b) /\ Same(k, h, B)
  <1>1. Tiling(h, B) /\ F \cup {b} = FreeBlocks(h, B) /\ b \in B
    BY Zenon DEF Pending
  <1>2. F \subseteq B /\ B \subseteq Nat /\ \A c \in B : ld(h, c, USED) \in {0, 1}
    BY <1>1, Zenon DEF FreeBlocks, Tiling, Spaced
  <1>3. Tiling(k, B)
    <2>1. \A c \in B : ld(k, c, USED) \in {0, 1} /\ ld(k, c, NEXT) = ld(h, c, NEXT) /\ ld(k, c, PREV) = ld(h, c, PREV)
      BY <1>2, Zenon DEF Kept
    <2>. QED BY <1>1, <2>1, TilingKept, Zenon
  <1>4. /\ k.free = h.free
        /\ \A c \in F \cup {b} : ld(k, c, NFREE) = ld(h, c, NFREE) /\ ld(k, c, PFREE) = ld(h, c, PFREE)
    BY Zenon DEF Kept
  <1>5. F # {} => Listing(k, F) /\ k.free < b
    <2>1. F # {} => Listing(h, F) /\ h.free < b
      BY Zenon DEF Pending
    <2>2. F \in SUBSET Nat
      BY <1>2, Zenon
    <2>. QED BY <1>4, <2>1, <2>2, ListingKept, Zenon
  <1>6. F \cup {b} = FreeBlocks(k, B)
    <2>1. \A c \in B : ld(k, c, USED) = ld(h, c, USED)
      BY Zenon DEF Kept
    <2>. QED BY <1>1, <2>1, Zenon DEF FreeBlocks
  <1>7. IsHeap(k) /\ ~k.bad /\ Same(k, h, B)
    BY Zenon DEF Kept, Same
  <1>8. ld(k, b, PFREE) = 0 /\ (F = {} => k.free = b) /\ b \notin F
    BY <1>4, Zenon DEF Pending
  <1>. QED BY <1>1, <1>3, <1>5, <1>6, <1>7, <1>8, Zenon DEF Pending

(* What free does in front of its loops.                                   *)
Released(k, h, B, F, b) ==
  Pending(k, B, F, b) /\ k.spill = h.spill /\ Same(k, h, B \ {b})
  /\ \A c \in B : next(k, c) = next(h, c)

(* It does so to any block in use, unless it is in front of the free list. *)
LEMMA ReleaseWhole ==
  ASSUME NEW h, NEW B, NEW F, Whole(h, B, F), NEW b \in B, b \notin F, ~BelowFirst(h, b)
  PROVE  Released(released(h, b), h, B, F, b)
  <1>. DEFINE g == st(h, b, PFREE, 0)
              h1 == st(g, b, USED, 0)
              k == IF b < h.free THEN [h1 EXCEPT !.free = b] ELSE h1
  <1>1. released(h, b) = k
    BY Zenon DEF released
  <1>2. /\ F \subseteq B /\ Spaced(B) /\ IsHeap(h) /\ B \subseteq Nat /\ b \in Nat /\ b \in Int /\ F \in SUBSET Nat
        /\ END \in Nat /\ Tiling(h, B) /\ Listing(h, F) /\ F = FreeBlocks(h, B) /\ ~h.bad
    <2>1. IsHeap(h) /\ Tiling(h, B) /\ Listing(h, F) /\ F = FreeBlocks(h, B) /\ ~h.bad
      BY Zenon DEF Whole
    <2>2. F \subseteq B /\ Spaced(B) /\ B \subseteq Nat
      BY <2>1, Zenon DEF FreeBlocks, Tiling, Spaced
    <2>3. b \in Nat /\ b \in Int /\ END \in Nat
      BY <2>2, HeapAssumption
    <2>4. F \in SUBSET Nat
      BY <2>2, Zenon
    <2>. QED BY <2>1, <2>2, <2>3, <2>4, Zenon
  <1>3. /\ NEXT \in Field /\ PREV \in Field /\ USED \in Field /\ NFREE \in Field /\ PFREE \in Field
        /\ 0 \in 0 .. WORD - 1
    BY HeapAssumption DEF Field
  <1>. HIDE DEF g, h1, k
  <1>4. Stored(g, h, B, b, PFREE, 0)
    BY <1>2, <1>3, LoadStore, Zenon DEF g
  <1>5. Stored(h1, g, B, b, USED, 0)
    BY <1>2, <1>3, <1>4, LoadStore DEF h1, Stored
  <1>6. /\ IsHeap(h1) /\ h1.free = h.free /\ h1.bad = h.bad /\ h1.spill = h.spill
        /\ ld(h1, b, PFREE) = 0 /\ ld(h1, b, USED) = 0
        /\ \A c \in B, f \in Field : c # b \/ (f # PFREE /\ f # USED) => ld(h1, c, f) = ld(h, c, f)
    BY <1>3, <1>4, <1>5, Zenon DEF Stored
  <1>7. /\ IsHeap(k) /\ k.bad = h.bad /\ k.spill = h.spill /\ k.mem = h1.mem
        /\ k.free = IF b < h.free THEN b ELSE h.free
    <2>1. CASE b < h.free
      <3>1. k = [h1 EXCEPT !.free = b]
        BY <2>1, Zenon DEF k
      <3>. QED BY <1>2, <1>6, <2>1, <3>1, MoveHead
    <2>2. CASE ~(b < h.free)
      <3>1. k = h1
        BY <2>2, Zenon DEF k
      <3>. QED BY <1>6, <2>2, <3>1, Zenon
    <2>. QED BY <2>1, <2>2, Zenon
  <1>8. /\ ld(k, b, PFREE) = 0 /\ ld(k, b, USED) = 0
        /\ \A c \in B, f \in Field : c # b \/ (f # PFREE /\ f # USED) => ld(k, c, f) = ld(h, c, f)
    BY <1>6, <1>7, LoadMem
  <1>9. Tiling(k, B)
    <2>1. \A c \in B : ld(h, c, USED) \in {0, 1}
      BY <1>2, Zenon DEF Tiling
    <2>2. \A c \in B : ld(k, c, USED) \in {0, 1} /\ ld(k, c, NEXT) = ld(h, c, NEXT) /\ ld(k, c, PREV) = ld(h, c, PREV)
      BY <1>3, <1>8, <2>1
    <2>3. Tiling(h, B)
      BY <1>2, Zenon
    <2>. QED BY <2>2, <2>3, TilingKept, Zenon
  <1>10. F \cup {b} = FreeBlocks(k, B)
    <2>1. \A c \in B : c # b => ld(k, c, USED) = ld(h, c, USED)
      BY <1>3, <1>8, Zenon
    <2>2. \A c \in B : c \in F <=> ld(h, c, USED) = 0
      BY <1>2, Zenon DEF FreeBlocks
    <2>3. \A c \in B : c \in F \cup {b} <=> ld(k, c, USED) = 0
      BY <1>8, <2>1, <2>2, Zenon
    <2>4. F \cup {b} \subseteq B
      BY <1>2, Zenon
    <2>. QED BY <2>3, <2>4, Zenon DEF FreeBlocks
  <1>11. Succ(F, -1, h.free) /\ h.free \in Nat /\ h.free \in F \cup {END} /\ b < END
    <2>1. Succ(F, -1, h.free)
      BY <1>2, Zenon DEF Listing
    <2>2. b < END
      BY <1>2, TilePlaces
    <2>3. F \in SUBSET Nat /\ -1 \in Int
      BY <1>2
    <2>. QED BY <2>1, <2>2, <2>3, SuccFacts, Zenon
  <1>12. F = {} => k.free = b
    BY <1>2, <1>7, <1>11, Zenon
  <1>13. ASSUME F # {} PROVE Listing(k, F) /\ k.free < b
    <2>1. h.free # END
      <3>1. PICK c \in F : TRUE
        BY <1>13, Zenon
      <3>2. c \in Nat /\ -1 < c /\ c < END
        BY <1>2, <3>1, TilePlaces
      <3>3. h.free <= c
        BY <1>2, <1>11, <3>1, <3>2, SuccFacts
      <3>. QED BY <1>2, <1>11, <3>2, <3>3
    <2>2. h.free \in F /\ ~(b < h.free) /\ h.free # b
      BY <1>11, <2>1, Zenon DEF BelowFirst
    <2>3. k.free = h.free /\ k.free < b
      BY <1>2, <1>7, <1>11, <2>2
    <2>4. \A c \in F : ld(k, c, NFREE) = ld(h, c, NFREE) /\ ld(k, c, PFREE) = ld(h, c, PFREE)
      BY <1>2, <1>3, <1>8, Zenon
    <2>. QED BY <1>2, <2>3, <2>4, ListingKept, Zenon
  <1>14. Pending(k, B, F, b)
    BY <1>2, <1>7, <1>8, <1>9, <1>10, <1>12, <1>13, Zenon DEF Pending
  <1>15. Same(k, h, B \ {b})
    BY <1>3, <1>8, Zenon DEF Same
  <1>16. \A c \in B : next(k, c) = next(h, c)
    BY <1>3, <1>8 DEF next
  <1>. QED BY <1>1, <1>7, <1>14, <1>15, <1>16, Zenon DEF Released

(* n and p are the neighbours that b is to have in the list of F.          *)
Between(F, b, n, p) ==
  /\ Succ(F, b, n)
  /\ \/ p = NULL /\ F = {}
     \/ p \in F /\ p < b /\ Succ(F, p, n)

(* What free stores to put b in between.                                   *)
RelinkTo(k, h, B, b, n, p) ==
  /\ IsHeap(k) /\ k.free = h.free /\ k.spill = h.spill /\ k.bad = h.bad
  /\ ld(k, b, NFREE) = n - b
  /\ n # END => ld(k, n, PFREE) = n - b
  /\ p # NULL => ld(k, b, PFREE) = b - p /\ ld(k, p, NFREE) = b - p
  /\ p = NULL => ld(k, b, PFREE) = ld(h, b, PFREE)
  /\ \A c \in B : /\ ld(k, c, PREV) = ld(h, c, PREV) /\ ld(k, c, NEXT) = ld(h, c, NEXT)
                  /\ ld(k, c, USED) = ld(h, c, USED)
  /\ \A c \in B \ {b} : /\ c # p => ld(k, c, NFREE) = ld(h, c, NFREE)
                        /\ c # n => ld(k, c, PFREE) = ld(h, c, PFREE)

(* It does so.                                                             *)
LEMMA RelinkFields ==
  ASSUME NEW h, NEW B, IsHeap(h), Spaced(B), NEW b \in B, NEW n \in B \cup {END}, b < n,
         NEW p \in B \cup {NULL}, p < b
  PROVE  RelinkTo(relinked(h, b, n, p), h, B, b, n, p)
  <1>. DEFINE h1 == st(h, b, NFREE, n - b)
              h2 == IF n = END THEN h1 ELSE st(h1, n, PFREE, ld(h1, b, NFREE))
              h3 == IF p = NULL THEN h2 ELSE st(h2, b, PFREE, b - p)
              k == IF p = NULL THEN h3 ELSE st(h3, p, NFREE, ld(h3, b, PFREE))
  <1>1. relinked(h, b, n, p) = k
    BY Zenon DEF relinked
  <1>2. /\ END \in Nat /\ END < WORD /\ WORD \in Nat /\ b \in Nat /\ n \in Nat /\ n <= END
        /\ p # NULL => p \in B /\ p \in Nat
        /\ n # END => n \in B
        /\ n # b /\ p # b /\ p # n
    <2>1. END \in Nat /\ END < WORD /\ WORD \in Nat
      BY HeapAssumption, Zenon
    <2>2. B \subseteq Nat /\ \A c \in B : c + 5 <= END
      BY Zenon DEF Spaced
    <2>3. b \in Nat /\ n \in Nat /\ n <= END /\ (n # END => n \in B) /\ n # b
      BY <2>1, <2>2
    <2>4. (p # NULL => p \in B /\ p \in Nat) /\ p \in Int
      BY <2>2 DEF NULL
    <2>. QED BY <2>1, <2>3, <2>4
  <1>3. /\ NEXT \in Field /\ PREV \in Field /\ USED \in Field /\ NFREE \in Field /\ PFREE \in Field
        /\ n - b \in 0 .. WORD - 1 /\ (p # NULL => b - p \in 0 .. WORD - 1)
    BY <1>2 DEF Field
  <1>. HIDE DEF h1, h2, h3, k
  <1>4. Stored(h1, h, B, b, NFREE, n - b)
    BY <1>3, LoadStore, Zenon DEF h1
  <1>5. IsHeap(h1) /\ ld(h1, b, NFREE) = n - b
    BY <1>4, Zenon DEF Stored
  <1>6. n = END => h2 = h1
    BY Zenon DEF h2
  <1>7. n # END => Stored(h2, h1, B, n, PFREE, n - b)
    <2>1. n # END => h2 = st(h1, n, PFREE, n - b)
      BY <1>5, Zenon DEF h2
    <2>. QED BY <1>2, <1>3, <1>5, <2>1, LoadStore, Zenon
  <1>8. /\ IsHeap(h2) /\ h2.free = h.free /\ h2.spill = h.spill /\ h2.bad = h.bad
        /\ ld(h2, b, NFREE) = n - b /\ (n # END => ld(h2, n, PFREE) = n - b)
        /\ \A c \in B, f \in Field : (c # b \/ f # NFREE) /\ (c # n \/ f # PFREE)
                                     => ld(h2, c, f) = ld(h, c, f)
    BY <1>2, <1>3, <1>4, <1>6, <1>7 DEF Stored
  <1>9. CASE p = NULL
    <2>1. k = h2
      BY <1>9, Zenon DEF k, h3
    <2>2. RelinkTo(k, h, B, b, n, p)
      BY <1>2, <1>3, <1>8, <1>9, <2>1 DEF RelinkTo
    <2>. QED BY <1>1, <2>2, Zenon
  <1>10. CASE p # NULL
    <2>1. Stored(h3, h2, B, b, PFREE, b - p)
      BY <1>3, <1>8, <1>10, LoadStore, Zenon DEF h3
    <2>2. IsHeap(h3) /\ ld(h3, b, PFREE) = b - p
      BY <2>1, Zenon DEF Stored
    <2>3. Stored(k, h3, B, p, NFREE, b - p)
      <3>1. k = st(h3, p, NFREE, b - p)
        BY <1>10, <2>2, Zenon DEF k
      <3>. QED BY <1>2, <1>3, <1>10, <2>2, <3>1, LoadStore, Zenon
    <2>4. /\ IsHeap(k) /\ k.free = h.free /\ k.spill = h.spill /\ k.bad = h.bad
          /\ ld(k, p, NFREE) = b - p /\ ld(k, b, PFREE) = b - p
          /\ \A c \in B, f \in Field : (c # p \/ f # NFREE) /\ (c # b \/ f # PFREE)
                                       => ld(k, c, f) = ld(h2, c, f)
      BY <1>2, <1>3, <1>8, <2>1, <2>3 DEF Stored
    <2>5. ld(k, b, NFREE) = n - b /\ (n # END => ld(k, n, PFREE) = n - b)
      BY <1>2, <1>3, <1>8, <2>4
    <2>6. \A c \in B : /\ ld(k, c, PREV) = ld(h, c, PREV) /\ ld(k, c, NEXT) = ld(h, c, NEXT)
                       /\ ld(k, c, USED) = ld(h, c, USED)
      BY <1>3, <1>8, <2>4
    <2>7. \A c \in B \ {b} : /\ c # p => ld(k, c, NFREE) = ld(h, c, NFREE)
                             /\ c # n => ld(k, c, PFREE) = ld(h, c, PFREE)
      BY <1>3, <1>8, <2>4
    <2>8. RelinkTo(k, h, B, b, n, p)
      BY <1>10, <2>4, <2>5, <2>6, <2>7, Zenon DEF RelinkTo
    <2>. QED BY <1>1, <2>8, Zenon
  <1>. QED BY <1>9, <1>10, Zenon

(* b is in the list.                                                       *)
Relinked(k, h, B, F, b, n, p) ==
  /\ Whole(k, B, F \cup {b}) /\ k.spill = h.spill /\ Same(k, h, B)
  /\ nfree(k, b) = n /\ (p # NULL => nfree(k, p) = b)

(* Putting b in between its neighbours restores the list.                  *)
LEMMA RelinkWhole ==
  ASSUME NEW h, NEW B, NEW F, NEW b, Pending(h, B, F, b), NEW n, NEW p, Between(F, b, n, p)
  PROVE  Relinked(relinked(h, b, n, p), h, B, F, b, n, p)
  <1>. DEFINE k == relinked(h, b, n, p)
              G == F \cup {b}
  <1>1. /\ IsHeap(h) /\ ~h.bad /\ Tiling(h, B) /\ b \in B /\ b \notin F /\ G = FreeBlocks(h, B)
        /\ ld(h, b, PFREE) = 0 /\ (F = {} => h.free = b)
        /\ F # {} => Listing(h, F) /\ h.free < b
    BY Zenon DEF Pending
  <1>2. /\ F \subseteq B /\ Spaced(B) /\ B \subseteq Nat
    BY <1>1, Zenon DEF FreeBlocks, Tiling, Spaced
  <1>3. F \in SUBSET Nat /\ b \in Nat /\ b \in Int /\ -1 \in Int /\ END \in Nat
    <2>1. END \in Nat
      BY HeapAssumption, Zenon
    <2>. QED BY <1>1, <1>2, <2>1
  <1>4. Succ(F, b, n) /\ n \in Nat /\ b < n /\ n \in F \cup {END} /\ \A d \in F : b < d => n <= d
    <2>1. Succ(F, b, n)
      BY Zenon DEF Between
    <2>2. F \in SUBSET Nat /\ b \in Int
      BY <1>3, Zenon
    <2>. QED BY <2>1, <2>2, SuccFacts, Zenon
  <1>5. /\ p = NULL => F = {}
        /\ p # NULL => p \in F /\ p < b /\ Succ(F, p, n) /\ p \in Nat /\ p \in Int
    <2>1. \/ p = NULL /\ F = {}
          \/ p \in F /\ p < b /\ Succ(F, p, n)
      BY Zenon DEF Between
    <2>2. \A c \in F : c \in Nat /\ c \in Int /\ c # NULL
      BY <1>3 DEF NULL
    <2>. QED BY <2>1, <2>2, Zenon
  <1>6. RelinkTo(k, h, B, b, n, p)
    <2>1. n \in B \cup {END}
      BY <1>2, <1>4, Zenon
    <2>2. p \in B \cup {NULL} /\ p < b
      BY <1>2, <1>3, <1>5 DEF NULL
    <2>. QED BY <1>1, <1>2, <1>4, <2>1, <2>2, RelinkFields, Zenon
  <1>. HIDE DEF k
  <1>7. /\ IsHeap(k) /\ k.free = h.free /\ k.spill = h.spill /\ k.bad = h.bad
        /\ ld(k, b, NFREE) = n - b
        /\ n # END => ld(k, n, PFREE) = n - b
        /\ p # NULL => ld(k, b, PFREE) = b - p /\ ld(k, p, NFREE) = b - p
        /\ p = NULL => ld(k, b, PFREE) = 0
    BY <1>1, <1>6, Zenon DEF RelinkTo
  <1>8. \A c \in B : /\ ld(k, c, PREV) = ld(h, c, PREV) /\ ld(k, c, NEXT) = ld(h, c, NEXT)
                     /\ ld(k, c, USED) = ld(h, c, USED)
    BY <1>6, Zenon DEF RelinkTo
  <1>9. \A c \in B \ {b} : /\ c # p => ld(k, c, NFREE) = ld(h, c, NFREE)
                           /\ c # n => ld(k, c, PFREE) = ld(h, c, PFREE)
    BY <1>6, Zenon DEF RelinkTo
  <1>10. nfree(k, b) = n /\ (p # NULL => nfree(k, p) = b)
    BY <1>3, <1>4, <1>5, <1>7 DEF nfree
  <1>11. Tiling(k, B)
    <2>1. \A c \in B : ld(h, c, USED) \in {0, 1}
      BY <1>1, Zenon DEF Tiling
    <2>2. \A c \in B : ld(k, c, USED) \in {0, 1} /\ ld(k, c, NEXT) = ld(h, c, NEXT) /\ ld(k, c, PREV) = ld(h, c, PREV)
      BY <1>8, <2>1, Zenon
    <2>3. Tiling(h, B)
      BY <1>1, Zenon
    <2>. QED BY <2>2, <2>3, TilingKept, Zenon
  <1>12. G = FreeBlocks(k, B)
    BY <1>1, <1>8, Zenon DEF FreeBlocks
  <1>13. ASSUME p = NULL PROVE Listing(k, G)
    <2>1. F = {} /\ G = {b} /\ k.free = b /\ n = END
      <3>1. F = {}
        BY <1>5, <1>13, Zenon
      <3>. QED BY <1>1, <1>4, <1>7, <3>1, Zenon
    <2>2. Succ({b}, -1, b)
      BY <1>3 DEF Succ
    <2>3. Succ({b}, b, END)
      BY <1>3, <1>4, <2>1 DEF Succ
    <2>4. \A c \in {b} : Succ({b}, c, nfree(k, c)) /\ nfree(k, c) = END
      BY <1>10, <2>1, <2>3, Zenon
    <2>5. Listing(k, {b})
      BY <1>7, <1>13, <2>1, <2>2, <2>4, Zenon DEF Listing
    <2>. QED BY <2>1, <2>5, Zenon
  <1>14. ASSUME p # NULL PROVE Listing(k, G)
    <2>1. /\ p \in F /\ p < b /\ Succ(F, p, n) /\ p \in Nat /\ p \in Int /\ F # {}
      BY <1>5, <1>14, Zenon
    <2>2. /\ Succ(F, -1, h.free) /\ \A c \in F : Succ(F, c, nfree(h, c))
          /\ h.free # END => ld(h, h.free, PFREE) = 0
          /\ \A c \in F : nfree(h, c) # END => ld(h, nfree(h, c), PFREE) = ld(h, c, NFREE)
      BY <1>1, <2>1, Zenon DEF Listing
    <2>3. h.free < b /\ h.free \in Nat /\ h.free \in F /\ \A d \in F : h.free <= d
      <3>1. h.free \in Nat /\ h.free \in F \cup {END} /\ \A d \in F : -1 < d => h.free <= d
        <4>1. F \in SUBSET Nat /\ -1 \in Int /\ Succ(F, -1, h.free)
          BY <1>3, <2>2, Zenon
        <4>. QED BY <4>1, SuccFacts, Zenon
      <3>2. b < END
        BY <1>1, TilePlaces
      <3>. QED BY <1>1, <1>3, <2>1, <3>1, <3>2
    <2>4. Succ(G, -1, k.free)
      BY <1>3, <1>7, <2>3 DEF Succ
    <2>5. k.free # END => ld(k, k.free, PFREE) = 0
      <3>1. h.free \in B \ {b} /\ h.free # n /\ h.free # END
        <4>1. b < END
          BY <1>1, TilePlaces
        <4>. QED BY <1>2, <1>3, <1>4, <2>3, <4>1
      <3>. QED BY <1>7, <1>9, <2>2, <3>1, Zenon
    <2>6. ASSUME NEW c \in G
          PROVE  /\ Succ(G, c, nfree(k, c))
                 /\ nfree(k, c) # END => ld(k, nfree(k, c), PFREE) = ld(k, c, NFREE)
      <3>1. CASE c = b
        <4>1. Succ(G, b, n)
          BY <1>3, <1>4 DEF Succ
        <4>. QED BY <1>7, <1>10, <3>1, <4>1, Zenon
      <3>2. CASE c = p
        <4>1. Succ(G, p, b)
          <5>1. \A d \in F : p < d => n <= d
            BY <2>1, <1>3, SuccFacts, Zenon
          <5>2. \A d \in G : d <= p \/ b <= d
            BY <1>3, <1>4, <2>1, <5>1
          <5>. QED BY <2>1, <5>2, Zenon DEF Succ
        <4>. QED BY <1>7, <1>10, <1>14, <3>2, <4>1, Zenon
      <3>3. CASE c # b /\ c # p
        <4>. DEFINE f == nfree(h, c)
        <4>1. c \in F /\ c \in B \ {b} /\ c \in Nat /\ c \in Int
          BY <1>2, <3>3
        <4>2. nfree(k, c) = f /\ ld(k, c, NFREE) = ld(h, c, NFREE)
          BY <1>9, <3>3, <4>1, Zenon DEF nfree
        <4>3. Succ(F, c, f)
          BY <2>2, <4>1, Zenon
        <4>4. f \in Nat /\ c < f /\ f \in F \cup {END} /\ \A d \in F : c < d => f <= d
          BY <1>3, <4>1, <4>3, SuccFacts, Zenon
        <4>5. b <= c \/ f <= b
          <5>1. \A d \in F : p < d => n <= d
            BY <2>1, <1>3, SuccFacts, Zenon
          <5>. QED BY <1>3, <1>4, <2>1, <3>3, <4>1, <4>4, <5>1
        <4>6. Succ(G, c, f)
          BY <1>3, <4>1, <4>4, <4>5 DEF Succ
        <4>7. f # n
          BY <1>3, <2>1, <3>3, <4>1, <4>3, SuccUnique, Zenon
        <4>8. ASSUME f # END PROVE ld(k, f, PFREE) = ld(k, c, NFREE)
          <5>1. f \in B \ {b}
            BY <1>1, <1>2, <4>4, <4>8, Zenon
          <5>2. ld(k, f, PFREE) = ld(h, f, PFREE)
            BY <1>9, <4>7, <5>1, Zenon
          <5>. QED BY <2>2, <4>1, <4>2, <4>8, <5>2, Zenon
        <4>. QED BY <4>2, <4>6, <4>8, Zenon
      <3>. QED BY <3>1, <3>2, <3>3, Zenon
    <2>. QED BY <2>4, <2>5, <2>6, Zenon DEF Listing
  <1>15. Whole(k, B, G)
    BY <1>1, <1>7, <1>11, <1>12, <1>13, <1>14, Zenon DEF Whole
  <1>16. Same(k, h, B)
    BY <1>8, Zenon DEF Same
  <1>. QED BY <1>7, <1>10, <1>15, <1>16, Zenon DEF Relinked, k

(* In k, the block b has taken in the block behind it, n.                  *)
Joined(k, h, B, b, n) ==
  /\ ld(k, b, NEXT) = ld(h, b, NEXT) + ld(h, n, NEXT)
  /\ next(h, n) # END => ld(k, next(h, n), PREV) = ld(h, b, NEXT) + ld(h, n, NEXT)
  /\ \A c \in B \ {n} : /\ c # b => ld(k, c, NEXT) = ld(h, c, NEXT)
                        /\ c # next(h, n) => ld(k, c, PREV) = ld(h, c, PREV)
                        /\ ld(k, c, USED) \in {0, 1}

(* The others tile the heap.                                               *)
LEMMA JoinTiling ==
  ASSUME NEW h, NEW B, IsHeap(h), Tiling(h, B), NEW b \in B, NEW n \in B, n = next(h, b),
         NEW k, Joined(k, h, B, b, n)
  PROVE  /\ Tiling(k, B \ {n}) /\ next(k, b) = next(h, n)
         /\ \A c \in B \ {n} : c # b => next(k, c) = next(h, c) /\ next(h, c) # n
  <1>. DEFINE C == B \ {n}
              m == next(h, n)
  <1>1. /\ Spaced(B) /\ 0 \in B /\ ld(h, 0, PREV) = 0 /\ B \in SUBSET Nat
        /\ \A c \in B : Succ(B, c, next(h, c))
        /\ \A c \in B : next(h, c) # END => ld(h, next(h, c), PREV) = ld(h, c, NEXT)
    BY Zenon DEF Tiling, Spaced
  <1>2. /\ b \in Nat /\ n \in Nat /\ b < n /\ n = b + ld(h, b, NEXT) /\ ld(h, b, NEXT) \in Nat
    BY TilePlaces
  <1>3. m \in Nat /\ n < m /\ m = n + ld(h, n, NEXT) /\ ld(h, n, NEXT) \in Nat /\ m \in B \cup {END}
    BY TilePlaces
  <1>4. /\ ld(k, b, NEXT) = ld(h, b, NEXT) + ld(h, n, NEXT)
        /\ m # END => ld(k, m, PREV) = ld(h, b, NEXT) + ld(h, n, NEXT)
        /\ \A c \in C : c # b => ld(k, c, NEXT) = ld(h, c, NEXT)
        /\ \A c \in C : c # m => ld(k, c, PREV) = ld(h, c, PREV)
        /\ \A c \in C : ld(k, c, USED) \in {0, 1}
    BY Zenon DEF Joined
  <1>. HIDE DEF m
  <1>5. next(k, b) = m
    BY <1>2, <1>3, <1>4 DEF next
  <1>6. \A c \in C : c # b => next(k, c) = next(h, c) /\ next(h, c) # n
    <2>1. \A c \in C : c # b => next(k, c) = next(h, c)
      BY <1>4, Zenon DEF next
    <2>2. ASSUME NEW c \in C, c # b PROVE next(h, c) # n
      <3>1. Succ(B, b, n) /\ Succ(B, c, next(h, c)) /\ c \in B
        BY <1>1, Zenon
      <3>. QED BY <1>1, <2>2, <3>1, SuccUnique, Zenon
    <2>. QED BY <2>1, <2>2, Zenon
  <1>7. Spaced(C) /\ 0 \in C /\ ld(k, 0, PREV) = 0
    <2>1. Spaced(C)
      BY <1>1, Zenon DEF Spaced
    <2>2. 0 \in C /\ 0 # m
      BY <1>1, <1>2, <1>3
    <2>. QED BY <1>1, <1>4, <2>1, <2>2, Zenon
  <1>8. ASSUME NEW c \in C
        PROVE  /\ Succ(C, c, next(k, c))
               /\ next(k, c) # END => ld(k, next(k, c), PREV) = ld(k, c, NEXT)
    <2>1. CASE c = b
      <3>1. Succ(B, b, n) /\ Succ(B, n, m)
        BY <1>1, Zenon DEF m
      <3>2. Succ(C, b, m)
        BY <1>1, <1>2, <3>1, SuccSkip
      <3>. QED BY <1>4, <1>5, <2>1, <3>2, Zenon
    <2>2. CASE c # b
      <3>1. next(k, c) = next(h, c) /\ next(h, c) # n /\ Succ(B, c, next(h, c)) /\ c \in B
        BY <1>1, <1>6, <2>2, Zenon
      <3>2. Succ(C, c, next(h, c))
        BY <3>1, SuccLess, Zenon
      <3>3. next(h, c) # m
        <4>1. Succ(B, n, m)
          BY <1>1, Zenon DEF m
        <4>. QED BY <1>1, <3>1, <4>1, SuccUnique, Zenon
      <3>4. ASSUME next(h, c) # END PROVE ld(k, next(h, c), PREV) = ld(k, c, NEXT)
        <4>1. next(h, c) \in C
          BY <3>2, <3>4, Zenon DEF Succ
        <4>2. ld(k, next(h, c), PREV) = ld(h, next(h, c), PREV)
          BY <1>4, <3>3, <4>1, Zenon
        <4>. QED BY <1>1, <1>4, <2>2, <3>1, <3>4, <4>2, Zenon
      <3>. QED BY <3>1, <3>2, <3>4, Zenon
    <2>. QED BY <2>1, <2>2, Zenon
  <1>9. Tiling(k, C)
    BY <1>4, <1>7, <1>8, Zenon DEF Tiling
  <1>. QED BY <1>5, <1>6, <1>9, Zenon DEF m

(* What one round of coalescing stores.                                    *)
MergeTo(k, h, B, b, n) ==
  LET f == nfree(h, n)
      sum == ld(h, b, NFREE) + ld(h, n, NFREE)
  IN  /\ IsHeap(k) /\ k.free = h.free /\ k.spill = h.spill /\ k.bad = h.bad
      /\ Joined(k, h, B, b, n)
      /\ ld(k, b, NFREE) = sum
      /\ f # END => ld(k, f, PFREE) = sum
      /\ \A c \in B : /\ c # b => ld(k, c, NFREE) = ld(h, c, NFREE)
                      /\ c # f => ld(k, c, PFREE) = ld(h, c, PFREE)
                      /\ ld(k, c, USED) = ld(h, c, USED)
                      /\ c # b => ld(k, c, NEXT) = ld(h, c, NEXT)

(* It does so.                                                             *)
LEMMA MergeFields ==
  ASSUME NEW h, NEW B, NEW F, Whole(h, B, F), NEW b \in F, NEW n \in F,
         n = next(h, b), n = nfree(h, b)
  PROVE  MergeTo(Merge(h, b, n), h, B, b, n)
  <1>. DEFINE f == nfree(h, n)
              m == next(h, n)
              L == ld(h, b, NFREE) + ld(h, n, NFREE)
              N == ld(h, b, NEXT) + ld(h, n, NEXT)
              h1 == IF nfree(h, n) = END THEN h
                    ELSE add(h, nfree(h, n), PFREE, ld(h, b, NFREE))
              h2 == IF next(h1, n) = END THEN h1
                    ELSE add(h1, next(h1, n), PREV, ld(h1, b, NEXT))
              h3 == add(h2, b, NFREE, ld(h2, n, NFREE))
              k == add(h3, b, NEXT, ld(h2, n, NEXT))
  <1>1. /\ IsHeap(h) /\ Tiling(h, B) /\ F \subseteq B /\ Spaced(B) /\ b \in B /\ n \in B
        /\ END \in Nat /\ WORD \in Nat /\ END < WORD
        /\ \A c \in F : nfree(h, c) # END => ld(h, nfree(h, c), PFREE) = ld(h, c, NFREE)
        /\ \A c \in F : Succ(F, c, nfree(h, c))
    <2>1. IsHeap(h) /\ Tiling(h, B) /\ F = FreeBlocks(h, B) /\ Listing(h, F)
      BY Zenon DEF Whole
    <2>2. F \subseteq B
      BY <2>1, Zenon DEF FreeBlocks
    <2>3. Spaced(B)
      BY <2>1, Zenon DEF Tiling
    <2>4. /\ \A c \in F : nfree(h, c) # END => ld(h, nfree(h, c), PFREE) = ld(h, c, NFREE)
          /\ \A c \in F : Succ(F, c, nfree(h, c))
      BY <2>1, Zenon DEF Listing
    <2>. QED BY <2>1, <2>2, <2>3, <2>4, HeapAssumption, Zenon
  <1>2. /\ b \in Nat /\ ld(h, b, NEXT) \in Nat /\ ld(h, b, NFREE) \in Nat
        /\ n \in Nat /\ n = b + ld(h, b, NEXT) /\ n = b + ld(h, b, NFREE) /\ b < n /\ n < END
    <2>1. /\ b \in Nat /\ ld(h, b, NEXT) \in Nat /\ ld(h, b, NFREE) \in Nat /\ b < nfree(h, b)
          /\ next(h, b) = b + ld(h, b, NEXT) /\ nfree(h, b) = b + ld(h, b, NFREE)
      <3>1. b \in B
        BY <1>1, Zenon
      <3>. QED BY <3>1, Places, Zenon
    <2>2. n \in Nat /\ n + 5 <= END /\ END \in Nat
      BY <1>1, Places, Zenon
    <2>3. b < n
      BY <2>1, Zenon
    <2>4. n = b + ld(h, b, NEXT) /\ n = b + ld(h, b, NFREE)
      BY <2>1, Zenon
    <2>5. n < END
      BY <2>2
    <2>. QED BY <2>1, <2>2, <2>3, <2>4, <2>5, Zenon
  <1>3. /\ ld(h, n, NEXT) \in Nat /\ ld(h, n, NFREE) \in Nat
        /\ m = n + ld(h, n, NEXT) /\ f = n + ld(h, n, NFREE) /\ n < m /\ n < f /\ m <= END /\ f <= END
        /\ m \in Nat /\ f \in Nat
    <2>1. /\ ld(h, n, NEXT) \in Nat /\ ld(h, n, NFREE) \in Nat
          /\ m = n + ld(h, n, NEXT) /\ f = n + ld(h, n, NFREE) /\ n + 5 <= m /\ n < f /\ m <= END /\ f <= END
      BY <1>1, Places, Zenon
    <2>. QED BY <1>2, <2>1
  <1>4. m \in B \cup {END} /\ f \in B \cup {END}
    <2>1. m \in B \cup {END}
      BY <1>1, TilePlaces, Zenon
    <2>2. f \in F \cup {END}
      BY <1>1, Zenon DEF Succ
    <2>. QED BY <1>1, <2>1, <2>2, Zenon
  <1>5. /\ f # END => ld(h, f, PFREE) = ld(h, n, NFREE)
        /\ m # END => ld(h, m, PREV) = ld(h, n, NEXT)
    <2>1. f # END => ld(h, f, PFREE) = ld(h, n, NFREE)
      BY <1>1, Zenon
    <2>2. m # END => ld(h, m, PREV) = ld(h, n, NEXT)
      BY <1>1, Zenon DEF Tiling
    <2>. QED BY <2>1, <2>2, Zenon
  <1>6. /\ NEXT \in Field /\ PREV \in Field /\ USED \in Field /\ NFREE \in Field /\ PFREE \in Field
        /\ L \in 0 .. WORD - 1 /\ N \in 0 .. WORD - 1
        /\ L = ld(h, b, NFREE) + ld(h, n, NFREE) /\ L = ld(h, n, NFREE) + ld(h, b, NFREE)
        /\ N = ld(h, b, NEXT) + ld(h, n, NEXT) /\ N = ld(h, n, NEXT) + ld(h, b, NEXT)
    BY <1>1, <1>2, <1>3 DEF Field
  <1>. DEFINE M == Merge(h, b, n)
  <1>7. M = k
    BY <1>1, <1>2 DEF Merge
  <1>. HIDE DEF M, f, m, L, N, h1, h2, h3, k
  <1>8. f = END => h1 = h
    BY Zenon DEF h1, f
  <1>9. f # END => Stored(h1, h, B, f, PFREE, L)
    <2>1. f # END => h1 = st(h, f, PFREE, L)
      BY <1>5, <1>6, Zenon DEF h1, f, add
    <2>. QED BY <1>1, <1>4, <1>6, <2>1, LoadStore, Zenon
  <1>10. /\ IsHeap(h1) /\ h1.free = h.free /\ h1.spill = h.spill /\ h1.bad = h.bad
         /\ f # END => ld(h1, f, PFREE) = L
         /\ \A c \in B, g \in Field : c # f \/ g # PFREE => ld(h1, c, g) = ld(h, c, g)
    BY <1>1, <1>8, <1>9, Zenon DEF Stored
  <1>11. next(h1, n) = m /\ ld(h1, b, NEXT) = ld(h, b, NEXT) /\ (m # END => ld(h1, m, PREV) = ld(h, n, NEXT))
    <2>1. ld(h1, n, NEXT) = ld(h, n, NEXT) /\ ld(h1, b, NEXT) = ld(h, b, NEXT)
      BY <1>1, <1>6, <1>10
    <2>2. m # END => ld(h1, m, PREV) = ld(h, m, PREV)
      BY <1>4, <1>6, <1>10
    <2>3. next(h1, n) = m
      BY <1>3, <2>1, Zenon DEF next
    <2>. QED BY <1>5, <2>1, <2>2, <2>3, Zenon
  <1>12. m = END => h2 = h1
    BY <1>11, Zenon DEF h2
  <1>13. m # END => Stored(h2, h1, B, m, PREV, N)
    <2>1. m # END => h2 = st(h1, m, PREV, N)
      BY <1>6, <1>11, Zenon DEF h2, add
    <2>. QED BY <1>1, <1>4, <1>6, <1>10, <2>1, LoadStore
  <1>14. /\ IsHeap(h2) /\ h2.free = h.free /\ h2.spill = h.spill /\ h2.bad = h.bad
         /\ f # END => ld(h2, f, PFREE) = L
         /\ m # END => ld(h2, m, PREV) = N
         /\ \A c \in B, g \in Field : (c # f \/ g # PFREE) /\ (c # m \/ g # PREV)
                                      => ld(h2, c, g) = ld(h, c, g)
    BY <1>4, <1>6, <1>10, <1>12, <1>13 DEF Stored
  <1>15. /\ ld(h2, n, NFREE) = ld(h, n, NFREE) /\ ld(h2, b, NFREE) = ld(h, b, NFREE)
         /\ ld(h2, n, NEXT) = ld(h, n, NEXT) /\ ld(h2, b, NEXT) = ld(h, b, NEXT)
    BY <1>1, <1>6, <1>14
  <1>16. Stored(h3, h2, B, b, NFREE, L)
    <2>1. h3 = st(h2, b, NFREE, L)
      BY <1>6, <1>15, Zenon DEF h3, add
    <2>. QED BY <1>1, <1>6, <1>14, <2>1, LoadStore, Zenon
  <1>17. ld(h3, b, NEXT) = ld(h, b, NEXT) /\ IsHeap(h3)
    BY <1>1, <1>6, <1>15, <1>16 DEF Stored
  <1>18. Stored(k, h3, B, b, NEXT, N)
    <2>1. k = st(h3, b, NEXT, N)
      BY <1>6, <1>15, <1>17, Zenon DEF k, add
    <2>. QED BY <1>1, <1>6, <1>17, <2>1, LoadStore, Zenon
  <1>19. /\ IsHeap(k) /\ k.free = h.free /\ k.spill = h.spill /\ k.bad = h.bad
         /\ ld(k, b, NFREE) = L /\ ld(k, b, NEXT) = N
         /\ \A c \in B, g \in Field : c # b \/ (g # NFREE /\ g # NEXT) => ld(k, c, g) = ld(h2, c, g)
    BY <1>1, <1>6, <1>14, <1>16, <1>18 DEF Stored
  <1>20. /\ f # END => ld(k, f, PFREE) = L
         /\ m # END => ld(k, m, PREV) = N
    BY <1>4, <1>6, <1>14, <1>19
  <1>21. \A c \in B : /\ c # b => ld(k, c, NFREE) = ld(h, c, NFREE) /\ ld(k, c, NEXT) = ld(h, c, NEXT)
                      /\ c # f => ld(k, c, PFREE) = ld(h, c, PFREE)
                      /\ c # m => ld(k, c, PREV) = ld(h, c, PREV)
                      /\ ld(k, c, USED) = ld(h, c, USED)
    BY <1>6, <1>14, <1>19
  <1>22. Joined(k, h, B, b, n)
    <2>1. \A c \in B : ld(h, c, USED) \in {0, 1}
      BY <1>1, Zenon DEF Tiling
    <2>2. \A c \in B \ {n} : ld(k, c, USED) \in {0, 1}
      BY <1>21, <2>1, Zenon
    <2>. QED BY <1>19, <1>20, <1>21, <2>2, Zenon DEF Joined, N, m
  <1>23. MergeTo(k, h, B, b, n)
    BY <1>19, <1>20, <1>21, <1>22, Zenon DEF MergeTo, L, f
  <1>. QED BY <1>7, <1>23, Zenon DEF M

(* Only blocks in S have a free neighbour behind them.                     *)
Joins(h, F, S) == \A c \in F : next(h, c) \in F => c \in S

(* b and n are one block if they were neighbours, and b has no free        *)
(* neighbour behind it any more.                                           *)
Merged(k, h, B, F, b, n, S) ==
  \E C, G :
    /\ Whole(k, C, G) /\ Joins(k, G, S \ {b}) /\ k.spill = h.spill
    /\ B \ F \subseteq C /\ G \subseteq F /\ F \ {n} \subseteq G
    /\ Same(k, h, B \ F) /\ \A c \in F \ {b, n} : nfree(k, c) = nfree(h, c)

(* One round of coalescing does so.                                        *)
LEMMA MergeWhole ==
  ASSUME NEW h, NEW B, NEW F, Whole(h, B, F), NEW b \in F, NEW n, n = nfree(h, b),
         NEW S, n \notin S, Joins(h, F, S)
  PROVE  Merged(Merge(h, b, n), h, B, F, b, n, S)
  <1>. DEFINE k == Merge(h, b, n)
  <1>1. /\ IsHeap(h) /\ ~h.bad /\ Tiling(h, B) /\ F = FreeBlocks(h, B) /\ Listing(h, F)
    BY Zenon DEF Whole
  <1>2. F \subseteq B /\ B \subseteq Nat /\ Spaced(B)
    BY <1>1, Zenon DEF FreeBlocks, Tiling, Spaced
  <1>3. F \in SUBSET Nat /\ b \in B /\ b \in Nat /\ b \in Int /\ -1 \in Int /\ END \in Nat
    <2>1. END \in Nat
      BY HeapAssumption, Zenon
    <2>. QED BY <1>2, <2>1
  <1>4. /\ Succ(F, -1, h.free) /\ \A c \in F : Succ(F, c, nfree(h, c))
        /\ h.free # END => ld(h, h.free, PFREE) = 0
        /\ \A c \in F : nfree(h, c) # END => ld(h, nfree(h, c), PFREE) = ld(h, c, NFREE)
    BY <1>1, Zenon DEF Listing
  <1>5. Succ(F, b, n) /\ n \in Nat /\ b < n /\ n \in F \cup {END} /\ next(h, b) <= n
        /\ \A d \in F : b < d => n <= d
    <2>1. Succ(F, b, n)
      BY <1>4, Zenon
    <2>2. n \in Nat /\ b < n /\ n \in F \cup {END} /\ \A d \in F : b < d => n <= d
      <3>1. F \in SUBSET Nat /\ b \in Int
        BY <1>3, Zenon
      <3>. QED BY <2>1, <3>1, SuccFacts, Zenon
    <2>3. next(h, b) <= n
      BY <1>3, Places, Zenon
    <2>. QED BY <2>1, <2>2, <2>3, Zenon
  <1>6. next(h, b) \in Nat /\ b < next(h, b)
    <2>1. next(h, b) = b + ld(h, b, NEXT) /\ ld(h, b, NEXT) \in Nat /\ b + 5 <= next(h, b)
      BY <1>3, Places, Zenon
    <2>. QED BY <1>3, <2>1
  <1>7. CASE n = END \/ n # next(h, b)
    <2>1. k = h
      BY <1>7, Zenon DEF Merge
    <2>2. next(h, b) \notin F
      <3>1. ASSUME next(h, b) \in F PROVE FALSE
        <4>1. n <= next(h, b)
          BY <1>5, <1>6, <3>1, Zenon
        <4>2. next(h, b) < END
          <5>1. \A c \in B : c + 5 <= END
            BY <1>2, Zenon DEF Spaced
          <5>2. next(h, b) + 5 <= END
            BY <1>2, <3>1, <5>1, Zenon
          <5>. QED BY <1>3, <1>6, <5>2
        <4>. QED BY <1>3, <1>5, <1>6, <1>7, <4>1, <4>2
      <3>. QED BY <3>1, Zenon
    <2>3. Joins(h, F, S \ {b})
      BY <2>2, Zenon DEF Joins
    <2>4. Same(h, h, B \ F)
      BY Zenon DEF Same
    <2>. HIDE DEF k
    <2>5. Merged(k, h, B, F, b, n, S)
      BY <1>2, <2>1, <2>3, <2>4, Zenon DEF Merged
    <2>. QED BY <2>5, Zenon DEF k
  <1>8. CASE n # END /\ n = next(h, b)
    <2>. DEFINE C == B \ {n}
                G == F \ {n}
                f == nfree(h, n)
                L == ld(h, b, NFREE) + ld(h, n, NFREE)
    <2>1. n \in F /\ n \in B
      BY <1>2, <1>5, <1>8, Zenon
    <2>2. MergeTo(k, h, B, b, n)
      BY <1>8, <2>1, MergeFields, Zenon
    <2>. HIDE DEF k
    <2>3. /\ IsHeap(k) /\ k.free = h.free /\ k.spill = h.spill /\ k.bad = h.bad
          /\ Joined(k, h, B, b, n) /\ ld(k, b, NFREE) = L /\ (f # END => ld(k, f, PFREE) = L)
      BY <2>2, Zenon DEF MergeTo
    <2>4. \A c \in B : /\ c # b => ld(k, c, NFREE) = ld(h, c, NFREE)
                       /\ c # f => ld(k, c, PFREE) = ld(h, c, PFREE)
                       /\ ld(k, c, USED) = ld(h, c, USED)
                       /\ c # b => ld(k, c, NEXT) = ld(h, c, NEXT)
      BY <2>2, Zenon DEF MergeTo
    <2>5. /\ Tiling(k, C) /\ next(k, b) = next(h, n)
          /\ \A c \in C : c # b => next(k, c) = next(h, c) /\ next(h, c) # n
      BY <1>1, <1>3, <1>8, <2>1, <2>3, JoinTiling
    <2>6. G = FreeBlocks(k, C)
      <3>1. \A c \in B : c \in F <=> ld(h, c, USED) = 0
        BY <1>1, Zenon DEF FreeBlocks
      <3>2. \A c \in C : c \in G <=> ld(k, c, USED) = 0
        BY <2>4, <3>1, Zenon
      <3>3. G \subseteq C
        BY <1>2, Zenon
      <3>. QED BY <3>2, <3>3, Zenon DEF FreeBlocks
    <2>7. /\ Succ(F, n, f) /\ f \in Nat /\ n < f /\ f \in F \cup {END}
      <3>1. Succ(F, n, f)
        BY <1>4, <2>1, Zenon
      <3>2. n \in Int
        BY <1>5
      <3>. QED BY <1>3, <3>1, <3>2, SuccFacts, Zenon
    <2>. HIDE DEF f
    <2>8. h.free \in Nat /\ h.free <= b /\ h.free \in F \cup {END}
      <3>1. h.free \in Nat /\ h.free \in F \cup {END} /\ \A d \in F : -1 < d => h.free <= d
        BY <1>3, <1>4, SuccFacts, Zenon
      <3>. QED BY <1>3, <3>1
    <2>9. Succ(G, -1, k.free)
      <3>1. h.free # n
        BY <1>3, <1>5, <2>8
      <3>2. Succ(G, -1, h.free)
        BY <1>4, <3>1, SuccLess, Zenon
      <3>. QED BY <2>3, <3>2, Zenon
    <2>10. k.free # END => ld(k, k.free, PFREE) = 0
      <3>1. h.free # f
        BY <1>3, <1>5, <2>7, <2>8
      <3>2. h.free # END => h.free \in B
        BY <1>2, <2>8, Zenon
      <3>. QED BY <1>4, <2>3, <2>4, <3>1, <3>2, Zenon
    <2>11. nfree(k, b) = f
      <3>1. n = b + ld(h, b, NFREE) /\ f = n + ld(h, n, NFREE) /\ ld(h, b, NFREE) \in Nat /\ ld(h, n, NFREE) \in Nat
        <4>1. n = b + ld(h, b, NFREE) /\ f = n + ld(h, n, NFREE)
          BY Zenon DEF nfree, f
        <4>. QED BY <1>3, <2>1, <4>1, Places, Zenon
      <3>. QED BY <1>3, <2>3, <3>1 DEF nfree
    <2>12. \A c \in F \ {b, n} : nfree(k, c) = nfree(h, c) /\ ld(k, c, NFREE) = ld(h, c, NFREE)
      BY <1>2, <2>4, Zenon DEF nfree
    <2>13. ASSUME NEW c \in G
           PROVE  /\ Succ(G, c, nfree(k, c))
                  /\ nfree(k, c) # END => ld(k, nfree(k, c), PFREE) = ld(k, c, NFREE)
      <3>1. CASE c = b
        <4>1. Succ(G, b, f)
          BY <1>3, <1>5, <2>1, <2>7, SuccSkip, Zenon
        <4>. QED BY <2>3, <2>11, <3>1, <4>1, Zenon
      <3>2. CASE c # b
        <4>. DEFINE q == nfree(h, c)
        <4>1. c \in F \ {b, n} /\ c \in F
          BY <3>2, Zenon
        <4>2. nfree(k, c) = q /\ ld(k, c, NFREE) = ld(h, c, NFREE) /\ Succ(F, c, q)
          BY <1>4, <2>12, <4>1, Zenon
        <4>3. q # n
          BY <1>3, <1>5, <3>2, <4>1, <4>2, SuccUnique, Zenon
        <4>4. q # f
          BY <1>3, <2>1, <2>7, <4>1, <4>2, SuccUnique, Zenon
        <4>5. Succ(G, c, q)
          BY <4>2, <4>3, SuccLess, Zenon
        <4>6. ASSUME q # END PROVE ld(k, q, PFREE) = ld(k, c, NFREE)
          <5>1. q \in B
            BY <1>2, <4>2, <4>6, Zenon DEF Succ
          <5>2. ld(k, q, PFREE) = ld(h, q, PFREE)
            BY <2>4, <4>4, <5>1, Zenon
          <5>. QED BY <1>4, <4>1, <4>2, <4>6, <5>2, Zenon
        <4>. QED BY <4>2, <4>5, <4>6, Zenon
      <3>. QED BY <3>1, <3>2, Zenon
    <2>14. Listing(k, G)
      BY <2>9, <2>10, <2>13, Zenon DEF Listing
    <2>15. Whole(k, C, G)
      BY <1>1, <2>3, <2>5, <2>6, <2>14, Zenon DEF Whole
    <2>16. Joins(k, G, S \ {b})
      <3>1. next(h, n) \notin F
        BY <2>1, Zenon DEF Joins
      <3>2. ASSUME NEW c \in G, next(k, c) \in G PROVE c \in S \ {b}
        <4>1. c # b
          BY <2>5, <3>1, <3>2, Zenon
        <4>2. next(k, c) = next(h, c)
          BY <1>2, <2>5, <4>1, Zenon
        <4>. QED BY <3>2, <4>1, <4>2, Zenon DEF Joins
      <3>. QED BY <3>2, Zenon DEF Joins
    <2>17. /\ B \ F \subseteq C /\ G \subseteq F /\ F \ {n} \subseteq G
      BY <2>1, Zenon
    <2>18. Same(k, h, B \ F)
      BY <2>4, Zenon DEF Same
    <2>19. \A c \in F \ {b, n} : nfree(k, c) = nfree(h, c)
      BY <2>12, Zenon
    <2>. HIDE DEF C, G
    <2>20. Merged(k, h, B, F, b, n, S)
      BY <2>3, <2>15, <2>16, <2>17, <2>18, <2>19, Zenon DEF Merged
    <2>. QED BY <2>20, Zenon DEF k
  <1>. QED BY <1>7, <1>8, Zenon

(* free past its loops: b is in the list, and merged with free neighbours. *)
LEMMA LinkWhole ==
  ASSUME NEW h, NEW B, NEW F, NEW b, Pending(h, B, F, b), Apart(h, F), NEW n, NEW p, Between(F, b, n, p)
  PROVE  LET k == coalesced(relinked(h, b, n, p), b, n, p) IN
         \E C, G : /\ Whole(k, C, G) /\ Apart(k, G) /\ k.spill = h.spill
                   /\ (B \ F) \ {b} \subseteq C \ G /\ Same(k, h, (B \ F) \ {b})
  <1>. DEFINE h1 == relinked(h, b, n, p)
              h2 == Merge(h1, b, n)
              k == coalesced(h1, b, n, p)
              D == F \cup {b}
              U == (B \ F) \ {b}
  <1>1. Relinked(h1, h, B, F, b, n, p)
    BY RelinkWhole, Zenon
  <1>2. /\ b \in B /\ b \notin F /\ F \subseteq B /\ B \subseteq Nat /\ b \in Nat /\ IsHeap(h) /\ Tiling(h, B)
    <2>1. F \cup {b} = FreeBlocks(h, B) /\ Tiling(h, B) /\ IsHeap(h) /\ b \in B /\ b \notin F
      BY Zenon DEF Pending
    <2>2. F \subseteq B /\ B \subseteq Nat
      BY <2>1, Zenon DEF FreeBlocks, Tiling, Spaced
    <2>. QED BY <2>1, <2>2, Zenon
  <1>. HIDE DEF h1, h2
  <1>3. /\ Whole(h1, B, D) /\ h1.spill = h.spill /\ Same(h1, h, B)
        /\ nfree(h1, b) = n /\ (p # NULL => nfree(h1, p) = b)
    BY <1>1, Zenon DEF Relinked
  <1>4. \A c \in B : next(h1, c) = next(h, c)
    BY <1>3, Zenon DEF Same, next
  <1>5. b < n /\ (p # NULL => p \in F /\ p < b /\ p # b)
    BY <1>2, Zenon DEF Between, Succ
  <1>6. Joins(h1, D, {b, p})
    <2>1. ASSUME NEW c \in D, next(h1, c) \in D, c # b PROVE c = p
      <3>1. c \in F /\ next(h1, c) = next(h, c)
        BY <1>2, <1>4, <2>1, Zenon
      <3>2. next(h1, c) = b
        BY <2>1, <3>1, Zenon DEF Apart
      <3>3. /\ c \in Nat /\ c < b /\ \A d \in B : c < d => b <= d
        <4>1. c \in B
          BY <1>2, <3>1, Zenon
        <4>2. c \in Nat /\ c + 5 <= next(h, c) /\ \A d \in B : c < d => next(h, c) <= d
          BY <1>2, <4>1, TilePlaces, Zenon
        <4>3. next(h, c) = b
          BY <3>1, <3>2, Zenon
        <4>. QED BY <1>2, <4>2, <4>3
      <3>4. p # NULL
        <4>1. \A d \in Nat : d # NULL
          BY DEF NULL
        <4>2. p = NULL => F = {}
          BY <1>2, <4>1, Zenon DEF Between
        <4>. QED BY <3>1, <4>2, Zenon
      <3>5. p \in F /\ p < b /\ Succ(F, p, n)
        BY <3>4, Zenon DEF Between
      <3>6. p \in Nat /\ (c <= p \/ n <= c) /\ ~(c < p)
        <4>1. p \in B /\ p \in Nat
          BY <1>2, <3>5, Zenon
        <4>2. c <= p \/ n <= c
          BY <3>1, <3>5, Zenon DEF Succ
        <4>3. ~(c < p)
          BY <1>2, <3>3, <3>5, <4>1
        <4>. QED BY <4>1, <4>2, <4>3, Zenon
      <3>7. n \in Nat
        <4>1. n \in F \cup {END}
          BY Zenon DEF Between, Succ
        <4>. QED BY <1>2, <4>1, HeapAssumption, Zenon
      <3>. QED BY <1>2, <1>5, <3>3, <3>6, <3>7
    <2>. QED BY <2>1, Zenon DEF Joins
  <1>7. n \notin {b, p} /\ n \notin {b}
    <2>1. n \in Nat
      <3>1. n \in F \cup {END}
        BY Zenon DEF Between, Succ
      <3>. QED BY <1>2, <3>1, HeapAssumption, Zenon
    <2>2. p = NULL \/ (p \in Nat /\ p < b)
      BY <1>2, <1>5, Zenon
    <2>. QED BY <1>2, <1>5, <2>1, <2>2 DEF NULL
  <1>8. Merged(h2, h1, B, D, b, n, {b, p})
    <2>1. b \in D
      BY Zenon
    <2>. QED BY <1>3, <1>6, <1>7, <2>1, MergeWhole, Zenon DEF h2
  <1>9. PICK C1, G1 :
          /\ Whole(h2, C1, G1) /\ Joins(h2, G1, {b, p} \ {b}) /\ h2.spill = h1.spill
          /\ B \ D \subseteq C1 /\ G1 \subseteq D /\ D \ {n} \subseteq G1
          /\ Same(h2, h1, B \ D) /\ \A c \in D \ {b, n} : nfree(h2, c) = nfree(h1, c)
    BY <1>8, Zenon DEF Merged
  <1>10. U = B \ D /\ U \subseteq C1 \ G1 /\ Same(h2, h, U)
    <2>1. U = B \ D
      BY Zenon
    <2>2. U \subseteq C1 \ G1
      BY <1>9, <2>1, Zenon
    <2>3. Same(h2, h, U)
      BY <1>3, <1>9, <2>1, Zenon DEF Same
    <2>. QED BY <2>1, <2>2, <2>3, Zenon
  <1>11. CASE p = NULL
    <2>1. k = h2
      BY <1>11, Zenon DEF coalesced, h2
    <2>2. Apart(h2, G1)
      <3>1. G1 \subseteq Nat
        BY <1>2, <1>9, Zenon
      <3>. QED BY <1>9, <1>11, <3>1 DEF Joins, Apart, NULL
    <2>3. h2.spill = h.spill
      BY <1>3, <1>9, Zenon
    <2>. HIDE DEF U, k
    <2>. QED BY <1>9, <1>10, <2>1, <2>2, <2>3, Zenon DEF U, k, h1
  <1>12. CASE p # NULL
    <2>. DEFINE h3 == Merge(h2, p, b)
    <2>1. k = h3
      BY <1>12, Zenon DEF coalesced, h2
    <2>2. p \in G1 /\ b = nfree(h2, p) /\ b \notin {p}
      <3>1. p \in D \ {b, n} /\ p \in D \ {n}
        BY <1>5, <1>7, <1>12, Zenon
      <3>. QED BY <1>3, <1>9, <1>12, <3>1, Zenon
    <2>3. Joins(h2, G1, {p})
      BY <1>9, Zenon DEF Joins
    <2>. HIDE DEF h3
    <2>4. Merged(h3, h2, C1, G1, p, b, {p})
      BY <1>9, <2>2, <2>3, MergeWhole, Zenon DEF h3
    <2>5. PICK C, G :
            /\ Whole(h3, C, G) /\ Joins(h3, G, {p} \ {p}) /\ h3.spill = h2.spill
            /\ C1 \ G1 \subseteq C /\ G \subseteq G1 /\ G1 \ {b} \subseteq G
            /\ Same(h3, h2, C1 \ G1) /\ \A c \in G1 \ {p, b} : nfree(h3, c) = nfree(h2, c)
      BY <2>4, Zenon DEF Merged
    <2>6. Apart(h3, G)
      BY <2>5, Zenon DEF Joins, Apart
    <2>7. U \subseteq C \ G /\ Same(h3, h, U) /\ h3.spill = h.spill
      <3>1. U \subseteq C \ G /\ h3.spill = h.spill
        BY <1>3, <1>9, <1>10, <2>5, Zenon
      <3>2. Same(h3, h, U)
        BY <1>10, <2>5, Zenon DEF Same
      <3>. QED BY <3>1, <3>2, Zenon
    <2>. HIDE DEF U, k
    <2>. QED BY <2>1, <2>5, <2>6, <2>7, Zenon DEF U, k, h1
  <1>. QED BY <1>11, <1>12, Zenon

(* A block that was in use and is as it was is in use.                     *)
LEMMA StillUsed ==
  ASSUME NEW h, NEW B, NEW F, Whole(h, B, F), NEW k, NEW C, NEW G, Whole(k, C, G),
         NEW D, D \subseteq B, D \cap F = {}, D \subseteq C, Same(k, h, D)
  PROVE  D \cap G = {}
  <1>1. F = FreeBlocks(h, B) /\ G = FreeBlocks(k, C)
    BY Zenon DEF Whole
  <1>. QED BY <1>1, Zenon DEF FreeBlocks, Same

(* What is true of the heap after a block of length x was taken at b.      *)
Carved(k, h, B, F, b, x) ==
  \E C, G : /\ Whole(k, C, G) /\ Apart(k, G) /\ k.spill \in {h.spill, END}
            /\ B \subseteq C /\ b \in C /\ b \notin G /\ ld(k, b, NEXT) >= x
            /\ (B \ F) \subseteq C \ G /\ Same(k, h, B \ F)

(* alloc takes the block that it has chosen.                               *)
LEMMA AllocWhole ==
  ASSUME GreatestExists, NEW h, NEW B, NEW F, Whole(h, B, F), NEW b \in F, ApartBut(h, F, b),
         NEW x \in Nat, x >= 5, ld(h, b, NEXT) >= x
  PROVE  Carved(Carve(h, b, x), h, B, F, b, x)
  <1>. DEFINE k == Carve(h, b, x)
              D == B \ F
  <1>. HIDE DEF k
  <1>1. PICK C, G : /\ Whole(k, C, G) /\ Apart(k, G) /\ k.spill \in {h.spill, END}
                    /\ B \subseteq C /\ b \notin G
                    /\ ld(k, b, USED) = 1 /\ ld(k, b, NEXT) >= x
                    /\ Same(k, h, B \ {b})
    BY CarveWhole, Zenon DEF k
  <1>2. b \in B
    BY Zenon DEF Whole, FreeBlocks
  <1>3. Same(k, h, D)
    BY <1>1, Zenon DEF Same
  <1>4. D \cap G = {}
    BY <1>1, <1>3, StillUsed
  <1>5. D \subseteq C \ G
    BY <1>1, <1>4, Zenon
  <1>. HIDE DEF D
  <1>6. Carved(k, h, B, F, b, x)
    BY <1>1, <1>2, <1>3, <1>5, Zenon DEF Carved, D
  <1>. QED BY <1>6, Zenon DEF k

(* aligned_alloc takes it behind the padding, if there is room for a free  *)
(* header in front of it.                                                  *)
LEMMA AlignedWhole ==
  ASSUME GreatestExists, NEW h, NEW B, NEW F, Whole(h, B, F), Apart(h, F), NEW b \in F, ~ShortPrefix(b),
         NEW x \in Nat, x >= 5, Padding(b) \in Nat, ld(h, b, NEXT) >= Padding(b) + x
  PROVE  Carved(Carve(Aligned(h, b), b + Padding(b), x), h, B, F, b + Padding(b), x)
  <1>. DEFINE d == Padding(b)
              h1 == Aligned(h, b)
              s == b + d
              k == Carve(h1, s, x)
  <1>1. b \in B /\ b \in Nat /\ ld(h, b, NEXT) \in Nat /\ F \subseteq B /\ d \in Nat
        /\ next(h, b) = b + ld(h, b, NEXT) /\ END \in Nat
    <2>1. F \subseteq B
      BY Zenon DEF Whole, FreeBlocks
    <2>2. b \in B
      BY <2>1, Zenon
    <2>. QED BY <2>1, <2>2, Places, Zenon
  <1>2. CASE d = 0
    <2>1. h1 = h /\ s = b
      BY <1>1, <1>2 DEF Aligned
    <2>2. ApartBut(h, F, b)
      BY Zenon DEF Apart, ApartBut
    <2>3. ld(h, b, NEXT) >= x
      BY <1>1, <1>2
    <2>4. Carved(Carve(h, b, x), h, B, F, b, x)
      BY <2>2, <2>3, AllocWhole, Zenon
    <2>. QED BY <2>1, <2>4, Zenon
  <1>3. CASE d # 0
    <2>. HIDE DEF d
    <2>1. d >= 5 /\ ld(h, b, NEXT) - d >= 5 /\ ld(h, b, NEXT) - d >= x
      <3>1. d >= 5
        BY <1>1, <1>3 DEF ShortPrefix, UNUSED_HEADER_SIZE, d
      <3>2. ld(h, b, NEXT) >= d + x
        BY Zenon DEF d
      <3>. QED BY <1>1, <3>1, <3>2
    <2>2. h1 = split(h, b, d)
      BY <1>3, Zenon DEF Aligned, d
    <2>3. Halved(h1, h, B, F, b, d)
      BY <1>1, <2>1, <2>2, SplitWhole, Zenon
    <2>. HIDE DEF h1, k
    <2>. DEFINE C == B \cup {s}
                G == F \cup {s}
    <2>4. /\ Whole(h1, C, G) /\ s \notin B /\ h1.spill = h.spill
          /\ ld(h1, b, NEXT) = d /\ ld(h1, s, NEXT) = ld(h, b, NEXT) - d
          /\ Same(h1, h, B \ {b})
      BY <2>3, Zenon DEF Halved
    <2>5. ApartBut(h1, G, s)
      <3>1. ASSUME NEW c \in G, next(h1, c) \in G PROVE next(h1, c) = s
        <4>1. CASE c = b
          BY <2>4, <4>1, Zenon DEF next
        <4>2. CASE c = s
          <5>1. next(h1, s) = next(h, b)
            BY <1>1, <2>4 DEF next
          <5>2. next(h, b) \notin F
            BY Zenon DEF Apart
          <5>. QED BY <3>1, <4>2, <5>1, <5>2, Zenon
        <4>3. CASE c # b /\ c # s
          <5>1. c \in F /\ c \in B \ {b}
            BY <1>1, <4>3, Zenon
          <5>2. next(h1, c) = next(h, c) /\ next(h, c) \notin F
            BY <2>4, <5>1, Zenon DEF Same, next, Apart
          <5>. QED BY <3>1, <5>2, Zenon
        <4>. QED BY <4>1, <4>2, <4>3, Zenon
      <3>. QED BY <3>1, Zenon DEF ApartBut
    <2>6. s \in G /\ ld(h1, s, NEXT) >= x
      BY <2>1, <2>4, Zenon
    <2>7. Carved(k, h1, C, G, s, x)
      <3>. HIDE DEF C, G, s
      <3>. QED BY <2>4, <2>5, <2>6, AllocWhole, Zenon DEF k
    <2>8. C \ G = B \ F /\ B \subseteq C /\ Same(h1, h, B \ F)
      <3>1. C \ G = B \ F
        BY <2>4, Zenon
      <3>2. Same(h1, h, B \ F)
        BY <2>4, Zenon DEF Same
      <3>. QED BY <3>1, <3>2, Zenon
    <2>. HIDE DEF C, G, s
    <2>9. PICK C2, G2 :
            /\ Whole(k, C2, G2) /\ Apart(k, G2) /\ k.spill \in {h1.spill, END}
            /\ C \subseteq C2 /\ s \in C2 /\ s \notin G2 /\ ld(k, s, NEXT) >= x
            /\ (C \ G) \subseteq C2 \ G2 /\ Same(k, h1, C \ G)
      BY <2>7, Zenon DEF Carved
    <2>10. B \subseteq C2 /\ (B \ F) \subseteq C2 \ G2 /\ k.spill \in {h.spill, END}
      BY <2>4, <2>8, <2>9, Zenon
    <2>11. Same(k, h, B \ F)
      BY <2>8, <2>9, Zenon DEF Same
    <2>12. Carved(k, h, B, F, s, x)
      BY <2>9, <2>10, <2>11, Zenon DEF Carved
    <2>. QED BY <2>12, Zenon DEF k, h1, s, d
  <1>. QED BY <1>2, <1>3, Zenon

(* The block in use b has taken in n, the block in use behind it.          *)
Absorbed(k, h, B, F, b, n) ==
  /\ Whole(k, B \ {n}, F) /\ k.spill = h.spill
  /\ ld(k, b, NEXT) = ld(h, b, NEXT) + ld(h, n, NEXT)
  /\ ld(k, b, USED) = ld(h, b, USED)
  /\ \A c \in B \ {b, n} : next(k, c) = next(h, c)
  /\ Same(k, h, B \ {b, n})

(* The stores of realloc past use_block do so.                             *)
absorb(h, b, n) ==
  LET h2 == IF next(h, n) = END THEN h ELSE add(h, next(h, n), PREV, ld(h, b, NEXT))
  IN  add(h2, b, NEXT, ld(h2, n, NEXT))

(* And leave a heap in order.                                              *)
LEMMA AbsorbWhole ==
  ASSUME NEW h, NEW B, NEW F, Whole(h, B, F), NEW b \in B, NEW n \in B,
         b \notin F, n \notin F, n = next(h, b)
  PROVE  Absorbed(absorb(h, b, n), h, B, F, b, n)
  <1>. DEFINE m == next(h, n)
              N == ld(h, b, NEXT) + ld(h, n, NEXT)
              h2 == IF next(h, n) = END THEN h ELSE add(h, next(h, n), PREV, ld(h, b, NEXT))
              k == add(h2, b, NEXT, ld(h2, n, NEXT))
  <1>1. /\ IsHeap(h) /\ ~h.bad /\ Tiling(h, B) /\ F = FreeBlocks(h, B) /\ Listing(h, F)
    BY Zenon DEF Whole
  <1>2. F \subseteq B /\ B \subseteq Nat /\ Spaced(B) /\ F \in SUBSET Nat
    <2>1. F \subseteq B /\ B \subseteq Nat /\ Spaced(B)
      BY <1>1, Zenon DEF FreeBlocks, Tiling, Spaced
    <2>. QED BY <2>1, Zenon
  <1>3. /\ b \in Nat /\ ld(h, b, NEXT) \in Nat /\ b < next(h, b) /\ next(h, b) = b + ld(h, b, NEXT)
        /\ END \in Nat
    BY <1>1, TilePlaces
  <1>4. /\ n \in Nat /\ ld(h, n, NEXT) \in Nat /\ n < m /\ m <= END /\ m = n + ld(h, n, NEXT)
        /\ m \in B \cup {END} /\ m \in Nat
    BY <1>1, TilePlaces
  <1>5. m # END => ld(h, m, PREV) = ld(h, n, NEXT)
    BY <1>1, Zenon DEF Tiling
  <1>6. /\ NEXT \in Field /\ PREV \in Field /\ USED \in Field /\ NFREE \in Field /\ PFREE \in Field
        /\ N \in 0 .. WORD - 1
        /\ N = ld(h, b, NEXT) + ld(h, n, NEXT) /\ N = ld(h, n, NEXT) + ld(h, b, NEXT)
    <2>1. n = b + ld(h, b, NEXT)
      BY <1>3, Zenon
    <2>. QED BY <1>3, <1>4, <2>1, HeapAssumption DEF Field
  <1>7. absorb(h, b, n) = k
    BY Zenon DEF absorb
  <1>8. b # n
    BY <1>3
  <1>. HIDE DEF m, N, h2, k
  <1>9. m = END => h2 = h
    BY Zenon DEF h2, m
  <1>10. m # END => Stored(h2, h, B, m, PREV, N)
    <2>1. m # END => h2 = st(h, m, PREV, N)
      BY <1>5, <1>6, Zenon DEF h2, m, add
    <2>. QED BY <1>1, <1>2, <1>4, <1>6, <2>1, LoadStore, Zenon
  <1>11. /\ IsHeap(h2) /\ h2.free = h.free /\ h2.spill = h.spill /\ h2.bad = h.bad
         /\ m # END => ld(h2, m, PREV) = N
         /\ \A c \in B, g \in Field : c # m \/ g # PREV => ld(h2, c, g) = ld(h, c, g)
    BY <1>1, <1>9, <1>10, Zenon DEF Stored
  <1>12. Stored(k, h2, B, b, NEXT, N)
    <2>1. ld(h2, b, NEXT) = ld(h, b, NEXT) /\ ld(h2, n, NEXT) = ld(h, n, NEXT)
      BY <1>6, <1>11
    <2>2. k = st(h2, b, NEXT, N)
      BY <1>6, <2>1, Zenon DEF k, add
    <2>. QED BY <1>2, <1>6, <1>11, <2>2, LoadStore, Zenon
  <1>13. /\ IsHeap(k) /\ k.free = h.free /\ k.spill = h.spill /\ k.bad = h.bad /\ ld(k, b, NEXT) = N
         /\ m # END => ld(k, m, PREV) = N
         /\ \A c \in B, g \in Field : (c # m \/ g # PREV) /\ (c # b \/ g # NEXT) => ld(k, c, g) = ld(h, c, g)
    BY <1>4, <1>6, <1>11, <1>12 DEF Stored
  <1>14. \A c \in B : /\ c # b => ld(k, c, NEXT) = ld(h, c, NEXT)
                      /\ c # m => ld(k, c, PREV) = ld(h, c, PREV)
                      /\ ld(k, c, USED) = ld(h, c, USED)
                      /\ ld(k, c, NFREE) = ld(h, c, NFREE) /\ ld(k, c, PFREE) = ld(h, c, PFREE)
    BY <1>6, <1>13
  <1>15. Joined(k, h, B, b, n)
    <2>1. \A c \in B : ld(h, c, USED) \in {0, 1}
      BY <1>1, Zenon DEF Tiling
    <2>2. \A c \in B \ {n} : ld(k, c, USED) \in {0, 1}
      BY <1>14, <2>1, Zenon
    <2>. QED BY <1>13, <1>14, <2>2, Zenon DEF Joined, N, m
  <1>16. /\ Tiling(k, B \ {n})
         /\ \A c \in B \ {n} : c # b => next(k, c) = next(h, c) /\ next(h, c) # n
    BY <1>1, <1>15, JoinTiling
  <1>17. Listing(k, F)
    <2>1. \A c \in F : ld(k, c, NFREE) = ld(h, c, NFREE) /\ ld(k, c, PFREE) = ld(h, c, PFREE)
      BY <1>2, <1>14, Zenon
    <2>. QED BY <1>1, <1>2, <1>13, <2>1, ListingKept
  <1>18. F = FreeBlocks(k, B \ {n})
    <2>1. \A c \in B : c \in F <=> ld(h, c, USED) = 0
      BY <1>1, Zenon DEF FreeBlocks
    <2>2. \A c \in B \ {n} : c \in F <=> ld(k, c, USED) = 0
      BY <1>14, <2>1, Zenon
    <2>3. F \subseteq B \ {n}
      BY <1>2, Zenon
    <2>. QED BY <2>2, <2>3, Zenon DEF FreeBlocks
  <1>19. Whole(k, B \ {n}, F)
    BY <1>1, <1>13, <1>16, <1>17, <1>18, Zenon DEF Whole
  <1>20. Same(k, h, B \ {b, n}) /\ \A c \in B \ {b, n} : next(k, c) = next(h, c)
    BY <1>14, <1>16, Zenon DEF Same
  <1>. QED BY <1>7, <1>13, <1>14, <1>19, <1>20, Zenon DEF Absorbed, N

(* What realloc does in place.                                             *)
Grown(k, h, B, F, b, size) ==
  \E C, G : /\ Whole(k, C, G) /\ Apart(k, G) /\ k.spill \in {h.spill, END}
            /\ B \ F \subseteq C \ G /\ ld(k, b, NEXT) >= size + USED_HEADER_SIZE
            /\ Same(k, h, (B \ F) \ {b})

(* A block that realloc enlarges where it is.                              *)
LEMMA GrownWhole ==
  ASSUME GreatestExists, NEW h, NEW B, NEW F, Whole(h, B, F), Apart(h, F), NEW b \in B, b \notin F,
         NEW size \in Nat, InPlace(h, b, size), ~ShortGrowth(h, b, size)
  PROVE  Grown(grown(h, b, size), h, B, F, b, size)
  <1>. DEFINE n == next(h, b)
              x == size - (ld(h, b, NEXT) - USED_HEADER_SIZE)
              h1 == Carve(h, n, x)
              k == grown(h, b, size)
              U == B \ F
  <1>1. k = absorb(h1, b, n)
    BY Zenon DEF grown, absorb, Carve
  <1>2. /\ b \in Nat /\ ld(h, b, NEXT) \in Nat /\ n = b + ld(h, b, NEXT) /\ b + 5 <= n /\ n <= END
        /\ n \in B \cup {END} /\ END \in Nat
    <2>1. IsHeap(h) /\ Tiling(h, B)
      BY Zenon DEF Whole
    <2>. QED BY <2>1, TilePlaces, Zenon
  <1>3. n # END /\ ld(h, n, USED) = 0 /\ ld(h, b, NEXT) - 3 + ld(h, n, NEXT) >= size
    BY Zenon DEF InPlace, USED_HEADER_SIZE
  <1>4. n \in B /\ n \in F /\ n \in Nat /\ n # b
    <2>1. n \in B
      BY <1>2, <1>3, Zenon
    <2>2. n \in F
      BY <1>3, <2>1, Zenon DEF Whole, FreeBlocks
    <2>. QED BY <1>2, <2>1, <2>2
  <1>5. x \in Int /\ x >= 5 /\ x = size - (ld(h, b, NEXT) - 3)
    <2>1. ~(x < UNUSED_HEADER_SIZE)
      BY Zenon DEF ShortGrowth
    <2>2. x = size - (ld(h, b, NEXT) - 3)
      BY Zenon DEF USED_HEADER_SIZE
    <2>. QED BY <1>2, <2>1, <2>2 DEF UNUSED_HEADER_SIZE
  <1>6. x \in Nat /\ ld(h, n, NEXT) >= x /\ ld(h, n, NEXT) \in Nat
    <2>1. ld(h, n, NEXT) \in Nat
      BY <1>4, Places, Zenon
    <2>. QED BY <1>2, <1>3, <1>5, <2>1
  <1>. HIDE DEF n, x, h1, k
  <1>7. Carved(h1, h, B, F, n, x)
    <2>1. ApartBut(h, F, n)
      BY Zenon DEF Apart, ApartBut
    <2>. QED BY <1>4, <1>5, <1>6, <2>1, AllocWhole, Zenon DEF h1
  <1>8. PICK C, G : /\ Whole(h1, C, G) /\ Apart(h1, G) /\ h1.spill \in {h.spill, END}
                    /\ B \subseteq C /\ n \in C /\ n \notin G /\ ld(h1, n, NEXT) >= x
                    /\ U \subseteq C \ G /\ Same(h1, h, U)
    BY <1>7, Zenon DEF Carved
  <1>9. b \in C /\ b \notin G /\ n = next(h1, b) /\ ld(h1, b, NEXT) = ld(h, b, NEXT)
    <2>1. b \in U
      BY Zenon
    <2>2. ld(h1, b, NEXT) = ld(h, b, NEXT)
      BY <1>8, <2>1, Zenon DEF Same
    <2>. QED BY <1>2, <1>8, <2>1, <2>2, Zenon DEF next
  <1>10. Absorbed(k, h1, C, G, b, n)
    BY <1>1, <1>8, <1>9, AbsorbWhole, Zenon
  <1>11. /\ Whole(k, C \ {n}, G) /\ k.spill = h1.spill
         /\ ld(k, b, NEXT) = ld(h1, b, NEXT) + ld(h1, n, NEXT)
         /\ \A c \in C \ {b, n} : next(k, c) = next(h1, c)
         /\ Same(k, h1, C \ {b, n})
    BY <1>10, Zenon DEF Absorbed
  <1>12. Apart(k, G)
    <2>1. G \subseteq C
      BY <1>8, Zenon DEF Whole, FreeBlocks
    <2>2. \A c \in G : c \in C \ {b, n}
      BY <1>8, <1>9, <2>1, Zenon
    <2>. QED BY <1>8, <1>11, <2>2, Zenon DEF Apart
  <1>13. ld(k, b, NEXT) >= size + USED_HEADER_SIZE
    <2>1. ld(h1, n, NEXT) \in Nat
      BY <1>8, Places, Zenon
    <2>2. ld(k, b, NEXT) = ld(h, b, NEXT) + ld(h1, n, NEXT)
      BY <1>9, <1>11, Zenon
    <2>. QED BY <1>2, <1>5, <1>8, <2>1, <2>2 DEF USED_HEADER_SIZE
  <1>14. U \subseteq (C \ {n}) \ G /\ Same(k, h, U \ {b})
    <2>1. n \notin U
      BY <1>4, Zenon
    <2>2. U \subseteq (C \ {n}) \ G
      BY <1>8, <2>1, Zenon
    <2>3. Same(k, h, U \ {b})
      BY <1>8, <1>11, <2>2, Zenon DEF Same
    <2>. QED BY <2>2, <2>3, Zenon
  <1>15. k.spill \in {h.spill, END}
    BY <1>8, <1>11, Zenon
  <1>. HIDE DEF U
  <1>16. Grown(k, h, B, F, b, size)
    BY <1>11, <1>12, <1>13, <1>14, <1>15, Zenon DEF Grown, U
  <1>. QED BY <1>16, Zenon DEF k

(* A block but the first has one in front of it, where prev leads.         *)
LEMMA BeforeInHeap ==
  ASSUME GreatestExists, NEW h, NEW B, IsHeap(h), Tiling(h, B), NEW b \in B
  PROVE  /\ b = 0 => prev(h, b) = NULL
         /\ b # 0 => prev(h, b) \in B /\ prev(h, b) < b /\ next(h, prev(h, b)) = b
  <1>1. B \subseteq Nat /\ b \in Nat /\ END \in Nat /\ 0 \in B /\ ld(h, 0, PREV) = 0
    BY HeapAssumption, Zenon DEF Tiling, Spaced
  <1>2. b = 0 => prev(h, b) = NULL
    BY <1>1, Zenon DEF prev
  <1>3. ASSUME b # 0
        PROVE  prev(h, b) \in B /\ prev(h, b) < b /\ next(h, prev(h, b)) = b
    <2>. DEFINE S == {c \in B : c < b}
    <2>1. 0 \in S
      BY <1>1, <1>3
    <2>2. PICK p \in S : \A c \in S : c <= p
      <3>1. S \in SUBSET Nat /\ S # {}
        BY <1>1, <2>1, Zenon
      <3>2. \A c \in S : c <= b
        BY <1>1
      <3>. HIDE DEF S
      <3>. QED BY <1>1, <3>1, <3>2, Zenon DEF GreatestExists
    <2>3. p \in B /\ p \in Nat /\ p \in Int /\ p < b /\ Succ(B, p, next(h, p))
      BY <1>1 DEF Tiling
    <2>4. next(h, p) \in Nat /\ p < next(h, p) /\ next(h, p) \in B \cup {END} /\ next(h, p) <= b
      BY <1>1, <2>3, SuccFacts, Zenon
    <2>5. b + 5 <= END
      BY TilePlaces, Zenon
    <2>6. next(h, p) = b
      BY <1>1, <2>2, <2>3, <2>4, <2>5
    <2>7. ld(h, b, PREV) = ld(h, p, NEXT) /\ b = p + ld(h, p, NEXT) /\ ld(h, p, NEXT) \in Nat
      <3>1. b # END
        BY <1>1, <2>5
      <3>2. ld(h, b, PREV) = ld(h, p, NEXT)
        <4>0. \A c \in B : next(h, c) # END => ld(h, next(h, c), PREV) = ld(h, c, NEXT)
          BY Zenon DEF Tiling
        <4>1. next(h, p) # END => ld(h, next(h, p), PREV) = ld(h, p, NEXT)
          BY <2>3, <4>0, Zenon
        <4>. QED BY <2>6, <3>1, <4>1, Zenon
      <3>3. next(h, p) = p + ld(h, p, NEXT) /\ ld(h, p, NEXT) \in Nat
        BY <2>3, TilePlaces, Zenon
      <3>. QED BY <2>6, <3>2, <3>3, Zenon
    <2>8. prev(h, b) = p
      BY <1>1, <2>3, <2>7 DEF prev
    <2>. QED BY <2>3, <2>6, <2>8, Zenon
  <1>. QED BY <1>2, <1>3, Zenon

(* The recursion of BlocksOf: whether it stops at b, and its body.         *)
Stops(h, b) == b = END \/ ld(h, b, NEXT) = 0 \/ next(h, b) \notin 0 .. END
FromBody(h, f) ==
  [b \in 0 .. END |-> IF Stops(h, b) THEN {b} ELSE {b} \cup f[next(h, b)]]

IsFrom(h, f) == f = FromBody(h, f)

(* What can be reached from b, as the least set that next does not leave.  *)
Onward(h, T) == \A d \in T : ~Stops(h, d) => next(h, d) \in T
Reach(h, b) ==
  {c \in 0 .. END : \A T \in SUBSET (0 .. END) : b \in T /\ Onward(h, T) => c \in T}

(* It is what the recursion asks for.                                      *)
LEMMA ReachStep ==
  ASSUME NEW h, NEW b \in 0 .. END
  PROVE  Reach(h, b) = IF Stops(h, b) THEN {b} ELSE {b} \cup Reach(h, next(h, b))
  <1>1. b \in Reach(h, b)
    BY Zenon DEF Reach
  <1>2. CASE Stops(h, b)
    <2>1. \A d \in {b} : ~Stops(h, d) => next(h, d) \in {b}
      BY <1>2, Zenon
    <2>2. Onward(h, {b}) /\ {b} \in SUBSET (0 .. END) /\ b \in {b}
      <3>1. Onward(h, {b})
        BY <2>1, Zenon DEF Onward
      <3>. QED BY <3>1, Zenon
    <2>3. \A c \in Reach(h, b) : c \in {b}
      BY <2>2, Zenon DEF Reach
    <2>. QED BY <1>1, <1>2, <2>3, Zenon
  <1>3. CASE ~Stops(h, b)
    <2>. DEFINE n == next(h, b)
    <2>1. n \in 0 .. END
      BY <1>3, Zenon DEF Stops
    <2>2. ASSUME NEW c \in Reach(h, b), c # b PROVE c \in Reach(h, n)
      <3>0. c \in 0 .. END
        BY Zenon DEF Reach
      <3>. SUFFICES ASSUME NEW T \in SUBSET (0 .. END), n \in T, Onward(h, T) PROVE c \in T
        BY <3>0, Zenon DEF Reach
      <3>1. Onward(h, T \cup {b}) /\ T \cup {b} \in SUBSET (0 .. END) /\ b \in T \cup {b}
        BY Zenon DEF Onward
      <3>2. c \in T \cup {b}
        BY <3>1, Zenon DEF Reach
      <3>. QED BY <2>2, <3>2, Zenon
    <2>3. ASSUME NEW c \in Reach(h, n) PROVE c \in Reach(h, b)
      <3>0. c \in 0 .. END
        BY Zenon DEF Reach
      <3>. SUFFICES ASSUME NEW T \in SUBSET (0 .. END), b \in T, Onward(h, T) PROVE c \in T
        BY <3>0, Zenon DEF Reach
      <3>1. n \in T
        BY <1>3, Zenon DEF Onward
      <3>. QED BY <3>1, Zenon DEF Reach
    <2>. QED BY <1>1, <1>3, <2>2, <2>3, Zenon
  <1>. QED BY <1>2, <1>3, Zenon

(* So BlocksOf takes the value at the base of a function of that kind.     *)
LEMMA BlocksDef ==
  ASSUME NEW h
  PROVE  \E f : IsFrom(h, f) /\ BlocksOf(h) = f[0]
  <1>. DEFINE w == [b \in 0 .. END |-> Reach(h, b)]
              f == CHOOSE f : f = FromBody(h, f)
  <1>1. w = FromBody(h, w)
    <2>1. ASSUME NEW b \in 0 .. END
          PROVE  Reach(h, b) = IF Stops(h, b) THEN {b} ELSE {b} \cup w[next(h, b)]
      <3>1. ~Stops(h, b) => next(h, b) \in 0 .. END
        BY Zenon DEF Stops
      <3>. QED BY <3>1, ReachStep, Zenon
    <2>. QED BY <2>1, Zenon DEF FromBody
  <1>2. f = FromBody(h, f)
    <2>. HIDE DEF w
    <2>. QED BY <1>1, Zenon
  <1>3. BlocksOf(h) = f[0]
    BY Zenon DEF BlocksOf, FromBody, Stops
  <1>. HIDE DEF f
  <1>4. IsFrom(h, f)
    BY <1>2, Zenon DEF IsFrom
  <1>. QED BY <1>3, <1>4, Zenon

(* The function at one place.                                              *)
FromIs(h, f, b) ==
  /\ Stops(h, b) => f[b] = {b}
  /\ ~Stops(h, b) => f[b] = {b} \cup f[next(h, b)]

(* Its value is that of its body.                                          *)
LEMMA FromAt ==
  ASSUME NEW h, NEW f, IsFrom(h, f), NEW b \in 0 .. END
  PROVE  FromIs(h, f, b)
  <1>1. FromBody(h, f)[b] = IF Stops(h, b) THEN {b} ELSE {b} \cup f[next(h, b)]
    BY Zenon DEF FromBody
  <1>2. f[b] = FromBody(h, f)[b]
    BY Zenon DEF IsFrom
  <1>. QED BY <1>1, <1>2, Zenon DEF FromIs

(* The blocks that tile the heap are those that BlocksOf finds, walking    *)
(* along next from the base.                                               *)
LEMMA BlocksAre ==
  ASSUME GreatestExists, NEW h, NEW B, IsHeap(h), Tiling(h, B)
  PROVE  BlocksOf(h) = B \cup {END}
  <1>1. PICK f : IsFrom(h, f) /\ BlocksOf(h) = f[0]
    BY BlocksDef, Zenon
  <1>2. /\ END \in Nat /\ 0 \in B /\ B \subseteq Nat /\ \A b \in B : b < END /\ b \in 0 .. END
    BY HeapAssumption DEF Tiling, Spaced
  <1>. DEFINE Upper(b) == {c \in B \cup {END} : b <= c}
              D == {b \in B \cup {END} : f[b] # Upper(b)}
  <1>3. f[END] = Upper(END)
    <2>1. END \in 0 .. END /\ Stops(h, END)
      BY <1>2 DEF Stops
    <2>2. f[END] = {END}
      <3>1. FromIs(h, f, END)
        BY <1>1, <2>1, FromAt, Zenon
      <3>. QED BY <2>1, <3>1, Zenon DEF FromIs
    <2>3. \A c : c \in Upper(END) <=> c = END
      <3>1. END <= END /\ \A c \in B : ~(END <= c)
        BY <1>2
      <3>. QED BY <3>1, Zenon
    <2>. QED BY <2>2, <2>3, Zenon
  <1>4. D = {}
    <2>. SUFFICES ASSUME D # {} PROVE FALSE
      BY Zenon
    <2>1. D \in SUBSET Nat
      <3>1. \A b \in B \cup {END} : b \in Nat
        BY <1>2, Zenon
      <3>. QED BY <3>1, Zenon
    <2>2. \A b \in D : b <= END
      <3>1. \A b \in B \cup {END} : b <= END
        BY <1>2
      <3>. QED BY <3>1, Zenon
    <2>3. PICK b \in D : \A c \in D : c <= b
      <3>1. END \in Nat /\ D # {}
        BY <1>2, Zenon
      <3>. HIDE DEF D
      <3>. QED BY <3>1, <2>1, <2>2, Zenon DEF GreatestExists
    <2>4. b \in B /\ f[b] # Upper(b)
      BY <1>3, Zenon
    <2>. DEFINE n == next(h, b)
    <2>5. /\ b \in Nat /\ n \in Nat /\ b < n /\ n <= END /\ n \in B \cup {END} /\ n = b + ld(h, b, NEXT)
          /\ \A c \in B : b < c => n <= c
      BY <2>4, TilePlaces
    <2>6. ~Stops(h, b) /\ b \in 0 .. END
      BY <1>2, <2>4, <2>5 DEF Stops
    <2>7. f[b] = {b} \cup f[n]
      <3>1. FromIs(h, f, b)
        BY <1>1, <2>6, FromAt, Zenon
      <3>. QED BY <2>6, <3>1, Zenon DEF FromIs
    <2>8. f[n] = Upper(n)
      BY <2>3, <2>5
    <2>9. Upper(b) = {b} \cup Upper(n)
      <3>1. \A c \in B \cup {END} : c \in Nat /\ (b <= c <=> c = b \/ n <= c)
        BY <1>2, <2>4, <2>5
      <3>. QED BY <2>4, <3>1, Zenon
    <2>. QED BY <2>4, <2>7, <2>8, <2>9, Zenon
  <1>5. f[0] = Upper(0)
    BY <1>2, <1>4, Zenon
  <1>6. \A c \in B \cup {END} : 0 <= c
    BY <1>2
  <1>7. Upper(0) = B \cup {END}
    BY <1>6, Zenon
  <1>. QED BY <1>1, <1>5, <1>7, Zenon

(* What a caller holds at p: a block of U, as long as was asked for.       *)
Held(h, U, p, l) ==
  /\ p \in Int /\ PTR_BLOCK(p) \in U
  /\ ld(h, PTR_BLOCK(p), NEXT) >= l.len + USED_HEADER_SIZE
  /\ l.page => get_align(p) = 0
Holds(h, l, U) == \A p \in DOMAIN l : Held(h, U, p, l[p])

(* The heap between calls, and while free looks for the neighbours of b.   *)
Quiet(h, l, B, F) == Whole(h, B, F) /\ Apart(h, F) /\ Holds(h, l, B \ F)
Freed(h, l, B, F, b) ==
  Pending(h, B, F, b) /\ Apart(h, F) /\ Holds(h, l, (B \ F) \ {b})

(* Behind its padding a block is on the boundary.                          *)
LEMMA PaddingFacts ==
  ASSUME NEW b \in Nat
  PROVE  /\ Padding(b) \in Nat /\ get_align(BLOCK_PTR(b + Padding(b))) = 0
         /\ Padding(b) = IF get_align(BLOCK_PTR(b)) = 0 THEN 0 ELSE Align - get_align(BLOCK_PTR(b))
  <1>. DEFINE x == BASE + (b + 3)
              A == Align
              r == x % A
              q == x \div A
  <1>1. x \in Nat /\ A \in Nat \ {0}
    BY HeapAssumption
  <1>2. get_align(BLOCK_PTR(b)) = r
    BY Zenon DEF get_align, BLOCK_PTR, USED_HEADER_SIZE
  <1>. HIDE DEF x, A
  <1>3. q \in Nat /\ r \in Nat /\ r < A /\ x = A * q + r
    BY <1>1
  <1>. HIDE DEF r, q
  <1>4. Padding(b) = IF r = 0 THEN 0 ELSE A - r
    BY <1>2, Zenon DEF Padding, A
  <1>5. Padding(b) \in Nat
    BY <1>1, <1>3, <1>4
  <1>6. get_align(BLOCK_PTR(b + Padding(b))) = (x + Padding(b)) % A
    <2>1. BASE + ((b + Padding(b)) + 3) = x + Padding(b)
      BY <1>5, HeapAssumption DEF x
    <2>. QED BY <2>1, Zenon DEF get_align, BLOCK_PTR, USED_HEADER_SIZE, A
  <1>7. CASE r = 0
    <2>1. x + Padding(b) = x
      BY <1>1, <1>4, <1>7
    <2>2. x % A = 0
      BY <1>7, Zenon DEF r
    <2>. QED BY <1>2, <1>4, <1>5, <1>6, <1>7, <2>1, <2>2, Zenon DEF A
  <1>8. CASE r # 0
    <2>1. x + Padding(b) = (q + 1) * A /\ q + 1 \in Int
      <3>1. (q + 1) * A = A * q + A
        BY <1>1, <1>3
      <3>2. A * q \in Int
        BY <1>1, <1>3
      <3>. QED BY <1>1, <1>3, <1>4, <1>8, <3>1, <3>2
    <2>2. ((q + 1) * A) % A = 0
      BY <1>1, <2>1
    <2>. QED BY <1>2, <1>4, <1>5, <1>6, <1>8, <2>1, <2>2 DEF A
  <1>. QED BY <1>7, <1>8, Zenon

(* What callers hold, they still hold in a heap that has the same blocks.  *)
LEMMA HoldsKept ==
  ASSUME NEW h, NEW k, NEW l, NEW U, NEW V, Holds(h, l, U), Same(k, h, U), U \subseteq V
  PROVE  Holds(k, l, V)
  BY Zenon DEF Holds, Held, Same

(* What is held, with e at p.                                              *)
With(l, p, e) == [q \in DOMAIN l \cup {p} |-> IF q = p THEN e ELSE l[q]]

(* So does a caller that gets a block, beside them.                        *)
LEMMA HoldsMore ==
  ASSUME NEW h, NEW l, NEW U, Holds(h, l, U), NEW p, NEW e, Held(h, U, p, e)
  PROVE  Holds(h, With(l, p, e), U)
  BY Zenon DEF Holds, With

(* The list starts with a free block, or is empty.                         *)
LEMMA HeadIn ==
  ASSUME NEW h, NEW B, NEW F, Whole(h, B, F)
  PROVE  h.free \in F \cup {END}
  BY Zenon DEF Whole, Listing, Succ

(* A block that was free is granted, beside those that callers hold.       *)
Granted(k, l, B, F, b, x) ==
  \E C, G : /\ Quiet(k, l, C, G) /\ b \in C \ G /\ b \in Nat /\ ld(k, b, NEXT) >= x
            /\ B \ F \subseteq C \ G

(* The caller holds it.                                                    *)
LEMMA GrantHeld ==
  ASSUME NEW k, NEW l, NEW C, NEW G, Quiet(k, l, C, G), NEW b \in C \ G, b \in Nat,
         NEW e, ld(k, b, NEXT) >= e.len + USED_HEADER_SIZE,
         e.page => get_align(BLOCK_PTR(b)) = 0
  PROVE  Quiet(k, With(l, BLOCK_PTR(b), e), C, G)
  <1>. DEFINE p == BLOCK_PTR(b)
  <1>1. p \in Int /\ PTR_BLOCK(p) = b
    BY DEF BLOCK_PTR, PTR_BLOCK, USED_HEADER_SIZE
  <1>2. e.page => get_align(p) = 0
    BY Zenon
  <1>. HIDE DEF p
  <1>3. Held(k, C \ G, p, e)
    BY <1>1, <1>2, Zenon DEF Held
  <1>4. Holds(k, With(l, p, e), C \ G)
    <2>1. Holds(k, l, C \ G)
      BY Zenon DEF Quiet
    <2>. QED BY <1>3, <2>1, HoldsMore, Zenon
  <1>5. Quiet(k, With(l, p, e), C, G)
    BY <1>4, Zenon DEF Quiet
  <1>. QED BY <1>5, Zenon DEF p

(* prev leads to a block in front, with none in between.                   *)
LEMMA BeforeStep ==
  ASSUME GreatestExists, NEW h, NEW B, NEW F, IsHeap(h), Tiling(h, B), F \subseteq B, B \subseteq Nat, NEW b \in B
  PROVE  /\ prev(h, b) \in B \cup {NULL} /\ prev(h, b) < b
         /\ \A c \in F : c < b => c <= prev(h, b)
  <1>0. b \in Nat /\ END \in Nat
    BY HeapAssumption, Zenon
  <1>1. CASE b = 0
    <2>1. prev(h, b) = NULL
      BY <1>1, BeforeInHeap, Zenon
    <2>2. NULL < b
      BY <1>1 DEF NULL
    <2>3. \A c \in F : ~(c < b)
      BY <1>1
    <2>. QED BY <2>1, <2>2, <2>3, Zenon
  <1>2. CASE b # 0
    <2>1. PICK p : p = prev(h, b)
      BY Zenon
    <2>2. p \in B /\ p < b /\ next(h, p) = b
      BY <1>2, <2>1, BeforeInHeap
    <2>3. \A c \in B : p < c => b <= c
      BY <2>2, TilePlaces, Zenon
    <2>4. p \in Nat
      BY <2>2, Zenon
    <2>5. \A c \in F : c < b => c <= p
      <3>. SUFFICES ASSUME NEW c \in F, c < b PROVE c <= p
        BY Zenon
      <3>1. c \in Nat /\ (p < c => b <= c)
        BY <2>3, Zenon
      <3>. QED BY <1>0, <2>4, <3>1
    <2>. QED BY <2>1, <2>2, <2>5, Zenon
  <1>. QED BY <1>1, <1>2, Zenon

(* The heap while free looks for the neighbours of b.                      *)
LEMMA FreedFacts ==
  ASSUME NEW h, NEW l, NEW B, NEW F, NEW b, Freed(h, l, B, F, b)
  PROVE  /\ IsHeap(h) /\ Tiling(h, B) /\ F \subseteq B /\ B \subseteq Nat /\ END \in Nat
         /\ b \in B /\ b \in Nat /\ b \notin F /\ (\A c \in B : c < END /\ c \in Nat)
         /\ \A c \in B : ld(h, c, USED) = 0 <=> c \in F \cup {b}
         /\ F # {} => Linked(h, B, F) /\ h.free \in F /\ h.free < b
  <1>1. Pending(h, B, F, b)
    BY Zenon DEF Freed
  <1>2. IsHeap(h) /\ Tiling(h, B) /\ b \in B /\ b \notin F /\ F \cup {b} = FreeBlocks(h, B)
    BY <1>1, Zenon DEF Pending
  <1>3. B \subseteq Nat /\ END \in Nat /\ \A c \in B : c + 5 <= END
    BY <1>2, HeapAssumption, Zenon DEF Tiling, Spaced
  <1>4. \A c \in B : ld(h, c, USED) = 0 <=> c \in F \cup {b}
    BY <1>2, Zenon DEF FreeBlocks
  <1>5. F \subseteq B
    BY <1>2, Zenon DEF FreeBlocks
  <1>6. \A c \in B : c < END /\ c \in Nat
    BY <1>3
  <1>7. ASSUME F # {}
        PROVE  Linked(h, B, F) /\ h.free \in F /\ h.free < b
    <2>1. Listing(h, F) /\ h.free < b
      BY <1>1, <1>7, Zenon DEF Pending
    <2>2. h.free \in F \cup {END}
      BY <2>1, Zenon DEF Listing, Succ
    <2>3. h.free # END
      BY <1>2, <1>3, <1>6, <2>1
    <2>. QED BY <1>2, <1>5, <2>1, <2>2, <2>3, Zenon DEF Linked
  <1>. QED BY <1>2, <1>3, <1>4, <1>5, <1>6, <1>7, Zenon
=============================================================================
