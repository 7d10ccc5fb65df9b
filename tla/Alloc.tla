-------------------------------- MODULE Alloc --------------------------------
(***************************************************************************)
(* rtprog/alloc.c: the allocator, out of which come the memory of the      *)
(* processes (alloc) and the pages of their translation tables             *)
(* (aligned_alloc); realloc has no caller yet and is modelled for callers  *)
(* that ask for more.  Calls are made with interrupts masked, one at a     *)
(* time; a call is split where its loops turn.                             *)
(***************************************************************************)
EXTENDS Heap, FiniteSets

CONSTANTS
  Lens,      \* what is asked of alloc
  PageLens,  \* what is asked of aligned_alloc
  Growth,    \* by how much realloc is asked to enlarge a block
  Values,    \* what callers write to the memory they hold
  MaxLive    \* bound: blocks that are in use at a time

(* Processes ask for any number of cells, mmu.c for a page.                *)
ASSUME AllocAssumption ==
  /\ Lens \subseteq Nat /\ PageLens \subseteq Nat \ {0, 1}
  /\ Growth \subseteq Nat \ {0} /\ MaxLive \in Nat
  /\ Values \subseteq 0 .. WORD - 1

VARIABLES
  mem,    \* the cells
  free,   \* alloc_t.free
  live,   \* what the callers hold: pointer -> length and alignment
  spoiled, \* history: a call was made that this allocator cannot serve
  spill,  \* history: the head of the free list when the last call stored the
          \* prev_free of END, past the heap; or NULL
  halt,   \* "no"; "wild" after an access outside the heap or a chain that
          \* never ends; "assert" after a KASSERT
  pc,     \* the loop that a call is in, or "idle"
  req,    \* the call: its name, and its len and ptr
  curr, best, \* locals of alloc and aligned_alloc
  nxt, prv    \* locals n and p of free

locals == <<curr, best, nxt, prv>>
vars == <<mem, free, live, spoiled, spill, halt, pc, req, locals>>

-----------------------------------------------------------------------------
heap == [mem |-> mem, free |-> free, spill |-> NULL, bad |-> FALSE]

(* Cells that belong to no header have what their owner left there, which  *)
(* the allocator does not look at.                                         *)
Becomes(h) ==
  /\ \E w \in [Cells -> Values], hs \in {Headers(h)} :
       mem' = [c \in Cells |-> IF c \in hs THEN h.mem[c] ELSE w[c]]
  /\ free' = h.free /\ spill' = h.spill
  /\ halt' = IF h.bad THEN "wild" ELSE "no"
Untouched == UNCHANGED <<mem, free, halt>> /\ spill' = NULL

(* Where a call is, and what it was called with.                           *)
Call(op, len, ptr) == [op |-> op, len |-> len, ptr |-> ptr]
Idle == Call("none", 0, NULL)
Return == pc' = "idle" /\ req' = Idle /\ curr' = NULL /\ best' = NULL /\ nxt' = NULL /\ prv' = NULL
Search(r) ==
  /\ pc' = "fit" /\ req' = r /\ curr' = free /\ best' = NULL
  /\ UNCHANGED <<nxt, prv>>

(* kern_map_create asks for the first page, for the kernel's tables, and   *)
(* keeps it.                                                               *)
Init ==
  /\ mem = alloc_init.mem /\ free = 0 /\ live = [p \in {} |-> 0]
  /\ spoiled = FALSE /\ spill = NULL /\ halt = "no"
  /\ pc = "fit" /\ req \in {Call("kernel", len, NULL) : len \in PageLens}
  /\ curr = 0 /\ best = NULL /\ nxt = NULL /\ prv = NULL

Request == halt = "no" /\ pc = "idle" /\ Cardinality(DOMAIN live) < MaxLive

(* schedule_req and spawn ask for the memory of a process.                 *)
AllocMem ==
  /\ Request
  /\ \E len \in Lens : Search(Call("alloc", len, NULL))
  /\ Untouched /\ UNCHANGED <<live, spoiled>>

(* pt_alloc_page_or_die asks for a page.                                   *)
AllocPage ==
  /\ Request
  /\ \E len \in PageLens : Search(Call("page", len, NULL))
  /\ Untouched /\ UNCHANGED <<live, spoiled>>

xlen == req.len + USED_HEADER_SIZE
OnBoundary == req.op \in {"kernel", "page"}

(* Whether the loops of alloc and of aligned_alloc prefer c to best.       *)
Smaller(c) == best = NULL \/ ld(heap, best, NEXT) > ld(heap, c, NEXT)
Fits_Any(c) == Smaller(c)
Fits(c) == ld(heap, c, NEXT) >= xlen /\ Smaller(c)
FitsAligned(c) ==
  LET ca == get_align(BLOCK_PTR(c))
  IN  /\ ld(heap, c, NEXT) >= xlen
      /\ \/ ca = 0 /\ Smaller(c)
         \/ ld(heap, c, NEXT) >= (Align - ca) + xlen

Prefers(c) == IF OnBoundary THEN FitsAligned(c) ELSE Fits(c)

(* Whether a link from c leads on inside the heap.                         *)
LeadsOn(c, d) == d \in 0 .. END /\ d # c

FindFit ==
  /\ halt = "no" /\ pc = "fit" /\ curr # END
  /\ best' = IF Prefers(curr) THEN curr ELSE best
  /\ curr' = nfree(heap, curr)
  /\ halt' = IF LeadsOn(curr, curr') THEN "no" ELSE "wild"
  /\ UNCHANGED <<mem, free, live, spoiled, spill, pc, req, nxt, prv>>

NoFit ==
  /\ halt = "no" /\ pc = "fit" /\ curr = END /\ best = NULL
  /\ Return /\ Untouched /\ UNCHANGED <<live, spoiled>>

(* What the callers hold once p is theirs, or no more.                     *)
Holding(p, len, page) ==
  [q \in DOMAIN live \cup {p} |-> IF q = p THEN [len |-> len, page |-> page] ELSE live[q]]
Without(l, p) == [q \in DOMAIN l \ {p} |-> l[q]]

(* The block is chosen: the ends of alloc and of aligned_alloc, and of     *)
(* alloc for realloc, which goes on with the old block.                    *)
Chosen == halt = "no" /\ pc = "fit" /\ curr = END /\ best # NULL
TakeMem ==
  /\ Chosen /\ req.op = "alloc"
  /\ Becomes(Carve(heap, best, xlen))
  /\ live' = Holding(BLOCK_PTR(best), req.len, FALSE)
  /\ spoiled' = (spoiled \/ ShortRequest(heap, best, xlen))
  /\ Return
TakePage ==
  /\ Chosen /\ OnBoundary
  /\ Becomes(Carve(Aligned(heap, best), best + Padding(best), xlen))
  /\ live' = IF req.op = "kernel" THEN live
             ELSE Holding(BLOCK_PTR(best + Padding(best)), req.len, TRUE)
  /\ spoiled' = (spoiled \/ ShortPrefix(best))
  /\ Return
TakeNew ==
  /\ Chosen /\ req.op = "realloc"
  /\ Becomes(Carve(heap, best, xlen))
  /\ live' = Without(Holding(BLOCK_PTR(best), req.len, FALSE), req.ptr)
  /\ pc' = "drop" /\ curr' = NULL /\ best' = NULL
  /\ UNCHANGED <<spoiled, req, nxt, prv>>

Asserted(p) == p < END /\ p > 0 /\ ld(heap, PTR_BLOCK(p), USED) = 1
Fails ==
  /\ halt' = "assert" /\ spill' = NULL
  /\ UNCHANGED <<mem, free, live, spoiled, pc, req, locals>>
Release(p) ==
  /\ Becomes(released(heap, PTR_BLOCK(p)))
  /\ pc' = "next" /\ nxt' = next(heap, PTR_BLOCK(p))
  /\ spoiled' = (spoiled \/ BelowFirst(heap, PTR_BLOCK(p)))
  /\ UNCHANGED <<curr, best, prv>>

(* exit returns the memory, mmu_map_destroy the pages.                     *)
Free ==
  /\ halt = "no" /\ pc = "idle"
  /\ \E p \in DOMAIN live :
       \/ ~Asserted(p) /\ Fails
       \/ /\ Asserted(p) /\ Release(p)
          /\ req' = Call("free", 0, p) /\ live' = Without(live, p)

(* realloc has copied what was in the old block, and returns it.           *)
Drop ==
  /\ halt = "no" /\ pc = "drop"
  /\ \/ ~Asserted(req.ptr) /\ Fails
     \/ Asserted(req.ptr) /\ Release(req.ptr) /\ UNCHANGED <<req, live>>

(* The loops of free.                                                      *)
FindNext ==
  /\ halt = "no" /\ pc = "next" /\ nxt # END /\ ld(heap, nxt, USED) # 0
  /\ nxt' = next(heap, nxt)
  /\ halt' = IF LeadsOn(nxt, nxt') THEN "no" ELSE "wild"
  /\ UNCHANGED <<mem, free, live, spoiled, spill, pc, req, curr, best, prv>>
AtNext ==
  /\ halt = "no" /\ pc = "next" /\ (nxt = END \/ ld(heap, nxt, USED) = 0)
  /\ \/ nxt # END /\ prv' = pfree(heap, nxt) /\ pc' = "link"
     \/ nxt = END /\ prv' = prev(heap, PTR_BLOCK(req.ptr)) /\ pc' = "prev"
  /\ UNCHANGED <<mem, free, live, spoiled, spill, halt, req, curr, best, nxt>>
FindPrev ==
  /\ halt = "no" /\ pc = "prev" /\ prv # NULL /\ ld(heap, prv, USED) # 0
  /\ prv' = prev(heap, prv)
  /\ UNCHANGED <<mem, free, live, spoiled, spill, halt, pc, req, curr, best, nxt>>
Link ==
  /\ halt = "no"
  /\ pc = "link" \/ (pc = "prev" /\ (prv = NULL \/ ld(heap, prv, USED) = 0))
  /\ LET b == PTR_BLOCK(req.ptr)
     IN  Becomes(coalesced(relinked(heap, b, nxt, prv), b, nxt, prv))
  /\ Return /\ UNCHANGED <<live, spoiled>>

(* A caller asks for more than its block has; bound: once for each block.  *)
Realloc ==
  /\ halt = "no" /\ pc = "idle"
  /\ \E p \in DOMAIN live, g \in Growth :
       LET b == PTR_BLOCK(p)
           size == ld(heap, b, NEXT) - USED_HEADER_SIZE + g
       IN  /\ ~live[p].page /\ live[p].len \in Lens
           /\ \/ ~Asserted(p) /\ Fails
              \/ /\ Asserted(p) /\ InPlace(heap, b, size)
                 /\ Becomes(grown(heap, b, size))
                 /\ live' = Holding(p, size, FALSE)
                 /\ spoiled' = (spoiled \/ ShortGrowth(heap, b, size))
                 /\ UNCHANGED <<pc, req, locals>>
              \/ /\ Asserted(p) /\ ~InPlace(heap, b, size)
                 /\ Search(Call("realloc", size, p))
                 /\ Untouched /\ UNCHANGED <<live, spoiled>>

Next ==
  \/ AllocMem \/ AllocPage \/ FindFit \/ NoFit
  \/ TakeMem \/ TakePage \/ TakeNew
  \/ Free \/ Drop \/ FindNext \/ AtNext \/ FindPrev \/ Link
  \/ Realloc

Spec == Init /\ [][Next]_vars

-----------------------------------------------------------------------------
(* Properties.                                                             *)

Blocks == BlocksOf(heap)
Unused == {b \in Blocks \ {END} : mem[b + USED] = 0}
Freeing == pc \in {"next", "prev", "link"}

(* The comment on prev_free, and the assertions of free: no call leaves    *)
(* the heap or follows a link that leads nowhere, and free finds a block   *)
(* in use, for pointers that were handed out and not returned.             *)
StaysInHeap == halt = "no"

(* The same, as long as no call was made that the allocator cannot serve:  *)
(* also after the last free block was taken and the list was empty.  The   *)
(* one store past the heap is that of use_block when it empties the list.  *)
StaysUnlessSpoiled == ~spoiled => halt = "no" /\ spill \in {NULL, END}

(* The blocks tile the heap from base to end, next and prev agree, and no  *)
(* two neighbours are both free: free has merged them.                     *)
Tiled ==
  ~spoiled =>
    /\ END \in Blocks
    /\ \A b \in Blocks \ {END} :
         LET n == next(heap, b)
         IN  /\ n # END => mem[n + PREV] = mem[b + NEXT]
             /\ n # END /\ ~Freeing => mem[b + USED] = 1 \/ mem[n + USED] = 1

(* c follows b among the unused blocks and the end.                        *)
Follows(b, c) ==
  /\ b < c /\ c \in Unused \cup {END}
  /\ \A d \in Unused : d <= b \/ c <= d

(* The free list holds the unused blocks, each once and in the order of    *)
(* their addresses, and its links back are its links forth.                *)
FreeListed ==
  ~spoiled /\ ~Freeing =>
    /\ Follows(-1, free)
    /\ free # END => mem[free + PFREE] = 0
    /\ \A b \in Unused :
         LET n == nfree(heap, b)
         IN  Follows(b, n) /\ (n # END => pfree(heap, n) = b)

(* What a caller holds is its own: a block in use that is as long as was   *)
(* asked for, with a page on its boundary.  With Tiled, no two overlap.    *)
LiveKept ==
  \A p \in DOMAIN live :
    LET b == PTR_BLOCK(p)
    IN  ~spoiled =>
          /\ b \in Blocks \ {END} /\ mem[b + USED] = 1
          /\ mem[b + NEXT] >= live[p].len + USED_HEADER_SIZE
          /\ live[p].page => get_align(p) = 0
=============================================================================
