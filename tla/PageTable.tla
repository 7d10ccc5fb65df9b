----------------------------- MODULE PageTable -----------------------------
(***************************************************************************)
(* Translation tables (mmu.c): trees of pages that are taken from the      *)
(* allocator as ranges are mapped and given back when the map of a process *)
(* is destroyed.  A call is split where its loops turn round: a step goes  *)
(* down one level of a tree, stores one page, or passes one entry of a     *)
(* table that is freed.  The calls are made with interrupts masked, one at *)
(* a time.  Which page the allocator gives is module Alloc's affair.       *)
(***************************************************************************)
EXTENDS Integers, FiniteSets, Sequences

CONSTANTS
  Slots,       \* process slots, each with at most one map
  P0,          \* the slot of the kernel, whose map sched_init makes
  Pages,       \* pages for tables: addresses
  LEVELS, FAN, \* levels of a tree (4) and entries of a table (512)
  PAGE_SIZE,
  SPAN,        \* level_span_bytes: addresses below an entry, for each level
  UART,        \* the page of the UART
  Gic,         \* the distributor and the redistributor frames: <<base, length>>
  CODE_0, KEND,   \* the kernel is at CODE_0 .. KEND - 1
  MEM_0, MEM_END, \* the allocator's memory, MEM_END included
  Images       \* programs: <<physical base, length>>

NULL == 0
Down(a) == a - (a % PAGE_SIZE)
Up(a) == Down(a + PAGE_SIZE - 1)

(* The tree: the entries of a table share out what one entry of the table  *)
(* above spans, and those of the last level span a page each.              *)
ASSUME TreeAssumption ==
  /\ P0 \in Slots /\ Pages \subseteq Nat \ {NULL}
  /\ LEVELS \in Nat \ {0} /\ FAN \in Nat \ {0} /\ PAGE_SIZE \in Nat \ {0}
  /\ SPAN \in [0 .. LEVELS - 1 -> Nat \ {0}] /\ SPAN[LEVELS - 1] = PAGE_SIZE
  /\ \A l \in 1 .. LEVELS - 1 : SPAN[l - 1] = FAN * SPAN[l]

(* memory_layout.h and mmu.h: what is mapped is within reach of the tree,  *)
(* the kernel is below the allocator's memory, and the interrupt           *)
(* controller is between the largest image and the kernel.  A program may  *)
(* be anywhere, also at an address that is inside the kernel or a page.    *)
ASSUME LayoutAssumption ==
  /\ UART \in Nat /\ UART % PAGE_SIZE = 0 /\ UART + PAGE_SIZE <= FAN * SPAN[0]
  /\ CODE_0 \in Nat /\ CODE_0 % PAGE_SIZE = 0
  /\ KEND \in Nat /\ CODE_0 < KEND /\ KEND <= MEM_0
  /\ MEM_0 \in Nat /\ MEM_END \in Nat /\ MEM_0 <= MEM_END
  /\ Up(MEM_END + 1) <= FAN * SPAN[0]
  /\ Images \subseteq Nat \X Nat
  /\ Gic \in Seq(Nat \X Nat)
  /\ \A g \in DOMAIN Gic :
       /\ Up(Gic[g][1] + Gic[g][2]) <= CODE_0
       /\ \A img \in Images : img[2] <= Down(Gic[g][1])

VARIABLES
  tab,    \* contents of the table pages
  free,   \* pages the allocator has left
  mmap,   \* ctx.mmap of each slot, with the image it was made for
  halted, \* pt_alloc_page_or_die found no page: the kernel has stopped
  call,   \* the call under way: on which slot, for which image, its root
  r, va,  \* map_range_pages: which range, and its running address
  at, level, \* map_page: the table it has come to
  stack   \* free_table_level: table and i of each of its activations

tableVars == <<tab, free, mmap, halted, call, r, va, at, level, stack>>
cursor == <<r, va, at, level>>

(* Descriptors.  The attributes of a page are those of a process (the only *)
(* ones that are not global), of the kernel or of a device.                *)
Invalid == [kind |-> "invalid", to |-> NULL, attrs |-> "none"]
desc_table(p) == [kind |-> "table", to |-> p, attrs |-> "none"]
desc_page(pa, attrs) == [kind |-> "page", to |-> Down(pa), attrs |-> attrs]
Index == 0 .. FAN - 1
Zeroed == [i \in Index |-> Invalid]

NoImage == <<0, 0>>
Unmapped == [root |-> NULL, image |-> NoImage]
NoCall == [op |-> "none", on |-> P0, image |-> NoImage, root |-> NULL]

idx(v, l) == (v \div SPAN[l]) % FAN

-----------------------------------------------------------------------------
(* The ranges that are mapped, in order.  map_range_pages rounds the first *)
(* address down and the end up.                                            *)
map_range_pages_Short(v, pa, len, attrs) ==
  [va |-> Down(v), pa |-> Down(pa), end |-> Down(v + len), attrs |-> attrs]
map_range_pages(v, pa, len, attrs) ==
  [va |-> Down(v), pa |-> Down(pa), end |-> Up(v + len), attrs |-> attrs]

map_uart == map_range_pages(UART, UART, PAGE_SIZE, "dev")
map_gic == [g \in DOMAIN Gic |-> map_range_pages(Gic[g][1], Gic[g][1], Gic[g][2], "dev")]

build_process_map_Whole(base, len) ==
  LET k_end == IF base < KEND THEN base ELSE KEND
  IN  <<map_range_pages(0, base, CODE_0, "proc")>>
      \o (IF k_end > CODE_0 THEN <<map_range_pages(CODE_0, CODE_0, k_end - CODE_0, "kern")>> ELSE <<>>)
      \o <<map_range_pages(MEM_0, MEM_0, MEM_END + 1 - MEM_0, "kern"), map_uart>>
build_process_map(base, len) ==
  LET k_end == IF base < KEND THEN base ELSE KEND
  IN  <<map_range_pages(0, base, IF len < CODE_0 THEN len ELSE CODE_0, "proc")>>
      \o (IF k_end > CODE_0 THEN <<map_range_pages(CODE_0, CODE_0, k_end - CODE_0, "kern")>> ELSE <<>>)
      \o <<map_range_pages(MEM_0, MEM_0, MEM_END + 1 - MEM_0, "kern"), map_uart>>

build_kernel_map ==
  <<map_range_pages(CODE_0, CODE_0, MEM_END + 1 - CODE_0, "kern"), map_uart>> \o map_gic

Ranges(p, image) ==
  IF p = P0 THEN build_kernel_map ELSE build_process_map(image[1], image[2])
Todo == Ranges(call.on, call.image)

-----------------------------------------------------------------------------
TableInit ==
  /\ tab = [p \in Pages |-> Zeroed] /\ free = Pages
  /\ mmap = [p \in Slots |-> Unmapped]
  /\ halted = FALSE
  /\ call = NoCall
  /\ r = 0 /\ va = 0 /\ at = NULL /\ level = 0
  /\ stack = <<>>

(* The allocator has no page left, so the assertion stops the kernel.      *)
Die ==
  /\ free = {}
  /\ halted' = TRUE
  /\ UNCHANGED <<tab, free, mmap, call, cursor, stack>>

(* kern_map_create and proc_map_create: pt_root_new, then the first range. *)
map_create(p, img) ==
  /\ ~halted /\ call = NoCall /\ mmap[p] = Unmapped
  /\ \/ Die
     \/ \E root \in free :
          /\ tab' = [tab EXCEPT ![root] = Zeroed] /\ free' = free \ {root}
          /\ call' = [op |-> "map", on |-> p, image |-> img, root |-> root]
          /\ r' = 1 /\ va' = Ranges(p, img)[1].va
          /\ at' = root /\ level' = 0
          /\ UNCHANGED <<mmap, halted, stack>>
kern_map_create == map_create(P0, NoImage)
proc_map_create(p, img) == p # P0 /\ mmap[P0] # Unmapped /\ map_create(p, img)

(* Whether map_range_pages has a page to map.                              *)
Mapping == ~halted /\ call.op = "map" /\ va < Todo[r].end

(* map_page above the last level: the table below, made if there is none.  *)
ensure_next ==
  /\ Mapping /\ level < LEVELS - 1
  /\ LET i == idx(va, level)
     IN  \/ /\ tab[at][i] # Invalid
            /\ at' = tab[at][i].to /\ level' = level + 1
            /\ UNCHANGED <<tab, free, mmap, halted, call, r, va, stack>>
         \/ /\ tab[at][i] = Invalid
            /\ Die
         \/ /\ tab[at][i] = Invalid
            /\ \E p \in free :
                 /\ tab' = [tab EXCEPT ![p] = Zeroed, ![at][i] = desc_table(p)]
                 /\ free' = free \ {p}
                 /\ at' = p /\ level' = level + 1
            /\ UNCHANGED <<mmap, halted, call, r, va, stack>>

(* map_page at the last level, and on to the next page of the range.       *)
map_page ==
  /\ Mapping /\ level = LEVELS - 1
  /\ tab' = [tab EXCEPT ![at][idx(va, level)] =
                          desc_page(Todo[r].pa + (va - Todo[r].va), Todo[r].attrs)]
  /\ va' = va + PAGE_SIZE
  /\ at' = call.root /\ level' = 0
  /\ UNCHANGED <<free, mmap, halted, call, r, stack>>

next_range ==
  /\ ~halted /\ call.op = "map" /\ ~Mapping /\ r < Len(Todo)
  /\ r' = r + 1 /\ va' = Todo[r + 1].va
  /\ UNCHANGED <<tab, free, mmap, halted, call, at, level, stack>>

map_return ==
  /\ ~halted /\ call.op = "map" /\ ~Mapping /\ r = Len(Todo)
  /\ mmap' = [mmap EXCEPT ![call.on] = [root |-> call.root, image |-> call.image]]
  /\ call' = NoCall
  /\ r' = 0 /\ va' = 0 /\ at' = NULL /\ level' = 0
  /\ UNCHANGED <<tab, free, halted, stack>>

-----------------------------------------------------------------------------
(* mmu_map_destroy of the map of a process that exits: pt_root_free.       *)
Frame(t) == [table |-> t, i |-> 0]
mmu_map_destroy(p) ==
  /\ ~halted /\ call = NoCall /\ p # P0 /\ mmap[p] # Unmapped
  /\ call' = [op |-> "free", on |-> p, image |-> mmap[p].image, root |-> mmap[p].root]
  /\ stack' = <<Frame(mmap[p].root)>>
  /\ UNCHANGED <<tab, free, mmap, halted, cursor>>

top == stack[Len(stack)]
entry == tab[top.table][top.i]
Freeing == ~halted /\ call.op = "free"

(* free_table_level at an entry: a table below is freed first, and what is *)
(* valid is scrubbed.                                                      *)
enter_table ==
  /\ Freeing /\ top.i < FAN
  /\ entry.kind = "table" /\ Len(stack) < LEVELS
  /\ stack' = Append(stack, Frame(entry.to))
  /\ UNCHANGED <<tab, free, mmap, halted, call, cursor>>
scrub_entry_All ==
  /\ Freeing /\ top.i < FAN
  /\ tab' = [tab EXCEPT ![top.table][top.i] = Invalid]
  /\ stack' = [stack EXCEPT ![Len(stack)].i = @ + 1]
  /\ UNCHANGED <<free, mmap, halted, call, cursor>>
scrub_entry ==
  /\ Freeing /\ top.i < FAN
  /\ ~(entry.kind = "table" /\ Len(stack) < LEVELS)
  /\ tab' = [tab EXCEPT ![top.table][top.i] = Invalid]
  /\ stack' = [stack EXCEPT ![Len(stack)].i = @ + 1]
  /\ UNCHANGED <<free, mmap, halted, call, cursor>>

(* The end of free_table_level: the page goes back, and the activation     *)
(* above scrubs the entry that led to it.                                  *)
leave_table ==
  /\ Freeing /\ top.i = FAN /\ Len(stack) > 1
  /\ LET n == Len(stack) - 1
     IN  /\ tab' = [tab EXCEPT ![stack[n].table][stack[n].i] = Invalid]
         /\ stack' = [SubSeq(stack, 1, n) EXCEPT ![n].i = @ + 1]
  /\ free' = free \cup {top.table}
  /\ UNCHANGED <<mmap, halted, call, cursor>>
destroy_return ==
  /\ Freeing /\ top.i = FAN /\ Len(stack) = 1
  /\ free' = free \cup {top.table}
  /\ mmap' = [mmap EXCEPT ![call.on] = Unmapped]
  /\ call' = NoCall /\ stack' = <<>>
  /\ UNCHANGED <<tab, halted, cursor>>

TableNext ==
  \/ kern_map_create
  \/ \E p \in Slots, img \in Images : proc_map_create(p, img)
  \/ ensure_next \/ map_page \/ next_range \/ map_return
  \/ \E p \in Slots : mmu_map_destroy(p)
  \/ enter_table \/ scrub_entry \/ leave_table \/ destroy_return

TableSpec == TableInit /\ [][TableNext]_tableVars

-----------------------------------------------------------------------------
(* Properties.                                                             *)

(* The walk of the hardware: the descriptor it comes to, level by level.   *)
Translate(root, v) ==
  LET d[l \in 0 .. LEVELS] ==
        IF l = 0 THEN desc_table(root)
        ELSE IF d[l - 1] = Invalid THEN Invalid ELSE tab[d[l - 1].to][idx(v, l - 1)]
  IN  d[LEVELS]

(* The tables of a tree, level by level.                                   *)
TreeOf(root) ==
  LET t[l \in 0 .. LEVELS - 1] ==
        IF l = 0 THEN {root}
        ELSE {tab[e[1]][e[2]].to :
                e \in {x \in t[l - 1] \X Index : tab[x[1]][x[2]] # Invalid}}
  IN  UNION {t[l] : l \in 0 .. LEVELS - 1}

(* Slots that own tables, and those whose map is whole.                    *)
Owners == {p \in Slots : mmap[p] # Unmapped \/ (call.op = "map" /\ call.on = p)}
Root(p) == IF call.op = "map" /\ call.on = p THEN call.root ELSE mmap[p].root
Whole == {p \in Slots : mmap[p] # Unmapped /\ ~(call.op = "free" /\ call.on = p)}

VPages == {v \in 0 .. FAN * SPAN[0] - 1 : v % PAGE_SIZE = 0}
In(v, lo, hi) == v + PAGE_SIZE > lo /\ v < hi

(* The comment at build_process_map, as a function: the image from 0 on,   *)
(* kernel, memory and UART at their own addresses, and nothing else.       *)
IntendedProcess(img, v) ==
  IF v = UART THEN desc_page(v, "dev")
  ELSE IF v < img[2] /\ v < CODE_0
  THEN [kind |-> "page", to |-> img[1] + v, attrs |-> "proc"]
  ELSE IF In(v, CODE_0, KEND) \/ In(v, MEM_0, MEM_END + 1) THEN desc_page(v, "kern")
  ELSE Invalid
IntendedKernel(v) ==
  IF v = UART \/ \E g \in DOMAIN Gic : In(v, Gic[g][1], Gic[g][1] + Gic[g][2])
  THEN desc_page(v, "dev")
  ELSE IF In(v, CODE_0, MEM_END + 1) THEN desc_page(v, "kern") ELSE Invalid
Intended(p, v) == IF p = P0 THEN IntendedKernel(v) ELSE IntendedProcess(mmap[p].image, v)

(* Walking the tables of a map gives exactly what its builder intends,     *)
(* page and attributes, however many maps were made from reused table      *)
(* pages, and also at every step of a call that builds or frees another.   *)
(* Two kinds of program have less: one that starts inside a page has its   *)
(* own window, but see EntryAtZero; and the map of one that starts inside  *)
(* the kernel has no more of the kernel than is below it.                  *)
TranslatesAsIntended ==
  \A p \in Whole, v \in VPages :
    LET d == Translate(mmap[p].root, v)
        w == Intended(p, v)
        base == mmap[p].image[1]
    IN  \/ d = w
        \/ p # P0 /\ base % PAGE_SIZE # 0 /\ w.attrs = "proc" /\ d.attrs = "proc"
        \/ p # P0 /\ base <= v /\ v < KEND /\ w.attrs = "kern" /\ d = Invalid

(* The comment in sched_new_proc, "mmu translates 0->pc": a program's      *)
(* address 0 is the physical address of its entry.                         *)
EntryAtZero ==
  \A p \in Whole \ {P0} :
    mmap[p].image[2] > 0 => Translate(mmap[p].root, 0).to = mmap[p].image[1]

(* The comment in mmu_map_switch: global entries remain valid.  A page     *)
(* that is global in one map is the same page in every other map that has  *)
(* one at its address, so what the TLB keeps of it across a switch never   *)
(* stands for a page of another map.                                       *)
GlobalsAgree ==
  \A p, q \in Whole, v \in VPages :
    LET d == Translate(mmap[p].root, v)
        e == Translate(mmap[q].root, v)
    IN  d.attrs \in {"kern", "dev"} => e \in {d, Invalid}

(* At every step each table page is free or in the tree of exactly one     *)
(* slot: destroying a map gives back all that creating it took, and takes  *)
(* from no other.                                                          *)
PagesAccounted ==
  LET trees == [p \in Owners |-> TreeOf(Root(p))]
  IN  /\ \A p, q \in Owners : p # q => trees[p] \cap trees[q] = {}
      /\ \A p \in Owners : trees[p] \cap free = {}
      /\ free \cup UNION {trees[p] : p \in Owners} = Pages
=============================================================================
