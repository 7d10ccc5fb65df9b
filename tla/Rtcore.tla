------------------------------- MODULE Rtcore -------------------------------
(***************************************************************************)
(* The Linux character device of the kernel module (kernelmod/rtmain.c):   *)
(* tasks open it, mmap a window of the memory that JRT runs programs from, *)
(* and ask for a program in that window to be started.  rtcore_mmap is     *)
(* called with no lock that two processes share, so its reads and writes   *)
(* of G_MEM_OFF are steps of their own.  What a request does once it is    *)
(* in the ring is module Ring.  The program is written through the data    *)
(* cache and fetched by another core, so the ioctls clean it first: up to  *)
(* where the caches of all cores agree, not up to memory.                  *)
(***************************************************************************)
EXTENDS Integers, Sequences, FiniteSets

CONSTANTS
  Tasks,           \* processes, each with its own file of the device
  JRT_CODE_PHYS,   \* the reserved memory: its start
  JRT_CODE_SIZE,   \* and its size
  PAGE_SIZE,
  Sizes,           \* sizes of a mapping: multiples of the page size
  Offsets,         \* where in its mapping a task may say its entry is
  LINE,            \* bytes of a cache line, from CTR_EL0
  MaxMaps,         \* bound: mappings that are ever made
  MaxLoads         \* bound: how often the module is loaded

ASSUME RtcoreAssumption ==
  /\ PAGE_SIZE \in Nat \ {0} /\ JRT_CODE_PHYS % PAGE_SIZE = 0
  /\ \A s \in Sizes : s \in Nat \ {0} /\ s % PAGE_SIZE = 0
  /\ Offsets \subseteq Nat /\ MaxMaps \in Nat /\ MaxLoads \in Nat
  /\ LINE \in Nat \ {0}
  /\ JRT_CODE_PHYS \in Nat /\ JRT_CODE_SIZE \in Nat

VARIABLES
  G_MEM_OFF,  \* start of what has not been handed out
  ctx,        \* rtcore_ctx_t of each file, NoFile when it is not open
  tpc,        \* where a task is in rtcore_mmap
  size, phys, off,  \* its locals: vma size, phys_base, G_MEM_OFF as read for +=
  windows,    \* history: every window mapped, in order: start, length, load
  req,        \* the last image handed to JRT, as <<pc, prog_size>>, or NoImage
  cpu,        \* the image the core was started with, or NoImage
  stale,      \* bytes that were written and that a fetch may not see yet
  behind,     \* bytes that were written and that memory may not have yet
  loads,      \* which load of the module this is
  raced       \* history: two tasks have been in rtcore_mmap at once

deviceVars == <<G_MEM_OFF, ctx, tpc, size, phys, off, windows, req, cpu, stale, behind, loads, raced>>
locals == <<size, phys, off>>

NoFile == [open |-> FALSE, mapped |-> FALSE, user_len |-> 0, phys_base |-> 0]
NoImage == <<0, 0>>
InMmap == {t \in Tasks : tpc[t] # "idle"}

DeviceInit ==
  /\ G_MEM_OFF = 0
  /\ ctx = [t \in Tasks |-> NoFile]
  /\ tpc = [t \in Tasks |-> "idle"]
  /\ size = [t \in Tasks |-> 0] /\ phys = size /\ off = size
  /\ windows = <<>> /\ req = NoImage /\ cpu = NoImage
  /\ stale = {} /\ behind = {} /\ loads = 1 /\ raced = FALSE

(* rtcore_exit and rtcore_init: possible when no file is open; what JRT    *)
(* runs goes on.                                                           *)
Reload ==
  /\ loads < MaxLoads /\ \A t \in Tasks : ~ctx[t].open
  /\ G_MEM_OFF' = 0 /\ loads' = loads + 1
  /\ UNCHANGED <<ctx, tpc, locals, windows, req, cpu, stale, behind, raced>>

rtcore_open(t) ==
  /\ tpc[t] = "idle" /\ ~ctx[t].open
  /\ ctx' = [ctx EXCEPT ![t].open = TRUE]
  /\ UNCHANGED <<G_MEM_OFF, tpc, locals, windows, req, cpu, stale, behind, loads, raced>>

(* The window stays handed out: JRT may be running what is in it.          *)
rtcore_release(t) ==
  /\ tpc[t] = "idle" /\ ctx[t].open
  /\ ctx' = [ctx EXCEPT ![t] = NoFile]
  /\ UNCHANGED <<G_MEM_OFF, tpc, locals, windows, req, cpu, stale, behind, loads, raced>>

(* rtcore_mmap: the check; a size that does not fit is refused.            *)
mmap_check(t, s) ==
  /\ tpc[t] = "idle" /\ ctx[t].open
  /\ Len(windows) + Cardinality(InMmap) < MaxMaps
  /\ G_MEM_OFF + s <= JRT_CODE_SIZE
  /\ tpc' = [tpc EXCEPT ![t] = "start"]
  /\ size' = [size EXCEPT ![t] = s]
  /\ raced' = (raced \/ InMmap # {})
  /\ UNCHANGED <<G_MEM_OFF, ctx, phys, off, windows, req, cpu, stale, behind, loads>>

(* Its start, rounded down to a page.                                      *)
mmap_phys(t) ==
  /\ tpc[t] = "start"
  /\ LET start == JRT_CODE_PHYS + G_MEM_OFF
     IN  phys' = [phys EXCEPT ![t] = start - (start % PAGE_SIZE)]
  /\ tpc' = [tpc EXCEPT ![t] = "remap"]
  /\ UNCHANGED <<G_MEM_OFF, ctx, size, off, windows, req, cpu, stale, behind, loads, raced>>

(* remap_pfn_range fails: -EAGAIN, and nothing has changed.                *)
mmap_fail(t) ==
  /\ tpc[t] = "remap"
  /\ tpc' = [tpc EXCEPT ![t] = "idle"]
  /\ size' = [size EXCEPT ![t] = 0] /\ phys' = [phys EXCEPT ![t] = 0]
  /\ UNCHANGED <<G_MEM_OFF, ctx, off, windows, req, cpu, stale, behind, loads, raced>>

(* It succeeds: the file remembers the mapping (the last one only).  No    *)
(* other task has the file, so its fields change together.                 *)
mmap_record(t) ==
  /\ tpc[t] = "remap"
  /\ windows' = Append(windows, <<phys[t], size[t], loads>>)
  /\ ctx' = [ctx EXCEPT ![t].mapped = TRUE, ![t].user_len = size[t],
                        ![t].phys_base = phys[t]]
  /\ tpc' = [tpc EXCEPT ![t] = "load"]
  /\ UNCHANGED <<G_MEM_OFF, locals, req, cpu, stale, behind, loads, raced>>

(* G_MEM_OFF += size: a load, then a store.                                *)
mmap_load(t) ==
  /\ tpc[t] = "load"
  /\ off' = [off EXCEPT ![t] = G_MEM_OFF]
  /\ tpc' = [tpc EXCEPT ![t] = "store"]
  /\ UNCHANGED <<G_MEM_OFF, ctx, size, phys, windows, req, cpu, stale, behind, loads, raced>>

mmap_store_Page(t) ==
  /\ tpc[t] = "store"
  /\ G_MEM_OFF' = off[t] + PAGE_SIZE
  /\ tpc' = [tpc EXCEPT ![t] = "idle"]
  /\ size' = [size EXCEPT ![t] = 0] /\ phys' = [phys EXCEPT ![t] = 0]
  /\ off' = [off EXCEPT ![t] = 0]
  /\ UNCHANGED <<ctx, windows, req, cpu, stale, behind, loads, raced>>
mmap_store(t) ==
  /\ tpc[t] = "store"
  /\ G_MEM_OFF' = off[t] + size[t]
  /\ tpc' = [tpc EXCEPT ![t] = "idle"]
  /\ size' = [size EXCEPT ![t] = 0] /\ phys' = [phys EXCEPT ![t] = 0]
  /\ off' = [off EXCEPT ![t] = 0]
  /\ UNCHANGED <<ctx, windows, req, cpu, stale, behind, loads, raced>>

(* What both ioctls check of an entry d bytes into the mapping, and the    *)
(* image they make of it: from the entry to the end of the mapping.        *)
Accepts(t, d) ==
  LET pc == ctx[t].phys_base + d
  IN  /\ ctx[t].mapped
      /\ d < ctx[t].user_len
      /\ pc % 4 = 0
      /\ pc >= JRT_CODE_PHYS /\ pc < JRT_CODE_PHYS + JRT_CODE_SIZE
Image_Whole(t, d) == <<ctx[t].phys_base + d, ctx[t].user_len>>
Image(t, d) == <<ctx[t].phys_base + d, ctx[t].user_len - d>>

(* The loader copies its program into the mapping.                         *)
Span(w) == w[1] .. w[1] + w[2] - 1
Load(t) ==
  /\ tpc[t] = "idle" /\ ctx[t].mapped
  /\ stale' = stale \cup Span(<<ctx[t].phys_base, ctx[t].user_len>>)
  /\ behind' = behind \cup Span(<<ctx[t].phys_base, ctx[t].user_len>>)
  /\ UNCHANGED <<G_MEM_OFF, ctx, tpc, locals, windows, req, cpu, loads, raced>>

(* clean_dcache_pou_range and inval_icache_pou_range: the lines from the   *)
(* one that start is in.  The point of unification (dc cvau) is as far as  *)
(* a core looks that has its caches on; dcache_clean_poc, which would go   *)
(* on to memory, is commented out.                                         *)
Lines(start, end) ==
  LET first == start - (start % LINE)
  IN  UNION {a .. a + LINE - 1 : a \in {b \in first .. end - 1 : (b - first) % LINE = 0}}
rtcore_icache_sync_phys_range_FromBase(t, d) ==
  /\ stale' = stale \ Lines(ctx[t].phys_base, ctx[t].phys_base + ctx[t].user_len - d)
  /\ UNCHANGED behind
rtcore_icache_sync_phys_range(t, d) ==
  /\ stale' = stale \ Lines(ctx[t].phys_base + d, ctx[t].phys_base + ctx[t].user_len)
  /\ UNCHANGED behind

rtcore_sched_prog(t, d) ==
  /\ tpc[t] = "idle" /\ Accepts(t, d)
  /\ rtcore_icache_sync_phys_range(t, d)
  /\ req' = Image(t, d)
  /\ UNCHANGED <<G_MEM_OFF, ctx, tpc, locals, windows, cpu, loads, raced>>

(* PSCI refuses CPU_ON for a core that is on.                              *)
rtcore_start_cpu(t, d) ==
  /\ tpc[t] = "idle" /\ Accepts(t, d)
  /\ rtcore_icache_sync_phys_range(t, d)
  /\ cpu' = IF cpu = NoImage THEN Image(t, d) ELSE cpu
  /\ UNCHANGED <<G_MEM_OFF, ctx, tpc, locals, windows, req, loads, raced>>

DeviceNext ==
  \/ Reload
  \/ \E t \in Tasks :
    \/ rtcore_open(t) \/ rtcore_release(t) \/ Load(t)
    \/ \E s \in Sizes : mmap_check(t, s)
    \/ mmap_phys(t) \/ mmap_fail(t) \/ mmap_record(t)
    \/ mmap_load(t) \/ mmap_store(t)
    \/ \E d \in Offsets : rtcore_sched_prog(t, d) \/ rtcore_start_cpu(t, d)

DeviceSpec == DeviceInit /\ [][DeviceNext]_deviceVars

-----------------------------------------------------------------------------
(* Properties.                                                             *)

Region == Span(<<JRT_CODE_PHYS, JRT_CODE_SIZE>>)

(* rtcore_mmap advances its cursor "by the exact bytes the user sees": no  *)
(* two windows share a byte, also when the first file was closed long ago, *)
(* since its program may still run; and none leaves the reserved memory.   *)
(* This is so as long as no two tasks have been in rtcore_mmap at once,    *)
(* and for windows that were made under the same load of the module.       *)
WindowsApartUnlessRaced ==
  ~raced =>
    /\ \A i, j \in DOMAIN windows :
         i # j /\ windows[i][3] = windows[j][3] => Span(windows[i]) \cap Span(windows[j]) = {}
    /\ \A i \in DOMAIN windows : Span(windows[i]) \subseteq Region

(* The image of a request, and of the kernel, is the rest of one window    *)
(* from the entry on: JRT maps and runs no byte of another window.         *)
ImagesInWindows ==
  \A i \in {req, cpu} \ {NoImage} :
    \E n \in DOMAIN windows :
      LET w == windows[n]
      IN  Span(i) \subseteq Span(w) /\ i[1] + i[2] = w[1] + w[2]

(* What JRT, whose caches are on, is told to run it can fetch: at the time *)
(* of the request no byte of the image is left in the data cache of the    *)
(* core that wrote it.                                                     *)
ImageFetchable == [][req' # req => Span(req') \cap stale' = {}]_deviceVars

(* The comment in rtcore_start_cpu, "If you've just copied code into this  *)
(* mapping, consider cache maintenance: __flush_dcache_area(kva, len)":    *)
(* the core that CPU_ON starts runs boot.S with its caches off, and finds  *)
(* the kernel in memory.                                                   *)
KernelFetchable == [][cpu' # cpu => Span(cpu') \cap behind' = {}]_deviceVars
=============================================================================
