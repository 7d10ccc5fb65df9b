------------------------------ MODULE MapDump ------------------------------
(***************************************************************************)
(* dump_map of mmu.c, which prints a map as runs of pages: walk_level      *)
(* visits the pages in order, run_visit lengthens the run or begins        *)
(* another.                                                                *)
(***************************************************************************)
EXTENDS PageTable, SequencesExt

level_span_bytes(l) == SPAN[l]

RECURSIVE walk_level(_, _, _)
walk_level(l, t, base) ==
  LET here(i) == base + i * level_span_bytes(l)
      slot(i) == CASE tab[t][i].kind = "invalid" -> <<>>
                   [] tab[t][i].kind = "table" -> walk_level(l + 1, tab[t][i].to, here(i))
                   [] OTHER -> <<[va |-> here(i), pa |-> tab[t][i].to, len |-> level_span_bytes(l)]>>
  IN  FlattenSeq([k \in 1 .. FAN |-> slot(k - 1)])

run_visit_NoSum(runs, x) ==
  LET last == Last(runs)
  IN  IF runs # <<>> /\ last.va + last.len = x.va /\ last.pa + last.len = x.pa
      THEN Front(runs) \o <<[last EXCEPT !.len = x.len]>>
      ELSE Append(runs, x)
run_visit(runs, x) ==
  LET last == Last(runs)
  IN  IF runs # <<>> /\ last.va + last.len = x.va /\ last.pa + last.len = x.pa
      THEN Front(runs) \o <<[last EXCEPT !.len = @ + x.len]>>
      ELSE Append(runs, x)

dump_map(root) == FoldLeft(run_visit, <<>>, walk_level(0, root, 0))

-----------------------------------------------------------------------------
(* dump_map prints the map that the hardware walks: each page of a run is  *)
(* translated as the run says, every page that is translated is in a run,  *)
(* and no two runs could have been one.                                    *)
DumpExact ==
  call = NoCall =>
    \A p \in Whole :
      LET runs == dump_map(mmap[p].root)
          walk(v) == Translate(mmap[p].root, v)
          covers(i, v) == runs[i].va <= v /\ v < runs[i].va + runs[i].len
      IN  /\ \A v \in VPages :
               IF walk(v) = Invalid THEN \A i \in DOMAIN runs : ~covers(i, v)
               ELSE \E i \in DOMAIN runs :
                      covers(i, v) /\ walk(v).to = runs[i].pa + (v - runs[i].va)
          /\ \A i \in 1 .. Len(runs) - 1 :
               /\ runs[i].va + runs[i].len <= runs[i + 1].va
               /\ runs[i].va + runs[i].len = runs[i + 1].va =>
                    runs[i].pa + runs[i].len # runs[i + 1].pa
=============================================================================
