------------------------------ MODULE MapProofs ------------------------------
(***************************************************************************)
(* The trees of translation tables stay sound, for every number of levels  *)
(* and entries, layout of memory and set of programs; and what a walk of   *)
(* the tables comes to and which pages a tree has, both of which follow    *)
(* from the homes that TreeProofs gives the tables.                        *)
(***************************************************************************)
EXTENDS TreeProofs, WellFoundedInduction

(* A set of natural numbers that is not empty has a least element.         *)
LEMMA LeastNat ==
  ASSUME NEW S \in SUBSET Nat, S # {}
  PROVE  \E m \in S : \A n \in S : m <= n
  <1>. DEFINE R == {p \in Nat \X Nat : p[1] < p[2]}
  <1>1. IsWellFoundedOn(R, Nat)
    BY NatLessThanWellFounded, Zenon DEF OpToRel
  <1>2. PICK m \in S : \A n \in S : ~(<<n, m>> \in R)
    <2>. HIDE DEF R
    <2>. QED BY <1>1, WFMin, Zenon
  <1>3. m \in Nat /\ \A n \in S : n \in Nat /\ ~(n < m)
    BY <1>2, Zenon
  <1>. QED
    BY <1>3
-----------------------------------------------------------------------------
(* The trees stay sound.                                                   *)

(* A root whose entries are all invalid is the whole tree: of the other    *)
(* tables, one of the least depth would be below it.                       *)
LEMMA Bare ==
  ASSUME NEW H \in Homes, TreeInv(H), NEW f \in Owners, NEW root \in Used, root = Root(f),
         \A j \in Index : tab[root][j] = Invalid
  PROVE  \A t \in Used : H[t].of = f => t = root
  <1>. DEFINE Rest == {t \in Used : H[t].of = f /\ t # root}
              S == {H[t].depth : t \in Rest}
  <1>. SUFFICES ASSUME Rest # {} PROVE FALSE
    BY Zenon
  <1>0. \A t \in Used : t \in Pages /\ H[t] \in Home /\ H[t].depth \in Nat
    <2>1. \A t \in Used : t \in Pages /\ H[t] \in Home
      BY Zenon DEF Used, Homes
    <2>2. \A x \in Home : x.depth \in Nat
      BY TreeAssumption DEF Home
    <2>. QED BY <2>1, <2>2, Zenon
  <1>1. S \in SUBSET Nat /\ S # {}
    BY <1>0, Zenon
  <1>2. PICK m \in S : \A n \in S : m <= n
    <2>. HIDE DEF S
    <2>. QED BY <1>1, LeastNat, Zenon
  <1>3. PICK t \in Rest : H[t].depth = m
    BY Zenon
  <1>4. PICK s \in Used, j \in Index : tab[s][j] = desc_table(t)
    BY <1>3, Zenon DEF TreeInv
  <1>5. H[t] = home(H[s].of, H[s].depth + 1, Below(H[s].num, j))
    BY <1>3, <1>4, ParentHome
  <1>6. H[s].of = f /\ H[t].depth = H[s].depth + 1
    BY <1>3, <1>5 DEF home
  <1>7. s # root
    BY <1>0, <1>3, <1>4, Descriptors, Zenon
  <1>8. H[s].depth \in S
    BY <1>6, <1>7, Zenon
  <1>9. m <= H[s].depth /\ m = H[s].depth + 1
    BY <1>2, <1>3, <1>6, <1>8, Zenon
  <1>. QED BY <1>0, <1>4, <1>9

(* destroy_return: the root was the last table of its slot.                *)
LEMMA DestroyReturnKeeps ==
  ASSUME NEW H \in Homes, TableInv(H), destroy_return
  PROVE  TableInv(H)'
  <1>. USE DEF TableInv
  <1>1. PICK f \in Slots : f = call.on
    BY Zenon DEF TableType
  <1>2. /\ call.op = "free" /\ top.i = FAN /\ Len(stack) = 1
        /\ free' = free \cup {top.table}
        /\ mmap' = [mmap EXCEPT ![f] = Unmapped]
        /\ call' = NoCall /\ tab' = tab
    BY <1>1, Zenon DEF destroy_return, Freeing
  <1>3. f # P0 /\ mmap[f] # Unmapped /\ call.root = mmap[f].root
    BY <1>1, <1>2, Zenon DEF TableType
  <1>4. PICK root \in Used : root = top.table /\ root = Root(f) /\ \A j \in Index : tab[root][j] = Invalid
    <2>1. top.table \in Used
      BY <1>2, TopFacts, Zenon
    <2>2. top.table = Root(f)
      BY <1>2, <1>3, Zenon DEF top, StackInv, Root
    <2>3. \A j \in Index : j < FAN
      BY TreeAssumption DEF Index
    <2>4. \A j \in Index : tab[top.table][j] = Invalid
      BY <1>2, <2>3, TopFacts, Zenon
    <2>. QED BY <2>1, <2>2, <2>4, Zenon
  <1>5. f \in Owners
    BY <1>3, Zenon DEF Owners
  <1>6. \A t \in Used : H[t].of = f => t = root
    BY <1>4, <1>5, Bare
  <1>16. H[root].of = f
    <2>1. H[root] = home(f, 0, 0)
      BY <1>4, <1>5, Zenon DEF TreeInv
    <2>. QED BY <2>1 DEF home
  <1>7. Used' = Used \ {root}
    BY <1>2, <1>4, Zenon DEF Used
  <1>8. call'.op = "none"
    BY <1>2, Zenon DEF NoCall
  <1>9. /\ mmap' \in [Slots -> [root : Nat, image : Nat \X Nat]]
        /\ mmap'[f] = Unmapped /\ \A p \in Slots : p # f => mmap'[p] = mmap[p]
    <2>1. Unmapped \in [root : Nat, image : Nat \X Nat]
      BY Zenon DEF Unmapped, NoImage, NULL
    <2>2. mmap \in [Slots -> [root : Nat, image : Nat \X Nat]]
      BY Zenon DEF TableType
    <2>. QED BY <1>2, <2>1, <2>2, Zenon
  <1>10. TableType'
    <2>1. free' \subseteq Pages
      BY <1>2, <1>4, Zenon DEF TableType, Used
    <2>2. \A p \in Slots : mmap'[p] = Unmapped \/ (mmap'[p].root \in Pages /\ Fits(p, mmap'[p].image))
      BY <1>9, Zenon DEF TableType
    <2>3. NoCall \in [op : {"none", "map", "free"}, on : Slots, image : Nat \X Nat, root : Nat]
      BY TreeAssumption, Zenon DEF NoCall, NoImage, NULL
    <2>4. tab' \in [Pages -> [Index -> Desc]]
      BY <1>2, Zenon DEF TableType
    <2>. QED BY <1>2, <1>8, <1>9, <2>1, <2>2, <2>3, <2>4, Zenon DEF TableType, Fits
  <1>11. Owners' = Owners \ {f} /\ \A p \in Owners : p # f => Root(p)' = Root(p)
    BY <1>2, <1>8, <1>9, Zenon DEF Owners, Root
  <1>12. \A t \in Used' : t \in Used /\ H[t].of # f
    BY <1>6, <1>7, Zenon
  <1>13. TreeInv(H)'
    <2>1. ASSUME NEW t \in Used', NEW j \in Index PROVE Leads(H, t, j)'
      <3>1. t \in Used /\ H[t].of # f /\ Leads(H, t, j)
        BY <1>12, Zenon DEF TreeInv
      <3>2. \A u \in Used : H[u].of # f => u \in Used'
        BY <1>7, <1>16, Zenon
      <3>3. \A l, k : home(H[t].of, l, k).of # f
        BY <3>1, Zenon DEF home
      <3>. QED BY <1>2, <3>1, <3>2, <3>3, Zenon DEF Leads
    <2>2. ASSUME NEW w \in Used', w # Root(H[w].of)'
          PROVE  \E s \in Used', j \in Index : tab'[s][j] = desc_table(w)
      <3>1. w \in Used /\ H[w].of # f /\ w # Root(H[w].of)
        BY <1>11, <1>12, <2>2, Zenon DEF TreeInv
      <3>2. PICK s \in Used, j \in Index : tab[s][j] = desc_table(w)
        BY <3>1, Zenon DEF TreeInv
      <3>3. s # root
        <4>1. w \in Pages
          BY <3>1, Zenon DEF Used
        <4>. QED BY <1>4, <3>2, <4>1, Descriptors, Zenon
      <3>. QED BY <1>2, <1>7, <3>2, <3>3, Zenon
    <2>3. \A s \in Used' : H[s].of \in Owners'
      BY <1>11, <1>12, Zenon DEF TreeInv
    <2>4. \A s, w \in Used' : H[s] = H[w] => s = w
      BY <1>12, Zenon DEF TreeInv
    <2>5. ASSUME NEW p \in Owners' PROVE Root(p)' \in Used' /\ H[Root(p)'] = home(p, 0, 0)
      <3>1. p \in Owners /\ p # f /\ Root(p)' = Root(p)
        BY <1>11, Zenon
      <3>2. Root(p) \in Used /\ H[Root(p)] = home(p, 0, 0) /\ H[root] = home(f, 0, 0)
        BY <1>4, <1>5, <3>1, Zenon DEF TreeInv
      <3>3. Root(p) # root
        BY <3>1, <3>2 DEF home
      <3>. QED BY <1>7, <3>1, <3>2, <3>3, Zenon
    <2>. QED BY <2>1, <2>2, <2>3, <2>4, <2>5, Zenon DEF TreeInv
  <1>14. CursorInv(H)' /\ StackInv(H)'
    BY <1>8, Zenon DEF CursorInv, StackInv
  <1>15. MapInv(H)'
    <2>1. \A t \in Used : H[t].of # f => t \in Used' /\ tab'[t] = tab[t]
      BY <1>2, <1>7, <1>16, Zenon
    <2>2. \A t \in Used' : t \in Used
      BY <1>12, Zenon
    <2>3. call.op = "free" /\ call.on \in Slots /\ call'.op # "map" /\ call'.op # "free"
      BY <1>1, <1>2, <1>8, Zenon
    <2>. QED BY <1>1, <1>9, <2>1, <2>2, <2>3, OthersKeep, Zenon
  <1>. QED BY <1>10, <1>13, <1>14, <1>15, Zenon

-----------------------------------------------------------------------------
(* The trees of tables, the cursors of the call under way and what has     *)
(* been mapped so far agree.                                               *)
TreesSound == \E H \in Homes : TableInv(H)

(* No table is in use before the kernel has a map.                         *)
LEMMA NoTables == TableInit => TreesSound
  <1>. SUFFICES ASSUME TableInit PROVE TreesSound
    BY Zenon
  <1>. DEFINE H == [p \in Pages |-> home(P0, 0, 0)]
  <1>1. H \in Homes
    <2>1. 0 \in 0 .. LEVELS - 1 /\ P0 \in Slots
      BY TreeAssumption
    <2>2. home(P0, 0, 0) \in Home
      BY <2>1, Zenon DEF home, Home
    <2>. QED BY <2>2, Zenon DEF Homes
  <1>. HIDE DEF H
  <1>2. Used = {} /\ call.op = "none" /\ (\A p \in Slots : mmap[p] = Unmapped)
    BY Zenon DEF TableInit, Used, NoCall
  <1>3. TableType
    <2>1. NoCall \in [op : {"none", "map", "free"}, on : Slots, image : Nat \X Nat, root : Nat]
      BY TreeAssumption, Zenon DEF NoCall, NoImage, NULL
    <2>2. Unmapped \in [root : Nat, image : Nat \X Nat]
      BY Zenon DEF Unmapped, NoImage, NULL
    <2>3. tab \in [Pages -> [Index -> Desc]] /\ free \subseteq Pages
      BY Descriptors, Zenon DEF TableInit
    <2>4. mmap \in [Slots -> [root : Nat, image : Nat \X Nat]] /\ call = NoCall
      BY <2>2, Zenon DEF TableInit
    <2>. QED BY <1>2, <2>1, <2>3, <2>4, Zenon DEF TableType
  <1>4. Owners = {} /\ Whole = {} /\ \A p \in Slots : ~Building(p)
    BY <1>2, Zenon DEF Owners, Whole, Building
  <1>5. TreeInv(H) /\ CursorInv(H) /\ StackInv(H) /\ MapInv(H)
    BY <1>2, <1>4, Zenon DEF TreeInv, CursorInv, StackInv, MapInv
  <1>. QED BY <1>1, <1>3, <1>5, Zenon DEF TreesSound, TableInv

(* map_create, whether it finds a page or dies.                            *)
LEMMA MapCreateKeeps ==
  ASSUME TreesSound, NEW p \in Slots, NEW img \in Nat \X Nat, Fits(p, img), map_create(p, img)
  PROVE  TreesSound'
  <1>1. PICK H \in Homes : TableInv(H)
    BY Zenon DEF TreesSound
  <1>2. CASE Die
    <2>1. TableInv(H)'
      BY <1>1, <1>2, Unmoved, Zenon DEF Die
    <2>. QED BY <2>1, Zenon DEF TreesSound
  <1>3. CASE ~Die
    <2>1. call = NoCall /\ mmap[p] = Unmapped
      BY Zenon DEF map_create
    <2>2. PICK root \in free : Created(p, img, root)
      BY <1>3, Zenon DEF map_create, Created
    <2>. QED BY <1>1, <2>1, <2>2, CreateKeeps, Zenon DEF TreesSound
  <1>. QED BY <1>2, <1>3, Zenon

(* ensure_next, whether it finds a table, makes one or dies.               *)
LEMMA EnsureNextKeeps ==
  ASSUME TreesSound, ensure_next
  PROVE  TreesSound'
  <1>1. PICK H \in Homes : TableInv(H)
    BY Zenon DEF TreesSound
  <1>2. Mapping /\ level < LEVELS - 1
    BY Zenon DEF ensure_next
  <1>3. CASE Die
    <2>1. TableInv(H)'
      BY <1>1, <1>3, Unmoved, Zenon DEF Die
    <2>. QED BY <2>1, Zenon DEF TreesSound
  <1>4. CASE tab[at][idx(va, level)] # Invalid
    <2>1. /\ at' = tab[at][idx(va, level)].to /\ level' = level + 1
          /\ UNCHANGED <<tab, free, mmap, halted, call, r, va, stack>>
      BY <1>4, Zenon DEF ensure_next
    <2>2. TableInv(H)'
      BY <1>1, <1>2, <1>4, <2>1, FoundKeeps, Zenon
    <2>. QED BY <2>2, Zenon DEF TreesSound
  <1>5. CASE tab[at][idx(va, level)] = Invalid /\ ~Die
    <2>1. PICK u \in free : NewTable(u)
      BY <1>5, Zenon DEF ensure_next, NewTable
    <2>. QED BY <1>1, <1>2, <1>5, <2>1, NewTableKeeps, Zenon DEF TreesSound
  <1>. QED BY <1>3, <1>4, <1>5, Zenon

(* pt_alloc_page_or_die, map_page and free_table_level keep the trees of   *)
(* all slots apart and each complete, at every step and for any number of  *)
(* levels, entries, pages, slots and images.                               *)
THEOREM TreesStaySound == TableSpec => []TreesSound
  <1>1. TableInit => TreesSound
    BY NoTables, Zenon
  <1>2. TreesSound /\ [TableNext]_tableVars => TreesSound'
    <2>. SUFFICES ASSUME TreesSound, [TableNext]_tableVars PROVE TreesSound'
      BY Zenon
    <2>0. PICK H \in Homes : TableInv(H)
      BY Zenon DEF TreesSound
    <2>1. CASE kern_map_create
      <3>1. NoImage \in Nat \X Nat /\ Fits(P0, NoImage) /\ P0 \in Slots
        BY TreeAssumption, Zenon DEF NoImage, Fits
      <3>. QED BY <2>1, <3>1, MapCreateKeeps, Zenon DEF kern_map_create
    <2>2. ASSUME NEW p \in Slots, NEW img \in Images, proc_map_create(p, img) PROVE TreesSound'
      <3>1. img \in Nat \X Nat /\ Fits(p, img) /\ map_create(p, img)
        BY <2>2, LayoutAssumption, Zenon DEF Fits, proc_map_create
      <3>. QED BY <3>1, MapCreateKeeps, Zenon
    <2>3. CASE ensure_next
      BY <2>3, EnsureNextKeeps, Zenon
    <2>4. CASE map_page
      BY <2>0, <2>4, MapPageKeeps, Zenon DEF TreesSound
    <2>5. CASE next_range
      BY <2>0, <2>5, NextRangeKeeps, Zenon DEF TreesSound
    <2>6. CASE map_return
      BY <2>0, <2>6, MapReturnKeeps, Zenon DEF TreesSound
    <2>7. ASSUME NEW p \in Slots, mmu_map_destroy(p) PROVE TreesSound'
      BY <2>0, <2>7, DestroyKeeps, Zenon DEF TreesSound
    <2>8. CASE enter_table
      BY <2>0, <2>8, EnterKeeps, Zenon DEF TreesSound
    <2>9. CASE scrub_entry
      BY <2>0, <2>9, ScrubKeeps, Zenon DEF TreesSound
    <2>10. CASE leave_table
      BY <2>0, <2>10, LeaveKeeps, Zenon DEF TreesSound
    <2>11. CASE destroy_return
      BY <2>0, <2>11, DestroyReturnKeeps, Zenon DEF TreesSound
    <2>12. CASE UNCHANGED tableVars
      <3>1. UNCHANGED <<tab, free, mmap, call, cursor, stack>>
        BY <2>12, Zenon DEF tableVars, cursor
      <3>. QED BY <2>0, <3>1, Unmoved, Zenon DEF TreesSound
    <2>. QED BY <2>1, <2>2, <2>3, <2>4, <2>5, <2>6, <2>7, <2>8, <2>9, <2>10, <2>11, <2>12, Zenon DEF TableNext
  <1>. QED BY <1>1, <1>2, PTL DEF TableSpec

-----------------------------------------------------------------------------
(* The walk of the hardware.                                               *)

(* Where an entry above the last level leads: a table is at its home       *)
(* exactly if the entry of the table above leads to it.                    *)
LEMMA Descend ==
  ASSUME NEW H \in Homes, TreeInv(H), NEW p \in Owners, NEW v \in Reach, NEW l \in 1 .. LEVELS - 1
  PROVE  /\ \A s \in Used : H[s] = home(p, l - 1, Num(v, l - 1)) =>
              \/ /\ tab[s][idx(v, l - 1)] = Invalid
                 /\ \A u \in Used : H[u] # home(p, l, Num(v, l))
              \/ \E u \in Used : /\ tab[s][idx(v, l - 1)] = desc_table(u)
                                 /\ H[u] = home(p, l, Num(v, l))
         /\ (\A s \in Used : H[s] # home(p, l - 1, Num(v, l - 1))) =>
              \A u \in Used : H[u] # home(p, l, Num(v, l))
  <1>0. l \in Nat /\ l - 1 \in 0 .. LEVELS - 1 /\ l - 1 # LEVELS - 1 /\ (l - 1) + 1 = l /\ l # 0
    BY TreeAssumption
  <1>1. PICK i \in Index, n \in Nat : i = idx(v, l - 1) /\ n = Num(v, l - 1) /\ Num(v, l) = Below(n, i)
    <2>1. idx(v, l - 1) \in Index /\ Num(v, l - 1) \in Nat
      BY <1>0, NumStep, Zenon
    <2>2. Num(v, (l - 1) + 1) = Below(Num(v, l - 1), idx(v, l - 1))
      BY <1>0, NumStep, Zenon
    <2>. QED BY <1>0, <2>1, <2>2, Zenon
  <1>2. ASSUME NEW u \in Used, H[u] = home(p, l, Below(n, i))
        PROVE  \E s \in Used : H[s] = home(p, l - 1, n) /\ tab[s][i] = desc_table(u)
    <2>1. H[u].of = p /\ H[u].depth = l
      BY <1>2 DEF home
    <2>2. u # Root(p)
      <3>1. H[Root(p)] = home(p, 0, 0) /\ home(p, 0, 0).depth = 0
        BY Zenon DEF TreeInv, home
      <3>. QED BY <1>0, <2>1, <3>1, Zenon
    <2>3. PICK s \in Used, j \in Index : tab[s][j] = desc_table(u)
      BY <2>1, <2>2, Zenon DEF TreeInv
    <2>4. H[u] = home(H[s].of, H[s].depth + 1, Below(H[s].num, j))
      BY <2>3, ParentHome
    <2>5. H[s].of = p /\ H[s].depth + 1 = l /\ Below(H[s].num, j) = Below(n, i)
      BY <1>2, <2>4 DEF home
    <2>6. H[s] \in Home
      BY Zenon DEF Homes, Used
    <2>7. H[s].num \in Nat /\ H[s].depth \in Nat
      BY <2>6, TreeAssumption DEF Home
    <2>8. H[s].num = n /\ j = i /\ H[s].depth = l - 1
      BY <1>0, <2>5, <2>7, BelowOne
    <2>9. H[s] = home(p, l - 1, n)
      BY <2>5, <2>6, <2>8, Zenon DEF Home, home
    <2>. QED BY <2>3, <2>8, <2>9, Zenon
  <1>3. ASSUME NEW s \in Used, H[s] = home(p, l - 1, n)
        PROVE  \/ tab[s][i] = Invalid
               \/ \E u \in Used : tab[s][i] = desc_table(u) /\ H[u] = home(p, l, Below(n, i))
    <2>1. H[s].of = p /\ H[s].depth = l - 1 /\ H[s].num = n
      BY <1>3 DEF home
    <2>2. Leads(H, s, i)
      BY Zenon DEF TreeInv
    <2>. QED BY <1>0, <2>1, <2>2, Zenon DEF Leads
  <1>4. ASSUME NEW s \in Used, H[s] = home(p, l - 1, n), tab[s][i] = Invalid, NEW u \in Used
        PROVE  H[u] # home(p, l, Below(n, i))
    <2>. SUFFICES ASSUME H[u] = home(p, l, Below(n, i)) PROVE FALSE
      BY Zenon
    <2>1. PICK w \in Used : H[w] = home(p, l - 1, n) /\ tab[w][i] = desc_table(u)
      BY <1>2, Zenon
    <2>2. w = s /\ u \in Pages
      BY <1>4, <2>1, Zenon DEF TreeInv, Used
    <2>. QED BY <1>4, <2>1, <2>2, Descriptors, Zenon
  <1>. QED BY <1>1, <1>2, <1>3, <1>4

(* The table that a walk is at.                                            *)
AtHome(H, p, v, l) == {t \in Used : H[t] = home(p, l, Num(v, l))}
TheTable(H, p, v, l) == CHOOSE t \in AtHome(H, p, v, l) : TRUE
Stage(H, p, v, l) ==
  IF AtHome(H, p, v, l) = {} THEN Invalid ELSE desc_table(TheTable(H, p, v, l))

(* The walk goes from one stage to the next.                               *)
LEMMA StageStep ==
  ASSUME NEW H \in Homes, TreeInv(H), NEW p \in Owners, NEW v \in Reach
  PROVE  /\ Stage(H, p, v, 0) = desc_table(Root(p))
         /\ \A l \in 1 .. LEVELS - 1 :
              Stage(H, p, v, l) = IF Stage(H, p, v, l - 1) = Invalid THEN Invalid
                                  ELSE tab[Stage(H, p, v, l - 1).to][idx(v, l - 1)]
  <1>1. \A s, t \in Used : H[s] = H[t] => s = t
    BY Zenon DEF TreeInv
  <1>2. ASSUME NEW l, NEW t \in AtHome(H, p, v, l)
        PROVE  /\ Stage(H, p, v, l) = desc_table(t) /\ Stage(H, p, v, l) # Invalid
               /\ Stage(H, p, v, l).to = t
    <2>1. \A s \in AtHome(H, p, v, l) : s = t
      BY <1>1, Zenon DEF AtHome
    <2>2. TheTable(H, p, v, l) = t /\ AtHome(H, p, v, l) # {}
      BY <2>1, Zenon DEF TheTable
    <2>3. Stage(H, p, v, l) = desc_table(t)
      BY <2>2, Zenon DEF Stage
    <2>4. desc_table(t).kind = "table" /\ desc_table(t).to = t /\ Invalid.kind = "invalid"
      BY Zenon DEF desc_table, Invalid
    <2>. QED BY <2>3, <2>4, Zenon
  <1>3. Stage(H, p, v, 0) = desc_table(Root(p))
    <2>1. Root(p) \in AtHome(H, p, v, 0)
      <3>1. Root(p) \in Used /\ H[Root(p)] = home(p, 0, 0)
        BY Zenon DEF TreeInv
      <3>2. Num(v, 0) = 0
        BY Zenon DEF Num
      <3>. QED BY <3>1, <3>2, Zenon DEF AtHome
    <2>. QED BY <1>2, <2>1, Zenon
  <1>4. ASSUME NEW l \in 1 .. LEVELS - 1
        PROVE  Stage(H, p, v, l) = IF Stage(H, p, v, l - 1) = Invalid THEN Invalid
                                   ELSE tab[Stage(H, p, v, l - 1).to][idx(v, l - 1)]
    <2>1. CASE AtHome(H, p, v, l - 1) = {}
      <3>1. Stage(H, p, v, l - 1) = Invalid
        BY <2>1, Zenon DEF Stage
      <3>2. \A s \in Used : H[s] # home(p, l - 1, Num(v, l - 1))
        BY <2>1, Zenon DEF AtHome
      <3>3. AtHome(H, p, v, l) = {}
        BY <3>2, Descend, Zenon DEF AtHome
      <3>. QED BY <3>1, <3>3, Zenon DEF Stage
    <2>2. ASSUME NEW s \in AtHome(H, p, v, l - 1)
          PROVE  Stage(H, p, v, l) = tab[s][idx(v, l - 1)]
      <3>1. s \in Used /\ H[s] = home(p, l - 1, Num(v, l - 1))
        BY <2>2, Zenon DEF AtHome
      <3>2. CASE /\ tab[s][idx(v, l - 1)] = Invalid
                 /\ \A u \in Used : H[u] # home(p, l, Num(v, l))
        <4>1. AtHome(H, p, v, l) = {}
          BY <3>2, Zenon DEF AtHome
        <4>. QED BY <3>2, <4>1, Zenon DEF Stage
      <3>3. CASE \E u \in Used : /\ tab[s][idx(v, l - 1)] = desc_table(u)
                                 /\ H[u] = home(p, l, Num(v, l))
        <4>1. PICK u \in Used : tab[s][idx(v, l - 1)] = desc_table(u) /\ H[u] = home(p, l, Num(v, l))
          BY <3>3, Zenon
        <4>2. u \in AtHome(H, p, v, l)
          BY <4>1, Zenon DEF AtHome
        <4>. QED BY <1>2, <4>1, <4>2, Zenon
      <3>. QED BY <3>1, <3>2, <3>3, Descend
    <2>3. CASE AtHome(H, p, v, l - 1) # {}
      <3>1. PICK s \in AtHome(H, p, v, l - 1) : TRUE
        BY <2>3, Zenon
      <3>. QED BY <1>2, <2>2, <3>1, Zenon
    <2>. QED BY <2>1, <2>3, Zenon
  <1>. QED BY <1>3, <1>4, Zenon

(* The function that Translate defines by recursion on the level.          *)
WalkBody(root, v, d) ==
  [l \in 0 .. LEVELS |->
     IF l = 0 THEN desc_table(root)
     ELSE IF d[l - 1] = Invalid THEN Invalid ELSE tab[d[l - 1].to][idx(v, l - 1)]]

(* There is such a function, so Translate's is one.                        *)
LEMMA TranslateDef ==
  ASSUME NEW root, NEW v, NEW w, w = WalkBody(root, v, w)
  PROVE  \E d : d = WalkBody(root, v, d) /\ Translate(root, v) = d[LEVELS]
  <1>. DEFINE d == CHOOSE d : d = WalkBody(root, v, d)
  <1>1. d = WalkBody(root, v, d)
    BY Zenon
  <1>2. Translate(root, v) = d[LEVELS]
    BY Zenon DEF Translate, WalkBody
  <1>. HIDE DEF d
  <1>. QED BY <1>1, <1>2, Zenon

(* What it is at each level.                                               *)
LEMMA WalkAt ==
  ASSUME NEW root, NEW v, NEW d, d = WalkBody(root, v, d), NEW l \in 0 .. LEVELS
  PROVE  d[l] = IF l = 0 THEN desc_table(root)
                ELSE IF d[l - 1] = Invalid THEN Invalid ELSE tab[d[l - 1].to][idx(v, l - 1)]
  <1>1. WalkBody(root, v, d)[l] =
          IF l = 0 THEN desc_table(root)
          ELSE IF d[l - 1] = Invalid THEN Invalid ELSE tab[d[l - 1].to][idx(v, l - 1)]
    BY Zenon DEF WalkBody
  <1>2. d[l] = WalkBody(root, v, d)[l]
    BY Zenon
  <1>. QED BY <1>1, <1>2, Zenon

(* And there is only one: two of them would first differ at some level.    *)
LEMMA WalkOne ==
  ASSUME NEW root, NEW v, NEW d, d = WalkBody(root, v, d), NEW w, w = WalkBody(root, v, w)
  PROVE  \A l \in 0 .. LEVELS : d[l] = w[l]
  <1>. DEFINE S == {l \in 0 .. LEVELS : d[l] # w[l]}
  <1>. SUFFICES ASSUME S # {} PROVE FALSE
    BY Zenon
  <1>0. LEVELS \in Nat
    BY TreeAssumption, Zenon
  <1>1. S \in SUBSET Nat
    BY <1>0
  <1>2. PICK m \in S : \A n \in S : m <= n
    <2>. HIDE DEF S
    <2>. QED BY <1>1, LeastNat, Zenon
  <1>3. m \in 0 .. LEVELS /\ d[m] # w[m]
    BY Zenon
  <1>4. /\ d[m] = IF m = 0 THEN desc_table(root)
                  ELSE IF d[m - 1] = Invalid THEN Invalid ELSE tab[d[m - 1].to][idx(v, m - 1)]
        /\ w[m] = IF m = 0 THEN desc_table(root)
                  ELSE IF w[m - 1] = Invalid THEN Invalid ELSE tab[w[m - 1].to][idx(v, m - 1)]
    BY <1>3, WalkAt
  <1>5. m # 0
    BY <1>3, <1>4, Zenon
  <1>6. m - 1 \in 0 .. LEVELS /\ ~(m <= m - 1)
    BY <1>0, <1>3, <1>5
  <1>7. d[m - 1] = w[m - 1]
    BY <1>2, <1>6, Zenon
  <1>. QED BY <1>3, <1>4, <1>5, <1>7, Zenon

(* The walk ends at the entry of the table at the leaf, if there is one.   *)
LEMMA TranslateIs ==
  ASSUME NEW H \in Homes, TreeInv(H), NEW p \in Owners, NEW v \in VPages
  PROVE  /\ \A t \in Used : H[t] = Leaf(p, v) =>
              Translate(Root(p), v) = tab[t][idx(v, LEVELS - 1)]
         /\ (\A t \in Used : H[t] # Leaf(p, v)) => Translate(Root(p), v) = Invalid
  <1>0. LEVELS \in Nat \ {0} /\ v \in Reach
    BY TreeAssumption, LeafIndex, Zenon
  <1>. DEFINE st(l) == Stage(H, p, v, l)
              last == IF st(LEVELS - 1) = Invalid THEN Invalid
                      ELSE tab[st(LEVELS - 1).to][idx(v, LEVELS - 1)]
              w == [l \in 0 .. LEVELS |-> IF l = LEVELS THEN last ELSE st(l)]
  <1>1. st(0) = desc_table(Root(p))
    BY <1>0, StageStep, Zenon
  <1>2. \A l \in 1 .. LEVELS - 1 :
          st(l) = IF st(l - 1) = Invalid THEN Invalid ELSE tab[st(l - 1).to][idx(v, l - 1)]
    BY <1>0, StageStep, Zenon
  <1>. HIDE DEF st
  <1>3. ASSUME NEW l \in 0 .. LEVELS
        PROVE  w[l] = IF l = 0 THEN desc_table(Root(p))
                      ELSE IF w[l - 1] = Invalid THEN Invalid ELSE tab[w[l - 1].to][idx(v, l - 1)]
    <2>1. CASE l = 0
      BY <1>0, <1>1, <2>1, Zenon
    <2>2. CASE l \in 1 .. LEVELS - 1
      <3>1. w[l] = st(l) /\ w[l - 1] = st(l - 1) /\ l # 0
        BY <1>0, <2>2
      <3>. HIDE DEF w
      <3>. QED BY <1>2, <2>2, <3>1, Zenon
    <2>3. CASE l = LEVELS
      <3>1. w[l] = last /\ w[l - 1] = st(l - 1) /\ l # 0
        BY <1>0, <2>3
      <3>. HIDE DEF w
      <3>. QED BY <2>3, <3>1, Zenon
    <2>4. l = 0 \/ l \in 1 .. LEVELS - 1 \/ l = LEVELS
      BY <1>0
    <2>. HIDE DEF w
    <2>. QED BY <2>1, <2>2, <2>3, <2>4, Zenon
  <1>11. w = [l \in 0 .. LEVELS |-> w[l]]
    BY Zenon
  <1>4. w = WalkBody(Root(p), v, w)
    <2>. HIDE DEF w
    <2>1. WalkBody(Root(p), v, w) = [l \in 0 .. LEVELS |-> w[l]]
      BY <1>3, Zenon DEF WalkBody
    <2>. QED BY <1>11, <2>1, Zenon
  <1>5. w[LEVELS] = last
    BY <1>0
  <1>. HIDE DEF w
  <1>6. PICK d : d = WalkBody(Root(p), v, d) /\ Translate(Root(p), v) = d[LEVELS]
    BY <1>4, TranslateDef, Zenon
  <1>7. d[LEVELS] = w[LEVELS]
    BY <1>0, <1>4, <1>6, WalkOne
  <1>8. Translate(Root(p), v) = last
    BY <1>5, <1>6, <1>7, Zenon
  <1>9. ASSUME NEW t \in Used, H[t] = Leaf(p, v)
        PROVE  last = tab[t][idx(v, LEVELS - 1)]
    <2>1. AtHome(H, p, v, LEVELS - 1) = {t}
      BY <1>9, Zenon DEF AtHome, Leaf, TreeInv
    <2>2. TheTable(H, p, v, LEVELS - 1) = t
      BY <2>1, Zenon DEF TheTable
    <2>3. st(LEVELS - 1) = desc_table(t)
      BY <2>1, <2>2, Zenon DEF st, Stage
    <2>4. desc_table(t).kind = "table" /\ desc_table(t).to = t /\ Invalid.kind = "invalid"
      BY Zenon DEF desc_table, Invalid
    <2>5. desc_table(t) # Invalid
      BY <2>4, Zenon
    <2>. QED BY <2>3, <2>4, <2>5, Zenon
  <1>10. ASSUME \A t \in Used : H[t] # Leaf(p, v) PROVE last = Invalid
    <2>1. AtHome(H, p, v, LEVELS - 1) = {}
      BY <1>10, Zenon DEF AtHome, Leaf
    <2>2. st(LEVELS - 1) = Invalid
      BY <2>1, Zenon DEF st, Stage
    <2>. QED BY <2>2, Zenon
  <1>. HIDE DEF last
  <1>. QED BY <1>8, <1>9, <1>10, Zenon

-----------------------------------------------------------------------------
(* The tables of a tree.                                                   *)
Under(T) == {tab[e[1]][e[2]].to : e \in {x \in T \X Index : tab[x[1]][x[2]] # Invalid}}
TreeBody(root, t) == [l \in 0 .. LEVELS - 1 |-> IF l = 0 THEN {root} ELSE Under(t[l - 1])]
IsTree(root, t) == t = TreeBody(root, t)
Level(H, p, l) == {t \in Used : H[t].of = p /\ H[t].depth = l}

(* TreeOf is the union of a function that this defines by recursion.       *)
LEMMA TreeDef ==
  ASSUME NEW root, NEW w, w = TreeBody(root, w)
  PROVE  \E t : t = TreeBody(root, t) /\ TreeOf(root) = UNION {t[l] : l \in 0 .. LEVELS - 1}
  <1>. DEFINE t == CHOOSE t : t = TreeBody(root, t)
  <1>1. t = TreeBody(root, t)
    BY Zenon
  <1>2. TreeOf(root) = UNION {t[l] : l \in 0 .. LEVELS - 1}
    BY Zenon DEF TreeOf, TreeBody, Under
  <1>. HIDE DEF t
  <1>. QED BY <1>1, <1>2, Zenon

(* What it is at each level.                                               *)
LEMMA TreeAt ==
  ASSUME NEW root, NEW t, IsTree(root, t), NEW l \in 0 .. LEVELS - 1
  PROVE  (l = 0 => t[l] = {root}) /\ (l # 0 => t[l] = Under(t[l - 1]))
  <1>1. TreeBody(root, t)[l] = IF l = 0 THEN {root} ELSE Under(t[l - 1])
    BY Zenon DEF TreeBody
  <1>2. t[l] = TreeBody(root, t)[l]
    BY Zenon DEF IsTree
  <1>. QED BY <1>1, <1>2, Zenon

(* There is only one such function.                                        *)
LEMMA TreeOne ==
  ASSUME NEW root, NEW t, IsTree(root, t), NEW w, IsTree(root, w)
  PROVE  \A l \in 0 .. LEVELS - 1 : t[l] = w[l]
  <1>. DEFINE S == {l \in 0 .. LEVELS - 1 : t[l] # w[l]}
  <1>. SUFFICES ASSUME S # {} PROVE FALSE
    BY Zenon
  <1>0. LEVELS \in Nat
    BY TreeAssumption, Zenon
  <1>1. S \in SUBSET Nat
    BY <1>0
  <1>2. PICK m \in S : \A n \in S : m <= n
    <2>. HIDE DEF S
    <2>. QED BY <1>1, LeastNat, Zenon
  <1>3. m \in 0 .. LEVELS - 1 /\ t[m] # w[m]
    BY Zenon
  <1>4. /\ (m = 0 => t[m] = {root}) /\ (m # 0 => t[m] = Under(t[m - 1]))
        /\ (m = 0 => w[m] = {root}) /\ (m # 0 => w[m] = Under(w[m - 1]))
    <2>. HIDE DEF S
    <2>0. m \in 0 .. LEVELS - 1
      BY <1>3, Zenon
    <2>1. (m = 0 => t[m] = {root}) /\ (m # 0 => t[m] = Under(t[m - 1]))
      BY <2>0, TreeAt, Zenon
    <2>2. (m = 0 => w[m] = {root}) /\ (m # 0 => w[m] = Under(w[m - 1]))
      BY <2>0, TreeAt, Zenon
    <2>. QED BY <2>1, <2>2, Zenon
  <1>5. m # 0
    BY <1>3, <1>4, Zenon
  <1>6. m - 1 \in 0 .. LEVELS - 1 /\ ~(m <= m - 1)
    BY <1>0, <1>3, <1>5
  <1>7. t[m - 1] = w[m - 1]
    BY <1>2, <1>6, Zenon
  <1>. QED BY <1>3, <1>4, <1>5, <1>7, Zenon

(* The tables of a level are those that the level above leads to.          *)
LEMMA LevelBelow ==
  ASSUME NEW H \in Homes, TreeInv(H), NEW p \in Owners, NEW l \in 1 .. LEVELS - 1
  PROVE  Under(Level(H, p, l - 1)) = Level(H, p, l)
  <1>. DEFINE T == {t \in Used : H[t].of = p /\ H[t].depth = l - 1}
  <1>0. l \in Nat /\ l - 1 # LEVELS - 1 /\ (l - 1) + 1 = l /\ l # 0
    BY TreeAssumption
  <1>1. ASSUME NEW s \in T, NEW i \in Index, tab[s][i] # Invalid
        PROVE  tab[s][i].to \in {t \in Used : H[t].of = p /\ H[t].depth = l}
    <2>1. s \in Used /\ H[s].of = p /\ H[s].depth = l - 1
      BY Zenon
    <2>2. Leads(H, s, i)
      BY <2>1, Zenon DEF TreeInv
    <2>3. PICK u \in Used : tab[s][i] = desc_table(u) /\ H[u] = home(p, l, Below(H[s].num, i))
      BY <1>0, <1>1, <2>1, <2>2, Zenon DEF Leads
    <2>4. tab[s][i].to = u /\ H[u].of = p /\ H[u].depth = l
      BY <2>3 DEF desc_table, home
    <2>. QED BY <2>4, Zenon
  <1>2. ASSUME NEW u \in Used, H[u].of = p, H[u].depth = l
        PROVE  \E s \in T, i \in Index : tab[s][i] # Invalid /\ tab[s][i].to = u
    <2>1. u # Root(p)
      <3>1. H[Root(p)] = home(p, 0, 0) /\ home(p, 0, 0).depth = 0
        BY Zenon DEF TreeInv, home
      <3>. QED BY <1>0, <1>2, <3>1, Zenon
    <2>2. PICK s \in Used, i \in Index : tab[s][i] = desc_table(u)
      BY <1>2, <2>1, Zenon DEF TreeInv
    <2>3. H[u] = home(H[s].of, H[s].depth + 1, Below(H[s].num, i))
      BY <2>2, ParentHome, Zenon
    <2>4. H[s].of = p /\ H[s].depth + 1 = l
      BY <1>2, <2>3 DEF home
    <2>5. H[s].depth \in Nat
      <3>1. H[s] \in Home
        BY Zenon DEF Homes, Used
      <3>. QED BY <3>1, TreeAssumption DEF Home
    <2>6. s \in T
      BY <1>0, <2>4, <2>5
    <2>7. u \in Pages
      BY Zenon DEF Used
    <2>8. tab[s][i] # Invalid /\ tab[s][i].to = u
      BY <2>2, <2>7, Descriptors DEF desc_table
    <2>. QED BY <2>6, <2>8, Zenon
  <1>. DEFINE L == {tab[e[1]][e[2]].to : e \in {x \in T \X Index : tab[x[1]][x[2]] # Invalid}}
              U == {t \in Used : H[t].of = p /\ H[t].depth = l}
  <1>3. ASSUME NEW a \in L PROVE a \in U
    <2>1. PICK e \in T \X Index : tab[e[1]][e[2]] # Invalid /\ a = tab[e[1]][e[2]].to
      BY Zenon
    <2>2. e[1] \in T /\ e[2] \in Index
      BY <2>1, Zenon
    <2>. HIDE DEF L, U
    <2>3. tab[e[1]][e[2]].to \in U
      BY <1>1, <2>1, <2>2, Zenon DEF U
    <2>. QED BY <2>1, <2>3, Zenon
  <1>4. ASSUME NEW a \in U PROVE a \in L
    <2>1. PICK s \in T, i \in Index : tab[s][i] # Invalid /\ tab[s][i].to = a
      BY <1>2, Zenon
    <2>2. <<s, i>> \in {x \in T \X Index : tab[x[1]][x[2]] # Invalid} /\ <<s, i>>[1] = s /\ <<s, i>>[2] = i
      BY <2>1, Zenon
    <2>. QED BY <2>1, <2>2, Zenon
  <1>. QED BY <1>3, <1>4, Zenon DEF Under, Level

(* The tables of the tree of a slot are those whose home is in it.         *)
LEMMA TreeIs ==
  ASSUME NEW H \in Homes, TreeInv(H), NEW p \in Owners
  PROVE  TreeOf(Root(p)) = {t \in Used : H[t].of = p}
  <1>0. LEVELS \in Nat \ {0} /\ 0 \in 0 .. LEVELS - 1
    BY TreeAssumption
  <1>. DEFINE T(l) == Level(H, p, l)
              w == [l \in 0 .. LEVELS - 1 |-> T(l)]
  <1>1. T(0) = {Root(p)}
    <2>. USE DEF Level
    <2>1. Root(p) \in Used /\ H[Root(p)] = home(p, 0, 0)
      BY Zenon DEF TreeInv
    <2>2. Root(p) \in T(0)
      BY <2>1 DEF home
    <2>3. ASSUME NEW t \in T(0) PROVE t = Root(p)
      <3>. SUFFICES ASSUME t # Root(p) PROVE FALSE
        BY Zenon
      <3>1. PICK s \in Used, j \in Index : tab[s][j] = desc_table(t)
        BY Zenon DEF TreeInv
      <3>2. H[t] = home(H[s].of, H[s].depth + 1, Below(H[s].num, j))
        BY <3>1, ParentHome
      <3>3. H[s].depth + 1 = 0
        BY <3>2 DEF home
      <3>4. H[s].depth \in Nat
        <4>1. H[s] \in Home
          BY Zenon DEF Homes, Used
        <4>. QED BY <4>1, TreeAssumption DEF Home
      <3>. QED BY <3>3, <3>4
    <2>. QED BY <2>2, <2>3, Zenon
  <1>2. ASSUME NEW l \in 1 .. LEVELS - 1 PROVE T(l) = Under(T(l - 1))
    BY LevelBelow, Zenon
  <1>. HIDE DEF T
  <1>3. \A l \in 0 .. LEVELS - 1 : w[l] = IF l = 0 THEN {Root(p)} ELSE Under(w[l - 1])
    <2>1. \A l \in 0 .. LEVELS - 1 : w[l] = T(l)
      BY Zenon
    <2>2. \A l \in 0 .. LEVELS - 1 : l # 0 => l \in 1 .. LEVELS - 1 /\ l - 1 \in 0 .. LEVELS - 1
      BY <1>0
    <2>. HIDE DEF w
    <2>. QED BY <1>1, <1>2, <2>1, <2>2, Zenon
  <1>4. w = [l \in 0 .. LEVELS - 1 |-> w[l]] /\ \A l \in 0 .. LEVELS - 1 : w[l] = T(l)
    BY Zenon
  <1>. HIDE DEF w
  <1>5. w = TreeBody(Root(p), w)
    <2>1. TreeBody(Root(p), w) = [l \in 0 .. LEVELS - 1 |-> IF l = 0 THEN {Root(p)} ELSE Under(w[l - 1])]
      BY Zenon DEF TreeBody
    <2>2. [l \in 0 .. LEVELS - 1 |-> IF l = 0 THEN {Root(p)} ELSE Under(w[l - 1])] = [l \in 0 .. LEVELS - 1 |-> w[l]]
      BY <1>3, Zenon
    <2>. QED BY <1>4, <2>1, <2>2, Zenon
  <1>6. PICK t : t = TreeBody(Root(p), t) /\ TreeOf(Root(p)) = UNION {t[l] : l \in 0 .. LEVELS - 1}
    BY <1>5, TreeDef, Zenon
  <1>7. \A l \in 0 .. LEVELS - 1 : t[l] = T(l)
    <2>1. \A l \in 0 .. LEVELS - 1 : t[l] = w[l]
      BY <1>5, <1>6, TreeOne, Zenon DEF IsTree
    <2>. QED BY <1>4, <2>1, Zenon
  <1>8. \A a \in Used : H[a].depth \in 0 .. LEVELS - 1
    <2>1. \A a \in Used : H[a] \in Home
      BY Zenon DEF Homes, Used
    <2>. QED BY <2>1, Zenon DEF Home
  <1>9. UNION {T(l) : l \in 0 .. LEVELS - 1} = {a \in Used : H[a].of = p}
    BY <1>8 DEF T, Level
  <1>10. {t[l] : l \in 0 .. LEVELS - 1} = {T(l) : l \in 0 .. LEVELS - 1}
    BY <1>7, Zenon
  <1>. QED BY <1>6, <1>9, <1>10, Zenon

-----------------------------------------------------------------------------
(* What the ranges of a whole map say.                                     *)
Covers(R, k, v) == R[k].va <= v /\ v < R[k].end
PageOf(x, v) == desc_page(x.pa + (v - x.va), x.attrs)
Layered(R, v, d) ==
  /\ (\A k \in DOMAIN R : ~Covers(R, k, v)) => d = Invalid
  /\ \A k \in DOMAIN R :
       Covers(R, k, v) /\ (\A j \in DOMAIN R : j > k => ~Covers(R, j, v)) => d = PageOf(R[k], v)

(* A set of indices has a last one.                                        *)
LEMMA Greatest ==
  ASSUME NEW N \in Nat, NEW S \in SUBSET (1 .. N), S # {}
  PROVE  \E m \in S : \A n \in S : n <= m
  <1>. DEFINE T == {N - k : k \in S}
  <1>0. \A k \in S : N - k \in Nat
    OBVIOUS
  <1>1. T \in SUBSET Nat /\ T # {}
    BY <1>0, Zenon
  <1>2. PICK t \in T : \A n \in T : t <= n
    <2>. HIDE DEF T
    <2>. QED BY <1>1, LeastNat, Zenon
  <1>3. PICK m \in S : t = N - m
    BY Zenon
  <1>4. ASSUME NEW n \in S PROVE n <= m
    <2>1. N - n \in T
      BY Zenon
    <2>2. N - m <= N - n
      <3>. HIDE DEF T
      <3>. QED BY <1>2, <1>3, <2>1, Zenon
    <2>. QED BY <2>2
  <1>. QED BY <1>4, Zenon

(* Rounded out to pages, a range has the pages that it overlaps.           *)
LEMMA RangeCovers ==
  ASSUME NEW v \in VPages, NEW a \in Nat, NEW b \in Nat
  PROVE  Down(a) <= v /\ v < Up(b) <=> In(v, a, b)
  <1>0. v \in Nat /\ v % PAGE_SIZE = 0 /\ PAGE_SIZE \in Nat \ {0}
    BY TreeAssumption DEF VPages
  <1>1. /\ Down(a) \in Nat /\ Down(a) % PAGE_SIZE = 0 /\ Down(a) <= a /\ a < Down(a) + PAGE_SIZE
        /\ Up(b) \in Nat /\ b <= Up(b)
    BY DownNat, UpNat, Zenon
  <1>2. Down(a) < v + PAGE_SIZE => Down(a) <= v
    BY <1>0, <1>1, PageGap, Zenon
  <1>3. b <= v => Up(b) <= v
    <2>. SUFFICES ASSUME b <= v PROVE Up(b) <= v
      BY Zenon
    <2>1. Up(b) <= Up(v) /\ Up(v) = v
      BY <1>0, UpMono, UpNat, Zenon
    <2>. QED BY <2>1, Zenon
  <1>. QED BY <1>0, <1>1, <1>2, <1>3 DEF In

(* A range that is mapped at its own addresses.                            *)
Maps(x, lo, hi, c, v) ==
  (x.va <= v /\ v < x.end <=> In(v, lo, hi)) /\ PageOf(x, v) = desc_page(v, c)

(* As map_range_pages does when both its addresses are the same.           *)
LEMMA OwnRange ==
  ASSUME NEW v \in VPages, NEW a \in Nat, NEW len \in Nat, NEW c
  PROVE  Maps(map_range_pages(a, a, len, c), a, a + len, c, v)
  <1>. DEFINE x == map_range_pages(a, a, len, c)
  <1>1. x.va = Down(a) /\ x.pa = Down(a) /\ x.end = Up(a + len) /\ x.attrs = c
    BY Zenon DEF map_range_pages
  <1>2. Down(a) \in Nat /\ v \in Nat /\ a + len \in Nat
    BY DownNat DEF VPages
  <1>3. Down(a) + (v - Down(a)) = v
    BY <1>2
  <1>. HIDE DEF x
  <1>4. PageOf(x, v) = desc_page(v, c)
    BY <1>1, <1>3, Zenon DEF PageOf
  <1>5. Down(a) <= v /\ v < Up(a + len) <=> In(v, a, a + len)
    BY <1>2, RangeCovers, Zenon
  <1>6. Maps(x, a, a + len, c, v)
    BY <1>1, <1>4, <1>5, Zenon DEF Maps
  <1>. QED BY <1>6, Zenon DEF x

(* The range of the UART is its page.                                      *)
LEMMA UartRange ==
  ASSUME NEW v \in VPages
  PROVE  (map_uart.va <= v /\ v < map_uart.end <=> v = UART) /\ PageOf(map_uart, v) = desc_page(v, "dev")
  <1>1. /\ UART \in Nat /\ UART % PAGE_SIZE = 0 /\ PAGE_SIZE \in Nat \ {0}
        /\ v \in Nat /\ v % PAGE_SIZE = 0
    BY LayoutAssumption, TreeAssumption DEF VPages
  <1>2. In(v, UART, UART + PAGE_SIZE) <=> v = UART
    <2>1. UART < v + PAGE_SIZE => UART <= v
      BY <1>1, PageGap, Zenon
    <2>2. v < UART + PAGE_SIZE => v <= UART
      BY <1>1, PageGap, Zenon
    <2>. QED BY <1>1, <2>1, <2>2 DEF In
  <1>3. Maps(map_uart, UART, UART + PAGE_SIZE, "dev", v)
    BY <1>1, OwnRange, Zenon DEF map_uart
  <1>. QED BY <1>2, <1>3, Zenon DEF Maps

(* The last of the ranges that has a page decides.                         *)
On(x, v) == x.va <= v /\ v < x.end
LEMMA LayeredFour ==
  ASSUME NEW a, NEW b, NEW c, NEW u, NEW v, NEW d, Layered(<<a, b, c, u>>, v, d)
  PROVE  /\ On(u, v) => d = PageOf(u, v)
         /\ ~On(u, v) /\ On(c, v) => d = PageOf(c, v)
         /\ ~On(u, v) /\ ~On(c, v) /\ On(b, v) => d = PageOf(b, v)
         /\ ~On(u, v) /\ ~On(c, v) /\ ~On(b, v) /\ On(a, v) => d = PageOf(a, v)
         /\ ~On(u, v) /\ ~On(c, v) /\ ~On(b, v) /\ ~On(a, v) => d = Invalid
  <1>. DEFINE R == <<a, b, c, u>>
  <1>1. DOMAIN R = 1 .. 4 /\ R[1] = a /\ R[2] = b /\ R[3] = c /\ R[4] = u
    OBVIOUS
  <1>2. Layered(R, v, d)
    BY Zenon
  <1>. HIDE DEF R
  <1>3. /\ \A k \in DOMAIN R : k = 1 \/ k = 2 \/ k = 3 \/ k = 4
        /\ 1 \in DOMAIN R /\ 2 \in DOMAIN R /\ 3 \in DOMAIN R /\ 4 \in DOMAIN R
        /\ \A j \in DOMAIN R : /\ ~(j > 4) /\ (j > 3 => j = 4) /\ (j > 2 => j = 3 \/ j = 4)
                              /\ (j > 1 => j = 2 \/ j = 3 \/ j = 4)
    BY <1>1
  <1>4. /\ Covers(R, 1, v) <=> On(a, v)
        /\ Covers(R, 2, v) <=> On(b, v)
        /\ Covers(R, 3, v) <=> On(c, v)
        /\ Covers(R, 4, v) <=> On(u, v)
    BY <1>1, Zenon DEF Covers, On
  <1>5. On(u, v) => d = PageOf(u, v)
    BY <1>1, <1>2, <1>3, <1>4, Zenon DEF Layered
  <1>6. ~On(u, v) /\ On(c, v) => d = PageOf(c, v)
    BY <1>1, <1>2, <1>3, <1>4, Zenon DEF Layered
  <1>7. ~On(u, v) /\ ~On(c, v) /\ On(b, v) => d = PageOf(b, v)
    BY <1>1, <1>2, <1>3, <1>4, Zenon DEF Layered
  <1>8. ~On(u, v) /\ ~On(c, v) /\ ~On(b, v) /\ On(a, v) => d = PageOf(a, v)
    BY <1>1, <1>2, <1>3, <1>4, Zenon DEF Layered
  <1>9. ~On(u, v) /\ ~On(c, v) /\ ~On(b, v) /\ ~On(a, v) => d = Invalid
    BY <1>1, <1>2, <1>3, <1>4, Zenon DEF Layered
  <1>. QED BY <1>5, <1>6, <1>7, <1>8, <1>9, Zenon

(* The same for a map that has nothing of the kernel.                      *)
LEMMA LayeredThree ==
  ASSUME NEW a, NEW c, NEW u, NEW v, NEW d, Layered(<<a, c, u>>, v, d)
  PROVE  /\ On(u, v) => d = PageOf(u, v)
         /\ ~On(u, v) /\ On(c, v) => d = PageOf(c, v)
         /\ ~On(u, v) /\ ~On(c, v) /\ On(a, v) => d = PageOf(a, v)
         /\ ~On(u, v) /\ ~On(c, v) /\ ~On(a, v) => d = Invalid
  <1>. DEFINE R == <<a, c, u>>
  <1>1. DOMAIN R = 1 .. 3 /\ R[1] = a /\ R[2] = c /\ R[3] = u
    OBVIOUS
  <1>2. Layered(R, v, d)
    BY Zenon
  <1>. HIDE DEF R
  <1>3. /\ \A k \in DOMAIN R : k = 1 \/ k = 2 \/ k = 3
        /\ 1 \in DOMAIN R /\ 2 \in DOMAIN R /\ 3 \in DOMAIN R
        /\ \A j \in DOMAIN R : ~(j > 3) /\ (j > 2 => j = 3) /\ (j > 1 => j = 2 \/ j = 3)
    BY <1>1
  <1>4. /\ Covers(R, 1, v) <=> On(a, v)
        /\ Covers(R, 2, v) <=> On(c, v)
        /\ Covers(R, 3, v) <=> On(u, v)
    BY <1>1, Zenon DEF Covers, On
  <1>5. On(u, v) => d = PageOf(u, v)
    BY <1>1, <1>2, <1>3, <1>4, Zenon DEF Layered
  <1>6. ~On(u, v) /\ On(c, v) => d = PageOf(c, v)
    BY <1>1, <1>2, <1>3, <1>4, Zenon DEF Layered
  <1>7. ~On(u, v) /\ ~On(c, v) /\ On(a, v) => d = PageOf(a, v)
    BY <1>1, <1>2, <1>3, <1>4, Zenon DEF Layered
  <1>8. ~On(u, v) /\ ~On(c, v) /\ ~On(a, v) => d = Invalid
    BY <1>1, <1>2, <1>3, <1>4, Zenon DEF Layered
  <1>. QED BY <1>5, <1>6, <1>7, <1>8, Zenon

(* What build_process_map lays out: whole pages of the image, and of the   *)
(* kernel what is below the program.                                       *)
LaidOut(img, v) ==
  IF v = UART THEN desc_page(v, "dev")
  ELSE IF v < img[2] /\ v < CODE_0 THEN desc_page(Down(img[1]) + v, "proc")
  ELSE IF In(v, CODE_0, KernelEnd(img)) \/ In(v, MEM_0, MEM_END + 1) THEN desc_page(v, "kern")
  ELSE Invalid

LEMMA ProcessLayout ==
  ASSUME NEW img \in Images, NEW v \in VPages, NEW d,
         Layered(build_process_map(img[1], img[2]), v, d)
  PROVE  d = LaidOut(img, v)
  <1>1. /\ CODE_0 \in Nat /\ CODE_0 % PAGE_SIZE = 0 /\ KEND \in Nat /\ MEM_0 \in Nat /\ MEM_END \in Nat
        /\ CODE_0 < KEND /\ KEND <= MEM_0 /\ MEM_0 <= MEM_END /\ PAGE_SIZE \in Nat \ {0}
        /\ v \in Nat /\ v % PAGE_SIZE = 0 /\ img[1] \in Nat /\ img[2] \in Nat
    BY LayoutAssumption, TreeAssumption, ProcessRanges DEF VPages
  <1>2. PICK l \in Nat : l = IF img[2] < CODE_0 THEN img[2] ELSE CODE_0
    BY <1>1, Zenon
  <1>0. PICK ke \in Nat : ke = KernelEnd(img)
    BY ProcessRanges, Zenon
  <1>. DEFINE a == map_range_pages(0, img[1], l, "proc")
              b == map_range_pages(CODE_0, CODE_0, ke - CODE_0, "kern")
              c == map_range_pages(MEM_0, MEM_0, MEM_END + 1 - MEM_0, "kern")
              u == map_uart
  <1>3. Layered(IF ke > CODE_0 THEN <<a, b, c, u>> ELSE <<a, c, u>>, v, d)
    BY <1>0, <1>2, ProcessRanges, Zenon
  <1>4. (On(a, v) <=> v < img[2] /\ v < CODE_0) /\ PageOf(a, v) = desc_page(Down(img[1]) + v, "proc")
    <2>1. a.va = Down(0) /\ a.end = Up(0 + l) /\ a.pa = Down(img[1]) /\ a.attrs = "proc"
      BY Zenon DEF map_range_pages
    <2>2. Down(0) = 0
      BY <1>1, DownNat
    <2>3. 0 + l = l /\ Down(0) <= v /\ v < Up(l) <=> In(v, 0, l)
      BY <1>2, RangeCovers
    <2>4. In(v, 0, l) <=> v < img[2] /\ v < CODE_0
      BY <1>1, <1>2 DEF In
    <2>5. Down(img[1]) + (v - 0) = Down(img[1]) + v
      BY <1>1
    <2>6. PageOf(a, v) = desc_page(Down(img[1]) + v, "proc")
      BY <2>1, <2>2, <2>5, Zenon DEF PageOf
    <2>7. 0 + l = l
      BY <1>2
    <2>. QED BY <2>1, <2>3, <2>4, <2>6, <2>7, Zenon DEF On
  <1>5. ke > CODE_0 => Maps(b, CODE_0, ke, "kern", v)
    <2>. SUFFICES ASSUME ke > CODE_0 PROVE Maps(b, CODE_0, ke, "kern", v)
      BY Zenon
    <2>1. ke - CODE_0 \in Nat /\ CODE_0 + (ke - CODE_0) = ke
      BY <1>1
    <2>2. Maps(b, CODE_0, CODE_0 + (ke - CODE_0), "kern", v)
      BY <1>1, <2>1, OwnRange, Zenon
    <2>. QED BY <2>1, <2>2, Zenon
  <1>6. Maps(c, MEM_0, MEM_END + 1, "kern", v)
    <2>1. MEM_END + 1 - MEM_0 \in Nat /\ MEM_0 + (MEM_END + 1 - MEM_0) = MEM_END + 1
      BY <1>1
    <2>2. Maps(c, MEM_0, MEM_0 + (MEM_END + 1 - MEM_0), "kern", v)
      BY <1>1, <2>1, OwnRange, Zenon
    <2>. QED BY <2>1, <2>2, Zenon
  <1>7. (On(u, v) <=> v = UART) /\ PageOf(u, v) = desc_page(v, "dev")
    BY UartRange, Zenon DEF On
  <1>8. v < CODE_0 => ~In(v, CODE_0, ke) /\ ~In(v, MEM_0, MEM_END + 1)
    <2>1. CODE_0 < v + PAGE_SIZE => CODE_0 <= v
      BY <1>1, PageGap, Zenon
    <2>. QED BY <1>1, <2>1 DEF In
  <1>9. ~(ke > CODE_0) => ~In(v, CODE_0, ke)
    <2>1. CODE_0 < v + PAGE_SIZE => CODE_0 <= v
      BY <1>1, PageGap, Zenon
    <2>. QED BY <1>1, <2>1 DEF In
  <1>. HIDE DEF a, b, c, u
  <1>10. CASE ke > CODE_0
    <2>1. Layered(<<a, b, c, u>>, v, d)
      BY <1>3, <1>10, Zenon
    <2>2. (On(b, v) <=> In(v, CODE_0, ke)) /\ (On(c, v) <=> In(v, MEM_0, MEM_END + 1))
          /\ PageOf(b, v) = desc_page(v, "kern") /\ PageOf(c, v) = desc_page(v, "kern")
      BY <1>5, <1>6, <1>10, Zenon DEF Maps, On
    <2>3. /\ On(u, v) => d = PageOf(u, v)
          /\ ~On(u, v) /\ On(c, v) => d = PageOf(c, v)
          /\ ~On(u, v) /\ ~On(c, v) /\ On(b, v) => d = PageOf(b, v)
          /\ ~On(u, v) /\ ~On(c, v) /\ ~On(b, v) /\ On(a, v) => d = PageOf(a, v)
          /\ ~On(u, v) /\ ~On(c, v) /\ ~On(b, v) /\ ~On(a, v) => d = Invalid
      BY <2>1, LayeredFour, SMT
    <2>4. CASE v = UART
      BY <1>7, <2>3, <2>4, Zenon DEF LaidOut
    <2>5. CASE v # UART /\ v < img[2] /\ v < CODE_0
      BY <1>4, <1>7, <1>8, <2>2, <2>3, <2>5, Zenon DEF LaidOut
    <2>6. CASE v # UART /\ ~(v < img[2] /\ v < CODE_0)
      BY <1>0, <1>4, <1>7, <2>2, <2>3, <2>6, Zenon DEF LaidOut
    <2>. QED BY <2>4, <2>5, <2>6, Zenon
  <1>11. CASE ~(ke > CODE_0)
    <2>1. Layered(<<a, c, u>>, v, d)
      BY <1>3, <1>11, Zenon
    <2>2. (On(c, v) <=> In(v, MEM_0, MEM_END + 1)) /\ PageOf(c, v) = desc_page(v, "kern")
      BY <1>6, Zenon DEF Maps, On
    <2>3. /\ On(u, v) => d = PageOf(u, v)
          /\ ~On(u, v) /\ On(c, v) => d = PageOf(c, v)
          /\ ~On(u, v) /\ ~On(c, v) /\ On(a, v) => d = PageOf(a, v)
          /\ ~On(u, v) /\ ~On(c, v) /\ ~On(a, v) => d = Invalid
      BY <2>1, LayeredThree, SMT
    <2>4. CASE v = UART
      BY <1>7, <2>3, <2>4, Zenon DEF LaidOut
    <2>5. CASE v # UART /\ v < img[2] /\ v < CODE_0
      BY <1>4, <1>7, <1>8, <2>2, <2>3, <2>5, Zenon DEF LaidOut
    <2>6. CASE v # UART /\ ~(v < img[2] /\ v < CODE_0)
      BY <1>0, <1>4, <1>7, <1>9, <1>11, <2>2, <2>3, <2>6, Zenon DEF LaidOut
    <2>. QED BY <2>4, <2>5, <2>6, Zenon
  <1>. QED BY <1>10, <1>11, Zenon

(* Page boundaries add up to page boundaries.                              *)
LEMMA PageSum ==
  ASSUME NEW a \in Nat, NEW b \in Nat, a % PAGE_SIZE = 0, b % PAGE_SIZE = 0
  PROVE  (a + b) % PAGE_SIZE = 0
  <1>1. PAGE_SIZE \in Nat \ {0}
    BY TreeAssumption
  <1>. DEFINE m == a \div PAGE_SIZE
              n == b \div PAGE_SIZE
  <1>2. m \in Nat /\ n \in Nat /\ a = PAGE_SIZE * m + 0 /\ b = PAGE_SIZE * n + 0
    BY <1>1, DivMod
  <1>. HIDE DEF m, n
  <1>3. a + b = PAGE_SIZE * (m + n) /\ m + n \in Nat
    BY <1>1, <1>2
  <1>. QED BY <1>1, <1>3, MultipleMod

(* Where that is what is intended.                                         *)
Departs(img, v, d) ==
  LET w == IntendedProcess(img, v)
  IN  \/ d = w
      \/ img[1] % PAGE_SIZE # 0 /\ w.attrs = "proc" /\ d.attrs = "proc"
      \/ img[1] <= v /\ v < KEND /\ w.attrs = "kern" /\ d = Invalid
LEMMA LaidOutAsIntended ==
  ASSUME NEW img \in Images, NEW v \in VPages
  PROVE  Departs(img, v, LaidOut(img, v))
  <1>1. /\ PAGE_SIZE \in Nat \ {0} /\ KEND \in Nat /\ CODE_0 \in Nat /\ CODE_0 < KEND
        /\ v \in Nat /\ v % PAGE_SIZE = 0 /\ img[1] \in Nat /\ img[2] \in Nat
    BY LayoutAssumption, TreeAssumption, ProcessRanges DEF VPages
  <1>2. CASE v = UART
    <2>1. LaidOut(img, v) = IntendedProcess(img, v)
      BY <1>2, Zenon DEF LaidOut, IntendedProcess
    <2>. QED BY <2>1, Zenon DEF Departs
  <1>3. CASE v # UART /\ v < img[2] /\ v < CODE_0
    <2>1. /\ LaidOut(img, v) = desc_page(Down(img[1]) + v, "proc")
          /\ IntendedProcess(img, v) = [kind |-> "page", to |-> img[1] + v, attrs |-> "proc"]
      BY <1>3, Zenon DEF LaidOut, IntendedProcess
    <2>2. LaidOut(img, v).attrs = "proc" /\ IntendedProcess(img, v).attrs = "proc"
      BY <2>1 DEF desc_page
    <2>3. CASE img[1] % PAGE_SIZE = 0
      <3>1. Down(img[1]) = img[1]
        BY <1>1, <2>3, DownNat DEF Down
      <3>2. (img[1] + v) % PAGE_SIZE = 0 /\ img[1] + v \in Nat
        BY <1>1, <2>3, PageSum
      <3>3. Down(img[1] + v) = img[1] + v
        BY <1>1, <3>2 DEF Down
      <3>. QED BY <2>1, <3>1, <3>3, Zenon DEF desc_page, Departs
    <2>. QED BY <2>2, <2>3, Zenon DEF Departs
  <1>4. CASE v # UART /\ ~(v < img[2] /\ v < CODE_0)
    <2>1. In(v, CODE_0, KernelEnd(img)) => In(v, CODE_0, KEND)
      BY <1>1 DEF In, KernelEnd
    <2>2. In(v, CODE_0, KEND) /\ ~In(v, CODE_0, KernelEnd(img)) => img[1] <= v /\ v < KEND
      BY <1>1 DEF In, KernelEnd
    <2>3. desc_page(v, "kern").attrs = "kern"
      BY DEF desc_page
    <2>. QED BY <1>4, <2>1, <2>2, <2>3, Zenon DEF LaidOut, IntendedProcess, Departs
  <1>. QED BY <1>2, <1>3, <1>4, Zenon

(* build_kernel_map lays out what is intended of the kernel.               *)
LEMMA KernelLayout ==
  ASSUME NEW v \in VPages, NEW d, Layered(build_kernel_map, v, d)
  PROVE  d = IntendedKernel(v)
  <1>. DEFINE N == 2 + Len(Gic)
  <1>1. PICK R : R = build_kernel_map
    BY Zenon
  <1>2. /\ CODE_0 \in Nat /\ MEM_END \in Nat /\ CODE_0 <= MEM_END
        /\ Len(Gic) \in Nat /\ DOMAIN Gic = 1 .. Len(Gic) /\ DOMAIN R = 1 .. N
    BY <1>1, LayoutAssumption, KernelRanges
  <1>3. Layered(R, v, d)
    BY <1>1, Zenon
  <1>4. Maps(R[1], CODE_0, MEM_END + 1, "kern", v)
    <2>1. MEM_END + 1 - CODE_0 \in Nat /\ CODE_0 + (MEM_END + 1 - CODE_0) = MEM_END + 1
      BY <1>2
    <2>2. R[1] = map_range_pages(CODE_0, CODE_0, MEM_END + 1 - CODE_0, "kern")
      BY <1>1, KernelRanges, Zenon
    <2>3. Maps(R[1], CODE_0, CODE_0 + (MEM_END + 1 - CODE_0), "kern", v)
      BY <1>2, <2>1, <2>2, OwnRange, Zenon
    <2>. QED BY <2>1, <2>3, Zenon
  <1>5. (Covers(R, 2, v) <=> v = UART) /\ PageOf(R[2], v) = desc_page(v, "dev")
    <2>1. R[2] = map_uart
      BY <1>1, KernelRanges, Zenon
    <2>. QED BY <2>1, UartRange, Zenon DEF Covers
  <1>6. ASSUME NEW g \in 1 .. Len(Gic)
        PROVE  Maps(R[2 + g], Gic[g][1], Gic[g][1] + Gic[g][2], "dev", v)
    <2>1. /\ Gic[g] \in Nat \X Nat
          /\ R[2 + g] = map_range_pages(Gic[g][1], Gic[g][1], Gic[g][2], "dev")
      BY <1>1, KernelRanges, Zenon
    <2>2. Gic[g][1] \in Nat /\ Gic[g][2] \in Nat
      BY <2>1, Zenon
    <2>. QED BY <2>1, <2>2, OwnRange, Zenon
  <1>7. \A k \in 1 .. N : k = 1 \/ k = 2 \/ \E g \in 1 .. Len(Gic) : k = 2 + g
    <2>1. ASSUME NEW k \in 1 .. N, k # 1, k # 2 PROVE k - 2 \in 1 .. Len(Gic) /\ k = 2 + (k - 2)
      BY <1>2, <2>1
    <2>. QED BY <2>1, Zenon
  <1>8. /\ 1 \in 1 .. N /\ 2 \in 1 .. N /\ N \in Nat
        /\ \A g \in 1 .. Len(Gic) : 2 + g \in 1 .. N /\ 2 + g > 1
    BY <1>2
  <1>. HIDE DEF N
  <1>. DEFINE dev == v = UART \/ \E g \in DOMAIN Gic : In(v, Gic[g][1], Gic[g][1] + Gic[g][2])
  <1>9. dev <=> \E k \in 1 .. N : k # 1 /\ Covers(R, k, v)
    <2>1. ASSUME v = UART PROVE \E k \in 1 .. N : k # 1 /\ Covers(R, k, v)
      BY <1>5, <1>8, <2>1
    <2>2. ASSUME NEW g \in DOMAIN Gic, In(v, Gic[g][1], Gic[g][1] + Gic[g][2])
          PROVE  \E k \in 1 .. N : k # 1 /\ Covers(R, k, v)
      <3>1. Covers(R, 2 + g, v)
        BY <1>2, <1>6, <2>2, Zenon DEF Maps, Covers
      <3>2. 2 + g \in 1 .. N /\ 2 + g # 1
        BY <1>2, <1>8
      <3>. QED BY <3>1, <3>2, Zenon
    <2>3. ASSUME NEW k \in 1 .. N, k # 1, Covers(R, k, v) PROVE dev
      <3>1. CASE k = 2
        BY <1>5, <2>3, <3>1, Zenon
      <3>2. ASSUME NEW g \in 1 .. Len(Gic), k = 2 + g PROVE dev
        BY <1>2, <1>6, <2>3, <3>2, Zenon DEF Maps, Covers
      <3>. HIDE DEF dev
      <3>. QED BY <1>7, <2>3, <3>1, <3>2, Zenon
    <2>. QED BY <2>1, <2>2, <2>3, Zenon
  <1>10. CASE dev
    <2>. DEFINE S == {k \in 1 .. N : Covers(R, k, v)}
    <2>1. PICK k \in S : \A j \in S : j <= k
      <3>1. S \in SUBSET (1 .. N) /\ S # {}
        BY <1>9, <1>10, Zenon
      <3>2. N \in Nat
        BY <1>8, Zenon
      <3>. HIDE DEF S
      <3>. QED BY <3>1, <3>2, Greatest, Zenon
    <2>2. k \in 1 .. N /\ Covers(R, k, v)
      BY <2>1, Zenon
    <2>3. k # 1
      <3>1. PICK j \in 1 .. N : j # 1 /\ Covers(R, j, v)
        BY <1>9, <1>10, Zenon
      <3>2. j <= k
        BY <2>1, <3>1, Zenon
      <3>. QED BY <1>8, <3>1, <3>2
    <2>4. \A j \in 1 .. N : j > k => ~Covers(R, j, v)
      <3>1. ASSUME NEW j \in 1 .. N, j > k, Covers(R, j, v) PROVE FALSE
        <4>1. j <= k
          BY <2>1, <3>1, Zenon
        <4>2. j \in Nat /\ k \in Nat
          BY <1>8, <2>2
        <4>3. ~(j > k)
          BY <4>1, <4>2
        <4>. QED BY <3>1, <4>3, Zenon
      <3>. QED BY <3>1, Zenon
    <2>5. d = PageOf(R[k], v)
      BY <1>2, <1>3, <2>2, <2>4, Zenon DEF Layered
    <2>6. PageOf(R[k], v) = desc_page(v, "dev")
      <3>1. ASSUME NEW g \in 1 .. Len(Gic), k = 2 + g PROVE PageOf(R[k], v) = desc_page(v, "dev")
        BY <1>6, <3>1, Zenon DEF Maps
      <3>. QED BY <1>5, <1>7, <2>2, <2>3, <3>1, Zenon
    <2>. QED BY <1>10, <2>5, <2>6, Zenon DEF IntendedKernel
  <1>11. CASE ~dev
    <2>1. \A k \in 1 .. N : k # 1 => ~Covers(R, k, v)
      BY <1>9, <1>11, Zenon
    <2>. HIDE DEF dev
    <2>2. Covers(R, 1, v) <=> In(v, CODE_0, MEM_END + 1)
      BY <1>4, Zenon DEF Covers, Maps
    <2>3. CASE Covers(R, 1, v)
      <3>1. \A j \in 1 .. N : j > 1 => ~Covers(R, j, v)
        BY <1>8, <2>1
      <3>2. d = PageOf(R[1], v)
        BY <1>2, <1>3, <1>8, <2>3, <3>1, Zenon DEF Layered
      <3>3. d = desc_page(v, "kern")
        BY <1>4, <3>2, Zenon DEF Maps
      <3>. QED BY <1>11, <2>2, <2>3, <3>3, Zenon DEF IntendedKernel, dev
    <2>4. CASE ~Covers(R, 1, v)
      <3>1. \A j \in 1 .. N : ~Covers(R, j, v)
        BY <2>1, <2>4, Zenon
      <3>2. d = Invalid
        BY <1>2, <1>3, <3>1, Zenon DEF Layered
      <3>. QED BY <1>11, <2>2, <2>4, <3>2, Zenon DEF IntendedKernel, dev
    <2>. QED BY <2>3, <2>4, Zenon
  <1>. QED BY <1>10, <1>11, Zenon

(* The inductive invariant says how a whole map translates.                *)
LEMMA WholeMap ==
  ASSUME NEW H \in Homes, TableInv(H), NEW p \in Whole, NEW v \in VPages
  PROVE  /\ p = P0 => Translate(mmap[p].root, v) = IntendedKernel(v)
         /\ p # P0 => mmap[p].image \in Images /\ Translate(mmap[p].root, v) = LaidOut(mmap[p].image, v)
  <1>1. /\ p \in Slots /\ p \in Owners /\ mmap[p] # Unmapped
        /\ ~(call.op = "map" /\ call.on = p)
    BY Zenon DEF Whole, Owners, TableInv, TableType
  <1>2. Root(p) = mmap[p].root /\ RangesOf(p) = Ranges(p, mmap[p].image) /\ ~Building(p)
    BY <1>1, Zenon DEF Root, RangesOf, Building
  <1>. DEFINE d == Translate(Root(p), v)
  <1>3. Wanted(p, v, d)
    <2>1. /\ \A t \in Used : H[t] = Leaf(p, v) => Wanted(p, v, tab[t][idx(v, LEVELS - 1)])
          /\ (\A t \in Used : H[t] # Leaf(p, v)) => Wanted(p, v, Invalid)
      BY <1>1, Zenon DEF TableInv, MapInv
    <2>2. /\ \A t \in Used : H[t] = Leaf(p, v) => d = tab[t][idx(v, LEVELS - 1)]
          /\ (\A t \in Used : H[t] # Leaf(p, v)) => d = Invalid
      BY <1>1, TranslateIs, Zenon DEF TableInv
    <2>. HIDE DEF d
    <2>. QED BY <2>1, <2>2, Zenon
  <1>. HIDE DEF d
  <1>4. Layered(Ranges(p, mmap[p].image), v, d)
    <2>1. \A k : Covered(p, k, v) <=> Covers(Ranges(p, mmap[p].image), k, v)
      BY <1>2, Zenon DEF Covered, Covers
    <2>2. \A k : PageIn(p, k, v) = PageOf(Ranges(p, mmap[p].image)[k], v)
      BY <1>2, Zenon DEF PageIn, PageOf
    <2>. QED BY <1>2, <1>3, <2>1, <2>2, Zenon DEF Wanted, Layered
  <1>5. CASE p = P0
    BY <1>2, <1>4, <1>5, KernelLayout, Zenon DEF Ranges, d
  <1>6. CASE p # P0
    <2>1. mmap[p].image \in Images
      BY <1>1, <1>6, Zenon DEF TableInv, TableType, Fits
    <2>2. PICK img \in Images : img = mmap[p].image
      BY <2>1, Zenon
    <2>3. Layered(build_process_map(img[1], img[2]), v, d)
      BY <1>4, <1>6, <2>2, Zenon DEF Ranges
    <2>4. d = LaidOut(img, v)
      BY <2>3, ProcessLayout, Zenon
    <2>. QED BY <1>2, <1>6, <2>2, <2>4, Zenon DEF d
  <1>. QED BY <1>5, <1>6, Zenon

(* Walking the tables of a map gives what the comment at its builder says, *)
(* but for programs that start inside a page or inside the kernel, for     *)
(* every layout, shape of the trees and set of programs: mapping and       *)
(* freeing tables for one slot never changes what another translates to.   *)
THEOREM MapsTranslate == TableSpec => []TranslatesAsIntended
  <1>1. TreesSound => TranslatesAsIntended
    <2>. SUFFICES ASSUME TreesSound, NEW p \in Whole, NEW v \in VPages
                  PROVE  LET d == Translate(mmap[p].root, v)
                             w == Intended(p, v)
                             base == mmap[p].image[1]
                         IN  \/ d = w
                             \/ p # P0 /\ base % PAGE_SIZE # 0 /\ w.attrs = "proc" /\ d.attrs = "proc"
                             \/ p # P0 /\ base <= v /\ v < KEND /\ w.attrs = "kern" /\ d = Invalid
      BY Zenon DEF TranslatesAsIntended
    <2>1. PICK H \in Homes : TableInv(H)
      BY Zenon DEF TreesSound
    <2>2. /\ p = P0 => Translate(mmap[p].root, v) = IntendedKernel(v)
          /\ p # P0 => mmap[p].image \in Images /\ Translate(mmap[p].root, v) = LaidOut(mmap[p].image, v)
      BY <2>1, WholeMap, Zenon
    <2>3. CASE p = P0
      BY <2>2, <2>3, Zenon DEF Intended
    <2>4. CASE p # P0
      <3>1. Departs(mmap[p].image, v, Translate(mmap[p].root, v))
        BY <2>2, <2>4, LaidOutAsIntended, Zenon
      <3>. QED BY <2>4, <3>1, Zenon DEF Departs, Intended
    <2>. QED BY <2>3, <2>4, Zenon
  <1>. QED BY <1>1, TreesStaySound, PTL

-----------------------------------------------------------------------------
(* Global entries.                                                         *)
InGic(v) == \E g \in DOMAIN Gic : In(v, Gic[g][1], Gic[g][1] + Gic[g][2])
Kind(d, v) ==
  \/ d = desc_page(v, "dev") /\ (v = UART \/ InGic(v))
  \/ d.attrs = "proc" /\ v # UART /\ v < CODE_0 /\ ~InGic(v)
  \/ d = desc_page(v, "kern") /\ v # UART /\ CODE_0 <= v /\ ~InGic(v)
  \/ d = Invalid /\ v # UART

(* The kernel's pages are from CODE_0 on; those of the interrupt           *)
(* controller are below it, and no program reaches them.                   *)
LEMMA Zones ==
  ASSUME NEW v \in VPages
  PROVE  /\ \A lo \in Nat : \A hi : CODE_0 <= lo /\ In(v, lo, hi) => CODE_0 <= v
         /\ InGic(v) => v < CODE_0 /\ \A img \in Images : ~(v < img[2])
  <1>1. /\ CODE_0 \in Nat /\ CODE_0 % PAGE_SIZE = 0 /\ PAGE_SIZE \in Nat \ {0}
        /\ v \in Nat /\ v % PAGE_SIZE = 0
    BY LayoutAssumption, TreeAssumption DEF VPages
  <1>2. CODE_0 < v + PAGE_SIZE => CODE_0 <= v
    BY <1>1, PageGap, Zenon
  <1>3. ASSUME NEW lo \in Nat, NEW hi, CODE_0 <= lo, In(v, lo, hi) PROVE CODE_0 <= v
    BY <1>1, <1>2, <1>3 DEF In
  <1>4. ASSUME NEW g \in DOMAIN Gic, In(v, Gic[g][1], Gic[g][1] + Gic[g][2])
        PROVE  v < CODE_0 /\ \A img \in Images : ~(v < img[2])
    <2>1. Gic[g] \in Nat \X Nat
      BY LayoutAssumption
    <2>2. PICK a \in Nat, n \in Nat : a = Gic[g][1] /\ n = Gic[g][2]
      BY <2>1, Zenon
    <2>3. Up(a + n) <= CODE_0 /\ \A img \in Images : img[2] <= Down(a)
      BY <2>2, LayoutAssumption, Zenon
    <2>4. a + n \in Nat /\ a + n <= Up(a + n) /\ Up(a + n) \in Nat /\ Down(a) \in Nat
      BY UpNat, DownNat
    <2>5. In(v, a, a + n)
      BY <1>4, <2>2, Zenon
    <2>6. Down(a) <= v
      BY <2>4, <2>5, RangeCovers, Zenon
    <2>7. \A img \in Images : img[2] \in Nat
      BY ProcessRanges, Zenon
    <2>8. v < CODE_0
      BY <1>1, <2>3, <2>4, <2>5 DEF In
    <2>. QED BY <1>1, <2>3, <2>4, <2>6, <2>7, <2>8
  <1>. QED BY <1>3, <1>4, Zenon DEF InGic

(* What is laid out at an address is of one kind.                          *)
LEMMA Kinds ==
  ASSUME NEW v \in VPages
  PROVE  Kind(IntendedKernel(v), v) /\ \A img \in Images : Kind(LaidOut(img, v), v)
  <1>1. /\ CODE_0 \in Nat /\ MEM_0 \in Nat /\ v \in Nat /\ CODE_0 <= MEM_0 /\ CODE_0 <= CODE_0
    BY LayoutAssumption DEF VPages
  <1>2. /\ \A hi : In(v, CODE_0, hi) => CODE_0 <= v
        /\ In(v, CODE_0, MEM_END + 1) => CODE_0 <= v
        /\ In(v, MEM_0, MEM_END + 1) => CODE_0 <= v
    BY <1>1, Zones, Zenon
  <1>3. InGic(v) => v < CODE_0 /\ \A img \in Images : ~(v < img[2])
    BY Zones, Zenon
  <1>4. ~(CODE_0 <= v /\ v < CODE_0)
    BY <1>1
  <1>5. Kind(IntendedKernel(v), v)
    BY <1>2, <1>3, <1>4, Zenon DEF IntendedKernel, Kind, InGic
  <1>6. ASSUME NEW img \in Images PROVE Kind(LaidOut(img, v), v)
    <2>1. CASE v = UART
      BY <2>1, Zenon DEF LaidOut, Kind
    <2>2. CASE v # UART /\ v < img[2] /\ v < CODE_0
      <3>1. LaidOut(img, v) = desc_page(Down(img[1]) + v, "proc")
        BY <2>2, Zenon DEF LaidOut
      <3>2. LaidOut(img, v).attrs = "proc"
        BY <3>1 DEF desc_page
      <3>. QED BY <1>3, <2>2, <3>2, Zenon DEF Kind
    <2>3. CASE v # UART /\ ~(v < img[2] /\ v < CODE_0)
      BY <1>2, <1>3, <1>4, <2>3, Zenon DEF LaidOut, Kind
    <2>. QED BY <2>1, <2>2, <2>3, Zenon
  <1>. QED BY <1>5, <1>6, Zenon

(* A page that is global in one map is the same page in every other map    *)
(* that has one at its address, so mmu_map_switch may leave the global     *)
(* entries of the TLB in place whichever maps it goes between.             *)
THEOREM GlobalPagesAgree == TableSpec => []GlobalsAgree
  <1>1. TreesSound => GlobalsAgree
    <2>. SUFFICES ASSUME TreesSound, NEW p \in Whole, NEW q \in Whole, NEW v \in VPages,
                         Translate(mmap[p].root, v).attrs \in {"kern", "dev"}
                  PROVE  Translate(mmap[q].root, v) \in {Translate(mmap[p].root, v), Invalid}
      BY Zenon DEF GlobalsAgree
    <2>1. PICK H \in Homes : TableInv(H)
      BY Zenon DEF TreesSound
    <2>2. ASSUME NEW o \in Whole PROVE Kind(Translate(mmap[o].root, v), v)
      <3>1. /\ o = P0 => Translate(mmap[o].root, v) = IntendedKernel(v)
            /\ o # P0 => mmap[o].image \in Images /\ Translate(mmap[o].root, v) = LaidOut(mmap[o].image, v)
        BY <2>1, WholeMap, Zenon
      <3>. QED BY <3>1, Kinds, Zenon
    <2>3. PICK d : d = Translate(mmap[p].root, v)
      BY Zenon
    <2>4. PICK e : e = Translate(mmap[q].root, v)
      BY Zenon
    <2>5. Kind(d, v) /\ Kind(e, v) /\ d.attrs \in {"kern", "dev"}
      BY <2>2, <2>3, <2>4, Zenon
    <2>6. /\ Invalid.attrs = "none" /\ desc_page(v, "kern").attrs = "kern"
          /\ desc_page(v, "dev").attrs = "dev"
      BY Zenon DEF Invalid, desc_page
    <2>7. ~(CODE_0 <= v /\ v < CODE_0)
      BY LayoutAssumption DEF VPages
    <2>8. e \in {d, Invalid}
      BY <2>5, <2>6, <2>7, Zenon DEF Kind
    <2>. QED BY <2>3, <2>4, <2>8, Zenon
  <1>. QED BY <1>1, TreesStaySound, PTL

(* At every step of every call each table page is free or in the tree of   *)
(* exactly one slot: free_table_level gives back all that ensure_next and  *)
(* pt_root_new took for the map, and takes from no other.                  *)
THEOREM PagesStayAccounted == TableSpec => []PagesAccounted
  <1>1. TreesSound => PagesAccounted
    <2>. SUFFICES ASSUME TreesSound PROVE PagesAccounted
      BY Zenon
    <2>1. PICK H \in Homes : TableInv(H)
      BY Zenon DEF TreesSound
    <2>2. TreeInv(H) /\ free \subseteq Pages
      BY <2>1, Zenon DEF TableInv, TableType
    <2>. DEFINE trees == [p \in Owners |-> TreeOf(Root(p))]
    <2>3. ASSUME NEW p \in Owners PROVE trees[p] = {t \in Used : H[t].of = p}
      BY <2>2, TreeIs, Zenon
    <2>. HIDE DEF trees
    <2>4. \A p, q \in Owners : p # q => trees[p] \cap trees[q] = {}
      <3>. SUFFICES ASSUME NEW p \in Owners, NEW q \in Owners, NEW t, t \in trees[p], t \in trees[q]
                    PROVE  p = q
        BY Zenon
      <3>1. H[t].of = p /\ H[t].of = q
        BY <2>3, Zenon
      <3>. QED BY <3>1, Zenon
    <2>5. \A p \in Owners : trees[p] \cap free = {}
      BY <2>3, Zenon DEF Used
    <2>6. UNION {trees[p] : p \in Owners} = Used
      <3>1. ASSUME NEW t \in Used PROVE \E p \in Owners : t \in trees[p]
        BY <2>2, <2>3, Zenon DEF TreeInv
      <3>2. \A p \in Owners : trees[p] \subseteq Used
        BY <2>3, Zenon
      <3>. QED BY <3>1, <3>2, Zenon
    <2>7. free \cup UNION {trees[p] : p \in Owners} = Pages
      BY <2>2, <2>6, Zenon DEF Used
    <2>. QED BY <2>4, <2>5, <2>7, Zenon DEF PagesAccounted, trees
  <1>. QED BY <1>1, TreesStaySound, PTL

=============================================================================
