----------------------------- MODULE TreeProofs -----------------------------
(***************************************************************************)
(* What keeps the trees of translation tables sound: the invariant, and    *)
(* the steps of map, of map_page and of destroy that preserve it.          *)
(*                                                                         *)
(* The inductive invariant gives each table page in use a home: the slot   *)
(* whose tree it is in, its level and its number on that level.  Homes are *)
(* what tells trees apart: no two tables have the same one, an entry leads *)
(* only to the table whose home is below it, and the address that map_page *)
(* is at says at which home it is.                                         *)
(***************************************************************************)
EXTENDS PageTable, TLAPS

USE Zenon

-----------------------------------------------------------------------------
(* Arithmetic and sequences.                                               *)

(* A division with remainder.                                              *)
LEMMA DivMod ==
  ASSUME NEW a \in Nat, NEW b \in Nat \ {0}
  PROVE  /\ a \div b \in Nat /\ a % b \in Nat
         /\ a % b < b
         /\ a = b * (a \div b) + (a % b)
  BY SMT

(* Multiplication keeps the order.                                         *)
LEMMA TimesMono ==
  ASSUME NEW a \in Nat, NEW b \in Nat, NEW c \in Nat, a <= b
  PROVE  a * c <= b * c
  BY SMT

(* And a smaller product with the same factor has a smaller other factor.  *)
LEMMA TimesCancel ==
  ASSUME NEW a \in Nat, NEW b \in Nat, NEW c \in Nat \ {0}, a * c < b * c
  PROVE  a < b
  <1>. SUFFICES ASSUME b <= a PROVE FALSE
    BY SMT
  <1>1. b * c <= a * c
    BY TimesMono
  <1>. QED
    BY <1>1, SMT

(* A multiple leaves no remainder.                                         *)
LEMMA MultipleMod ==
  ASSUME NEW k \in Int, NEW p \in Nat \ {0}
  PROVE  (k * p) % p = 0
  BY SMT

(* A quotient is determined by its remainder's range.                      *)
LEMMA DivUnique ==
  ASSUME NEW n \in Nat, NEW d \in Nat \ {0}, NEW q \in Nat, NEW t \in 0 .. d - 1,
         n = d * q + t
  PROVE  n \div d = q
  <1>. DEFINE p == n \div d
              s == n % d
  <1>1. p \in Nat /\ s \in Nat /\ s < d /\ n = d * p + s
    BY DivMod
  <1>. HIDE DEF p, s
  <1>2. ~(p < q)
    <2>. SUFFICES ASSUME p < q PROVE FALSE
      OBVIOUS
    <2>1. (p + 1) * d <= q * d
      BY <1>1, TimesMono, SMT
    <2>. QED
      BY <1>1, <2>1, SMT
  <1>3. ~(q < p)
    <2>. SUFFICES ASSUME q < p PROVE FALSE
      OBVIOUS
    <2>1. (q + 1) * d <= p * d
      BY <1>1, TimesMono, SMT
    <2>. QED
      BY <1>1, <2>1, SMT
  <1>4. p = q
    BY <1>1, <1>2, <1>3, SMT
  <1>. QED
    BY <1>4 DEF p

(* One sequence after the other.                                           *)
LEMMA Concat ==
  ASSUME NEW S, NEW s \in Seq(S), NEW t \in Seq(S)
  PROVE  /\ s \o t \in Seq(S)
         /\ Len(s \o t) = Len(s) + Len(t)
         /\ \A i \in 1 .. Len(s) + Len(t) : (s \o t)[i] = IF i <= Len(s) THEN s[i] ELSE t[i - Len(s)]
  BY SMT

(* The first element.                                                      *)
LEMMA First ==
  ASSUME NEW S, NEW s \in Seq(S), Len(s) \in Nat \ {0}
  PROVE  /\ 1 \in 1 .. Len(s) /\ s[1] \in S /\ DOMAIN s = 1 .. Len(s)
         /\ \A k \in 1 .. Len(s) : ~(k < 1)
  BY SMT

(* Sequences with the same elements are the same.                          *)
LEMMA SameSeq ==
  ASSUME NEW S, NEW s \in Seq(S), NEW t \in Seq(S), Len(s) = Len(t),
         \A i \in 1 .. Len(s) : s[i] = t[i]
  PROVE  s = t
  BY SMT

-----------------------------------------------------------------------------
(* Addresses.                                                              *)

(* Places on a path of n steps.                                            *)
LEMMA Places ==
  ASSUME NEW n \in Nat \ {0}
  PROVE  /\ 1 \in 1 .. n /\ n \in 1 .. n /\ n \in 1 .. n + 1 /\ n \in 1 .. (n + 1) - 1
         /\ \A k \in 1 .. n : k \in 1 .. n + 1 /\ k - 1 # n /\ (k # n => k - 1 # n - 1)
         /\ \A k \in 1 .. n : k = n \/ k \in 1 .. n - 1
         /\ \A k \in 1 .. n - 1 : /\ k \in 1 .. n /\ k + 1 \in 1 .. n /\ k \in 1 .. (n + 1) - 1
                                  /\ k # n /\ k - 1 # n - 1
  BY SMT

(* Two places are in one order or the other.                               *)
LEMMA Orders ==
  ASSUME NEW n \in Nat
  PROVE  \A k, m \in 1 .. n : (k > m => ~(k < m) /\ k # m) /\ (k = m \/ k > m \/ m > k)
  BY SMT

(* The entries of a table and the levels of a tree.                        *)
LEMMA Entries ==
  /\ \A i, j \in Index : (j < i + 1 => j < i \/ j = i) /\ (j < i => j # i)
  /\ \A j \in Index : j \in Nat /\ j < FAN /\ ~(j < 0)
  BY TreeAssumption, SMT DEF Index

(* A path that has not gone down yet.                                      *)
LEMMA Single ==
  /\ \A k \in 1 .. 1 : k = 1
  /\ \A k \in 1 .. 1 - 1 : FALSE
  /\ 1 \in 1 .. LEVELS /\ 1 - 1 = 0
  BY TreeAssumption, SMT

(* The activation that starts at a table.                                  *)
LEMMA Frames ==
  ASSUME NEW t \in Pages
  PROVE  /\ Frame(t) \in [table : Pages, i : 0 .. FAN]
         /\ Frame(t).table = t /\ Frame(t).i = 0
  <1>1. 0 \in 0 .. FAN
    BY TreeAssumption, SMT
  <1>. QED BY <1>1 DEF Frame

(* A path is as long as the tree is deep, at most.                         *)
LEMMA Depths ==
  ASSUME NEW n \in Nat
  PROVE  /\ n \in 1 .. LEVELS /\ n - 1 # LEVELS - 1 => n < LEVELS
         /\ n # 0 /\ n + 1 \in 1 .. LEVELS => n \in 1 .. LEVELS
         /\ n < LEVELS => n - 1 # LEVELS - 1 /\ n + 1 \in 1 .. LEVELS
         /\ n \in 1 .. LEVELS => n \in Nat \ {0}
         /\ (n - 1) + 1 = n /\ (n + 1) - 1 = n /\ n - 1 # n
         /\ n > 1 => n - 1 \in Nat \ {0}
         /\ \A k \in 1 .. n + 1 : k = n + 1 \/ k \in 1 .. n
  BY TreeAssumption, SMT

(* Two divisions, one after the other, are one by the product.             *)
LEMMA DivDiv ==
  ASSUME NEW n \in Nat, NEW a \in Nat \ {0}, NEW b \in Nat \ {0}
  PROVE  n \div (a * b) = (n \div b) \div a
  <1>. DEFINE q == n \div b
              t == n % b
              p == q \div a
              s == q % a
  <1>1. q \in Nat /\ t \in Nat /\ t < b /\ n = b * q + t
    BY DivMod
  <1>2. p \in Nat /\ s \in Nat /\ s < a /\ q = a * p + s
    BY <1>1, DivMod
  <1>. HIDE DEF q, t, p, s
  <1>3. (s + 1) * b <= a * b
    BY <1>2, TimesMono, SMT
  <1>4. b * s + t \in 0 .. a * b - 1
    BY <1>1, <1>2, <1>3, SMT
  <1>5. n = (a * b) * p + (b * s + t)
    <2>1. b * q = (a * b) * p + b * s
      BY <1>1, <1>2, SMT
    <2>. QED BY <1>1, <1>2, <2>1, SMT
  <1>6. a * b \in Nat \ {0}
    BY SMT
  <1>7. n \div (a * b) = p
    BY <1>2, <1>4, <1>5, <1>6, DivUnique
  <1>. QED
    BY <1>7 DEF p, q

(* The number of a table among those of its level: what is left of an      *)
(* address without the bits that are below it.  Below(n, i) is the number  *)
(* of the table that entry i of table n leads to.                          *)
Num(v, l) == IF l = 0 THEN 0 ELSE v \div SPAN[l - 1]
Below(n, i) == FAN * n + i
Reach == 0 .. FAN * SPAN[0] - 1

(* The number of a table below another.                                    *)
LEMMA BelowNat ==
  ASSUME NEW n \in Nat, NEW i \in Index
  PROVE  Below(n, i) \in Nat
  <1>1. FAN \in Nat /\ i \in Nat
    BY TreeAssumption, SMT DEF Index
  <1>. QED BY <1>1, SMT DEF Below

(* Levels of a tree, and addresses that are within its reach.              *)
LEMMA Bounds ==
  /\ FAN \in Nat \ {0} /\ LEVELS \in Nat \ {0} /\ PAGE_SIZE \in Nat \ {0} /\ FAN * SPAN[0] \in Nat
  /\ 0 \in 0 .. LEVELS - 1 /\ LEVELS - 1 \in 0 .. LEVELS - 1 /\ (LEVELS - 1) + 1 = LEVELS
  /\ \A l \in 0 .. LEVELS - 1 : /\ l \in Nat /\ l + 1 # 0
                                /\ l < LEVELS - 1 => l # LEVELS - 1 /\ l + 1 \in 0 .. LEVELS - 1
  /\ \A l, m \in 0 .. LEVELS - 1 : l + 1 = m + 1 => l = m
  /\ \A v \in VPages : v \in Nat /\ v % PAGE_SIZE = 0 /\ v \in Reach
  /\ \A v, e \in Nat : (v < e => ~(v >= e)) /\ (v <= e => ~(e < v)) /\ v <= v /\ v < v + PAGE_SIZE
  /\ \A v, e \in Nat : v + PAGE_SIZE \in Nat /\ (e <= v => e <= v + PAGE_SIZE)
  /\ \A v, e \in Nat : v < e /\ e <= FAN * SPAN[0] => v \in Reach /\ (v % PAGE_SIZE = 0 => v \in VPages)
  <1>1. PICK Z \in Nat : Z = FAN * SPAN[0]
    BY TreeAssumption, SMT
  <1>2. Reach = 0 .. Z - 1 /\ VPages = {v \in 0 .. Z - 1 : v % PAGE_SIZE = 0}
    BY <1>1 DEF Reach, VPages
  <1>3. LEVELS \in Nat \ {0}
    BY TreeAssumption
  <1>4. /\ 0 \in 0 .. LEVELS - 1 /\ LEVELS - 1 \in 0 .. LEVELS - 1 /\ (LEVELS - 1) + 1 = LEVELS
        /\ \A l \in 0 .. LEVELS - 1 : /\ l \in Nat /\ l + 1 # 0
                                      /\ l < LEVELS - 1 => l # LEVELS - 1 /\ l + 1 \in 0 .. LEVELS - 1
        /\ \A l, m \in 0 .. LEVELS - 1 : l + 1 = m + 1 => l = m
    BY <1>3, SMT
  <1>5. \A v \in 0 .. Z - 1 : v \in Nat
    BY <1>1, SMT
  <1>6. /\ \A v, e \in Nat : (v < e => ~(v >= e)) /\ (v <= e => ~(e < v)) /\ v <= v /\ v < v + PAGE_SIZE
        /\ \A v, e \in Nat : v + PAGE_SIZE \in Nat /\ (e <= v => e <= v + PAGE_SIZE)
        /\ \A v, e \in Nat : v < e /\ e <= Z => v \in 0 .. Z - 1
    BY <1>1, TreeAssumption, SMT
  <1>. QED BY <1>1, <1>2, <1>4, <1>5, <1>6, TreeAssumption

(* idx takes an address from a table to the one below.                     *)
LEMMA NumStep ==
  ASSUME NEW v \in Reach, NEW l \in 0 .. LEVELS - 1
  PROVE  /\ idx(v, l) \in Index /\ Num(v, l) \in Nat
         /\ Num(v, l + 1) = Below(Num(v, l), idx(v, l))
  <1>1. /\ FAN \in Nat \ {0} /\ LEVELS \in Nat /\ l \in Nat
        /\ SPAN[l] \in Nat \ {0} /\ v \in Nat /\ SPAN[0] \in Nat \ {0}
    <2>1. FAN \in Nat \ {0} /\ LEVELS \in Nat \ {0} /\ SPAN \in [0 .. LEVELS - 1 -> Nat \ {0}]
      BY TreeAssumption
    <2>2. l \in Nat /\ SPAN[l] \in Nat \ {0} /\ SPAN[0] \in Nat \ {0}
      BY <2>1, SMT
    <2>3. FAN * SPAN[0] \in Nat
      BY <2>1, <2>2, SMT
    <2>. QED BY <2>1, <2>2, <2>3, SMT DEF Reach
  <1>. DEFINE q == v \div SPAN[l]
  <1>2. q \in Nat
    BY <1>1, DivMod
  <1>3. q \div FAN \in Nat /\ q % FAN \in 0 .. FAN - 1 /\ q = FAN * (q \div FAN) + (q % FAN)
    <2>. HIDE DEF q
    <2>1. q % FAN \in Nat /\ q % FAN < FAN
      BY <1>1, <1>2, DivMod
    <2>. QED BY <1>1, <1>2, <2>1, DivMod, SMT
  <1>4. Num(v, l + 1) = q
    BY <1>1, SMT DEF Num
  <1>5. Num(v, l) = q \div FAN
    <2>1. CASE l = 0
      <3>1. v % SPAN[0] \in Nat /\ v = SPAN[0] * q + (v % SPAN[0])
        BY <1>1, <2>1, DivMod
      <3>2. q * SPAN[0] < FAN * SPAN[0]
        <4>. HIDE DEF q
        <4>1. v < FAN * SPAN[0]
          BY <1>1, SMT DEF Reach
        <4>. QED BY <1>1, <1>2, <3>1, <4>1, SMT
      <3>3. q < FAN
        BY <1>1, <1>2, <3>2, TimesCancel
      <3>4. q \div FAN = 0
        <4>. HIDE DEF q
        <4>1. q \in 0 .. FAN - 1 /\ q = FAN * 0 + q
          BY <1>1, <1>2, <3>3, SMT
        <4>. QED BY <1>1, <1>2, <4>1, DivUnique
      <3>. QED BY <2>1, <3>4 DEF Num
    <2>2. CASE l # 0
      <3>1. SPAN[l - 1] = FAN * SPAN[l]
        BY <1>1, <2>2, TreeAssumption, SMT
      <3>2. v \div (FAN * SPAN[l]) = q \div FAN
        BY <1>1, DivDiv
      <3>. QED BY <2>2, <3>1, <3>2 DEF Num
    <2>. QED BY <2>1, <2>2
  <1>. HIDE DEF q
  <1>6. idx(v, l) = q % FAN
    BY DEF idx, q
  <1>. QED BY <1>3, <1>4, <1>5, <1>6 DEF Below, Index

(* Two entries lead to the same number only if they are the same.          *)
LEMMA BelowOne ==
  ASSUME NEW m \in Nat, NEW n \in Nat, NEW i \in Index, NEW j \in Index,
         Below(m, i) = Below(n, j)
  PROVE  m = n /\ i = j
  <1>1. FAN \in Nat \ {0} /\ i \in 0 .. FAN - 1 /\ j \in 0 .. FAN - 1
    BY TreeAssumption DEF Index
  <1>. DEFINE x == FAN * m + i
  <1>2. x \in Nat /\ x = FAN * n + j
    BY <1>1, SMT DEF Below
  <1>3. x \div FAN = m
    BY <1>1, <1>2, DivUnique
  <1>4. x \div FAN = n
    <2>. HIDE DEF x
    <2>. QED BY <1>1, <1>2, DivUnique
  <1>5. m = n
    BY <1>3, <1>4
  <1>. QED BY <1>1, <1>2, <1>5, SMT

(* And a page is told from every other by its number.                      *)
LEMMA PageOne ==
  ASSUME NEW v \in VPages, NEW w \in VPages, Num(v, LEVELS) = Num(w, LEVELS)
  PROVE  v = w
  <1>1. /\ PAGE_SIZE \in Nat \ {0} /\ LEVELS # 0 /\ SPAN[LEVELS - 1] = PAGE_SIZE
        /\ v \in Nat /\ w \in Nat /\ v % PAGE_SIZE = 0 /\ w % PAGE_SIZE = 0
    BY TreeAssumption, SMT DEF VPages
  <1>2. v \div PAGE_SIZE = w \div PAGE_SIZE
    BY <1>1 DEF Num
  <1>3. v = PAGE_SIZE * (v \div PAGE_SIZE) + 0 /\ w = PAGE_SIZE * (w \div PAGE_SIZE) + 0
    BY <1>1, DivMod, SMT
  <1>. QED BY <1>2, <1>3

(* Rounding down.                                                          *)
LEMMA DownNat ==
  ASSUME NEW a \in Nat
  PROVE  /\ Down(a) \in Nat /\ Down(a) % PAGE_SIZE = 0
         /\ Down(a) <= a /\ a < Down(a) + PAGE_SIZE
         /\ a % PAGE_SIZE = 0 => Down(a) = a
  <1>1. PAGE_SIZE \in Nat \ {0}
    BY TreeAssumption
  <1>2. /\ a \div PAGE_SIZE \in Nat /\ a % PAGE_SIZE \in Nat /\ a % PAGE_SIZE < PAGE_SIZE
        /\ a = PAGE_SIZE * (a \div PAGE_SIZE) + (a % PAGE_SIZE)
    BY <1>1, DivMod
  <1>. DEFINE q == a \div PAGE_SIZE
              m == a % PAGE_SIZE
              x == PAGE_SIZE * q
  <1>3. x \in Nat /\ m \in Nat /\ m < PAGE_SIZE /\ a = x + m /\ q \in Nat /\ Down(a) = a - m
    <2>1. x \in Nat
      <3>. HIDE DEF q
      <3>. QED BY <1>1, <1>2, SMT DEF q
    <2>. QED BY <1>2, <2>1 DEF Down
  <1>4. x % PAGE_SIZE = 0
    <2>. HIDE DEF q
    <2>1. x = q * PAGE_SIZE /\ q \in Int
      BY <1>1, <1>3, SMT
    <2>. HIDE DEF x
    <2>. QED BY <1>1, <2>1, MultipleMod
  <1>. HIDE DEF x, m
  <1>5. Down(a) = x
    BY <1>3, SMT
  <1>6. a % PAGE_SIZE = 0 => a = x
    BY <1>3, SMT DEF m
  <1>. QED BY <1>1, <1>3, <1>4, <1>5, <1>6, SMT

(* Pages are a page apart.                                                 *)
LEMMA PageGap ==
  ASSUME NEW a \in Nat, NEW b \in Nat, a % PAGE_SIZE = 0, b % PAGE_SIZE = 0
  PROVE  /\ a < b + PAGE_SIZE => a <= b
         /\ (a + PAGE_SIZE) % PAGE_SIZE = 0
  <1>1. PAGE_SIZE \in Nat \ {0}
    BY TreeAssumption
  <1>. DEFINE m == a \div PAGE_SIZE
              n == b \div PAGE_SIZE
  <1>2. m \in Nat /\ n \in Nat /\ a = PAGE_SIZE * m + 0 /\ b = PAGE_SIZE * n + 0
    BY <1>1, DivMod
  <1>. HIDE DEF m, n
  <1>3. a < b + PAGE_SIZE => a <= b
    <2>. SUFFICES ASSUME a < b + PAGE_SIZE PROVE a <= b
      OBVIOUS
    <2>1. m * PAGE_SIZE < (n + 1) * PAGE_SIZE
      BY <1>1, <1>2, SMT
    <2>2. m < n + 1
      BY <1>1, <1>2, <2>1, TimesCancel, SMT
    <2>3. m * PAGE_SIZE <= n * PAGE_SIZE
      BY <1>1, <1>2, <2>2, TimesMono, SMT
    <2>. QED BY <1>1, <1>2, <2>3, SMT
  <1>4. (a + PAGE_SIZE) % PAGE_SIZE = 0
    <2>1. a + PAGE_SIZE = (m + 1) * PAGE_SIZE /\ m + 1 \in Int
      BY <1>1, <1>2, SMT
    <2>2. ((m + 1) * PAGE_SIZE) % PAGE_SIZE = 0
      BY <1>1, <2>1, MultipleMod
    <2>. QED BY <2>1, <2>2
  <1>. QED BY <1>3, <1>4

(* Rounding up.                                                            *)
LEMMA UpNat ==
  ASSUME NEW a \in Nat
  PROVE  /\ Up(a) \in Nat /\ Up(a) % PAGE_SIZE = 0
         /\ a <= Up(a) /\ Up(a) < a + PAGE_SIZE
         /\ a % PAGE_SIZE = 0 => Up(a) = a
  <1>1. PAGE_SIZE \in Nat \ {0}
    BY TreeAssumption
  <1>2. PICK x \in Nat : x = a + PAGE_SIZE - 1
    BY <1>1, SMT
  <1>3. /\ Down(x) \in Nat /\ Down(x) % PAGE_SIZE = 0
        /\ Down(x) <= x /\ x < Down(x) + PAGE_SIZE /\ Up(a) = Down(x)
    BY <1>2, DownNat DEF Up
  <1>4. a <= Up(a) /\ Up(a) < a + PAGE_SIZE
    BY <1>1, <1>2, <1>3, SMT
  <1>5. a % PAGE_SIZE = 0 => Up(a) <= a
    BY <1>3, <1>4, PageGap
  <1>. QED BY <1>3, <1>4, <1>5, SMT

(* It keeps the order.                                                     *)
LEMMA UpMono ==
  ASSUME NEW a \in Nat, NEW b \in Nat, a <= b
  PROVE  Up(a) <= Up(b)
  <1>1. /\ Up(a) \in Nat /\ Up(a) % PAGE_SIZE = 0 /\ Up(a) < a + PAGE_SIZE
        /\ Up(b) \in Nat /\ Up(b) % PAGE_SIZE = 0 /\ b <= Up(b)
    BY UpNat
  <1>2. Up(a) < Up(b) + PAGE_SIZE
    BY <1>1, TreeAssumption, SMT
  <1>. QED BY <1>1, <1>2, PageGap

-----------------------------------------------------------------------------
(* The invariant.  A table in use has a home: the slot whose tree it is    *)
(* in, its level and its number on that level.                             *)
Used == Pages \ free
Home == [of : Slots, depth : 0 .. LEVELS - 1, num : Nat]
home(p, l, n) == [of |-> p, depth |-> l, num |-> n]
Desc == [kind : {"invalid", "table", "page"}, to : Nat, attrs : {"none", "proc", "kern", "dev"}]
Fits(p, img) == p = P0 \/ img \in Images

(* Every variable has its type.                                            *)
TableType ==
  /\ tab \in [Pages -> [Index -> Desc]] /\ free \subseteq Pages
  /\ mmap \in [Slots -> [root : Nat, image : Nat \X Nat]]
  /\ \A p \in Slots : mmap[p] = Unmapped \/ (mmap[p].root \in Pages /\ Fits(p, mmap[p].image))
  /\ call \in [op : {"none", "map", "free"}, on : Slots, image : Nat \X Nat, root : Nat]
  /\ call.op = "none" => call = NoCall
  /\ call.op = "map" => mmap[call.on] = Unmapped /\ Fits(call.on, call.image)
  /\ call.op = "free" => /\ call.on # P0 /\ mmap[call.on] # Unmapped
                         /\ call.root = mmap[call.on].root

(* What an entry of a table may hold: pages at the last level, above it    *)
(* the table whose home is below it.                                       *)
Leads(H, t, i) ==
  IF H[t].depth = LEVELS - 1 THEN tab[t][i] = Invalid \/ tab[t][i].kind = "page"
  ELSE \/ tab[t][i] = Invalid
       \/ \E u \in Used : /\ tab[t][i] = desc_table(u)
                          /\ H[u] = home(H[t].of, H[t].depth + 1, Below(H[t].num, i))

(* The tables in use are trees: no two have the same home, and each is the *)
(* root of its slot or has an entry that leads to it.                      *)
TreeInv(H) ==
  /\ \A t \in Used : H[t].of \in Owners
  /\ \A t, u \in Used : H[t] = H[u] => t = u
  /\ \A p \in Owners : Root(p) \in Used /\ H[Root(p)] = home(p, 0, 0)
  /\ \A t \in Used, i \in Index : Leads(H, t, i)
  /\ \A u \in Used : u = Root(H[u].of) \/ \E t \in Used, i \in Index : tab[t][i] = desc_table(u)

(* map_page is at the table that its address leads to.                     *)
CursorInv(H) ==
  call.op = "map" =>
    /\ r \in 1 .. Len(Todo) /\ va \in Nat /\ va % PAGE_SIZE = 0 /\ Todo[r].va <= va
    /\ level \in 0 .. LEVELS - 1
    /\ at \in Used /\ H[at] = home(call.on, level, Num(va, level))
    /\ va >= Todo[r].end => level = 0

(* free_table_level has come down by the entries it is at, and those that  *)
(* it has passed are clear.                                                *)
StackInv(H) ==
  call.op = "free" =>
    /\ stack \in Seq([table : Pages, i : 0 .. FAN]) /\ Len(stack) \in 1 .. LEVELS
    /\ stack[1].table = call.root
    /\ \A k \in 1 .. Len(stack) :
         /\ stack[k].table \in Used
         /\ H[stack[k].table].of = call.on /\ H[stack[k].table].depth = k - 1
         /\ \A j \in Index : j < stack[k].i => tab[stack[k].table][j] = Invalid
    /\ \A k \in 1 .. Len(stack) - 1 :
         /\ stack[k].i \in Index
         /\ tab[stack[k].table][stack[k].i] = desc_table(stack[k + 1].table)

(* The ranges of a map that have been mapped where v is.                   *)
Building(p) == call.op = "map" /\ call.on = p
RangesOf(p) == Ranges(p, IF Building(p) THEN call.image ELSE mmap[p].image)
Covered(p, k, v) ==
  /\ RangesOf(p)[k].va <= v /\ v < RangesOf(p)[k].end
  /\ Building(p) => k < r \/ (k = r /\ v < va)
PageIn(p, k, v) ==
  desc_page(RangesOf(p)[k].pa + (v - RangesOf(p)[k].va), RangesOf(p)[k].attrs)

(* The last of them says what v is translated to.                          *)
Wanted(p, v, d) ==
  /\ (\A k \in DOMAIN RangesOf(p) : ~Covered(p, k, v)) => d = Invalid
  /\ \A k \in DOMAIN RangesOf(p) :
       Covered(p, k, v) /\ (\A j \in DOMAIN RangesOf(p) : j > k => ~Covered(p, j, v))
         => d = PageIn(p, k, v)
Leaf(p, v) == home(p, LEVELS - 1, Num(v, LEVELS - 1))
MapInv(H) ==
  \A p \in Slots : p \in Whole \/ Building(p) =>
    \A v \in VPages :
      /\ \A t \in Used : H[t] = Leaf(p, v) => Wanted(p, v, tab[t][idx(v, LEVELS - 1)])
      /\ (\A t \in Used : H[t] # Leaf(p, v)) => Wanted(p, v, Invalid)

(* The inductive invariant, for some homes of the tables.                  *)
Homes == [Pages -> Home]
TableInv(H) == TableType /\ TreeInv(H) /\ CursorInv(H) /\ StackInv(H) /\ MapInv(H)

(* Homes that say the same are the same.                                   *)
LEMMA SameHome ==
  \A g, h \in Home : g.of = h.of /\ g.depth = h.depth /\ g.num = h.num => g = h
  BY SMT DEF Home

(* The home of the table that has the page of an address.                  *)
LEMMA LeafParts ==
  ASSUME NEW h, NEW p, NEW v, h = Leaf(p, v)
  PROVE  h.of = p /\ h.depth = LEVELS - 1 /\ h.num = Num(v, LEVELS - 1)
  BY DEF Leaf, home

(* What is stored in an entry.                                             *)
LEMMA Descriptors ==
  /\ Invalid \in Desc /\ \A u \in Pages : desc_table(u) \in Desc /\ desc_table(u) # Invalid /\ desc_table(u).to = u
  /\ Zeroed \in [Index -> Desc] /\ \A i \in Index : Zeroed[i] = Invalid
  /\ \A u, w \in Pages : desc_table(u) = desc_table(w) => u = w
  <1>1. Invalid \in Desc
    BY DEF Invalid, Desc, NULL
  <1>2. \A u \in Pages : desc_table(u) \in Desc /\ desc_table(u) # Invalid /\ desc_table(u).to = u
    BY TreeAssumption DEF desc_table, Desc, Invalid
  <1>3. Zeroed \in [Index -> Desc] /\ \A i \in Index : Zeroed[i] = Invalid
    BY <1>1 DEF Zeroed
  <1>. QED BY <1>1, <1>2, <1>3

(* The trees are the same when the tables and the roots are.               *)
LEMMA TreeSame ==
  ASSUME NEW H, TreeInv(H), UNCHANGED <<tab, free>>, Owners' = Owners,
         \A p \in Owners : Root(p)' = Root(p)
  PROVE  TreeInv(H)'
  <1>1. Used' = Used /\ \A t, i : Leads(H, t, i) => Leads(H, t, i)'
    BY DEF Used, Leads
  <1>. QED BY <1>1 DEF TreeInv

(* What is wanted of an address depends on which ranges cover it.          *)
LEMMA WantedSame ==
  ASSUME NEW p \in Slots, NEW v \in VPages, NEW d,
         RangesOf(p)' = RangesOf(p),
         \A k \in DOMAIN RangesOf(p) : Covered(p, k, v)' <=> Covered(p, k, v),
         Wanted(p, v, d)
  PROVE  Wanted(p, v, d)'
  BY DEF Wanted, PageIn

(* So it stays where no map is being built.                                *)
LEMMA WantedStays ==
  ASSUME NEW p \in Slots, RangesOf(p)' = RangesOf(p), ~Building(p), ~Building(p)'
  PROVE  \A v \in VPages : \A d : Wanted(p, v, d) => Wanted(p, v, d)'
  <1>1. \A v \in VPages : \A k \in DOMAIN RangesOf(p) : Covered(p, k, v)' <=> Covered(p, k, v)
    BY DEF Covered
  <1>. QED BY <1>1, WantedSame

(* And where the cursor is not moved to another page.                      *)
LEMMA WantedWaits ==
  ASSUME NEW p \in Slots, RangesOf(p)' = RangesOf(p), Building(p)' <=> Building(p), r' = r, va' = va
  PROVE  \A v \in VPages : \A d : Wanted(p, v, d) => Wanted(p, v, d)'
  <1>1. \A v \in VPages : \A k \in DOMAIN RangesOf(p) : Covered(p, k, v)' <=> Covered(p, k, v)
    BY DEF Covered
  <1>. QED BY <1>1, WantedSame

-----------------------------------------------------------------------------
(* The ranges.                                                             *)
RangeType == [va : Nat, pa : Nat, end : Nat, attrs : {"proc", "kern", "dev"}]

(* What map_range_pages walks.                                             *)
LEMMA RangeFits ==
  ASSUME NEW v \in Nat, NEW pa \in Nat, NEW len \in Nat, NEW a \in {"proc", "kern", "dev"},
         Up(v + len) <= FAN * SPAN[0]
  PROVE  LET x == map_range_pages(v, pa, len, a) IN
         x \in RangeType /\ x.va % PAGE_SIZE = 0 /\ x.end <= FAN * SPAN[0]
  <1>1. Down(v) \in Nat /\ Down(v) % PAGE_SIZE = 0 /\ Down(pa) \in Nat /\ v + len \in Nat
    BY DownNat, SMT
  <1>2. Up(v + len) \in Nat
    BY <1>1, UpNat
  <1>. QED BY <1>1, <1>2 DEF map_range_pages, RangeType

(* Four ranges in a row.                                                   *)
LEMMA Four ==
  ASSUME NEW a, NEW b, NEW c, NEW d
  PROVE  <<a>> \o <<b>> \o <<c, d>> = <<a, b, c, d>>
  <1>. DEFINE S == {a, b, c, d}
              x == <<a>> \o <<b>>
              y == <<c, d>>
              z == <<a, b, c, d>>
  <1>1. <<a>> \in Seq(S) /\ <<b>> \in Seq(S) /\ y \in Seq(S) /\ z \in Seq(S)
    BY SMT
  <1>2. /\ Len(<<a>>) = 1 /\ Len(<<b>>) = 1 /\ Len(y) = 2 /\ Len(z) = 4
        /\ <<a>>[1] = a /\ <<b>>[1] = b /\ y[1] = c /\ y[2] = d
        /\ z[1] = a /\ z[2] = b /\ z[3] = c /\ z[4] = d
    OBVIOUS
  <1>3. x \in Seq(S) /\ Len(x) = 2 /\ x[1] = a /\ x[2] = b
    <2>. HIDE DEF S
    <2>. QED BY <1>1, <1>2, Concat, SMT
  <1>. HIDE DEF x, y, z, S
  <1>4. /\ x \o y \in Seq(S) /\ Len(x \o y) = 2 + 2
        /\ \A i \in 1 .. 2 + 2 : (x \o y)[i] = IF i <= 2 THEN x[i] ELSE y[i - 2]
    <2>1. /\ x \o y \in Seq(S) /\ Len(x \o y) = Len(x) + Len(y)
          /\ \A i \in 1 .. Len(x) + Len(y) : (x \o y)[i] = IF i <= Len(x) THEN x[i] ELSE y[i - Len(x)]
      BY <1>1, <1>3, Concat
    <2>. QED BY <1>2, <1>3, <2>1
  <1>5. (x \o y)[1] = a /\ (x \o y)[2] = b /\ (x \o y)[3] = c /\ (x \o y)[4] = d
    BY <1>2, <1>3, <1>4, SMT
  <1>6. \A i \in 1 .. 4 : (x \o y)[i] = z[i]
    <2>1. \A i \in 1 .. 4 : i = 1 \/ i = 2 \/ i = 3 \/ i = 4
      BY SMT
    <2>. QED BY <1>2, <1>5, <2>1
  <1>7. x \o y = z
    <2>1. Len(x \o y) = Len(z) /\ \A i \in 1 .. Len(x \o y) : (x \o y)[i] = z[i]
      BY <1>2, <1>4, <1>6, SMT
    <2>. QED BY <1>1, <1>4, <2>1, SameSeq
  <1>. QED BY <1>7 DEF x, y, z

(* Three ranges in a row.                                                  *)
LEMMA Three ==
  ASSUME NEW a, NEW c, NEW d
  PROVE  <<a>> \o <<>> \o <<c, d>> = <<a, c, d>>
  <1>. DEFINE S == {a, c, d}
              x == <<a>> \o <<>>
              y == <<c, d>>
              z == <<a, c, d>>
  <1>1. <<a>> \in Seq(S) /\ <<>> \in Seq(S) /\ y \in Seq(S) /\ z \in Seq(S)
    BY SMT
  <1>2. /\ Len(<<a>>) = 1 /\ Len(y) = 2 /\ Len(z) = 3
        /\ <<a>>[1] = a /\ y[1] = c /\ y[2] = d
        /\ z[1] = a /\ z[2] = c /\ z[3] = d
    OBVIOUS
  <1>3. x = <<a>>
    <2>. HIDE DEF S
    <2>. QED BY <1>1, SMT
  <1>8. x \in Seq(S) /\ Len(x) = 1 /\ x[1] = a
    BY <1>1, <1>2, <1>3
  <1>. HIDE DEF x, y, z, S
  <1>4. /\ x \o y \in Seq(S) /\ Len(x \o y) = 1 + 2
        /\ \A i \in 1 .. 1 + 2 : (x \o y)[i] = IF i <= 1 THEN x[i] ELSE y[i - 1]
    <2>1. /\ x \o y \in Seq(S) /\ Len(x \o y) = Len(x) + Len(y)
          /\ \A i \in 1 .. Len(x) + Len(y) : (x \o y)[i] = IF i <= Len(x) THEN x[i] ELSE y[i - Len(x)]
      BY <1>1, <1>8, Concat
    <2>. QED BY <1>2, <1>8, <2>1
  <1>5. (x \o y)[1] = a /\ (x \o y)[2] = c /\ (x \o y)[3] = d
    BY <1>2, <1>8, <1>4, SMT
  <1>6. \A i \in 1 .. 3 : (x \o y)[i] = z[i]
    <2>1. \A i \in 1 .. 3 : i = 1 \/ i = 2 \/ i = 3
      BY SMT
    <2>. QED BY <1>2, <1>5, <2>1
  <1>7. x \o y = z
    <2>1. Len(x \o y) = Len(z) /\ \A i \in 1 .. Len(x \o y) : (x \o y)[i] = z[i]
      BY <1>2, <1>4, <1>6, SMT
    <2>. QED BY <1>1, <1>4, <2>1, SameSeq
  <1>. QED BY <1>7 DEF x, y, z

(* The map of a process.  What it has of the kernel ends at KernelEnd.     *)
KernelEnd(img) == IF img[1] < KEND THEN img[1] ELSE KEND
LEMMA ProcessRanges ==
  ASSUME NEW img \in Images
  PROVE  LET a == map_range_pages(0, img[1], IF img[2] < CODE_0 THEN img[2] ELSE CODE_0, "proc")
             b == map_range_pages(CODE_0, CODE_0, KernelEnd(img) - CODE_0, "kern")
             c == map_range_pages(MEM_0, MEM_0, MEM_END + 1 - MEM_0, "kern")
         IN  /\ img[1] \in Nat /\ img[2] \in Nat /\ KernelEnd(img) \in Nat /\ KernelEnd(img) <= KEND
             /\ build_process_map(img[1], img[2]) =
                  IF KernelEnd(img) > CODE_0 THEN <<a, b, c, map_uart>> ELSE <<a, c, map_uart>>
  <1>. DEFINE a == map_range_pages(0, img[1], IF img[2] < CODE_0 THEN img[2] ELSE CODE_0, "proc")
              b == map_range_pages(CODE_0, CODE_0, KernelEnd(img) - CODE_0, "kern")
              c == map_range_pages(MEM_0, MEM_0, MEM_END + 1 - MEM_0, "kern")
  <1>1. img[1] \in Nat /\ img[2] \in Nat /\ KEND \in Nat
    BY LayoutAssumption
  <1>2. KernelEnd(img) \in Nat /\ KernelEnd(img) <= KEND
    BY <1>1, SMT DEF KernelEnd
  <1>3. build_process_map(img[1], img[2]) =
          <<a>> \o (IF KernelEnd(img) > CODE_0 THEN <<b>> ELSE <<>>) \o <<c, map_uart>>
    BY DEF build_process_map, KernelEnd
  <1>. HIDE DEF a, b, c
  <1>4. CASE KernelEnd(img) > CODE_0
    <2>1. build_process_map(img[1], img[2]) = <<a>> \o <<b>> \o <<c, map_uart>>
      BY <1>3, <1>4
    <2>. QED BY <1>1, <1>2, <1>4, <2>1, Four DEF a, b, c
  <1>5. CASE ~(KernelEnd(img) > CODE_0)
    <2>1. build_process_map(img[1], img[2]) = <<a>> \o <<>> \o <<c, map_uart>>
      BY <1>3, <1>5
    <2>. QED BY <1>1, <1>2, <1>5, <2>1, Three DEF a, b, c
  <1>. QED BY <1>4, <1>5

(* And of the kernel.                                                      *)
LEMMA KernelRanges ==
  /\ Gic \in Seq(Nat \X Nat) /\ Len(Gic) \in Nat
  /\ \E S : build_kernel_map \in Seq(S)
  /\ Len(build_kernel_map) = 2 + Len(Gic)
  /\ DOMAIN build_kernel_map = 1 .. 2 + Len(Gic)
  /\ build_kernel_map[1] = map_range_pages(CODE_0, CODE_0, MEM_END + 1 - CODE_0, "kern")
  /\ build_kernel_map[2] = map_uart
  /\ \A g \in 1 .. Len(Gic) :
       /\ Gic[g] \in Nat \X Nat
       /\ build_kernel_map[2 + g] = map_range_pages(Gic[g][1], Gic[g][1], Gic[g][2], "dev")
  <1>1. Gic \in Seq(Nat \X Nat) /\ Len(Gic) \in Nat /\ DOMAIN Gic = 1 .. Len(Gic)
    BY LayoutAssumption, SMT
  <1>. DEFINE f == map_range_pages(CODE_0, CODE_0, MEM_END + 1 - CODE_0, "kern")
              A == <<f, map_uart>>
              S == {f, map_uart} \cup {map_gic[g] : g \in DOMAIN Gic}
  <1>4. map_gic \in Seq(S) /\ Len(map_gic) = Len(Gic)
    BY <1>1, SMT DEF map_gic
  <1>. HIDE DEF f
  <1>5. A \in Seq(S) /\ Len(A) = 2 /\ A[1] = f /\ A[2] = map_uart
    BY SMT
  <1>6. build_kernel_map = A \o map_gic
    BY DEF build_kernel_map, f
  <1>. HIDE DEF A, S
  <1>7. /\ Len(A \o map_gic) = 2 + Len(Gic)
        /\ \A k \in 1 .. 2 + Len(Gic) :
             (A \o map_gic)[k] = IF k <= 2 THEN A[k] ELSE map_gic[k - 2]
    <2>0. PICK m : m = map_gic
      OBVIOUS
    <2>2. m \in Seq(S) /\ A \in Seq(S)
      BY <1>4, <1>5, <2>0
    <2>3. /\ A \o m \in Seq(S)
          /\ Len(A \o m) = Len(A) + Len(m)
          /\ \A i \in 1 .. Len(A) + Len(m) :
               (A \o m)[i] = IF i <= Len(A) THEN A[i] ELSE m[i - Len(A)]
      BY <2>2, Concat
    <2>1. /\ Len(A \o map_gic) = Len(A) + Len(map_gic)
          /\ \A k \in 1 .. Len(A) + Len(map_gic) :
               (A \o map_gic)[k] = IF k <= Len(A) THEN A[k] ELSE map_gic[k - Len(A)]
      BY <2>0, <2>3
    <2>. QED BY <1>1, <1>4, <1>5, <2>1
  <1>8. \A g \in 1 .. Len(Gic) : /\ 2 + g \in 1 .. 2 + Len(Gic) /\ ~(2 + g <= 2) /\ 2 + g - 2 = g
    BY <1>1, SMT
  <1>9. \A g \in 1 .. Len(Gic) : map_gic[g] = map_range_pages(Gic[g][1], Gic[g][1], Gic[g][2], "dev")
    BY <1>1 DEF map_gic
  <1>10. 1 \in 1 .. 2 + Len(Gic) /\ 2 \in 1 .. 2 + Len(Gic)
    BY <1>1, SMT
  <1>11. A \o map_gic \in Seq(S)
    BY <1>4, <1>5, SMT
  <1>12. DOMAIN (A \o map_gic) = 1 .. 2 + Len(Gic)
    BY <1>7, <1>11, SMT
  <1>13. \A g \in 1 .. Len(Gic) : (A \o map_gic)[2 + g] = map_gic[g]
    BY <1>7, <1>8, SMT
  <1>14. (A \o map_gic)[1] = f /\ (A \o map_gic)[2] = map_uart
    BY <1>5, <1>7, <1>10, SMT
  <1>15. \A g \in 1 .. Len(Gic) : Gic[g] \in Nat \X Nat
    BY <1>1, SMT
  <1>16. Len(build_kernel_map) = 2 + Len(Gic) /\ DOMAIN build_kernel_map = 1 .. 2 + Len(Gic)
    BY <1>6, <1>7, <1>12
  <1>17. build_kernel_map[1] = f /\ build_kernel_map[2] = map_uart
    BY <1>6, <1>14
  <1>18. ASSUME NEW g \in 1 .. Len(Gic)
         PROVE  build_kernel_map[2 + g] = map_range_pages(Gic[g][1], Gic[g][1], Gic[g][2], "dev")
    <2>1. build_kernel_map[2 + g] = map_gic[g]
      BY <1>6, <1>13
    <2>2. map_gic[g] = map_range_pages(Gic[g][1], Gic[g][1], Gic[g][2], "dev")
      BY <1>9
    <2>. QED BY <2>1, <2>2
  <1>19. \E T : build_kernel_map \in Seq(T)
    <2>1. build_kernel_map \in Seq(S)
      BY <1>6, <1>11
    <2>. WITNESS S
    <2>. QED BY <2>1
  <1>. QED BY <1>1, <1>15, <1>16, <1>17, <1>18, <1>19 DEF f

(* Every range starts at a page and ends within reach of the tree.         *)
LEMMA RangesFit ==
  ASSUME NEW p \in Slots, NEW img \in Nat \X Nat, Fits(p, img)
  PROVE  /\ Ranges(p, img) \in Seq(RangeType) /\ Len(Ranges(p, img)) \in Nat \ {0}
         /\ \A k \in 1 .. Len(Ranges(p, img)) :
              /\ Ranges(p, img)[k].va % PAGE_SIZE = 0
              /\ Ranges(p, img)[k].end <= FAN * SPAN[0]
  <1>1. /\ UART \in Nat /\ CODE_0 \in Nat /\ KEND \in Nat /\ MEM_0 \in Nat /\ MEM_END \in Nat
        /\ CODE_0 < KEND /\ KEND <= MEM_0 /\ MEM_0 <= MEM_END
    BY LayoutAssumption
  <1>2. PICK Z \in Nat : Z = FAN * SPAN[0]
    BY TreeAssumption, SMT
  <1>3. PAGE_SIZE \in Nat
    BY TreeAssumption
  <1>4. \A a \in Nat : a <= MEM_END + 1 => Up(a) <= Z
    <2>1. Up(MEM_END + 1) <= Z /\ MEM_END + 1 \in Nat /\ Up(MEM_END + 1) \in Nat
      BY <1>1, <1>2, LayoutAssumption, UpNat, SMT
    <2>2. \A a \in Nat : a <= MEM_END + 1 => Up(a) <= Up(MEM_END + 1) /\ Up(a) \in Nat
      BY <2>1, UpMono, UpNat
    <2>. QED BY <2>1, <2>2, SMT
  <1>. DEFINE Ok(x) == x \in RangeType /\ x.va % PAGE_SIZE = 0 /\ x.end <= FAN * SPAN[0]
  <1>5. Ok(map_uart)
    <2>1. UART + PAGE_SIZE \in Nat /\ (UART + PAGE_SIZE) % PAGE_SIZE = 0 /\ UART + PAGE_SIZE <= FAN * SPAN[0]
      BY <1>1, <1>3, LayoutAssumption, PageGap, SMT
    <2>2. Up(UART + PAGE_SIZE) <= FAN * SPAN[0]
      BY <2>1, UpNat
    <2>. QED BY <1>1, <1>3, <2>2, RangeFits DEF map_uart
  <1>6. \A v \in Nat, pa \in Nat, len \in Nat, a \in {"proc", "kern", "dev"} :
          v + len <= MEM_END + 1 => Ok(map_range_pages(v, pa, len, a))
    <2>1. \A v \in Nat, len \in Nat : v + len <= MEM_END + 1 => Up(v + len) <= FAN * SPAN[0]
      BY <1>2, <1>4, SMT
    <2>. QED BY <2>1, RangeFits, SMT
  <1>. HIDE DEF Ok
  <1>7. CASE p = P0
    <2>1. Ranges(p, img) = build_kernel_map
      BY <1>7 DEF Ranges
    <2>2. Ok(build_kernel_map[1]) /\ Ok(build_kernel_map[2])
      <3>1. MEM_END + 1 - CODE_0 \in Nat /\ CODE_0 + (MEM_END + 1 - CODE_0) <= MEM_END + 1
        BY <1>1, SMT
      <3>. QED BY <1>1, <1>5, <1>6, <3>1, KernelRanges, SMT
    <2>3. ASSUME NEW g \in 1 .. Len(Gic) PROVE Ok(build_kernel_map[2 + g])
      <3>1. Gic[g] \in Nat \X Nat /\ g \in DOMAIN Gic
        BY KernelRanges, SMT
      <3>2. Gic[g][1] \in Nat /\ Gic[g][2] \in Nat /\ Gic[g][1] + Gic[g][2] \in Nat
        BY <3>1, SMT
      <3>3. Up(Gic[g][1] + Gic[g][2]) <= CODE_0
        BY <3>1, LayoutAssumption
      <3>4. Gic[g][1] + Gic[g][2] <= MEM_END + 1
        <4>1. Gic[g][1] + Gic[g][2] <= Up(Gic[g][1] + Gic[g][2]) /\ Up(Gic[g][1] + Gic[g][2]) \in Nat
          BY <3>2, UpNat
        <4>. QED BY <1>1, <3>2, <3>3, <4>1, SMT
      <3>. QED BY <1>6, <3>2, <3>4, KernelRanges, SMT
    <2>4. ASSUME NEW k \in 1 .. 2 + Len(Gic) PROVE Ok(build_kernel_map[k])
      <3>1. k = 1 \/ k = 2 \/ \E g \in 1 .. Len(Gic) : k = 2 + g
        <4>1. Len(Gic) \in Nat
          BY KernelRanges
        <4>2. k = 1 \/ k = 2 \/ (k - 2 \in 1 .. Len(Gic) /\ k = 2 + (k - 2))
          BY <4>1, SMT
        <4>. QED BY <4>2
      <3>. QED BY <2>2, <2>3, <3>1
    <2>5. build_kernel_map \in Seq(RangeType)
      <3>1. \A k \in 1 .. 2 + Len(Gic) : build_kernel_map[k] \in RangeType
        BY <2>4 DEF Ok
      <3>2. PICK S : build_kernel_map \in Seq(S)
        BY KernelRanges
      <3>3. 2 + Len(Gic) \in Nat /\ DOMAIN build_kernel_map = 1 .. 2 + Len(Gic)
        BY KernelRanges, SMT
      <3>4. build_kernel_map = [k \in 1 .. 2 + Len(Gic) |-> build_kernel_map[k]]
        BY <3>2, <3>3, SMT
      <3>. QED BY <3>1, <3>3, <3>4, SMT
    <2>. QED BY <2>1, <2>4, <2>5, KernelRanges, SMT DEF Ok
  <1>8. CASE p # P0
    <2>1. img \in Images /\ Ranges(p, img) = build_process_map(img[1], img[2])
      BY <1>8 DEF Ranges, Fits
    <2>. DEFINE l == IF img[2] < CODE_0 THEN img[2] ELSE CODE_0
                a == map_range_pages(0, img[1], l, "proc")
                b == map_range_pages(CODE_0, CODE_0, KernelEnd(img) - CODE_0, "kern")
                c == map_range_pages(MEM_0, MEM_0, MEM_END + 1 - MEM_0, "kern")
                u == map_uart
    <2>2. /\ img[1] \in Nat /\ img[2] \in Nat /\ KernelEnd(img) \in Nat /\ KernelEnd(img) <= KEND
          /\ Ranges(p, img) = IF KernelEnd(img) > CODE_0 THEN <<a, b, c, u>> ELSE <<a, c, u>>
      BY <2>1, ProcessRanges
    <2>3. Ok(a)
      <3>1. l \in Nat /\ l <= CODE_0
        BY <1>1, <2>2, SMT
      <3>. HIDE DEF l
      <3>. QED BY <1>1, <1>6, <2>2, <3>1, SMT
    <2>4. KernelEnd(img) > CODE_0 => Ok(b)
      <3>1. KernelEnd(img) > CODE_0 =>
              KernelEnd(img) - CODE_0 \in Nat /\ CODE_0 + (KernelEnd(img) - CODE_0) <= MEM_END + 1
        BY <1>1, <2>2, SMT
      <3>. QED BY <1>1, <1>6, <3>1
    <2>5. Ok(c)
      <3>1. MEM_END + 1 - MEM_0 \in Nat /\ MEM_0 + (MEM_END + 1 - MEM_0) <= MEM_END + 1
        BY <1>1, SMT
      <3>. QED BY <1>1, <1>6, <3>1
    <2>6. Ok(u)
      BY <1>5
    <2>. HIDE DEF a, b, c, u
    <2>7. CASE KernelEnd(img) > CODE_0
      <3>. DEFINE R == <<a, b, c, u>>
      <3>1. Len(R) = 4 /\ R[1] = a /\ R[2] = b /\ R[3] = c /\ R[4] = u
        OBVIOUS
      <3>2. R \in Seq(RangeType)
        BY <2>3, <2>4, <2>5, <2>6, <2>7, SMT DEF Ok
      <3>3. Ranges(p, img) = R
        BY <2>2, <2>7
      <3>. HIDE DEF R
      <3>4. \A k \in 1 .. 4 : Ok(R[k])
        BY <2>3, <2>4, <2>5, <2>6, <2>7, <3>1, SMT
      <3>5. \A k \in 1 .. 4 : R[k].va % PAGE_SIZE = 0 /\ R[k].end <= FAN * SPAN[0]
        BY <3>4 DEF Ok
      <3>6. 4 \in Nat \ {0}
        BY SMT
      <3>. QED BY <3>1, <3>2, <3>3, <3>5, <3>6
    <2>8. CASE ~(KernelEnd(img) > CODE_0)
      <3>. DEFINE R == <<a, c, u>>
      <3>1. Len(R) = 3 /\ R[1] = a /\ R[2] = c /\ R[3] = u
        OBVIOUS
      <3>2. R \in Seq(RangeType)
        BY <2>3, <2>5, <2>6, SMT DEF Ok
      <3>3. Ranges(p, img) = R
        BY <2>2, <2>8
      <3>. HIDE DEF R
      <3>4. \A k \in 1 .. 3 : Ok(R[k])
        BY <2>3, <2>5, <2>6, <3>1, SMT
      <3>5. \A k \in 1 .. 3 : R[k].va % PAGE_SIZE = 0 /\ R[k].end <= FAN * SPAN[0]
        BY <3>4 DEF Ok
      <3>6. 3 \in Nat \ {0}
        BY SMT
      <3>. QED BY <3>1, <3>2, <3>3, <3>5, <3>6
    <2>. QED BY <2>7, <2>8
  <1>. QED BY <1>7, <1>8

-----------------------------------------------------------------------------
(* Steps that leave the tables as they are.                                *)

(* The assertion that stops the kernel changes nothing else.               *)
LEMMA Unmoved ==
  ASSUME NEW H \in Homes, TableInv(H), UNCHANGED <<tab, free, mmap, call, cursor, stack>>
  PROVE  TableInv(H)'
  <1>1. UNCHANGED <<tab, free, mmap, call, r, va, at, level, stack>>
    BY DEF cursor
  <1>2. TableType'
    BY <1>1 DEF TableInv, TableType, Fits
  <1>3. TreeInv(H)'
    <2>1. Owners' = Owners /\ \A p \in Owners : Root(p)' = Root(p)
      BY <1>1 DEF Owners, Root
    <2>. QED BY <1>1, <2>1, TreeSame DEF TableInv
  <1>4. CursorInv(H)' /\ StackInv(H)'
    BY <1>1, SMT DEF TableInv, CursorInv, StackInv, Used, Todo
  <1>5. MapInv(H)'
    <2>1. \A p \in Slots : /\ RangesOf(p)' = RangesOf(p) /\ (Building(p)' <=> Building(p))
                           /\ (p \in Whole)' <=> p \in Whole
      BY <1>1 DEF RangesOf, Building, Whole
    <2>2. \A p \in Slots, v \in VPages : \A d : Wanted(p, v, d) => Wanted(p, v, d)'
      BY <1>1, <2>1, WantedWaits
    <2>. QED BY <1>1, <2>1, <2>2 DEF TableInv, MapInv, Used
  <1>. QED BY <1>2, <1>3, <1>4, <1>5 DEF TableInv

(* The ranges of the call that builds a map.                               *)
LEMMA TodoFacts ==
  ASSUME TableType, call.op = "map"
  PROVE  /\ Todo \in Seq(RangeType) /\ Len(Todo) \in Nat \ {0} /\ DOMAIN Todo = 1 .. Len(Todo)
         /\ \A k \in 1 .. Len(Todo) :
              /\ Todo[k] \in RangeType
              /\ Todo[k].va \in Nat /\ Todo[k].pa \in Nat /\ Todo[k].end \in Nat
              /\ Todo[k].va % PAGE_SIZE = 0
              /\ Todo[k].end <= FAN * SPAN[0]
         /\ RangesOf(call.on) = Todo /\ Building(call.on)
  <1>1. call.on \in Slots /\ call.image \in Nat \X Nat /\ Fits(call.on, call.image)
    BY DEF TableType
  <1>2. Building(call.on) /\ RangesOf(call.on) = Todo
    BY DEF Building, RangesOf, Todo
  <1>3. /\ Todo \in Seq(RangeType) /\ Len(Todo) \in Nat \ {0}
        /\ \A k \in 1 .. Len(Todo) : Todo[k].va % PAGE_SIZE = 0 /\ Todo[k].end <= FAN * SPAN[0]
    BY <1>1, RangesFit DEF Todo
  <1>4. DOMAIN Todo = 1 .. Len(Todo) /\ \A k \in 1 .. Len(Todo) : Todo[k] \in RangeType
    BY <1>3, SMT
  <1>. QED BY <1>2, <1>3, <1>4 DEF RangeType

(* next_range: the range that is done is mapped to its end.                *)
LEMMA NextRangeKeeps ==
  ASSUME NEW H \in Homes, TableInv(H), next_range
  PROVE  TableInv(H)'
  <1>. USE DEF TableInv
  <1>1. /\ call.op = "map" /\ ~(va < Todo[r].end) /\ r < Len(Todo)
        /\ r' = r + 1 /\ va' = Todo[r + 1].va
        /\ UNCHANGED <<tab, free, mmap, call, at, level, stack>>
    BY DEF next_range, Mapping
  <1>2. TableType'
    BY <1>1 DEF TableType, Fits
  <1>3. TreeInv(H)' /\ StackInv(H)'
    <2>1. Owners' = Owners /\ \A p \in Owners : Root(p)' = Root(p)
      BY <1>1 DEF Owners, Root
    <2>. QED BY <1>1, <2>1, TreeSame DEF StackInv
  <1>4. Todo' = Todo
    BY <1>1 DEF Todo
  <1>5. r \in 1 .. Len(Todo) /\ va \in Nat /\ Len(Todo) \in Nat
    BY <1>1, TodoFacts DEF CursorInv
  <1>6. CursorInv(H)'
    <2>1. r + 1 \in 1 .. Len(Todo)
      BY <1>1, <1>5, SMT
    <2>2. va' \in Nat /\ va' % PAGE_SIZE = 0
      BY <1>1, <2>1, TodoFacts
    <2>3. va >= Todo[r].end
      BY <1>1, <1>5, TodoFacts, SMT
    <2>4. level = 0 /\ at \in Used /\ H[at] = home(call.on, 0, 0)
      BY <1>1, <2>3 DEF CursorInv, Num
    <2>5. Todo'[r'].va <= va' /\ level' \in 0 .. LEVELS - 1 /\ Num(va', level') = 0 /\ level' = 0
      BY <1>1, <1>4, <2>2, <2>4, TreeAssumption, SMT DEF Num
    <2>. QED BY <1>1, <1>4, <2>1, <2>2, <2>4, <2>5 DEF CursorInv, Used
  <1>7. MapInv(H)'
    <2>1. \A p \in Slots : /\ RangesOf(p)' = RangesOf(p) /\ (Building(p)' <=> Building(p))
                           /\ (p \in Whole)' <=> p \in Whole
      BY <1>1 DEF RangesOf, Building, Whole
    <2>2. ASSUME NEW p \in Slots, NEW v \in VPages, NEW k \in DOMAIN RangesOf(p)
          PROVE  Covered(p, k, v)' <=> Covered(p, k, v)
      <3>1. CASE ~Building(p)
        BY <2>1, <3>1 DEF Covered
      <3>2. CASE Building(p)
        <4>1. p = call.on /\ RangesOf(p) = Todo
          BY <3>2, <1>1, TodoFacts DEF Building
        <4>2. k \in 1 .. Len(Todo) /\ Todo[k].va \in Nat /\ Todo[k].end \in Nat /\ v \in Nat
          BY <1>1, <4>1, TodoFacts, SMT DEF VPages
        <4>3. Covered(p, k, v) <=> /\ Todo[k].va <= v /\ v < Todo[k].end
                                   /\ k < r \/ (k = r /\ v < va)
          BY <3>2, <4>1 DEF Covered
        <4>4. Covered(p, k, v)' <=> /\ Todo[k].va <= v /\ v < Todo[k].end
                                    /\ k < r + 1 \/ (k = r + 1 /\ v < Todo[r + 1].va)
          BY <1>1, <1>4, <2>1, <3>2, <4>1 DEF Covered
        <4>. QED BY <1>1, <1>5, <4>2, <4>3, <4>4, SMT
      <3>. QED BY <3>1, <3>2
    <2>3. \A p \in Slots, v \in VPages : \A d : Wanted(p, v, d) => Wanted(p, v, d)'
      BY <2>1, <2>2, WantedSame
    <2>. QED BY <1>1, <2>1, <2>3 DEF MapInv, Used
  <1>. QED BY <1>2, <1>3, <1>6, <1>7

(* map_return: the map that was being built is the map of its slot.        *)
LEMMA MapReturnKeeps ==
  ASSUME NEW H \in Homes, TableInv(H), map_return
  PROVE  TableInv(H)'
  <1>. USE DEF TableInv
  <1>0. PICK on \in Slots : on = call.on
    BY DEF TableType
  <1>1. /\ call.op = "map" /\ ~(va < Todo[r].end) /\ r = Len(Todo)
        /\ mmap' = [mmap EXCEPT ![on] = [root |-> call.root, image |-> call.image]]
        /\ call' = NoCall
        /\ UNCHANGED <<tab, free, stack>>
    BY <1>0 DEF map_return, Mapping
  <1>2. /\ on \in Slots /\ mmap[on] = Unmapped /\ Fits(on, call.image)
        /\ call.image \in Nat \X Nat /\ call.root \in Nat
        /\ mmap \in [Slots -> [root : Nat, image : Nat \X Nat]]
    BY <1>0, <1>1 DEF TableType
  <1>3. on \in Owners /\ Root(on) = call.root
    BY <1>0, <1>1, <1>2 DEF Owners, Root
  <1>4. call.root \in Pages /\ call.root # NULL
    <2>1. call.root \in Used
      BY <1>3 DEF TreeInv
    <2>. QED BY <2>1, TreeAssumption DEF Used
  <1>5. /\ mmap'[on].root = call.root /\ mmap'[on].image = call.image /\ mmap'[on] # Unmapped
        /\ \A p \in Slots : p # on => mmap'[p] = mmap[p]
        /\ mmap' \in [Slots -> [root : Nat, image : Nat \X Nat]]
    BY <1>1, <1>2, <1>4 DEF Unmapped
  <1>6. call'.op = "none"
    BY <1>1 DEF NoCall
  <1>7. TableType'
    <2>1. \A p \in Slots : mmap'[p] = Unmapped \/ (mmap'[p].root \in Pages /\ Fits(p, mmap'[p].image))
      BY <1>2, <1>4, <1>5 DEF TableType
    <2>2. NoCall \in [op : {"none", "map", "free"}, on : Slots, image : Nat \X Nat, root : Nat]
      BY TreeAssumption DEF NoCall, NoImage, NULL
    <2>. QED BY <1>1, <1>5, <1>6, <2>1, <2>2 DEF TableType, Fits
  <1>8. Owners' = Owners /\ \A p \in Owners : Root(p)' = Root(p)
    BY <1>0, <1>1, <1>2, <1>3, <1>5, <1>6 DEF Owners, Root
  <1>9. TreeInv(H)'
    BY <1>1, <1>8, TreeSame
  <1>10. CursorInv(H)' /\ StackInv(H)'
    BY <1>6 DEF CursorInv, StackInv
  <1>11. MapInv(H)'
    <2>1. ASSUME NEW p \in Slots
          PROVE  /\ ~Building(p)' /\ (Building(p) <=> p = on)
                 /\ (p \in Whole)' <=> p \in Whole \/ p = on
                 /\ p \in Whole \/ p = on => RangesOf(p)' = RangesOf(p)
      BY <1>0, <1>1, <1>2, <1>5, <1>6 DEF RangesOf, Building, Whole
    <2>2. ASSUME NEW v \in VPages, NEW k \in DOMAIN RangesOf(on)
          PROVE  Covered(on, k, v)' <=> Covered(on, k, v)
      <3>1. Building(on) /\ RangesOf(on) = Todo /\ RangesOf(on)' = Todo /\ ~Building(on)'
        BY <1>0, <1>1, <1>2, <2>1, TodoFacts
      <3>2. /\ k \in 1 .. Len(Todo) /\ Todo[k].va \in Nat /\ Todo[k].end \in Nat /\ v \in Nat
            /\ r \in Nat /\ va \in Nat /\ Todo[r].end \in Nat
        BY <1>0, <1>1, <3>1, TodoFacts, SMT DEF VPages, CursorInv
      <3>3. Covered(on, k, v) <=> /\ Todo[k].va <= v /\ v < Todo[k].end
                                  /\ k < r \/ (k = r /\ v < va)
        BY <1>0, <3>1 DEF Covered
      <3>4. Covered(on, k, v)' <=> Todo[k].va <= v /\ v < Todo[k].end
        BY <3>1 DEF Covered
      <3>. QED BY <1>1, <3>2, <3>3, <3>4, SMT
    <2>3. ASSUME NEW p \in Slots, p # on, p \in Whole, NEW v \in VPages, NEW k \in DOMAIN RangesOf(p)
          PROVE  Covered(p, k, v)' <=> Covered(p, k, v)
      BY <2>1, <2>3 DEF Covered
    <2>4. ASSUME NEW p \in Slots, p \in Whole \/ p = on, NEW v \in VPages, NEW d, Wanted(p, v, d)
          PROVE  Wanted(p, v, d)'
      BY <2>1, <2>2, <2>3, <2>4, WantedSame
    <2>. QED BY <1>1, <2>1, <2>4 DEF MapInv, Used
  <1>. QED BY <1>7, <1>9, <1>10, <1>11

(* mmu_map_destroy: the map is no longer whole, its tables are still there.*)
LEMMA DestroyKeeps ==
  ASSUME NEW H \in Homes, TableInv(H), NEW p \in Slots, mmu_map_destroy(p)
  PROVE  TableInv(H)'
  <1>. USE DEF TableInv
  <1>. DEFINE root == mmap[p].root
  <1>1. /\ call = NoCall /\ p # P0 /\ mmap[p] # Unmapped
        /\ call' = [op |-> "free", on |-> p, image |-> mmap[p].image, root |-> root]
        /\ stack' = <<Frame(root)>>
        /\ UNCHANGED <<tab, free, mmap>>
    BY DEF mmu_map_destroy
  <1>2. call.op = "none" /\ call'.op = "free" /\ call'.on = p /\ call'.root = root
    BY <1>1 DEF NoCall
  <1>3. TableType'
    <2>1. mmap[p] \in [root : Nat, image : Nat \X Nat]
      BY DEF TableType
    <2>2. call' \in [op : {"none", "map", "free"}, on : Slots, image : Nat \X Nat, root : Nat]
      BY <1>1, <2>1
    <2>. QED BY <1>1, <1>2, <2>2 DEF TableType, Fits
  <1>4. Owners' = Owners /\ (\A q \in Owners : Root(q)' = Root(q)) /\ p \in Owners /\ Root(p) = root
    BY <1>1, <1>2 DEF Owners, Root
  <1>5. TreeInv(H)'
    BY <1>1, <1>4, TreeSame
  <1>6. CursorInv(H)'
    BY <1>2 DEF CursorInv
  <1>7. StackInv(H)'
    <2>1. root \in Used /\ root \in Pages /\ H[root] = home(p, 0, 0)
      <3>1. \A q \in Owners : Root(q) \in Used /\ H[Root(q)] = home(q, 0, 0)
        BY DEF TreeInv
      <3>. QED BY <1>4, <3>1 DEF Used
    <2>3. Frame(root) \in [table : Pages, i : 0 .. FAN]
      BY <2>1, Frames
    <2>4. stack' \in Seq([table : Pages, i : 0 .. FAN]) /\ Len(stack') = 1 /\ stack'[1] = Frame(root)
      BY <1>1, <2>3, SMT
    <2>5. stack'[1].table = root /\ stack'[1].i = 0
      BY <2>1, <2>4, Frames
    <2>6. H[root].of = p /\ H[root].depth = 0
      <3>1. home(p, 0, 0).of = p /\ home(p, 0, 0).depth = 0
        BY DEF home
      <3>. QED BY <2>1, <3>1
    <2>7. \A j \in Index : ~(j < 0)
      BY Entries
    <2>8. Used' = Used
      BY <1>1 DEF Used
    <2>. HIDE DEF root
    <2>9. \A k \in 1 .. Len(stack') : k = 1
      BY <2>4, Single
    <2>10. (\A k \in 1 .. Len(stack') - 1 : FALSE) /\ Len(stack') \in 1 .. LEVELS /\ 1 - 1 = 0
      BY <2>4, Single
    <2>11. ASSUME NEW k \in 1 .. Len(stack')
           PROVE  /\ stack'[k].table \in Used'
                  /\ H[stack'[k].table].of = p /\ H[stack'[k].table].depth = k - 1
                  /\ \A j \in Index : j < stack'[k].i => tab'[stack'[k].table][j] = Invalid
      <3>1. k = 1
        BY <2>9
      <3>. QED BY <2>1, <2>5, <2>6, <2>7, <2>8, <2>10, <3>1
    <2>. QED BY <1>2, <2>4, <2>5, <2>10, <2>11 DEF StackInv
  <1>8. MapInv(H)'
    <2>1. ASSUME NEW q \in Slots
          PROVE  /\ ~Building(q)' /\ ~Building(q)
                 /\ (q \in Whole)' => q \in Whole
                 /\ RangesOf(q)' = RangesOf(q)
      BY <1>1, <1>2 DEF RangesOf, Building, Whole
    <2>2. \A q \in Slots, v \in VPages : \A d : Wanted(q, v, d) => Wanted(q, v, d)'
      BY <2>1, WantedStays
    <2>. QED BY <1>1, <2>1, <2>2 DEF MapInv, Used
  <1>. QED BY <1>3, <1>5, <1>6, <1>7, <1>8

(* What is known of the activation that is running.                        *)
LEMMA TopFacts ==
  ASSUME NEW H \in Homes, TableInv(H), call.op = "free"
  PROVE  /\ Len(stack) \in 1 .. LEVELS /\ Len(stack) \in Nat
         /\ top \in [table : Pages, i : 0 .. FAN]
         /\ top.table \in Used /\ top.table \in Pages /\ top.i \in 0 .. FAN
         /\ H[top.table].of = call.on /\ H[top.table].depth = Len(stack) - 1
         /\ \A j \in Index : j < top.i => tab[top.table][j] = Invalid
         /\ top.i < FAN => top.i \in Index /\ Leads(H, top.table, top.i)
  <1>1. /\ stack \in Seq([table : Pages, i : 0 .. FAN]) /\ Len(stack) \in 1 .. LEVELS
        /\ FAN \in Nat \ {0} /\ LEVELS \in Nat
    BY TreeAssumption DEF TableInv, StackInv
  <1>2. Len(stack) \in Nat /\ Len(stack) \in 1 .. Len(stack)
    BY <1>1, SMT
  <1>3. top \in [table : Pages, i : 0 .. FAN] /\ top.i \in 0 .. FAN
    <2>. DEFINE T == [table : Pages, i : 0 .. FAN]
    <2>1. top \in T
      <3>1. stack \in Seq(T)
        BY <1>1
      <3>. HIDE DEF T
      <3>. QED BY <1>2, <3>1, SMT DEF top
    <2>. QED BY <2>1
  <1>4. /\ top.table \in Used
        /\ H[top.table].of = call.on /\ H[top.table].depth = Len(stack) - 1
        /\ \A j \in Index : j < top.i => tab[top.table][j] = Invalid
    BY <1>2 DEF TableInv, StackInv, top
  <1>5. top.i < FAN => top.i \in Index
    BY <1>1, <1>3, SMT DEF Index
  <1>. QED BY <1>1, <1>2, <1>3, <1>4, <1>5 DEF TableInv, TreeInv, Used

(* enter_table: the activation below starts at the table the entry is for. *)
LEMMA EnterKeeps ==
  ASSUME NEW H \in Homes, TableInv(H), enter_table
  PROVE  TableInv(H)'
  <1>. USE DEF TableInv
  <1>1. /\ call.op = "free" /\ top.i < FAN /\ entry.kind = "table" /\ Len(stack) < LEVELS
        /\ stack' = Append(stack, Frame(entry.to))
        /\ UNCHANGED <<tab, free, mmap, call>>
    BY DEF enter_table, Freeing
  <1>2. TableType' /\ TreeInv(H)' /\ CursorInv(H)'
    <2>1. TableType'
      BY <1>1 DEF TableType, Fits
    <2>2. Owners' = Owners /\ \A p \in Owners : Root(p)' = Root(p)
      BY <1>1 DEF Owners, Root
    <2>. QED BY <1>1, <2>1, <2>2, TreeSame DEF CursorInv
  <1>3. MapInv(H)'
    <2>1. ASSUME NEW q \in Slots
          PROVE  /\ ~Building(q)' /\ ~Building(q)
                 /\ (q \in Whole)' => q \in Whole
                 /\ RangesOf(q)' = RangesOf(q)
      BY <1>1 DEF RangesOf, Building, Whole
    <2>2. \A q \in Slots, v \in VPages : \A d : Wanted(q, v, d) => Wanted(q, v, d)'
      BY <2>1, WantedStays
    <2>. QED BY <1>1, <2>1, <2>2 DEF MapInv, Used
  <1>4. StackInv(H)'
    <2>. DEFINE n == Len(stack)
                T == [table : Pages, i : 0 .. FAN]
    <2>1. n \in Nat /\ n \in 1 .. LEVELS /\ top.i \in Index /\ Leads(H, top.table, top.i)
          /\ H[top.table].of = call.on /\ H[top.table].depth = n - 1
      BY <1>1, TopFacts
    <2>2. PICK u \in Used : /\ entry = desc_table(u)
                            /\ H[u] = home(call.on, n, Below(H[top.table].num, top.i))
      <3>1. H[top.table].depth # LEVELS - 1 /\ entry # Invalid
        <4>1. n - 1 # LEVELS - 1
          BY <1>1, <2>1, Depths
        <4>2. Invalid.kind # "table"
          BY DEF Invalid
        <4>. QED BY <1>1, <2>1, <4>1, <4>2
      <3>2. PICK u \in Used : /\ entry = desc_table(u)
                              /\ H[u] = home(H[top.table].of, H[top.table].depth + 1,
                                             Below(H[top.table].num, top.i))
        BY <2>1, <3>1 DEF Leads, entry
      <3>3. (n - 1) + 1 = n
        BY <2>1, Depths
      <3>. QED BY <2>1, <3>2, <3>3
    <2>3. entry.to = u /\ u \in Pages
      BY <2>2 DEF desc_table, Used
    <2>4. Frame(u) \in T /\ Frame(u).table = u /\ Frame(u).i = 0
      BY <2>3, Frames
    <2>5. stack \in Seq(T) /\ stack' = Append(stack, Frame(u))
      BY <1>1, <2>3 DEF StackInv
    <2>6. /\ stack' \in Seq(T) /\ Len(stack') = n + 1 /\ stack'[n + 1] = Frame(u)
          /\ \A k \in 1 .. n : stack'[k] = stack[k]
      <3>1. PICK s \in Seq(T), e \in T : s = stack /\ e = Frame(u)
        BY <2>4, <2>5
      <3>. HIDE DEF T
      <3>2. PICK z : z = stack'
        OBVIOUS
      <3>3. z = Append(s, e)
        BY <2>5, <3>1, <3>2
      <3>4. z \in Seq(T) /\ Len(z) = Len(s) + 1 /\ z[Len(s) + 1] = e /\ \A k \in 1 .. Len(s) : z[k] = s[k]
        BY <3>3, SMT
      <3>. QED BY <3>1, <3>2, <3>4
    <2>7. H[u].of = call.on /\ H[u].depth = n
      <3>1. PICK h : h = home(call.on, n, Below(H[top.table].num, top.i))
        OBVIOUS
      <3>2. h.of = call.on /\ h.depth = n
        BY <3>1 DEF home
      <3>. QED BY <2>2, <3>1, <3>2
    <2>8. \A j \in Index : ~(j < 0)
      BY Entries
    <2>11. /\ n \in Nat \ {0} /\ n + 1 \in 1 .. LEVELS /\ (n + 1) - 1 = n
           /\ \A k \in 1 .. n + 1 : k = n + 1 \/ k \in 1 .. n
      BY <1>1, <2>1, Depths
    <2>9. ASSUME NEW k \in 1 .. n + 1
          PROVE  /\ stack'[k].table \in Used
                 /\ H[stack'[k].table].of = call.on /\ H[stack'[k].table].depth = k - 1
                 /\ \A j \in Index : j < stack'[k].i => tab[stack'[k].table][j] = Invalid
      <3>1. CASE k = n + 1
        BY <2>4, <2>6, <2>7, <2>8, <2>11, <3>1
      <3>2. CASE k \in 1 .. n
        BY <1>1, <2>6, <3>2 DEF StackInv
      <3>. QED BY <2>11, <3>1, <3>2
    <2>10. ASSUME NEW k \in 1 .. n
           PROVE  /\ stack'[k].i \in Index
                  /\ tab[stack'[k].table][stack'[k].i] = desc_table(stack'[k + 1].table)
      <3>1. CASE k = n
        BY <2>1, <2>2, <2>4, <2>6, <3>1 DEF top, entry
      <3>2. CASE k \in 1 .. n - 1
        <4>1. k + 1 \in 1 .. n /\ k \in 1 .. n
          BY <2>11, <3>2, Places
        <4>. QED BY <1>1, <2>6, <3>2, <4>1 DEF StackInv
      <3>. QED BY <2>11, <3>1, <3>2, Places
    <2>12. stack'[1].table = call.root
      <3>1. 1 \in 1 .. n
        BY <2>11, Places
      <3>. QED BY <1>1, <2>6, <3>1 DEF StackInv
    <2>13. Used' = Used
      BY <1>1 DEF Used
    <2>. HIDE DEF n
    <2>14. Len(stack') \in 1 .. LEVELS /\ Len(stack') - 1 = n /\ Len(stack') = n + 1
      BY <2>6, <2>11
    <2>15. /\ \A k \in 1 .. Len(stack') :
                /\ stack'[k].table \in Used'
                /\ H[stack'[k].table].of = call'.on /\ H[stack'[k].table].depth = k - 1
                /\ \A j \in Index : j < stack'[k].i => tab'[stack'[k].table][j] = Invalid
           /\ \A k \in 1 .. Len(stack') - 1 :
                /\ stack'[k].i \in Index
                /\ tab'[stack'[k].table][stack'[k].i] = desc_table(stack'[k + 1].table)
      BY <1>1, <2>9, <2>10, <2>13, <2>14
    <2>. QED BY <1>1, <2>6, <2>12, <2>14, <2>15 DEF StackInv
  <1>. QED BY <1>2, <1>3, <1>4

(* ensure_next that finds a table: it is the one the address leads to.     *)
LEMMA FoundKeeps ==
  ASSUME NEW H \in Homes, TableInv(H),
         Mapping, level < LEVELS - 1,
         tab[at][idx(va, level)] # Invalid,
         at' = tab[at][idx(va, level)].to, level' = level + 1,
         UNCHANGED <<tab, free, mmap, halted, call, r, va, stack>>
  PROVE  TableInv(H)'
  <1>. USE DEF TableInv
  <1>1. call.op = "map" /\ va < Todo[r].end
    BY DEF Mapping
  <1>2. TableType' /\ TreeInv(H)' /\ StackInv(H)'
    <2>1. TableType'
      BY DEF TableType, Fits
    <2>2. TreeInv(H)'
      <3>1. Owners' = Owners /\ \A p \in Owners : Root(p)' = Root(p)
        BY DEF Owners, Root
      <3>. QED BY <3>1, TreeSame
    <2>3. StackInv(H)'
      BY <1>1 DEF StackInv
    <2>. QED BY <2>1, <2>2, <2>3
  <1>3. MapInv(H)'
    <2>1. \A p \in Slots : /\ RangesOf(p)' = RangesOf(p) /\ (Building(p)' <=> Building(p))
                           /\ (p \in Whole)' <=> p \in Whole
      BY DEF RangesOf, Building, Whole
    <2>2. \A p \in Slots, v \in VPages : \A d : Wanted(p, v, d) => Wanted(p, v, d)'
      BY <2>1, WantedWaits
    <2>. QED BY <2>1, <2>2 DEF MapInv, Used
  <1>4. /\ va \in Reach /\ level \in 0 .. LEVELS - 1 /\ level + 1 \in 0 .. LEVELS - 1
        /\ at \in Used /\ H[at] = home(call.on, level, Num(va, level)) /\ ~(va >= Todo[r].end)
    <2>1. /\ r \in 1 .. Len(Todo) /\ va \in Nat /\ level \in 0 .. LEVELS - 1 /\ LEVELS \in Nat
          /\ at \in Used /\ H[at] = home(call.on, level, Num(va, level))
      BY <1>1, TreeAssumption DEF CursorInv
    <2>2. Todo[r].end \in Nat /\ Todo[r].end <= FAN * SPAN[0]
      BY <1>1, <2>1, TodoFacts
    <2>3. va \in Reach /\ level + 1 \in 0 .. LEVELS - 1 /\ ~(va >= Todo[r].end)
      BY <1>1, <2>1, <2>2, Bounds
    <2>. QED BY <2>1, <2>3
  <1>5. idx(va, level) \in Index /\ Num(va, level + 1) = Below(Num(va, level), idx(va, level))
    BY <1>4, NumStep
  <1>6. at' \in Used /\ H[at'] = home(call.on, level + 1, Num(va, level + 1))
    <2>1. Leads(H, at, idx(va, level))
      BY <1>4, <1>5 DEF TreeInv
    <2>2. H[at].of = call.on /\ H[at].depth = level /\ H[at].num = Num(va, level) /\ level # LEVELS - 1
      <3>1. PICK h : h = home(call.on, level, Num(va, level))
        OBVIOUS
      <3>2. h.of = call.on /\ h.depth = level /\ h.num = Num(va, level)
        BY <3>1 DEF home
      <3>. QED BY <1>4, <3>1, <3>2, Bounds
    <2>3. PICK u \in Used : /\ tab[at][idx(va, level)] = desc_table(u)
                            /\ H[u] = home(call.on, level + 1, Below(Num(va, level), idx(va, level)))
      BY <2>1, <2>2 DEF Leads
    <2>4. at' = u
      BY <2>3, Descriptors DEF Used
    <2>. QED BY <1>5, <2>3, <2>4
  <1>7. CursorInv(H)'
    <2>1. Todo' = Todo /\ Used' = Used
      BY DEF Todo, Used
    <2>3. Num(va, level + 1) = Num(va', level') /\ level' = level + 1
      OBVIOUS
    <2>. QED BY <1>1, <1>4, <1>6, <2>1, <2>3 DEF CursorInv
  <1>. QED BY <1>2, <1>3, <1>7

-----------------------------------------------------------------------------
(* Steps that change a table.                                              *)

(* The descriptor of a page.                                               *)
LEMMA PageDesc ==
  ASSUME NEW pa \in Nat, NEW a \in {"proc", "kern", "dev"}
  PROVE  desc_page(pa, a) \in Desc /\ desc_page(pa, a).kind = "page"
  <1>1. Down(pa) \in Nat
    BY DownNat
  <1>. QED BY <1>1 DEF desc_page, Desc

(* The tables n are m with one entry stored.                               *)
Tables == [Pages -> [Index -> Desc]]
Stores(m, t, i, d, n) == n = [m EXCEPT ![t][i] = d]

(* That entry is stored, and nothing else.                                 *)
LEMMA StoreFacts ==
  ASSUME NEW m \in Tables, NEW t \in Pages, NEW i \in Index, NEW d \in Desc,
         NEW n, Stores(m, t, i, d, n)
  PROVE  /\ n \in Tables
         /\ n[t][i] = d
         /\ \A u \in Pages, j \in Index : ~(u = t /\ j = i) => n[u][j] = m[u][j]
  <1>1. m[t] \in [Index -> Desc]
    BY DEF Tables
  <1>2. [m[t] EXCEPT ![i] = d] \in [Index -> Desc]
    BY <1>1
  <1>3. n = [m EXCEPT ![t] = [m[t] EXCEPT ![i] = d]]
    BY DEF Stores
  <1>. QED BY <1>1, <1>2, <1>3 DEF Tables

(* The home of a table is below the one of the table that leads to it.     *)
LEMMA ParentHome ==
  ASSUME NEW H \in Homes, TreeInv(H), NEW t \in Used, NEW i \in Index, NEW u \in Used,
         tab[t][i] = desc_table(u)
  PROVE  /\ H[t].depth # LEVELS - 1
         /\ H[u] = home(H[t].of, H[t].depth + 1, Below(H[t].num, i))
  <1>1. Leads(H, t, i) /\ u \in Pages /\ \A w \in Used : w \in Pages
    BY DEF TreeInv, Used
  <1>2. tab[t][i] # Invalid /\ tab[t][i].kind # "page"
    <2>1. desc_table(u).kind # "page"
      BY DEF desc_table
    <2>. QED BY <1>1, <2>1, Descriptors
  <1>. QED BY <1>1, <1>2, Descriptors DEF Leads

(* So only one entry leads to a table.                                     *)
LEMMA OneParent ==
  ASSUME NEW H \in Homes, TreeInv(H), NEW t \in Used, NEW i \in Index, NEW s \in Used,
         NEW j \in Index, NEW u \in Used, tab[s][j] = desc_table(u),
         H[u] = home(H[t].of, H[t].depth + 1, Below(H[t].num, i))
  PROVE  s = t /\ j = i
  <1>1. H[u] = home(H[s].of, H[s].depth + 1, Below(H[s].num, j))
    BY ParentHome
  <1>2. H[t] \in Home /\ H[s] \in Home
    BY DEF Homes, Used
  <1>3. H[s].of = H[t].of /\ H[s].depth + 1 = H[t].depth + 1 /\ Below(H[s].num, j) = Below(H[t].num, i)
    <2>1. PICK g, h : /\ g = home(H[s].of, H[s].depth + 1, Below(H[s].num, j))
                      /\ h = home(H[t].of, H[t].depth + 1, Below(H[t].num, i))
      OBVIOUS
    <2>2. /\ g.of = H[s].of /\ g.depth = H[s].depth + 1 /\ g.num = Below(H[s].num, j)
          /\ h.of = H[t].of /\ h.depth = H[t].depth + 1 /\ h.num = Below(H[t].num, i)
      BY <2>1 DEF home
    <2>. QED BY <1>1, <2>1, <2>2
  <1>4. H[s].depth = H[t].depth /\ H[s].num \in Nat /\ H[t].num \in Nat
    <2>1. H[s].depth \in 0 .. LEVELS - 1 /\ H[t].depth \in 0 .. LEVELS - 1 /\ LEVELS \in Nat
      BY <1>2, TreeAssumption DEF Home
    <2>2. H[s].num \in Nat /\ H[t].num \in Nat
      BY <1>2 DEF Home
    <2>. QED BY <1>3, <2>1, <2>2, Bounds
  <1>5. H[s].num = H[t].num /\ i = j
    <2>1. PICK m \in Nat, n \in Nat : m = H[s].num /\ n = H[t].num
      BY <1>4
    <2>2. Below(m, j) = Below(n, i)
      BY <1>3, <2>1
    <2>3. m = n /\ i = j
      BY <2>2, BelowOne, SMT
    <2>. QED BY <2>1, <2>3
  <1>6. H[s] = H[t]
    BY <1>2, <1>3, <1>4, <1>5, SameHome
  <1>. QED BY <1>5, <1>6 DEF TreeInv

(* Where the cursor of a call that has a page to map is.                   *)
LEMMA CursorFacts ==
  ASSUME NEW H \in Homes, TableInv(H), Mapping
  PROVE  /\ call.op = "map" /\ call.on \in Slots /\ call.on \in Owners
         /\ r \in 1 .. Len(Todo) /\ va \in Nat /\ va % PAGE_SIZE = 0
         /\ Todo[r] \in RangeType /\ Todo[r].va <= va /\ va < Todo[r].end
         /\ Todo[r].va \in Nat /\ Todo[r].pa \in Nat /\ Todo[r].end \in Nat
         /\ va \in Reach /\ va \in VPages
         /\ level \in 0 .. LEVELS - 1 /\ level \in Nat
         /\ at \in Used /\ at \in Pages
         /\ H[at].of = call.on /\ H[at].depth = level /\ H[at].num = Num(va, level)
         /\ H[at] = home(call.on, level, Num(va, level))
         /\ Num(va, level) \in Nat /\ idx(va, level) \in Index
         /\ Num(va, level + 1) = Below(Num(va, level), idx(va, level))
  <1>1. call.op = "map" /\ va < Todo[r].end /\ call.on \in Slots
    BY DEF Mapping, TableInv, TableType
  <1>2. /\ r \in 1 .. Len(Todo) /\ va \in Nat /\ va % PAGE_SIZE = 0 /\ Todo[r].va <= va
        /\ level \in 0 .. LEVELS - 1 /\ LEVELS \in Nat
        /\ at \in Used /\ H[at] = home(call.on, level, Num(va, level))
    BY <1>1, TreeAssumption DEF TableInv, CursorInv
  <1>3. /\ Todo[r] \in RangeType /\ Todo[r].end <= FAN * SPAN[0]
        /\ Todo[r].va \in Nat /\ Todo[r].pa \in Nat /\ Todo[r].end \in Nat
    BY <1>1, <1>2, TodoFacts DEF TableInv
  <1>5. va \in Reach /\ va \in VPages
    BY <1>1, <1>2, <1>3, Bounds
  <1>6. H[at].of = call.on /\ H[at].depth = level /\ H[at].num = Num(va, level)
    <2>1. PICK h : h = home(call.on, level, Num(va, level))
      OBVIOUS
    <2>2. h.of = call.on /\ h.depth = level /\ h.num = Num(va, level)
      BY <2>1 DEF home
    <2>. QED BY <1>2, <2>1, <2>2
  <1>7. /\ Num(va, level) \in Nat /\ idx(va, level) \in Index
        /\ Num(va, level + 1) = Below(Num(va, level), idx(va, level))
    BY <1>2, <1>5, NumStep
  <1>8. call.on \in Owners
    BY <1>1 DEF Owners
  <1>9. level \in Nat
    BY <1>2, Bounds
  <1>. QED BY <1>1, <1>2, <1>3, <1>5, <1>6, <1>7, <1>8, <1>9 DEF Used

(* No table has yet the home that an invalid entry would lead to.          *)
LEMMA FreshBelow ==
  ASSUME NEW H \in Homes, TreeInv(H), NEW t \in Used, NEW i \in Index, tab[t][i] = Invalid
  PROVE  \A u \in Used : H[u] # home(H[t].of, H[t].depth + 1, Below(H[t].num, i))
  <1>. SUFFICES ASSUME NEW u \in Used, H[u] = home(H[t].of, H[t].depth + 1, Below(H[t].num, i))
                PROVE  FALSE
    OBVIOUS
  <1>1. H[u].depth # 0
    <2>1. H[t].depth \in 0 .. LEVELS - 1 /\ H[u].depth = H[t].depth + 1
      <3>1. PICK h : h = home(H[t].of, H[t].depth + 1, Below(H[t].num, i))
        OBVIOUS
      <3>2. h.depth = H[t].depth + 1
        BY <3>1 DEF home
      <3>3. H[t] \in Home
        BY DEF Homes, Used
      <3>. QED BY <3>1, <3>2, <3>3 DEF Home
    <2>. QED BY <2>1, Bounds
  <1>2. u # Root(H[u].of)
    <2>1. H[u].of \in Owners
      BY DEF TreeInv
    <2>2. H[Root(H[u].of)] = home(H[u].of, 0, 0)
      BY <2>1 DEF TreeInv
    <2>3. home(H[u].of, 0, 0).depth = 0
      BY DEF home
    <2>. QED BY <1>1, <2>2, <2>3
  <1>3. PICK s \in Used, j \in Index : tab[s][j] = desc_table(u)
    BY <1>2 DEF TreeInv
  <1>4. s = t /\ j = i
    BY <1>3, OneParent, SMT
  <1>. QED BY <1>3, <1>4, Descriptors DEF Used

(* Every page of memory is within reach of the tree.                       *)
LEMMA LeafIndex ==
  ASSUME NEW v \in VPages
  PROVE  /\ LEVELS - 1 \in 0 .. LEVELS - 1 /\ v \in Reach /\ v \in Nat
         /\ idx(v, LEVELS - 1) \in Index /\ Num(v, LEVELS - 1) \in Nat
         /\ Num(v, LEVELS) = Below(Num(v, LEVELS - 1), idx(v, LEVELS - 1))
  <1>1. LEVELS \in Nat \ {0} /\ v \in Reach /\ v \in Nat
    BY Bounds
  <1>2. LEVELS - 1 \in 0 .. LEVELS - 1 /\ (LEVELS - 1) + 1 = LEVELS
    BY Bounds
  <1>. QED BY <1>1, <1>2, NumStep

(* ensure_next with the page u.                                            *)
NewTable(u) ==
  /\ tab' = [tab EXCEPT ![u] = Zeroed, ![at][idx(va, level)] = desc_table(u)]
  /\ free' = free \ {u} /\ at' = u /\ level' = level + 1
  /\ UNCHANGED <<mmap, halted, call, r, va, stack>>

(* The new table is the only one at its home, and it is empty, as what it  *)
(* stands for was.                                                         *)
LEMMA NewTableKeeps ==
  ASSUME NEW H \in Homes, TableInv(H), Mapping, level < LEVELS - 1,
         tab[at][idx(va, level)] = Invalid, NEW u \in free, NewTable(u)
  PROVE  \E G \in Homes : TableInv(G)'
  <1>. USE DEF TableInv
  <1>14. /\ tab' = [tab EXCEPT ![u] = Zeroed, ![at][idx(va, level)] = desc_table(u)]
         /\ free' = free \ {u} /\ at' = u /\ level' = level + 1
         /\ UNCHANGED <<mmap, halted, call, r, va, stack>>
    BY DEF NewTable
  <1>. USE <1>14
  <1>0. PICK i \in Index : i = idx(va, level)
    BY CursorFacts
  <1>1. PICK x \in Home : x = home(call.on, level + 1, Num(va, level + 1))
    <2>1. Num(va, level + 1) \in Nat
      <3>1. Num(va, level) \in Nat /\ Num(va, level + 1) = Below(Num(va, level), i)
        BY <1>0, CursorFacts
      <3>. QED BY <3>1, BelowNat
    <2>2. level + 1 \in 0 .. LEVELS - 1
      BY CursorFacts, Bounds
    <2>. QED BY <2>1, <2>2, CursorFacts DEF home, Home
  <1>2. PICK G \in Homes : G = [H EXCEPT ![u] = x]
    BY DEF Homes
  <1>3. /\ u \in Pages /\ u \notin Used /\ Used' = Used \cup {u} /\ at \in Used /\ at # u /\ at \in Pages
        /\ \A t \in Used : t \in Pages /\ t # u
    BY CursorFacts DEF Used, TableType
  <1>4. G[u] = x /\ \A t \in Used : G[t] = H[t]
    BY <1>2, <1>3 DEF Homes
  <1>5. /\ tab' \in [Pages -> [Index -> Desc]]
        /\ tab'[u] = Zeroed /\ tab'[at][i] = desc_table(u)
        /\ \A t \in Used, j \in Index : ~(t = at /\ j = i) => tab'[t][j] = tab[t][j]
    <2>1. PICK m : m = [tab EXCEPT ![u] = Zeroed]
      OBVIOUS
    <2>2. /\ m \in Tables /\ m[u] = Zeroed
          /\ \A t \in Used : m[t] = tab[t]
      BY <1>3, <2>1, Descriptors DEF TableType, Tables
    <2>3. PICK n : n = [m EXCEPT ![at][i] = desc_table(u)]
      OBVIOUS
    <2>4. tab' = n /\ n[u] = m[u]
      BY <1>0, <1>3, <2>1, <2>2, <2>3 DEF Tables
    <2>5. PICK d \in Desc : d = desc_table(u)
      BY <1>3, Descriptors
    <2>6. /\ n \in Tables /\ n[at][i] = d
          /\ \A t \in Pages, j \in Index : ~(t = at /\ j = i) => n[t][j] = m[t][j]
      <3>1. Stores(m, at, i, d, n)
        BY <2>3, <2>5 DEF Stores
      <3>. HIDE <1>14
      <3>. QED BY <1>3, <2>2, <3>1, StoreFacts, SMT
    <2>7. n[u] = Zeroed /\ n[at][i] = desc_table(u)
      BY <2>2, <2>4, <2>5, <2>6
    <2>8. ASSUME NEW t \in Used, NEW j \in Index, ~(t = at /\ j = i)
          PROVE  n[t][j] = tab[t][j]
      <3>1. t \in Pages /\ m[t] = tab[t]
        BY <1>3, <2>2
      <3>. QED BY <2>6, <2>8, <3>1
    <2>9. tab' \in [Pages -> [Index -> Desc]]
      BY <2>4, <2>6 DEF Tables
    <2>10. tab'[u] = Zeroed /\ tab'[at][i] = desc_table(u)
      BY <2>4, <2>7
    <2>11. ASSUME NEW t \in Used, NEW j \in Index, ~(t = at /\ j = i)
          PROVE  tab'[t][j] = tab[t][j]
      BY <2>4, <2>8, <2>11
    <2>. QED BY <2>9, <2>10, <2>11
  <1>6. /\ H[at].of = call.on /\ H[at].depth = level
        /\ x = home(H[at].of, H[at].depth + 1, Below(H[at].num, i))
    BY <1>0, <1>1, CursorFacts
  <1>7. \A t \in Used : H[t] # x
    BY <1>0, <1>3, <1>6, FreshBelow
  <1>8. x.of = call.on /\ x.depth = level + 1 /\ x.of \in Owners
    BY <1>1, CursorFacts DEF home
  <1>9. TableType'
    BY <1>5 DEF TableType, Fits
  <1>10. Owners' = Owners /\ (\A p \in Slots : Root(p)' = Root(p)) /\ Owners \subseteq Slots
    BY DEF Owners, Root
  <1>11. TreeInv(G)'
    <2>1. \A t \in Used' : G[t].of \in Owners'
      BY <1>3, <1>4, <1>8, <1>10 DEF TreeInv
    <2>2. \A s, t \in Used' : G[s] = G[t] => s = t
      <3>1. \A s, t \in Used : H[s] = H[t] => s = t
        BY DEF TreeInv
      <3>. QED BY <1>3, <1>4, <1>7, <3>1
    <2>3. \A p \in Owners' : Root(p)' \in Used' /\ G[Root(p)'] = home(p, 0, 0)
      BY <1>3, <1>4, <1>10 DEF TreeInv
    <2>4. ASSUME NEW t \in Used', NEW j \in Index PROVE Leads(G, t, j)'
      <3>1. CASE t = u
        <4>1. tab'[t][j] = Invalid
          BY <1>5, <3>1, Descriptors
        <4>. QED BY <4>1 DEF Leads
      <3>2. CASE t = at /\ j = i
        <4>1. G[at] = H[at] /\ H[at].depth # LEVELS - 1 /\ u \in Used'
          BY <1>3, <1>4, <1>6, CursorFacts, Bounds
        <4>2. tab'[at][i] = desc_table(u) /\ G[u] = home(G[at].of, G[at].depth + 1, Below(G[at].num, i))
          BY <1>4, <1>5, <1>6, <4>1
        <4>. QED BY <3>2, <4>1, <4>2 DEF Leads
      <3>3. CASE t \in Used /\ ~(t = at /\ j = i)
        <4>1. Leads(H, t, j) /\ tab'[t][j] = tab[t][j] /\ G[t] = H[t]
          BY <1>4, <1>5, <3>3 DEF TreeInv
        <4>. QED BY <1>3, <1>4, <4>1 DEF Leads
      <3>. QED BY <1>3, <3>1, <3>2, <3>3
    <2>5. ASSUME NEW w \in Used'
          PROVE  w = Root(G[w].of)' \/ \E t \in Used', j \in Index : tab'[t][j] = desc_table(w)
      <3>1. CASE w = u
        BY <1>3, <1>5, <3>1
      <3>2. CASE w \in Used /\ w = Root(H[w].of)
        <4>1. H[w].of \in Slots
          BY <1>10, <3>2 DEF TreeInv
        <4>2. Root(H[w].of)' = Root(H[w].of)
          BY <1>10, <4>1
        <4>. QED BY <1>4, <3>2, <4>2
      <3>3. CASE w \in Used /\ w # Root(H[w].of)
        <4>1. PICK t \in Used, j \in Index : tab[t][j] = desc_table(w)
          BY <3>3 DEF TreeInv
        <4>2. ~(t = at /\ j = i)
          BY <1>0, <1>3, <3>3, <4>1, Descriptors
        <4>. QED BY <1>3, <1>5, <4>1, <4>2
      <3>. QED BY <1>3, <3>1, <3>2, <3>3
    <2>. QED BY <2>1, <2>2, <2>3, <2>4, <2>5 DEF TreeInv
  <1>12. CursorInv(G)' /\ StackInv(G)'
    <2>1. Todo' = Todo /\ call' = call
      BY DEF Todo
    <2>2. level + 1 \in 0 .. LEVELS - 1 /\ ~(va >= Todo[r].end)
      BY CursorFacts, Bounds
    <2>4. Num(va', level') = Num(va, level + 1)
      OBVIOUS
    <2>. QED BY <1>1, <1>3, <1>4, <2>1, <2>2, <2>4, CursorFacts DEF CursorInv,
                StackInv
  <1>13. MapInv(G)'
    <2>1. \A p \in Slots : /\ RangesOf(p)' = RangesOf(p) /\ (Building(p)' <=> Building(p))
                           /\ (p \in Whole)' <=> p \in Whole
      BY DEF RangesOf, Building, Whole
    <2>2. \A p \in Slots, v \in VPages : \A d : Wanted(p, v, d) => Wanted(p, v, d)'
      BY <2>1, WantedWaits
    <2>3. ASSUME NEW p \in Slots, p \in Whole \/ Building(p), NEW v \in VPages
          PROVE  /\ \A t \in Used' : G[t] = Leaf(p, v) => Wanted(p, v, tab'[t][idx(v, LEVELS - 1)])
                 /\ (\A t \in Used' : G[t] # Leaf(p, v)) => Wanted(p, v, Invalid)
      <3>1. /\ \A t \in Used : H[t] = Leaf(p, v) => Wanted(p, v, tab[t][idx(v, LEVELS - 1)])
            /\ (\A t \in Used : H[t] # Leaf(p, v)) => Wanted(p, v, Invalid)
        BY <2>3 DEF MapInv
      <3>2. idx(v, LEVELS - 1) \in Index
        BY LeafIndex
      <3>3. ASSUME NEW t \in Used, H[t] = Leaf(p, v) PROVE tab'[t][idx(v, LEVELS - 1)] = tab[t][idx(v, LEVELS - 1)]
        <4>1. H[t].depth = LEVELS - 1
          BY <3>3, LeafParts
        <4>2. t # at
          BY <1>6, <4>1, CursorFacts, Bounds
        <4>. QED BY <1>5, <3>2, <4>2
      <3>4. x = Leaf(p, v) => Wanted(p, v, tab'[u][idx(v, LEVELS - 1)])
        <4>1. tab'[u][idx(v, LEVELS - 1)] = Invalid
          BY <1>5, <3>2, Descriptors
        <4>. QED BY <1>7, <3>1, <4>1
      <3>. QED BY <1>3, <1>4, <3>1, <3>3, <3>4
    <2>. QED BY <2>1, <2>2, <2>3 DEF MapInv
  <1>. QED BY <1>9, <1>11, <1>12, <1>13

(* One entry is stored.                                                    *)
Stored(t, i, d) == Stores(tab, t, i, d, tab')

(* The entry leads to no table and will not, and no other entry changes.   *)
Fills(H, t, i, d) ==
  /\ tab[t][i] = Invalid \/ H[t].depth = LEVELS - 1
  /\ d = Invalid \/ (d.kind = "page" /\ H[t].depth = LEVELS - 1)
Changed(t, i, d) ==
  tab'[t][i] = d /\ \A u \in Used, j \in Index : ~(u = t /\ j = i) => tab'[u][j] = tab[u][j]

(* An entry that leads to no table gets a page or becomes invalid: the     *)
(* trees are as they were.                                                 *)
LEMMA StoreTree ==
  ASSUME NEW H \in Homes, TableType, TreeInv(H),
         NEW t \in Used, NEW i \in Index, NEW d \in Desc,
         Fills(H, t, i, d), Stored(t, i, d), free' = free, mmap' = mmap, call' = call
  PROVE  TableType' /\ TreeInv(H)' /\ Changed(t, i, d)
  <1>0. t \in Pages /\ Used' = Used /\ \A u \in Used : u \in Pages
    BY DEF Used
  <1>1. /\ tab' \in [Pages -> [Index -> Desc]] /\ tab'[t][i] = d
        /\ \A u \in Pages, j \in Index : ~(u = t /\ j = i) => tab'[u][j] = tab[u][j]
    <2>1. PICK m \in Tables : m = tab
      BY DEF TableType, Tables
    <2>0. PICK n : n = tab'
      OBVIOUS
    <2>2. Stores(m, t, i, d, n)
      BY <2>0, <2>1 DEF Stored
    <2>3. /\ n \in Tables /\ n[t][i] = d
          /\ \A u \in Pages, j \in Index : ~(u = t /\ j = i) => n[u][j] = m[u][j]
      BY <1>0, <2>2, StoreFacts, SMT
    <2>. QED BY <2>0, <2>1, <2>3 DEF Tables
  <1>2. TableType'
    BY <1>1 DEF TableType, Fits
  <1>3. \A u \in Used, j \in Index : ~(u = t /\ j = i) => tab'[u][j] = tab[u][j]
    BY <1>0, <1>1
  <1>4. Owners' = Owners /\ \A p \in Owners : Root(p)' = Root(p)
    BY DEF Owners, Root
  <1>5. ASSUME NEW u \in Used, NEW j \in Index PROVE Leads(H, u, j)'
    <2>1. Leads(H, u, j)
      BY <1>5 DEF TreeInv
    <2>2. CASE u = t /\ j = i
      BY <1>1, <2>2 DEF Leads, Fills
    <2>3. CASE ~(u = t /\ j = i)
      <3>1. tab'[u][j] = tab[u][j]
        BY <1>3, <2>3
      <3>. QED BY <1>0, <2>1, <3>1 DEF Leads
    <2>. QED BY <2>2, <2>3
  <1>6. ASSUME NEW u \in Used, NEW s \in Used, NEW j \in Index, tab[s][j] = desc_table(u)
        PROVE  tab'[s][j] = desc_table(u)
    <2>1. tab[s][j] # Invalid /\ H[s].depth # LEVELS - 1
      BY <1>0, <1>6, Descriptors, ParentHome
    <2>. QED BY <1>3, <1>6, <2>1 DEF Fills
  <1>7. TreeInv(H)'
    <2>1. \A u \in Used : H[u].of \in Owners' /\ (u = Root(H[u].of) => u = Root(H[u].of)')
      BY <1>4 DEF TreeInv
    <2>2. ASSUME NEW u \in Used
          PROVE  u = Root(H[u].of)' \/ \E s \in Used, j \in Index : tab'[s][j] = desc_table(u)
      <3>1. u = Root(H[u].of) \/ \E s \in Used, j \in Index : tab[s][j] = desc_table(u)
        BY DEF TreeInv
      <3>. QED BY <1>6, <2>1, <3>1
    <2>3. /\ \A u, w \in Used : H[u] = H[w] => u = w
          /\ \A p \in Owners : Root(p)' \in Used /\ H[Root(p)'] = home(p, 0, 0)
      BY <1>4 DEF TreeInv
    <2>. QED BY <1>0, <1>4, <1>5, <2>1, <2>2, <2>3 DEF TreeInv
  <1>. QED BY <1>1, <1>2, <1>3, <1>7 DEF Changed

(* map_page: the page of the address, and of no other, is the one that its *)
(* range gives.                                                            *)
LEMMA MapPageKeeps ==
  ASSUME NEW H \in Homes, TableInv(H), map_page
  PROVE  TableInv(H)'
  <1>. USE DEF TableInv
  <1>0. PICK on \in Slots, w \in VPages, k0 \in 1 .. Len(Todo) : on = call.on /\ w = va /\ k0 = r
    <2>1. Mapping
      BY DEF map_page
    <2>2. call.on \in Slots /\ va \in VPages /\ r \in 1 .. Len(Todo)
      BY <2>1, CursorFacts
    <2>. QED BY <2>2
  <1>. DEFINE i == idx(w, LEVELS - 1)
              x == Todo[k0].pa + (w - Todo[k0].va)
  <1>1. /\ Mapping /\ call.op = "map" /\ level = LEVELS - 1
        /\ tab' = [tab EXCEPT ![at][i] = desc_page(x, Todo[k0].attrs)]
        /\ va' = w + PAGE_SIZE /\ at' = call.root /\ level' = 0
        /\ UNCHANGED <<free, mmap, halted, call, r, stack>>
    BY <1>0 DEF map_page, Mapping
  <1>2. /\ i \in Index /\ at \in Used /\ H[at] = home(on, LEVELS - 1, Num(w, LEVELS - 1))
        /\ H[at].depth = LEVELS - 1
    BY <1>0, <1>1, CursorFacts
  <1>3. PICK d \in Desc : d = desc_page(x, Todo[k0].attrs)
    <2>1. /\ Todo[k0].pa \in Nat /\ Todo[k0].va \in Nat /\ w \in Nat /\ Todo[k0].va <= w
          /\ Todo[k0].attrs \in {"proc", "kern", "dev"}
      BY <1>0, <1>1, CursorFacts DEF RangeType
    <2>2. x \in Nat
      BY <2>1, SMT
    <2>. HIDE DEF x
    <2>. QED BY <2>1, <2>2, PageDesc
  <1>4. d.kind = "page"
    BY <1>3 DEF desc_page
  <1>. HIDE DEF i, x
  <1>5. /\ TableType' /\ TreeInv(H)' /\ tab'[at][i] = d
        /\ \A u \in Used, j \in Index : ~(u = at /\ j = i) => tab'[u][j] = tab[u][j]
    <2>1. tab' = [tab EXCEPT ![at][i] = d] /\ free' = free /\ mmap' = mmap /\ call' = call
      BY <1>1, <1>3
    <2>2. PICK t \in Used, j \in Index : t = at /\ j = i
      BY <1>2
    <2>3. Stored(t, j, d) /\ H[t].depth = LEVELS - 1 /\ free' = free /\ mmap' = mmap /\ call' = call
      BY <1>2, <2>1, <2>2 DEF Stored, Stores
    <2>4. TableType' /\ TreeInv(H)' /\ Changed(t, j, d)
      <3>1. Fills(H, t, j, d)
        BY <1>4, <2>3 DEF Fills
      <3>2. TableType /\ TreeInv(H)
        OBVIOUS
      <3>. HIDE DEF TableInv
      <3>. QED BY <2>3, <3>1, <3>2, StoreTree
    <2>. QED BY <2>2, <2>4 DEF Changed
  <1>6. Todo' = Todo /\ Used' = Used
    BY <1>1 DEF Todo, Used
  <1>7. CursorInv(H)' /\ StackInv(H)'
    <2>1. /\ Todo[k0].va \in Nat /\ w \in Nat /\ w % PAGE_SIZE = 0 /\ Todo[k0].va <= w
          /\ on \in Owners /\ PAGE_SIZE \in Nat /\ 0 \in 0 .. LEVELS - 1
      BY <1>0, <1>1, CursorFacts, Bounds
    <2>2. (w + PAGE_SIZE) \in Nat /\ (w + PAGE_SIZE) % PAGE_SIZE = 0 /\ Todo[k0].va <= w + PAGE_SIZE
      <3>1. (w + PAGE_SIZE) % PAGE_SIZE = 0
        BY <2>1, PageGap
      <3>. QED BY <2>1, <3>1, Bounds
    <2>3. call.root \in Used /\ H[call.root] = home(on, 0, 0)
      <3>1. Root(on) = call.root
        BY <1>0, <1>1 DEF Root
      <3>. QED BY <2>1, <3>1 DEF TreeInv
    <2>4. Num(va', level') = 0
      BY <1>1 DEF Num
    <2>. QED BY <1>0, <1>1, <1>6, <2>1, <2>2, <2>3, <2>4 DEF CursorInv, StackInv
  <1>8. MapInv(H)'
    <2>1. \A p \in Slots : /\ RangesOf(p)' = RangesOf(p) /\ (Building(p)' <=> Building(p))
                           /\ (p \in Whole)' <=> p \in Whole
      BY <1>1 DEF RangesOf, Building, Whole
    <2>2. Building(on) /\ RangesOf(on) = Todo /\ DOMAIN Todo = 1 .. Len(Todo) /\ Len(Todo) \in Nat
      BY <1>0, <1>1, TodoFacts
    <2>3. \A p \in Slots : Building(p) => p = on
      BY <1>0 DEF Building
    <2>4. ASSUME NEW p \in Slots, p # on, NEW v \in VPages, NEW e, Wanted(p, v, e)
          PROVE  Wanted(p, v, e)'
      <3>1. \A k \in DOMAIN RangesOf(p) : Covered(p, k, v)' <=> Covered(p, k, v)
        BY <2>1, <2>3, <2>4 DEF Covered
      <3>. QED BY <2>1, <2>4, <3>1, WantedSame
    <2>5. \A v \in VPages, k \in DOMAIN Todo :
             /\ Covered(on, k, v) <=> /\ Todo[k].va <= v /\ v < Todo[k].end
                                      /\ k < k0 \/ (k = k0 /\ v < w)
             /\ Covered(on, k, v)' <=> /\ Todo[k].va <= v /\ v < Todo[k].end
                                       /\ k < k0 \/ (k = k0 /\ v < w + PAGE_SIZE)
      BY <1>0, <1>1, <1>6, <2>1, <2>2, SMT DEF Covered
    <2>6. ASSUME NEW v \in VPages, v # w, NEW e, Wanted(on, v, e)
          PROVE  Wanted(on, v, e)'
      <3>1. v \in Nat /\ w \in Nat /\ v % PAGE_SIZE = 0 /\ w % PAGE_SIZE = 0 /\ PAGE_SIZE \in Nat
        BY Bounds
      <3>2. v < w + PAGE_SIZE <=> v < w
        BY <2>6, <3>1, PageGap, SMT
      <3>3. \A k \in DOMAIN Todo : Covered(on, k, v)' <=> Covered(on, k, v)
        BY <2>5, <3>2
      <3>. QED BY <2>1, <2>2, <2>6, <3>3, WantedSame
    <2>7. Wanted(on, w, d)'
      <3>1. /\ w \in Nat /\ PAGE_SIZE \in Nat \ {0} /\ Todo[k0].va <= w /\ w < Todo[k0].end
            /\ k0 \in DOMAIN Todo
        BY <1>0, <1>1, <2>2, CursorFacts, TreeAssumption
      <3>2. Covered(on, k0, w)' /\ \A k \in DOMAIN Todo : k > k0 => ~Covered(on, k, w)'
        <4>1. w < w + PAGE_SIZE /\ w \in VPages
          BY Bounds
        <4>2. \A k \in DOMAIN Todo : k > k0 => ~(k < k0) /\ k # k0
          BY <2>2, <3>1, Orders
        <4>. QED BY <2>5, <3>1, <4>1, <4>2
      <3>3. PageIn(on, k0, w)' = d
        BY <1>3, <1>6, <2>1, <2>2 DEF PageIn, x
      <3>4. \A k \in DOMAIN Todo : k = k0 \/ k > k0 \/ k0 > k
        BY <2>2, <3>1, Orders
      <3>5. RangesOf(on)' = Todo
        BY <2>1, <2>2
      <3>. QED BY <3>1, <3>2, <3>3, <3>4, <3>5 DEF Wanted
    <2>8. ASSUME NEW t \in Used, NEW p \in Slots, NEW v \in VPages, H[t] = Leaf(p, v),
                 ~(p = on /\ v = w)
          PROVE  tab'[t][idx(v, LEVELS - 1)] = tab[t][idx(v, LEVELS - 1)]
      <3>1. idx(v, LEVELS - 1) \in Index /\ Num(v, LEVELS) = Below(Num(v, LEVELS - 1), idx(v, LEVELS - 1))
        BY LeafIndex
      <3>2. i \in Index /\ Num(w, LEVELS) = Below(Num(w, LEVELS - 1), i)
        BY LeafIndex DEF i
      <3>3. CASE t = at /\ idx(v, LEVELS - 1) = i
        <4>1. p = on /\ Num(v, LEVELS - 1) = Num(w, LEVELS - 1)
          <5>1. H[at].of = on /\ H[at].num = Num(w, LEVELS - 1)
            BY <1>2, LeafParts DEF Leaf
          <5>2. H[t].of = p /\ H[t].num = Num(v, LEVELS - 1)
            BY <2>8, LeafParts
          <5>. QED BY <3>3, <5>1, <5>2
        <4>2. v = w
          BY <3>1, <3>2, <3>3, <4>1, PageOne
        <4>. QED BY <2>8, <4>1, <4>2
      <3>4. CASE ~(t = at /\ idx(v, LEVELS - 1) = i)
        BY <1>5, <3>1, <3>4
      <3>. QED BY <3>3, <3>4
    <2>9. H[at] = Leaf(on, w) /\ \A t \in Used : H[t] = Leaf(on, w) => t = at
      BY <1>2 DEF Leaf, TreeInv
    <2>10. ASSUME NEW p \in Slots, p \in Whole \/ Building(p), NEW v \in VPages
           PROVE  /\ \A t \in Used : H[t] = Leaf(p, v) => Wanted(p, v, tab[t][idx(v, LEVELS - 1)])'
                  /\ (\A t \in Used : H[t] # Leaf(p, v)) => Wanted(p, v, Invalid)'
      <3>1. /\ \A t \in Used : H[t] = Leaf(p, v) => Wanted(p, v, tab[t][idx(v, LEVELS - 1)])
            /\ (\A t \in Used : H[t] # Leaf(p, v)) => Wanted(p, v, Invalid)
        BY <2>10 DEF MapInv
      <3>2. CASE p = on /\ v = w
        BY <1>2, <1>5, <2>7, <2>9, <3>2 DEF i
      <3>3. CASE ~(p = on /\ v = w)
        BY <2>4, <2>6, <2>8, <3>1, <3>3
      <3>. QED BY <3>2, <3>3
    <2>. QED BY <1>6, <2>1, <2>10 DEF MapInv
  <1>. QED BY <1>5, <1>7, <1>8

(* pt_root_new with the page root.                                         *)
Created(p, img, root) ==
  /\ tab' = [tab EXCEPT ![root] = Zeroed] /\ free' = free \ {root}
  /\ call' = [op |-> "map", on |-> p, image |-> img, root |-> root]
  /\ r' = 1 /\ va' = Ranges(p, img)[1].va
  /\ at' = root /\ level' = 0
  /\ mmap' = mmap /\ stack' = stack

(* The slot has no tables, so the new root is all there is.                *)
LEMMA CreateKeeps ==
  ASSUME NEW H \in Homes, TableInv(H), NEW p \in Slots, NEW img \in Nat \X Nat, Fits(p, img),
         call = NoCall, mmap[p] = Unmapped, NEW root \in free, Created(p, img, root)
  PROVE  \E G \in Homes : TableInv(G)'
  <1>. USE DEF TableInv
  <1>0. /\ tab' = [tab EXCEPT ![root] = Zeroed] /\ free' = free \ {root}
        /\ call' = [op |-> "map", on |-> p, image |-> img, root |-> root]
        /\ r' = 1 /\ va' = Ranges(p, img)[1].va
        /\ at' = root /\ level' = 0
        /\ mmap' = mmap /\ stack' = stack
    BY DEF Created
  <1>1. /\ root \in Pages /\ root \in Nat /\ root \notin Used /\ Used' = Used \cup {root}
        /\ \A t \in Used : t \in Pages /\ t # root
    <2>0. TableType
      OBVIOUS
    <2>1. free \subseteq Pages
      BY <2>0 DEF TableType
    <2>2. Pages \subseteq Nat
      BY TreeAssumption
    <2>. QED BY <1>0, <2>1, <2>2 DEF Used
  <1>2. /\ call.op = "none" /\ call'.op = "map" /\ call'.on = p /\ call'.root = root /\ call'.image = img
    BY <1>0 DEF NoCall
  <1>3. PICK x \in Home : x = home(p, 0, 0)
    <2>1. 0 \in 0 .. LEVELS - 1 /\ 0 \in Nat
      BY Bounds
    <2>2. home(p, 0, 0) \in Home
      BY <2>1 DEF home, Home
    <2>. QED BY <2>2
  <1>4. x.of = p /\ x.depth = 0
    BY <1>3 DEF home
  <1>5. PICK G \in Homes : G = [H EXCEPT ![root] = x]
    <2>1. [H EXCEPT ![root] = x] \in Homes
      BY <1>1 DEF Homes
    <2>. QED BY <2>1
  <1>6. G[root] = x /\ \A t \in Used : G[t] = H[t]
    BY <1>1, <1>5 DEF Homes
  <1>7. /\ tab' \in [Pages -> [Index -> Desc]] /\ tab'[root] = Zeroed
        /\ \A t \in Used : tab'[t] = tab[t]
    BY <1>0, <1>1, Descriptors DEF TableType
  <1>8. /\ p \notin Owners /\ Owners' = Owners \cup {p} /\ Root(p)' = root
        /\ \A q \in Owners : q # p /\ Root(q)' = Root(q)
    BY <1>0, <1>2 DEF Owners, Root
  <1>9. TableType'
    BY <1>0, <1>1, <1>2, <1>7 DEF TableType, Fits
  <1>10. TreeInv(G)'
    <2>1. \A t \in Used' : G[t].of \in Owners'
      BY <1>1, <1>4, <1>6, <1>8 DEF TreeInv
    <2>2. \A s, t \in Used' : G[s] = G[t] => s = t
      <3>1. \A s, t \in Used : H[s] = H[t] => s = t
        BY DEF TreeInv
      <3>2. \A s \in Used : H[s] # x
        <4>1. \A s \in Used : H[s].of \in Owners
          BY DEF TreeInv
        <4>. QED BY <1>4, <1>8, <4>1
      <3>3. \A s \in Used' : s = root \/ (s \in Used /\ G[s] = H[s])
        BY <1>1, <1>6
      <3>. SUFFICES ASSUME NEW s \in Used', NEW t \in Used', G[s] = G[t] PROVE s = t
        OBVIOUS
      <3>4. CASE s = root
        BY <1>6, <3>2, <3>3, <3>4
      <3>5. CASE s \in Used /\ G[s] = H[s]
        <4>1. t # root
          BY <1>6, <3>2, <3>5
        <4>2. t \in Used /\ G[t] = H[t]
          BY <3>3, <4>1
        <4>. QED BY <3>1, <3>5, <4>2
      <3>. QED BY <3>3, <3>4, <3>5
    <2>3. \A q \in Owners' : Root(q)' \in Used' /\ G[Root(q)'] = home(q, 0, 0)
      BY <1>1, <1>3, <1>6, <1>8 DEF TreeInv
    <2>4. ASSUME NEW t \in Used', NEW j \in Index PROVE Leads(G, t, j)'
      <3>1. CASE t = root
        BY <1>7, <3>1, Descriptors DEF Leads
      <3>2. CASE t \in Used
        <4>1. Leads(H, t, j) /\ tab'[t] = tab[t] /\ G[t] = H[t]
          BY <1>6, <1>7, <3>2 DEF TreeInv
        <4>. QED BY <1>1, <1>6, <4>1 DEF Leads
      <3>. QED BY <1>1, <3>1, <3>2
    <2>5. ASSUME NEW w \in Used'
          PROVE  w = Root(G[w].of)' \/ \E t \in Used', j \in Index : tab'[t][j] = desc_table(w)
      <3>1. CASE w = root
        BY <1>4, <1>6, <1>8, <3>1
      <3>2. CASE w \in Used /\ w = Root(H[w].of)
        <4>1. H[w].of \in Owners
          BY <3>2 DEF TreeInv
        <4>2. Root(H[w].of)' = Root(H[w].of)
          BY <1>8, <4>1
        <4>. QED BY <1>6, <3>2, <4>2
      <3>3. CASE w \in Used /\ w # Root(H[w].of)
        <4>1. PICK t \in Used, j \in Index : tab[t][j] = desc_table(w)
          BY <3>3 DEF TreeInv
        <4>. QED BY <1>1, <1>7, <4>1
      <3>. QED BY <1>1, <3>1, <3>2, <3>3
    <2>. QED BY <2>1, <2>2, <2>3, <2>4, <2>5 DEF TreeInv
  <1>11. Todo' = Ranges(p, img)
    BY <1>2 DEF Todo
  <1>12. PICK R \in Seq(RangeType) : /\ R = Ranges(p, img) /\ Len(R) \in Nat \ {0}
                                     /\ R[1].va \in Nat /\ R[1].va % PAGE_SIZE = 0
    <2>1. /\ Ranges(p, img) \in Seq(RangeType) /\ Len(Ranges(p, img)) \in Nat \ {0}
          /\ \A k \in 1 .. Len(Ranges(p, img)) : Ranges(p, img)[k].va % PAGE_SIZE = 0
      BY RangesFit
    <2>2. PICK R \in Seq(RangeType) : R = Ranges(p, img)
      BY <2>1
    <2>3. 1 \in 1 .. Len(R) /\ Len(R) \in Nat \ {0}
      BY <2>1, <2>2, First
    <2>4. R[1] \in RangeType /\ R[1].va % PAGE_SIZE = 0
      BY <2>1, <2>2, <2>3, First
    <2>5. R[1].va \in Nat
      BY <2>4 DEF RangeType
    <2>. QED BY <2>2, <2>3, <2>4, <2>5
  <1>13. CursorInv(G)' /\ StackInv(G)'
    <2>1. Num(va', level') = 0 /\ 0 \in 0 .. LEVELS - 1 /\ 1 \in 1 .. Len(R) /\ R[1].va <= R[1].va
      <3>1. Num(va', level') = 0
        BY <1>0 DEF Num
      <3>. QED BY <1>12, <3>1, Bounds, First
    <2>. QED BY <1>0, <1>1, <1>2, <1>3, <1>6, <1>11, <1>12, <2>1 DEF CursorInv, StackInv
  <1>14. MapInv(G)'
    <2>1. ASSUME NEW q \in Slots, q # p
          PROVE  /\ ~Building(q) /\ ~Building(q)' /\ RangesOf(q)' = RangesOf(q)
                 /\ (q \in Whole)' <=> q \in Whole
      <3>1. ~Building(q) /\ ~Building(q)'
        BY <1>2, <2>1 DEF Building
      <3>2. RangesOf(q)' = RangesOf(q)
        BY <1>0, <3>1 DEF RangesOf
      <3>3. (q \in Whole)' <=> q \in Whole
        BY <1>0, <1>2 DEF Whole
      <3>. QED BY <3>1, <3>2, <3>3
    <2>2. ASSUME NEW q \in Slots, q # p, NEW v \in VPages, NEW d, Wanted(q, v, d)
          PROVE  Wanted(q, v, d)'
      <3>1. \A k \in DOMAIN RangesOf(q) : Covered(q, k, v)' <=> Covered(q, k, v)
        BY <2>1, <2>2 DEF Covered
      <3>. QED BY <2>1, <2>2, <3>1, WantedSame
    <2>3. ASSUME NEW q \in Slots, q # p, q \in Whole, NEW v \in VPages
          PROVE  /\ \A t \in Used' : G[t] = Leaf(q, v) => Wanted(q, v, tab[t][idx(v, LEVELS - 1)])'
                 /\ (\A t \in Used' : G[t] # Leaf(q, v)) => Wanted(q, v, Invalid)'
      <3>1. /\ \A t \in Used : H[t] = Leaf(q, v) => Wanted(q, v, tab[t][idx(v, LEVELS - 1)])
            /\ (\A t \in Used : H[t] # Leaf(q, v)) => Wanted(q, v, Invalid)
        BY <2>3 DEF MapInv
      <3>2. x # Leaf(q, v)
        <4>1. x = Leaf(q, v) => x.of = q
          BY LeafParts
        <4>. QED BY <1>4, <2>3, <4>1
      <3>. QED BY <1>1, <1>6, <1>7, <2>2, <2>3, <3>1, <3>2
    <2>4. Building(p)' /\ RangesOf(p)' = R
      BY <1>2, <1>12 DEF Building, RangesOf
    <2>5. ASSUME NEW v \in VPages PROVE Wanted(p, v, Invalid)'
      <3>1. v \in Nat
        BY Bounds
      <3>2. \A k \in DOMAIN R : ~Covered(p, k, v)'
        <4>1. DOMAIN R = 1 .. Len(R)
          BY <1>12, First
        <4>2. \A k \in DOMAIN R : Covered(p, k, v)' => /\ R[k].va <= v
                                                       /\ k < 1 \/ (k = 1 /\ v < R[1].va)
          BY <1>0, <1>12, <2>4 DEF Covered
        <4>3. \A k \in DOMAIN R : ~(k < 1)
          BY <1>12, <4>1, First
        <4>4. R[1].va <= v => ~(v < R[1].va)
          BY <1>12, <3>1, Bounds
        <4>. QED BY <4>2, <4>3, <4>4
      <3>. QED BY <2>4, <3>2 DEF Wanted
    <2>6. ASSUME NEW v \in VPages, NEW t \in Used', G[t] = Leaf(p, v)
          PROVE  tab'[t][idx(v, LEVELS - 1)] = Invalid
      <3>1. G[t].of = p
        BY <2>6, LeafParts
      <3>2. t = root
        BY <1>1, <1>6, <1>8, <3>1 DEF TreeInv
      <3>. QED BY <1>7, <3>2, LeafIndex, Descriptors
    <2>. QED BY <2>1, <2>3, <2>5, <2>6 DEF MapInv
  <1>. QED BY <1>9, <1>10, <1>13, <1>14

(* The activation on top goes on to its next entry.                        *)
Activation == [table : Pages, i : 0 .. FAN]
OnNext(s, n, z) == z = [s EXCEPT ![n].i = @ + 1]
Running(s, n) == n = Len(s) /\ s[n].i < FAN
Moved(s, n, z) ==
  /\ z \in Seq(Activation) /\ Len(z) = n /\ \A k \in 1 .. n : z[k].table = s[k].table
  /\ z[n].i = s[n].i + 1 /\ \A k \in 1 .. n - 1 : z[k] = s[k]

(* An activation that has an entry left can go on, and no other moves.     *)
LEMMA NextEntry ==
  ASSUME NEW s \in Seq(Activation), NEW n \in Nat \ {0}, Running(s, n), NEW z, OnNext(s, n, z)
  PROVE  Moved(s, n, z)
  <1>. USE DEF Running, Moved
  <1>0. FAN \in Nat /\ n \in 1 .. n
    BY Bounds, Places
  <1>1. s[n] \in Activation
    BY <1>0, SMT
  <1>. DEFINE a == [s[n] EXCEPT !.i = @ + 1]
  <1>3. a \in Activation /\ a.table = s[n].table /\ a.i = s[n].i + 1
    BY <1>0, <1>1, SMT DEF Activation
  <1>4. z = [s EXCEPT ![n] = a]
    BY DEF OnNext
  <1>. HIDE DEF a
  <1>5. z \in Seq(Activation) /\ Len(z) = n /\ z[n] = a /\ \A k \in 1 .. n : k # n => z[k] = s[k]
    BY <1>0, <1>3, <1>4, SMT
  <1>. QED BY <1>3, <1>5, SMT

(* While a map is freed, what is left of the other maps is not touched.    *)
LEMMA OthersKeep ==
  ASSUME NEW H \in Homes, MapInv(H), call.op = "free", call.on \in Slots,
         call'.op # "map", NEW f \in Slots, f = call.on,
         \A q \in Slots : q # f => mmap'[q] = mmap[q],
         call'.op = "free" => call'.on = f,
         call'.op # "free" => mmap'[f] = Unmapped,
         \A t \in Used : H[t].of # f => t \in Used' /\ tab'[t] = tab[t],
         \A t \in Used' : t \in Used
  PROVE  MapInv(H)'
  <1>1. ASSUME NEW q \in Slots, (q \in Whole)'
        PROVE  /\ q # f /\ q \in Whole /\ ~Building(q) /\ ~Building(q)' /\ RangesOf(q)' = RangesOf(q)
    <2>1. q # f
      BY <1>1 DEF Whole
    <2>2. q \in Whole
      BY <1>1, <2>1 DEF Whole
    <2>3. ~Building(q) /\ ~Building(q)'
      BY DEF Building
    <2>. QED BY <2>1, <2>2, <2>3 DEF RangesOf
  <1>2. ASSUME NEW q \in Slots, (q \in Whole)', NEW v \in VPages, NEW d, Wanted(q, v, d)
        PROVE  Wanted(q, v, d)'
    <2>1. \A k \in DOMAIN RangesOf(q) : Covered(q, k, v)' <=> Covered(q, k, v)
      BY <1>1, <1>2 DEF Covered
    <2>. QED BY <1>1, <1>2, <2>1, WantedSame
  <1>3. ASSUME NEW q \in Slots, (q \in Whole)', NEW v \in VPages
        PROVE  /\ \A t \in Used' : H[t] = Leaf(q, v) => Wanted(q, v, tab[t][idx(v, LEVELS - 1)])'
               /\ (\A t \in Used' : H[t] # Leaf(q, v)) => Wanted(q, v, Invalid)'
    <2>1. /\ \A t \in Used : H[t] = Leaf(q, v) => Wanted(q, v, tab[t][idx(v, LEVELS - 1)])
          /\ (\A t \in Used : H[t] # Leaf(q, v)) => Wanted(q, v, Invalid)
      BY <1>1, <1>3 DEF MapInv
    <2>2. \A t : H[t] = Leaf(q, v) => H[t].of # f
      BY <1>1, <1>3, SMT DEF Leaf, home
    <2>. QED BY <1>2, <1>3, <2>1, <2>2
  <1>4. \A q \in Slots : ~Building(q)'
    BY DEF Building
  <1>. QED BY <1>3, <1>4 DEF MapInv

(* The activations in s, on the way down from the root.                    *)
Path(H, s, n) ==
  /\ s \in Seq(Activation) /\ Len(s) = n /\ s[1].table = call.root
  /\ \A k \in 1 .. n :
       /\ s[k].table \in Used
       /\ H[s[k].table].of = call.on /\ H[s[k].table].depth = k - 1
       /\ \A j \in Index : j < s[k].i => tab[s[k].table][j] = Invalid
  /\ \A k \in 1 .. n - 1 :
       /\ s[k].i \in Index
       /\ tab[s[k].table][s[k].i] = desc_table(s[k + 1].table)

(* The entry that the last of them is at is cleared, and it goes on.       *)
LEMMA PathKeeps ==
  ASSUME NEW H \in Homes, NEW s, NEW n \in Nat \ {0}, Path(H, s, n),
         NEW z, OnNext(s, n, z),
         s[n].i \in Index, tab'[s[n].table][s[n].i] = Invalid, call' = call,
         \A j \in Index : j # s[n].i => tab'[s[n].table][j] = tab[s[n].table][j],
         \A k \in 1 .. n - 1 : tab'[s[k].table] = tab[s[k].table],
         \A k \in 1 .. n : s[k].table \in Used'
  PROVE  Path(H, z, n)'
  <1>0. PICK i \in Index : i = s[n].i
    OBVIOUS
  <1>. DEFINE t == s[n].table
  <1>1. i < FAN /\ i \in Nat
    BY Entries
  <1>2. /\ z \in Seq(Activation) /\ Len(z) = n /\ \A k \in 1 .. n : z[k].table = s[k].table
        /\ z[n].i = i + 1 /\ \A k \in 1 .. n - 1 : z[k] = s[k]
    <2>1. s \in Seq(Activation) /\ Running(s, n)
      BY <1>0, <1>1 DEF Path, Running
    <2>2. Moved(s, n, z)
      BY <2>1, NextEntry
    <2>. QED BY <1>0, <2>2 DEF Moved
  <1>3. \A k \in 1 .. n - 1 : k \in 1 .. n /\ k + 1 \in 1 .. n
    BY Places
  <1>4. ASSUME NEW k \in 1 .. n
        PROVE  /\ z[k].table \in Used'
               /\ H[z[k].table].of = call'.on /\ H[z[k].table].depth = k - 1
    BY <1>2 DEF Path
  <1>5. ASSUME NEW k \in 1 .. n, NEW j \in Index, j < z[k].i
        PROVE  tab'[z[k].table][j] = Invalid
    <2>1. CASE k = n
      <3>1. j < i \/ j = i
        BY <1>2, <1>5, <2>1, Entries
      <3>2. tab'[t][j] = Invalid
        <4>1. n \in 1 .. n
          BY Places
        <4>2. j < i => tab[t][j] = Invalid
          BY <1>0, <4>1 DEF Path
        <4>3. j < i => j # i
          BY Entries
        <4>4. ASSUME j < i PROVE tab'[t][j] = Invalid
          BY <1>0, <4>2, <4>3, <4>4
        <4>5. ASSUME j = i PROVE tab'[t][j] = Invalid
          BY <1>0, <4>5
        <4>. QED BY <3>1, <4>4, <4>5
      <3>. QED BY <1>0, <1>2, <2>1, <3>2
    <2>2. CASE k \in 1 .. n - 1
      <3>1. z[k] = s[k] /\ tab'[z[k].table] = tab[s[k].table]
        BY <1>2, <2>2
      <3>2. tab[s[k].table][j] = Invalid
        BY <1>5, <3>1 DEF Path
      <3>. QED BY <3>1, <3>2
    <2>. QED BY <2>1, <2>2, Places
  <1>6. ASSUME NEW k \in 1 .. n - 1
        PROVE  /\ z[k].i \in Index
               /\ tab'[z[k].table][z[k].i] = desc_table(z[k + 1].table)
    <2>1. z[k] = s[k] /\ tab'[z[k].table] = tab[s[k].table] /\ z[k + 1].table = s[k + 1].table
      BY <1>2, <1>3
    <2>. QED BY <2>1 DEF Path
  <1>7. z[1].table = call'.root
    <2>1. z[1].table = s[1].table /\ s[1].table = call.root
      BY <1>2, Places DEF Path
    <2>. QED BY <2>1
  <1>. QED BY <1>2, <1>4, <1>5, <1>6, <1>7 DEF Path

(* free_table_level's activations are such a path.                         *)
LEMMA StackPath ==
  ASSUME NEW H \in Homes, call.op = "free"
  PROVE  StackInv(H) <=> Path(H, stack, Len(stack)) /\ Len(stack) \in 1 .. LEVELS
  BY DEF StackInv, Path, Activation

(* And after a step, when they still are.                                  *)
LEMMA PathStack ==
  ASSUME NEW H \in Homes, Path(H, stack, Len(stack))', Len(stack') \in 1 .. LEVELS
  PROVE  StackInv(H)'
  <1>1. /\ stack' \in Seq([table : Pages, i : 0 .. FAN]) /\ stack'[1].table = call'.root
        /\ \A k \in 1 .. Len(stack') :
             /\ stack'[k].table \in Used'
             /\ H[stack'[k].table].of = call'.on /\ H[stack'[k].table].depth = k - 1
             /\ \A j \in Index : j < stack'[k].i => tab'[stack'[k].table][j] = Invalid
    BY DEF Path, Activation
  <1>2. \A k \in 1 .. Len(stack') - 1 :
             /\ stack'[k].i \in Index
             /\ tab'[stack'[k].table][stack'[k].i] = desc_table(stack'[k + 1].table)
    BY DEF Path
  <1>. QED BY <1>1, <1>2 DEF StackInv

(* scrub_entry: there is no table below the entry.                         *)
LEMMA ScrubKeeps ==
  ASSUME NEW H \in Homes, TableInv(H), scrub_entry
  PROVE  TableInv(H)'
  <1>. USE DEF TableInv
  <1>1. /\ call.op = "free" /\ top.i < FAN
        /\ ~(entry.kind = "table" /\ Len(stack) < LEVELS)
        /\ tab' = [tab EXCEPT ![top.table][top.i] = Invalid]
        /\ stack' = [stack EXCEPT ![Len(stack)].i = @ + 1]
        /\ free' = free /\ mmap' = mmap /\ call' = call
    BY DEF scrub_entry, Freeing
  <1>2. PICK t \in Used, i \in Index, n \in Nat \ {0} :
          /\ t = top.table /\ i = top.i /\ n = Len(stack) /\ n \in 1 .. LEVELS
          /\ H[t].depth = n - 1 /\ H[t].of = call.on /\ Leads(H, t, i)
          /\ \A j \in Index : j < i => tab[t][j] = Invalid
    <2>1. Len(stack) \in Nat \ {0}
      BY <1>1, TopFacts, Depths
    <2>. QED BY <1>1, <2>1, TopFacts
  <1>3. tab[t][i] = Invalid \/ H[t].depth = LEVELS - 1
    <2>. SUFFICES ASSUME H[t].depth # LEVELS - 1 PROVE tab[t][i] = Invalid
      OBVIOUS
    <2>1. n < LEVELS
      BY <1>2, Depths
    <2>2. entry.kind # "table" /\ entry = tab[t][i]
      BY <1>1, <1>2, <2>1 DEF entry
    <2>3. \A u : desc_table(u).kind = "table"
      BY DEF desc_table
    <2>. QED BY <1>2, <2>2, <2>3 DEF Leads
  <1>4. Stored(t, i, Invalid) /\ Invalid \in Desc
    BY <1>1, <1>2, Descriptors DEF Stored, Stores
  <1>5. /\ TableType' /\ TreeInv(H)' /\ tab'[t][i] = Invalid
        /\ \A u \in Used, j \in Index : ~(u = t /\ j = i) => tab'[u][j] = tab[u][j]
    <2>1. Fills(H, t, i, Invalid)
      BY <1>3 DEF Fills
    <2>2. TableType' /\ TreeInv(H)' /\ Changed(t, i, Invalid)
      BY <1>1, <1>4, <2>1, StoreTree
    <2>. QED BY <2>2 DEF Changed
  <1>6. CursorInv(H)'
    BY <1>1 DEF CursorInv
  <1>7. Used' = Used /\ tab' \in [Pages -> [Index -> Desc]] /\ tab \in [Pages -> [Index -> Desc]]
    BY <1>1, <1>5 DEF Used, TableType
  <1>8. \A u \in Used : u # t => tab'[u] = tab[u]
    <2>1. Used \subseteq Pages
      BY DEF Used
    <2>. QED BY <1>5, <1>7, <2>1, SMT
  <1>9. MapInv(H)'
    <2>1. call.on \in Slots
      BY DEF TableType
    <2>. QED BY <1>1, <1>2, <1>7, <1>8, <2>1, OthersKeep
  <1>10. StackInv(H)'
    <2>1. Path(H, stack, n) /\ stack[n].table = t /\ stack[n].i = i
      BY <1>1, <1>2, StackPath DEF top
    <2>2. ASSUME NEW k \in 1 .. n
          PROVE  stack[k].table \in Used' /\ (k # n => tab'[stack[k].table] = tab[stack[k].table])
      <3>1. stack[k].table \in Used /\ H[stack[k].table].depth = k - 1
        BY <2>1 DEF Path
      <3>2. k # n => stack[k].table # t
        BY <1>2, <3>1, Places
      <3>. QED BY <1>7, <1>8, <3>1, <3>2
    <2>3. PICK s, z : s = stack /\ z = stack'
      OBVIOUS
    <2>4. Path(H, s, n) /\ OnNext(s, n, z) /\ s[n].table = t /\ s[n].i = i
      BY <1>1, <1>2, <2>1, <2>3 DEF OnNext
    <2>5. \A k \in 1 .. n - 1 : tab'[s[k].table] = tab[s[k].table]
      BY <2>2, <2>3, Places
    <2>6. \A k \in 1 .. n : s[k].table \in Used'
      BY <2>2, <2>3
    <2>7. Path(H, z, n)'
      <3>1. tab'[t][i] = Invalid /\ \A j \in Index : j # i => tab'[t][j] = tab[t][j]
        BY <1>5
      <3>2. call' = call
        BY <1>1
      <3>. QED BY <2>4, <2>5, <2>6, <3>1, <3>2, PathKeeps
    <2>8. Path(H, stack, Len(stack))' /\ Len(stack') \in 1 .. LEVELS
      BY <1>2, <2>3, <2>7 DEF Path
    <2>. QED BY <2>8, PathStack
  <1>. QED BY <1>5, <1>6, <1>9, <1>10

(* leave_table: the table is empty, and the one entry that leads to it is  *)
(* cleared as its page is given back.                                      *)
LEMMA LeaveKeeps ==
  ASSUME NEW H \in Homes, TableInv(H), leave_table
  PROVE  TableInv(H)'
  <1>. USE DEF TableInv
  <1>1. /\ call.op = "free" /\ top.i = FAN /\ Len(stack) > 1
        /\ LET n == Len(stack) - 1
           IN  /\ tab' = [tab EXCEPT ![stack[n].table][stack[n].i] = Invalid]
               /\ stack' = [SubSeq(stack, 1, n) EXCEPT ![n].i = @ + 1]
        /\ free' = free \cup {top.table}
        /\ mmap' = mmap /\ call' = call
    BY DEF leave_table, Freeing
  <1>2. PICK u \in Used, n \in Nat \ {0} :
          /\ u = top.table /\ n = Len(stack) - 1 /\ n + 1 = Len(stack) /\ n + 1 \in 1 .. LEVELS
          /\ H[u].depth = n /\ H[u].of = call.on
          /\ \A j \in Index : tab[u][j] = Invalid
    <2>1. Len(stack) \in Nat /\ Len(stack) \in 1 .. LEVELS /\ top.table \in Used
          /\ H[top.table].depth = Len(stack) - 1 /\ H[top.table].of = call.on
      BY <1>1, TopFacts
    <2>2. \A j \in Index : tab[top.table][j] = Invalid
      BY <1>1, Entries, TopFacts
    <2>3. PICK n \in Nat \ {0} : n = Len(stack) - 1 /\ n + 1 = Len(stack)
      BY <1>1, <2>1, Depths
    <2>. QED BY <2>1, <2>2, <2>3
  <1>0. call.op = "free" /\ call' = call /\ mmap' = mmap
    BY <1>1
  <1>16. stack' = [SubSeq(stack, 1, n) EXCEPT ![n].i = @ + 1]
    BY <1>1, <1>2
  <1>3. Path(H, stack, n + 1)
    BY <1>1, <1>2, StackPath
  <1>4. PICK t \in Used, i \in Index :
          /\ t = stack[n].table /\ i = stack[n].i /\ tab[t][i] = desc_table(u)
          /\ H[t].of = call.on /\ H[t].depth = n - 1
    <2>1. n \in 1 .. n + 1 /\ n \in 1 .. (n + 1) - 1
      BY Places
    <2>2. stack[n + 1].table = u
      BY <1>2 DEF top
    <2>. QED BY <1>3, <2>1, <2>2 DEF Path
  <1>5. /\ Used' = Used \ {u} /\ t # u /\ t \in Used' /\ \A w \in Used : w \in Pages
    <2>1. t # u
      <3>1. n - 1 # n
        BY Depths
      <3>. QED BY <1>2, <1>4, <3>1
    <2>. QED BY <1>1, <1>2, <2>1 DEF Used
  <1>6. /\ tab' \in [Pages -> [Index -> Desc]] /\ tab'[t][i] = Invalid
        /\ \A w \in Pages, j \in Index : ~(w = t /\ j = i) => tab'[w][j] = tab[w][j]
    <2>1. PICK m \in Tables : m = tab
      BY DEF TableType, Tables
    <2>2. PICK z, d : z = tab' /\ d = Invalid
      OBVIOUS
    <2>3. Stores(m, t, i, d, z) /\ d \in Desc /\ t \in Pages
      BY <1>1, <1>2, <1>4, <1>5, <2>1, <2>2, Descriptors DEF Stores
    <2>4. /\ z \in Tables /\ z[t][i] = d
          /\ \A w \in Pages, j \in Index : ~(w = t /\ j = i) => z[w][j] = m[w][j]
      BY <2>3, StoreFacts, SMT
    <2>. QED BY <2>1, <2>2, <2>4 DEF Tables
  <1>7. TableType'
    <2>1. free' \subseteq Pages
      BY <1>1, <1>2, <1>5 DEF TableType
    <2>. QED BY <1>0, <1>6, <2>1 DEF TableType, Fits
  <1>8. H[u] = home(H[t].of, H[t].depth + 1, Below(H[t].num, i))
    BY <1>4, ParentHome
  <1>9. \A s \in Used, j \in Index : ~(s = t /\ j = i) => tab'[s][j] = tab[s][j] /\ tab[s][j] # desc_table(u)
    <2>1. \A s \in Used, j \in Index : tab[s][j] = desc_table(u) => s = t /\ j = i
      BY <1>8, OneParent
    <2>. QED BY <1>5, <1>6, <2>1
  <1>10. Owners' = Owners /\ (\A p \in Owners : Root(p)' = Root(p) /\ Root(p) # u)
    <2>1. Owners' = Owners /\ \A p \in Owners : Root(p)' = Root(p)
      BY <1>1 DEF Owners, Root
    <2>2. \A p : home(p, 0, 0).depth = 0
      BY DEF home
    <2>3. \A p \in Owners : H[Root(p)].depth = 0
      BY <2>2 DEF TreeInv
    <2>4. n # 0
      OBVIOUS
    <2>. QED BY <1>2, <2>1, <2>3, <2>4
  <1>11. TreeInv(H)'
    <2>1. ASSUME NEW s \in Used', NEW j \in Index PROVE Leads(H, s, j)'
      <3>1. s \in Used /\ Leads(H, s, j)
        BY <1>5 DEF TreeInv
      <3>2. CASE s = t /\ j = i
        BY <1>6, <3>2 DEF Leads
      <3>3. CASE ~(s = t /\ j = i)
        <4>1. tab'[s][j] = tab[s][j] /\ tab[s][j] # desc_table(u)
          BY <1>9, <3>1, <3>3
        <4>. QED BY <1>5, <3>1, <4>1 DEF Leads
      <3>. QED BY <3>2, <3>3
    <2>2. ASSUME NEW w \in Used', w # Root(H[w].of)'
          PROVE  \E s \in Used', j \in Index : tab'[s][j] = desc_table(w)
      <3>1. w \in Used /\ w # u /\ w # Root(H[w].of)
        BY <1>5, <1>10, <2>2 DEF TreeInv
      <3>2. PICK s \in Used, j \in Index : tab[s][j] = desc_table(w)
        BY <3>1 DEF TreeInv
      <3>3. s # u /\ ~(s = t /\ j = i)
        <4>1. tab[s][j] # Invalid /\ desc_table(w) # desc_table(u)
          BY <1>5, <3>1, <3>2, Descriptors
        <4>2. s # u
          BY <1>2, <4>1
        <4>. QED BY <1>4, <3>2, <4>1, <4>2
      <3>. QED BY <1>5, <1>9, <3>2, <3>3
    <2>3. \A s \in Used' : H[s].of \in Owners'
      BY <1>5, <1>10 DEF TreeInv
    <2>4. \A s, w \in Used' : H[s] = H[w] => s = w
      BY <1>5 DEF TreeInv
    <2>5. \A p \in Owners' : Root(p)' \in Used' /\ H[Root(p)'] = home(p, 0, 0)
      BY <1>5, <1>10 DEF TreeInv
    <2>. QED BY <2>1, <2>2, <2>3, <2>4, <2>5 DEF TreeInv
  <1>12. CursorInv(H)'
    BY <1>1 DEF CursorInv
  <1>13. \A w \in Used : w # t => tab'[w] = tab[w]
    <2>1. tab \in [Pages -> [Index -> Desc]]
      BY DEF TableType
    <2>. QED BY <1>5, <1>6, <2>1, SMT
  <1>14. MapInv(H)'
    <2>1. PICK f \in Slots : f = call.on
      BY DEF TableType
    <2>2. \A w \in Used : H[w].of # f => w \in Used' /\ tab'[w] = tab[w]
      BY <1>2, <1>4, <1>5, <1>13, <2>1
    <2>3. \A w \in Used' : w \in Used
      BY <1>5
    <2>4. call.on \in Slots /\ call'.op # "map" /\ call'.op = "free" /\ call'.on = f
      BY <1>1, <2>1
    <2>5. \A q \in Slots : q # f => mmap'[q] = mmap[q]
      BY <1>1
    <2>. QED BY <1>0, <2>1, <2>2, <2>3, <2>4, <2>5, OthersKeep
  <1>15. StackInv(H)'
    <2>1. PICK y \in Seq(Activation) : y = stack /\ Len(y) = n + 1
      BY <1>3 DEF Path
    <2>. DEFINE s == SubSeq(y, 1, n)
    <2>3. s \in Seq(Activation) /\ Len(s) = n /\ \A k \in 1 .. n : s[k] = y[k]
      BY <2>1, SMT
    <2>6. PICK z : z = stack'
      OBVIOUS
    <2>7. OnNext(s, n, z)
      BY <1>16, <2>1, <2>6 DEF OnNext
    <2>. HIDE DEF s
    <2>4. \A k \in 1 .. n : k \in 1 .. n + 1 /\ (k \in 1 .. n - 1 => k \in 1 .. (n + 1) - 1 /\ k + 1 \in 1 .. n)
      BY Places
    <2>5. Path(H, s, n)
      <3>1. 1 \in 1 .. n
        BY Places
      <3>2. s[1].table = call.root
        BY <1>3, <2>1, <2>3, <3>1 DEF Path
      <3>3. ASSUME NEW k \in 1 .. n
            PROVE  /\ s[k].table \in Used
                   /\ H[s[k].table].of = call.on /\ H[s[k].table].depth = k - 1
                   /\ \A j \in Index : j < s[k].i => tab[s[k].table][j] = Invalid
        <4>1. k \in 1 .. n + 1 /\ s[k] = stack[k]
          BY <2>1, <2>3, <2>4
        <4>. QED BY <1>3, <4>1 DEF Path
      <3>4. ASSUME NEW k \in 1 .. n - 1
            PROVE  /\ s[k].i \in Index
                   /\ tab[s[k].table][s[k].i] = desc_table(s[k + 1].table)
        <4>1. k \in 1 .. n /\ k + 1 \in 1 .. n /\ k \in 1 .. (n + 1) - 1
          BY Places
        <4>. QED BY <1>3, <2>1, <2>3, <4>1 DEF Path
      <3>. QED BY <2>3, <3>2, <3>3, <3>4 DEF Path
    <2>8. s[n].table = t /\ s[n].i = i
      <3>1. n \in 1 .. n
        BY Places
      <3>. QED BY <1>4, <2>1, <2>3, <3>1
    <2>9. ASSUME NEW k \in 1 .. n
          PROVE  H[s[k].table].depth = k - 1 /\ s[k].table \in Used
      BY <2>5 DEF Path
    <2>10. \A k \in 1 .. n : s[k].table \in Used'
      <3>1. \A k \in 1 .. n : k - 1 # n
        BY Places
      <3>. QED BY <1>2, <1>5, <2>9, <3>1
    <2>11. \A k \in 1 .. n - 1 : tab'[s[k].table] = tab[s[k].table]
      <3>1. \A k \in 1 .. n - 1 : k \in 1 .. n /\ k - 1 # n - 1
        BY Places
      <3>2. \A k \in 1 .. n - 1 : s[k].table \in Used /\ s[k].table # t
        BY <1>4, <2>9, <3>1
      <3>. QED BY <1>13, <3>2
    <2>12. \A j \in Index : j # i => tab'[t][j] = tab[t][j]
      BY <1>9
    <2>13. Path(H, z, n)'
      BY <1>0, <1>6, <2>5, <2>7, <2>8, <2>10, <2>11, <2>12, PathKeeps
    <2>14. Path(H, stack, Len(stack))' /\ Len(stack') \in 1 .. LEVELS
      <3>1. Len(z) = n /\ n \in 1 .. LEVELS
        <4>1. Len(z) = n
          BY <2>13 DEF Path
        <4>. QED BY <1>2, <4>1, Depths
      <3>. QED BY <2>6, <2>13, <3>1
    <2>. QED BY <2>14, PathStack
  <1>. QED BY <1>7, <1>11, <1>12, <1>14, <1>15
=============================================================================
