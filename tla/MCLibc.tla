------------------------------ MODULE MCLibc -------------------------------
(* Formats of one conversion between plain characters, and short blocks of *)
(* memory, for TLC.                                                        *)
EXTENDS Libc

Item(type, arg) ==
  [type |-> type, flags |-> {}, width |-> -1, star |-> FALSE, prec |-> -1, len |-> "l", arg |-> arg]

Laid(items, flags, widths) ==
  {[it EXCEPT !.flags = f, !.width = w[1], !.star = w[2], !.prec = p] :
     it \in items, f \in SUBSET flags, w \in widths, p \in {-1, 0, 3}}

Widths == {<<-1, FALSE>>, <<6, FALSE>>, <<-6, TRUE>>}
Integers_ ==
  {[Item(t, x) EXCEPT !.len = l] : t \in {"d", "u", "o", "x"}, x \in {0, 11, 512, 1020}, l \in {"hh", "l"}}
Numbers ==
  {[kind |-> "finite", neg |-> g, num |-> n[1], scale |-> n[2]] :
     n \in {<<0, 0>>, <<1, 3>>, <<77, 3>>, <<255, 3>>, <<199, 1>>, <<255, 9>>}, g \in BOOLEAN}
  \cup {[kind |-> k, neg |-> TRUE, num |-> 0, scale |-> 0] : k \in {"inf", "nan"}}

Conversions ==
  Laid(Integers_, {"-", "+", "0", "#", " "}, Widths)
  \cup Laid({Item("p", 27), Item("c", 1)} \cup {Item("s", n) : n \in {0, 5}}, {"-", "+"}, Widths)
  \cup Laid({Item("f", x) : x \in Numbers}, {"-", "0"}, Widths)
  \cup {Item(t, 1) : t \in {"%", "n", "end", "?"}}

Text == Item("text", 0)
Formats_ ==
  {<<Text, c, Text>> : c \in Conversions}
  \cup {<<[type |-> "uart", base |-> b, arg |-> n]>> : b \in {10, 16}, n \in (0 .. 31) \cup {255, 256, 999, 1000, 1023}}
BITS_ == [hh |-> 3, l |-> 10]
UART_BUF_ == [b \in {10, 16} |-> IF b = 10 THEN 5 ELSE 4]
=============================================================================
