------------------------------- MODULE Format -------------------------------
(***************************************************************************)
(* vsnprintf of the JRT's libc and the number printers of uart.c.  A       *)
(* format is a sequence of items, plain characters and conversions; one    *)
(* step is one item.  The conversions %e and %g are not modelled.          *)
(***************************************************************************)
EXTENDS Integers, FiniteSets, SequencesExt

CONSTANTS
  Formats,  \* the formats, with their arguments
  BufSizes, \* the sizes of the destination
  BITS,     \* bits of an argument by length modifier: hh 8, h 16, none 32, l 64
  POINTER,  \* digits of a pointer: 16
  DEF_PREC, \* digits after the point when there is no precision: 6
  MAX_PREC, \* the most digits after the point: 18
  MANT,     \* bits of the significand of a double: 53
  UART_BUF  \* the buffer of uart_putu64 and of uart_puthex, by base: 21, 17

VARIABLES
  todo,     \* the items that are left
  buf,      \* dst
  cap, outlen, \* cap and len of out_t
  stored,   \* what %n has stored
  done,     \* whether vsnprintf has returned
  all,      \* history: everything that was put, truncated or not
  last      \* history: the item done last, and what it put

fmtVars == <<todo, buf, cap, outlen, stored, done, all, last>>

-----------------------------------------------------------------------------
(* Characters: a digit, or a character with a part in the layout.          *)
Dig(n) == <<"digit", n>>
Chr(c) == <<c, 0>>
Space == Chr(" ")
IsDigit(c) == c[1] = "digit"

Pad(c, n) == [i \in 1 .. Max({n, 0}) |-> c]

(* utoa_rev, and the loops that turn its digits round.                     *)
utoa(v, base) ==
  LET digits[n \in 0 .. v] ==
        IF n < base THEN <<Dig(n)>> ELSE Append(digits[n \div base], Dig(n % base))
  IN  digits[v]

Sign(f, neg) ==
  IF neg THEN <<Chr("-")>>
  ELSE IF "+" \in f.flags THEN <<Chr("+")>>
  ELSE IF " " \in f.flags THEN <<Space>> ELSE <<>>

(* A body in a field of f.width.                                           *)
Field(f, fill, body) ==
  LET padding == f.width - Len(body)
  IN  IF "-" \in f.flags THEN body \o Pad(Space, padding)
      ELSE Pad(fill, padding) \o body

(* The zeros in front of the digits: a precision asks for them, or else a  *)
(* 0 flag, to fill the field.                                              *)
Zeros_NoPrefix(f, digits, prefix, sign) ==
  IF f.prec >= 0 THEN f.prec - Len(digits)
  ELSE IF "0" \in f.flags /\ "-" \notin f.flags THEN f.width - Len(sign \o digits) ELSE 0
Zeros(f, digits, prefix, sign) ==
  IF f.prec >= 0 THEN f.prec - Len(digits)
  ELSE IF "0" \in f.flags /\ "-" \notin f.flags
  THEN f.width - Len(sign \o prefix \o digits) ELSE 0

Prefix(f, u, base) ==
  CASE "#" \in f.flags /\ u # 0 /\ base = 8 -> <<Dig(0)>>
    [] "#" \in f.flags /\ u # 0 /\ base = 16 -> <<Dig(0), Chr("x")>>
    [] OTHER -> <<>>

emit_int(f, u, neg, base) ==
  LET digits == IF f.prec = 0 /\ u = 0 THEN <<>> ELSE utoa(u, base)
      sign == Sign(f, neg)
      prefix == Prefix(f, u, base)
  IN  Field(f, Space,
            sign \o prefix \o Pad(Dig(0), Zeros(f, digits, prefix, sign)) \o digits)

(* emit_inf_nan; a nan has no minus sign.                                  *)
emit_inf_nan(f, x) ==
  Field(f, Space, Sign(f, x.kind = "inf" /\ x.neg) \o [i \in 1 .. 3 |-> Chr(x.kind)])

(* A double is x.num / 2^x.scale.  An operation on doubles rounds to MANT  *)
(* bits, to even at a tie; only the numerator changes.                     *)
Double(n) ==
  LET ulp == 2^(CHOOSE k \in 0 .. n : n < 2^(MANT + k) /\ (k > 0 => n >= 2^(MANT + k - 1)))
      q == n \div ulp
      up == 2 * (n % ulp) > ulp \/ (2 * (n % ulp) = ulp /\ q % 2 = 1)
  IN  ulp * (IF up THEN q + 1 ELSE q)

(* yi of emit_float_f: so many units of the last digit, half a unit added  *)
(* before the cast.  The cast (fcvtzu) gives the largest word to a double  *)
(* that no word holds; 10^prec is exact.                                   *)
Rounded_Down(x, prec) ==
  Min({Double(x.num * 10^prec) \div 2^x.scale, 2^BITS["l"] - 1})
Rounded(x, prec) ==
  LET y == Double(x.num * 10^prec)
      sum == Double(2 * y + 2^x.scale)
  IN  Min({sum \div 2^(x.scale + 1), 2^BITS["l"] - 1})
FloatPrec(f) == Min({IF f.prec >= 0 THEN f.prec ELSE DEF_PREC, MAX_PREC})
Fraction(y, prec) ==
  LET digits == utoa(y % 10^prec, 10)
  IN  IF prec = 0 THEN <<>> ELSE <<Chr(".")>> \o Pad(Dig(0), prec - Len(digits)) \o digits
(* A zero fill comes before the sign, and a negative zero has none.        *)
emit_float_f(f, x) ==
  LET prec == FloatPrec(f)
      y == Rounded(x, prec)
  IN  IF x.kind # "finite" THEN emit_inf_nan(f, x)
      ELSE Field(f, IF "0" \in f.flags THEN Dig(0) ELSE Space,
                 Sign(f, x.neg /\ x.num # 0) \o utoa(y \div 10^prec, 10) \o Fraction(y, prec))

(* get_uint_arg and get_int_arg: the low bits, and with their sign.        *)
get_uint_arg(x, l) == x % 2^BITS[l]
get_int_arg_Unsigned(x, l) == x % 2^BITS["l"]
get_int_arg(x, l) ==
  LET u == x % 2^BITS[l] IN IF u >= 2^(BITS[l] - 1) THEN u - 2^BITS[l] ELSE u

(* parse_flags, parse_width_prec and the precision: from a * the width     *)
(* loses its sign, so that the test for a negative one after it fails, and *)
(* a negative precision is none.                                           *)
parse(it) ==
  [flags |-> it.flags,
   width |-> IF it.width < 0 /\ it.star THEN - it.width ELSE it.width,
   prec  |-> IF it.prec < 0 THEN -1 ELSE it.prec]

(* (uint64_t)(-v), in a word.                                              *)
Negated(v) == (- v) % 2^BITS["l"]

(* What one item of the format puts: the switch of vsnprintf.              *)
Puts(it) ==
  LET f == parse(it)
      v == get_int_arg(it.arg, it.len)
      u == get_uint_arg(it.arg, it.len)
  IN  CASE it.type \in {"text", "%"} -> <<Chr("t")>>
        [] it.type = "c" -> Field(f, Space, <<Chr("t")>>)
        [] it.type = "s" ->
             Field(f, Space, Pad(Chr("t"), IF f.prec >= 0 THEN Min({f.prec, it.arg}) ELSE it.arg))
        [] it.type = "d" -> emit_int(f, IF v < 0 THEN Negated(v) ELSE v, v < 0, 10)
        [] it.type = "u" -> emit_int(f, u, FALSE, 10)
        [] it.type = "o" -> emit_int(f, u, FALSE, 8)
        [] it.type = "x" -> emit_int(f, u, FALSE, 16)
        [] it.type = "p" ->
             emit_int([f EXCEPT !.flags = (@ \cup {"#"}) \ {"+", " "}, !.prec = POINTER],
                      get_uint_arg(it.arg, "l"), FALSE, 16)
        [] it.type = "f" -> emit_float_f(f, it.arg)
        [] it.type \in {"n", "end"} -> <<>>
        [] OTHER -> <<Chr("%"), Chr("t")>>

-----------------------------------------------------------------------------
(* out_init: one place is kept for the NUL.                                *)
out_init_Full(n) == n
out_init(n) == IF n > 0 THEN n - 1 ELSE 0

Nothing == [item |-> [type |-> "none"], put |-> <<>>]
FmtInit ==
  \E fmt \in Formats, n \in BufSizes :
    /\ todo = fmt
    /\ buf = [i \in 0 .. n - 1 |-> Chr("old")]
    /\ cap = out_init(n) /\ outlen = 0 /\ stored = 0
    /\ done = FALSE /\ all = <<>> /\ last = Nothing

(* One item, by way of out_putc: what does not fit is counted only.        *)
Convert ==
  /\ ~done /\ todo # <<>> /\ Head(todo).type # "uart"
  /\ LET it == Head(todo)
         put == Puts(it)
     IN  /\ buf' = [i \in DOMAIN buf |->
                      IF i < cap /\ i - outlen + 1 \in DOMAIN put THEN put[i - outlen + 1] ELSE buf[i]]
         /\ outlen' = outlen + Len(put)
         /\ stored' = IF it.type = "n" THEN outlen % 2^BITS[it.len] ELSE stored
         /\ all' = all \o put
         /\ last' = [item |-> it, put |-> put]
         /\ todo' = IF it.type = "end" THEN <<>> ELSE Tail(todo)
  /\ UNCHANGED <<cap, done>>

(* out_terminate, which leaves a buffer of one byte as it is.              *)
Terminate ==
  /\ ~done /\ todo = <<>>
  /\ buf' = IF cap = 0 THEN buf ELSE [buf EXCEPT ![Min({outlen, cap})] = Chr("NUL")]
  /\ done' = TRUE
  /\ UNCHANGED <<todo, cap, outlen, stored, all, last>>

(* uart_putu64 and uart_puthex: digits from the end of a local buffer, for *)
(* as long as there is room in front.                                      *)
uart_digits(v, base) ==
  LET digits == utoa(v, base)
  IN  SubSeq(digits, Max({1, Len(digits) - (UART_BUF[base] - 1) + 1}), Len(digits))
uart_put ==
  /\ ~done /\ todo # <<>> /\ Head(todo).type = "uart"
  /\ last' = [item |-> Head(todo), put |-> uart_digits(Head(todo).arg, Head(todo).base)]
  /\ todo' = Tail(todo)
  /\ UNCHANGED <<buf, cap, outlen, stored, done, all>>

FmtNext == Convert \/ Terminate \/ uart_put

-----------------------------------------------------------------------------
(* Properties.                                                             *)

(* A buffer of two bytes or more holds as much of the whole output as fits *)
(* and behind it a NUL, and nothing is put past that; the length counts    *)
(* what was cut off as well.  For one byte see Terminated.                 *)
BufferExact ==
  /\ outlen = Len(all)
  /\ LET n == Cardinality(DOMAIN buf)
         nul == Min({outlen, n - 1})
     IN  done /\ n # 1 =>
           \A i \in DOMAIN buf :
             buf[i] = IF i > nul THEN Chr("old")
                      ELSE IF i < nul THEN all[i + 1] ELSE Chr("NUL")

(* The comments of out_init and out_terminate: a place is kept for the     *)
(* NUL, and only a buffer of no bytes goes without one.                    *)
Terminated ==
  done /\ DOMAIN buf # {} => \E i \in DOMAIN buf : buf[i] = Chr("NUL")

(* The number that a sequence of digits stands for.                        *)
Value(digits, base) == FoldLeft(LAMBDA n, c : n * base + c[2], 0, digits)
Base == [d |-> 10, u |-> 10, o |-> 8, x |-> 16]

(* An integer conversion puts the number itself, with all its digits, in a *)
(* field: sign, prefix, zeros and digits in that order, no shorter than    *)
(* the width, padded on the side that the - flag says, and with no more    *)
(* zeros than the precision, or a 0 flag, asks for.  The + and the space   *)
(* flag sign unsigned numbers too.  For a negative * width see StarLeft.   *)
IntegerField ==
  last.item.type \in DOMAIN Base /\ ~(last.item.star /\ last.item.width < 0) =>
    LET it == last.item
        base == Base[it.type]
        v == IF it.type = "d" THEN get_int_arg(it.arg, it.len) ELSE get_uint_arg(it.arg, it.len)
        u == IF v < 0 THEN - v ELSE v
        front == Sign(it, v < 0) \o Prefix(it, u, base)
        n == Len(last.put)
    IN  \E a, b \in 0 .. n :
          /\ a > 0 => "-" \notin it.flags
          /\ b > 0 => "-" \in it.flags
          /\ a + b <= n
          /\ \A i \in 1 .. n : i <= a \/ i > n - b => last.put[i] = Space
          /\ LET core == SubSeq(last.put, a + 1, n - b)
                 digits == SubSeq(core, Len(front) + 1, Len(core))
             IN  /\ n = Max({it.width, Len(core)})
                 /\ IsPrefix(front, core)
                 /\ \A i \in DOMAIN digits : IsDigit(digits[i])
                 /\ Value(digits, base) = u
                 /\ Len(digits) >= it.prec
                 /\ it.prec < 0 => Len(digits) > 0
                 /\ IF it.prec < 0 /\ {"0", "-"} \cap it.flags = {"0"} THEN a = 0
                    ELSE Len(digits) > Max({it.prec, 1}) => digits[1] # Dig(0)
                 /\ n > it.width /\ Len(digits) > Max({it.prec, 1}) => digits[1] # Dig(0)

(* The comment of vsnprintf on a width from a *: a negative one is a - flag *)
(* and a positive width, so that nothing is put in front of the number.    *)
StarLeft ==
  last.item.type \in DOMAIN Base /\ last.item.star /\ last.item.width < 0 =>
    last.put = <<>> \/ last.put[1] # Space \/ " " \in last.item.flags

(* A number comes out with its value and its sign.  Every value of a       *)
(* signed type, the most negative one included, survives the promotion at  *)
(* the call, the narrowing in get_int_arg and the change of sign, and the  *)
(* printers of uart.c have room for every digit of the largest number.     *)
ValueKept ==
  /\ last.item.type = "d" =>
       LET half == 2^(BITS[last.item.len] - 1)
       IN  \A v \in - half .. half - 1 :
             last.item.arg = v % 2^BITS["l"] =>
               /\ Value(SelectSeq(last.put, IsDigit), 10) = IF v < 0 THEN - v ELSE v
               /\ (\E i \in DOMAIN last.put : last.put[i] = Chr("-")) <=> v < 0
  /\ last.item.type = "uart" => Value(last.put, last.item.base) = last.item.arg

(* %f prints the multiple of the last digit that is nearest to the number, *)
(* as far as the two operations on doubles can tell: they add at most one  *)
(* part in 2^(MANT - 1) to the half unit.  This is so only while the       *)
(* number, in units of its last digit, fits the word that it is cast to.   *)
NearestDecimal ==
  last.item.type = "f" /\ last.item.arg.kind = "finite" =>
    LET x == last.item.arg
        unit == 2^x.scale
        exact == x.num * 10^FloatPrec(parse(last.item))
        y == Value(SelectSeq(last.put, IsDigit), 10) * unit
        apart == IF y > exact THEN y - exact ELSE exact - y
    IN  exact + unit < unit * 2^BITS["l"] =>
          (2 * apart - unit) * 2^(MANT - 1) <= 2 * (exact + unit)

=============================================================================
