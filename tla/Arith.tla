---------------------------------- MODULE Arith ---------------------------------
(* What the operations of execute.rs compute, on registers of XLEN bits. *)
EXTENDS Numbers

CONSTANTS
    XLEN,  \* 64
    WLEN   \* 32: the width of the -W instructions

\* The code masks a shift amount (& 0x3f, & 0x1f), so a width is a power of two.
ASSUME XlenAssumption == /\ WLEN \in Nat \ {0} /\ XLEN = 2 * WLEN
                         /\ \E k \in 0 .. WLEN : WLEN = power(2, k)

as_signed(a, bits) == IF a >= power(2, bits - 1) THEN a - power(2, bits) ELSE a

abs(x) == IF x < 0 THEN -x ELSE x

\* Division truncates towards zero.
quotient(x, y)  == IF (x < 0) = (y < 0) THEN abs(x) \div abs(y) ELSE -(abs(x) \div abs(y))
remainder(x, y) == IF x < 0 THEN -(abs(x) % abs(y)) ELSE abs(x) % abs(y)

div(a, b, bits) ==
    IF b = 0 THEN power(2, bits) - 1
    ELSE IF a = power(2, bits - 1) /\ b = power(2, bits) - 1 THEN a    \* MIN / -1
    ELSE quotient(as_signed(a, bits), as_signed(b, bits)) % power(2, bits)

rem(a, b, bits) ==
    IF b = 0 THEN a
    ELSE IF a = power(2, bits - 1) /\ b = power(2, bits) - 1 THEN 0
    ELSE remainder(as_signed(a, bits), as_signed(b, bits)) % power(2, bits)

sra(a, s, bits) == (as_signed(a, bits) \div power(2, s)) % power(2, bits)

\* The operations that come in both widths.
arith(op, a, b, bits) ==
    CASE op = "add"  -> (a + b) % power(2, bits)
      [] op = "sub"  -> (a - b) % power(2, bits)
      [] op = "sll"  -> (a * power(2, b % bits)) % power(2, bits)
      [] op = "srl"  -> a \div power(2, b % bits)
      [] op = "sra"  -> sra(a, b % bits, bits)
      [] op = "mul"  -> (a * b) % power(2, bits)
      [] op = "div"  -> div(a, b, bits)
      [] op = "divu" -> IF b = 0 THEN power(2, bits) - 1 ELSE a \div b
      [] op = "rem"  -> rem(a, b, bits)
      [] op = "remu" -> IF b = 0 THEN a ELSE a % b

\* A mutant, for the checks of the properties: MULHSU takes both as signed.
high_both_signed(op, a, b) ==
    LET x == IF op = "mulhu" THEN a ELSE as_signed(a, XLEN)
        y == IF op = "mulhu" THEN b ELSE as_signed(b, XLEN)
    IN  ((x * y) \div power(2, XLEN)) % power(2, XLEN)

high(op, a, b) ==
    LET x == IF op = "mulhu" THEN a ELSE as_signed(a, XLEN)
        y == IF op = "mulh" THEN as_signed(b, XLEN) ELSE b
    IN  ((x * y) \div power(2, XLEN)) % power(2, XLEN)

truth(p) == IF p THEN 1 ELSE 0

bitwise(name, a, b) ==
    LET both(x, y) == CASE name = "xor" -> (x + y) % 2
                        [] name = "or"  -> IF x + y = 0 THEN 0 ELSE 1
                        [] name = "and" -> x * y
    IN  number([i \in 0 .. (XLEN - 1) |-> both(digit(a, 2, i), digit(b, 2, i))], 2, XLEN)

\* The OP opcode, and OP-32: the low halves, and the result sign-extended.
op(name, a, b) ==
    CASE name \in {"mulh", "mulhu", "mulhsu"} -> high(name, a, b)
      [] name = "slt"  -> truth(as_signed(a, XLEN) < as_signed(b, XLEN))
      [] name = "sltu" -> truth(a < b)
      [] name \in {"xor", "or", "and"} -> bitwise(name, a, b)
      [] OTHER -> arith(name, a, b, XLEN)

op32(name, a, b) ==
    as_signed(arith(name, a % power(2, WLEN), b % power(2, WLEN), WLEN), WLEN) % power(2, XLEN)

=============================================================================
