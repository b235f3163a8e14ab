---------------------------------- MODULE Isa ----------------------------------
(***************************************************************************)
(* The instructions one at a time: every compressed word, and every pair   *)
(* of operand values of the arithmetic ones, against what the RISC-V       *)
(* manual says of them.                                                    *)
(***************************************************************************)
EXTENDS Rvc, Arith, FiniteSetsExt

VARIABLE last   \* the instruction Cpu::execute has just run

isa_vars == <<last>>

Idle == <<"idle">>

Compressed == { w \in 0..(2^16 - 1) : w % 4 # 3 }
Operands   == 0..(power(2, XLEN) - 1)

IsaInit == last = Idle

\* Cpu::execute with a 16-bit word, whose low bits are not 11.
ExecuteCompressed ==
    /\ last = Idle
    /\ \E w \in Compressed : last' = <<"compressed", w, execute_c(w)>>

\* Cpu::execute with an OP or OP-32 instruction whose registers hold a and b.
ExecuteOp ==
    /\ last = Idle
    /\ \E a, b \in Operands : last' = <<"op", a, b>>

\* step returns; the next one begins.
Retire ==
    /\ last # Idle
    /\ last' = Idle

IsaNext ==
    \/ ExecuteCompressed
    \/ ExecuteOp
    \/ Retire

IsaSpec == IsaInit /\ [][IsaNext]_isa_vars

-----------------------------------------------------------------------------
(* The C extension as its manual tabulates it: an instruction format lists *)
(* the bits of the immediate in the order they have in the word.           *)

\* The bits of w at positions src are the bits dst of the result.
gather(w, src, dst) == MapThenSumSet(LAMBDA k : field(w, src[k], 1) * 2^dst[k], DOMAIN src)

CI   == <<12, 6, 5, 4, 3, 2>>
CIW  == <<12, 11, 10, 9, 8, 7, 6, 5>>
CL   == <<12, 11, 10, 6, 5>>
CB   == <<12, 11, 10, 6, 5, 4, 3, 2>>
CJ   == <<12, 11, 10, 9, 8, 7, 6, 5, 4, 3, 2>>
CSS  == <<12, 11, 10, 9, 8, 7>>

SignedCI(w)    == sext(gather(w, CI, <<5, 4, 3, 2, 1, 0>>), 6)
Shamt(w)       == gather(w, CI, <<5, 4, 3, 2, 1, 0>>)
Addi4spnImm(w) == gather(w, CIW, <<5, 4, 9, 8, 7, 6, 2, 3>>)
Addi16spImm(w) == sext(gather(w, CI, <<9, 4, 6, 8, 7, 5>>), 10)
WordOffset(w)  == gather(w, CL, <<5, 4, 3, 2, 6>>)
DoubleOffset(w) == gather(w, CL, <<5, 4, 3, 7, 6>>)
BranchOffset(w) == sext(gather(w, CB, <<8, 4, 3, 7, 6, 2, 1, 5>>), 9)
JumpOffset(w)  == sext(gather(w, CJ, <<11, 4, 9, 8, 10, 6, 7, 3, 2, 1, 5>>), 12)
LdspOffset(w)  == gather(w, CI, <<5, 4, 3, 8, 7, 6>>)
SdspOffset(w)  == gather(w, CSS, <<5, 4, 3, 8, 7, 6>>)

\* The words the emulator stops at: the reserved ones, the hints that write
\* x0 or shift by zero, floating point, C.LWSP, C.SWSP and C.EBREAK.
Unsupported(w) ==
    LET quadrant == w % 4
        f == w \div 2^13
        r == field(w, 7, 5)
    IN  \/ quadrant = 0 /\ f \in {1, 4, 5}
        \/ quadrant = 0 /\ f = 0 /\ Addi4spnImm(w) = 0
        \/ quadrant = 1 /\ f \in {1, 2, 3} /\ r = 0
        \/ quadrant = 1 /\ f = 3 /\ Shamt(w) = 0
        \/ quadrant = 1 /\ f = 4 /\ field(w, 10, 2) \in {0, 1} /\ Shamt(w) = 0
        \/ quadrant = 1 /\ f = 4 /\ field(w, 10, 3) = 7 /\ field(w, 6, 1) = 1
        \/ quadrant = 2 /\ f \in {1, 2, 5, 6}
        \/ quadrant = 2 /\ f \in {3, 4} /\ r = 0
        \/ quadrant = 2 /\ f = 0 /\ Shamt(w) = 0

\* The 32-bit instruction a compressed one stands for.
expand(w) ==
    LET quadrant == w % 4
        f   == w \div 2^13
        r   == field(w, 7, 5)
        s   == field(w, 2, 5)
        rp  == field(w, 7, 3) + 8
        sp  == field(w, 2, 3) + 8
        reg(f7, f3, opcode) == encode_i(f7 * 2^5 + sp, rp, f3, rp, opcode)
    IN  CASE quadrant = 0 /\ f = 0 -> encode_i(Addi4spnImm(w), 2, 0, sp, 19)
          [] quadrant = 0 /\ f = 2 -> encode_i(WordOffset(w), rp, 2, sp, 3)
          [] quadrant = 0 /\ f = 3 -> encode_i(DoubleOffset(w), rp, 3, sp, 3)
          [] quadrant = 0 /\ f = 6 -> encode_s(WordOffset(w), rp, sp, 2, 35)
          [] quadrant = 0 /\ f = 7 -> encode_s(DoubleOffset(w), rp, sp, 3, 35)
          [] quadrant = 1 /\ f = 0 -> encode_i(SignedCI(w), r, 0, r, 19)
          [] quadrant = 1 /\ f = 1 -> encode_i(SignedCI(w), r, 0, r, 27)
          [] quadrant = 1 /\ f = 2 -> encode_i(SignedCI(w), 0, 0, r, 19)
          [] quadrant = 1 /\ f = 3 /\ r = 2 -> encode_i(Addi16spImm(w), 2, 0, 2, 19)
          [] quadrant = 1 /\ f = 3 /\ r # 2 -> encode_u(SignedCI(w) * 2^12, r, 55)
          [] quadrant = 1 /\ f = 4 /\ field(w, 10, 2) = 0 -> encode_i(Shamt(w), rp, 5, rp, 19)
          [] quadrant = 1 /\ f = 4 /\ field(w, 10, 2) = 1 -> encode_i(2^10 + Shamt(w), rp, 5, rp, 19)
          [] quadrant = 1 /\ f = 4 /\ field(w, 10, 2) = 2 -> encode_i(SignedCI(w), rp, 7, rp, 19)
          [] quadrant = 1 /\ f = 4 /\ field(w, 10, 3) = 3 ->
                << reg(32, 0, 51), reg(0, 4, 51), reg(0, 6, 51), reg(0, 7, 51) >>[field(w, 5, 2) + 1]
          [] quadrant = 1 /\ f = 4 /\ field(w, 10, 3) = 7 ->
                IF field(w, 5, 2) = 0 THEN reg(32, 0, 59) ELSE reg(0, 0, 59)
          [] quadrant = 1 /\ f = 5 -> encode_j(JumpOffset(w), 0, 111)
          [] quadrant = 1 /\ f = 6 -> encode_b(BranchOffset(w), rp, 0, 0, 99)
          [] quadrant = 1 /\ f = 7 -> encode_b(BranchOffset(w), rp, 0, 1, 99)
          [] quadrant = 2 /\ f = 0 -> encode_i(Shamt(w), r, 1, r, 19)
          [] quadrant = 2 /\ f = 3 -> encode_i(LdspOffset(w), 2, 3, r, 3)
          [] quadrant = 2 /\ f = 4 /\ s = 0 -> encode_i(0, r, 0, field(w, 12, 1), 103)
          [] quadrant = 2 /\ f = 4 /\ s # 0 /\ field(w, 12, 1) = 0 -> encode_i(s, 0, 0, r, 51)
          [] quadrant = 2 /\ f = 4 /\ s # 0 /\ field(w, 12, 1) = 1 -> encode_i(s, r, 0, r, 51)
          [] quadrant = 2 /\ f = 7 -> encode_s(SdspOffset(w), 2, s, 3, 35)

\* JALR clears bit 0 of its target and C.JR does not: the same for the even
\* addresses compilers put in a register.
UpToBit0(e) == IF "pc" \in DOMAIN e /\ e.pc[1] = "even" THEN [e EXCEPT !.pc = e.pc[2]] ELSE e

\* Every compressed word either has exactly the effect that decode.rs and
\* execute.rs give the 32-bit instruction it stands for, or is one of the
\* Unsupported ones and stops the emulator: the two decoders, written apart
\* from each other, agree on all 49152 words.
CompressedIsExpansion ==
    last[1] = "compressed" =>
        LET w == last[2] IN
        IF last[3] = Illegal THEN Unsupported(w)
        ELSE ~Unsupported(w) /\ last[3] = UpToBit0(execute(decode(expand(w))))

-----------------------------------------------------------------------------
(* The arithmetic: operands and results are the contents of registers.      *)

low32(x) == x % power(2, WLEN)

\* The operations of OPCODE_OP_32.
WordOps == {"add", "sub", "sll", "srl", "sra", "mul", "div", "divu", "rem", "remu"}

\* A result fits in the register it is written to (the rest of the operations
\* have this in their laws below).
ResultsFit(a, b) ==
    \A name \in WordOps \cup {"mulh", "mulhsu", "mulhu", "slt", "sltu"} :
        op(name, a, b) \in Operands

\* ADD and SUB are off by a register's worth exactly when the comparison that
\* programs use for the carry, or SLTU of the operands for the borrow, says so.
SumLaw(a, b) ==
    LET sum        == op("add", a, b)
        difference == op("sub", a, b)
    IN  /\ sum + power(2, XLEN) * op("sltu", sum, a) = a + b
        /\ difference - power(2, XLEN) * op("sltu", a, b) = a - b

\* The signed order is the unsigned one of the numbers with their top bit flipped.
OrderLaw(a, b) ==
    LET flip(x) == (x + power(2, XLEN - 1)) % power(2, XLEN)
    IN  op("slt", a, b) = op("sltu", flip(a), flip(b))

\* XOR, OR and AND work on every bit by itself.
BitwiseLaw(a, b) ==
    LET x == op("xor", a, b)
        y == op("or", a, b)
        z == op("and", a, b)
    IN  /\ {x, y, z} \subseteq Operands
        /\ \A i \in 0 .. (XLEN - 1) :
               LET set(v) == digit(v, 2, i) = 1
               IN  /\ set(x) = (set(a) # set(b))
                   /\ set(y) = (set(a) \/ set(b))
                   /\ set(z) = (set(a) /\ set(b))

\* The upper half of a -W result is copies of bit WLEN - 1, for every operation:
\* it is the same signed number at either width. ADDW, SUBW and MULW have the low
\* half of what ADD, SUB and MUL make of the whole registers.
WordLaw(a, b) ==
    /\ \A name \in WordOps :
           LET y == op32(name, a, b)
           IN  y \in Operands /\ as_signed(y, XLEN) = as_signed(low32(y), WLEN)
    /\ \A name \in {"add", "sub", "mul"} :
           low32(op32(name, a, b)) = low32(op(name, a, b))

\* Quotients and remainders of one width, computed apart in the code, belong
\* together: a = q * b + r, the remainder is smaller than the divisor and has
\* the dividend's sign, and the two exceptions (a zero divisor, MIN / -1)
\* give the values of the manual without a trap.
DivisionLaw(a, b, q, r, uq, ur, bits) ==
    LET sa == as_signed(a, bits)
        sb == as_signed(b, bits)
        sq == as_signed(q, bits)
        sr == as_signed(r, bits)
        ones == power(2, bits) - 1
    IN  IF b = 0 THEN q = ones /\ uq = ones /\ r = a /\ ur = a
        ELSE /\ uq * b + ur = a
             /\ ur < b
             /\ (sq * sb + sr - sa) % power(2, bits) = 0
             /\ (sa = -power(2, bits - 1) /\ sb = -1) \/ sq * sb + sr = sa
             /\ -abs(sb) < sr /\ sr < abs(sb)
             /\ sr # 0 => (sr < 0) = (sa < 0)

\* DIV, REM, DIVU and REMU; and the low halves of what the -W ones make of the
\* low halves of their operands.
DivisionsHold(a, b) ==
    LET word(name) == low32(op32(name, a, b))
    IN  /\ DivisionLaw(a, b, op("div", a, b), op("rem", a, b),
                       op("divu", a, b), op("remu", a, b), XLEN)
        /\ DivisionLaw(low32(a), low32(b), word("div"), word("rem"),
                       word("divu"), word("remu"), WLEN)

\* MUL and each MULH variant are the two halves of one product: together they
\* are the exact product of the operands as that variant reads them.
ProductLaw(a, b) ==
    LET whole(name) == as_signed(op(name, a, b), XLEN) * power(2, XLEN) + op("mul", a, b)
        sa == as_signed(a, XLEN)
        sb == as_signed(b, XLEN)
    IN  /\ whole("mulh")   = sa * sb
        /\ whole("mulhsu") = sa * b
        /\ op("mulhu", a, b) * power(2, XLEN) + op("mul", a, b) = a * b

\* Bit i of y is bit i + d of the low bits of x, or fill where x has no such bit;
\* the bits of y beyond those are copies of the top one.
Shifted(y, x, bits, d, fill) ==
    \A i \in 0..(XLEN - 1) :
        LET j == (IF i < bits THEN i ELSE bits - 1) + d
        IN  digit(y, 2, i) = IF j \in 0..(bits - 1) THEN digit(x, 2, j) ELSE fill

\* A shift moves bit i of the operand to bit i + s or i - s and nothing else:
\* zeros come in, or for SRA the sign; the amount is taken modulo the width,
\* and the upper half of a -W result is copies of its top bit.
ShiftsMoveBits(a, b) ==
    LET s  == b % XLEN
        sw == b % WLEN
    IN  /\ Shifted(op("sll", a, b), a, XLEN, -s, 0)
        /\ Shifted(op("srl", a, b), a, XLEN, s, 0)
        /\ Shifted(op("sra", a, b), a, XLEN, s, digit(a, 2, XLEN - 1))
        /\ Shifted(op32("sll", a, b), a, WLEN, -sw, 0)
        /\ Shifted(op32("srl", a, b), a, WLEN, sw, 0)
        /\ Shifted(op32("sra", a, b), a, WLEN, sw, digit(a, 2, WLEN - 1))

\* Every operation of OPCODE_OP and OPCODE_OP_32 is bound by a law, and each law
\* holds of every pair of operands: sums, differences and both comparisons; the
\* bitwise operations; the product and its upper halves; division in both
\* widths; shifts in both widths; and what the -W operations put in the upper half
\* of the register.
ArithmeticLaws ==
    last[1] = "op" =>
        LET a == last[2]
            b == last[3]
        IN  /\ ResultsFit(a, b)
            /\ SumLaw(a, b)
            /\ OrderLaw(a, b)
            /\ BitwiseLaw(a, b)
            /\ ProductLaw(a, b)
            /\ DivisionsHold(a, b)
            /\ ShiftsMoveBits(a, b)
            /\ WordLaw(a, b)

=============================================================================
