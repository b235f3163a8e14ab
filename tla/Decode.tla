--------------------------------- MODULE Decode --------------------------------
(***************************************************************************)
(* Instruction words: the fields decode.rs takes out of one, and the       *)
(* encoders of asm.rs that put them in.  A 32-bit word is its two halves,  *)
(* <<high, low>>, and an immediate is the signed number it stands for.     *)
(***************************************************************************)
EXTENDS Integers

\* (x >> pos) & ((1 << n) - 1)
field(x, pos, n) == (x \div 2^pos) % 2^n

\* A mutant, for the checks of the properties: the sign is lost.
sext_none(value, bits) == value % 2^bits

\* The low bits of a value as a signed number.
sext(value, bits) ==
    LET v == value % 2^bits IN IF v >= 2^(bits - 1) THEN v - 2^bits ELSE v

\* Instruction::new
decode(w) ==
    LET hi == w[1]
        lo == w[2]
    IN  [ opcode |-> field(lo, 0, 7),
          rd     |-> field(lo, 7, 5),
          rs1    |-> field(hi, 0, 4) * 2 + field(lo, 15, 1),
          rs2    |-> field(hi, 4, 5),
          funct3 |-> field(lo, 12, 3),
          funct7 |-> field(hi, 9, 7),
          imm_i  |-> sext(field(hi, 4, 12), 12),
          imm_s  |-> sext(field(hi, 9, 7) * 2^5 + field(lo, 7, 5), 12),
          imm_b  |-> sext(field(hi, 15, 1) * 2^12 + field(lo, 7, 1) * 2^11
                          + field(hi, 9, 6) * 2^5 + field(lo, 8, 4) * 2, 13),
          imm_u  |-> sext(hi * 2^4 + field(lo, 12, 4), 20) * 2^12,
          imm_j  |-> sext(field(hi, 15, 1) * 2^20 + field(hi, 0, 4) * 2^16
                          + field(lo, 12, 4) * 2^12 + field(hi, 4, 1) * 2^11
                          + field(hi, 5, 10) * 2, 21),
          shamt  |-> field(hi, 4, 6) ]

-----------------------------------------------------------------------------
(* The encoders.  low holds what every format has below bit 16. *)

low(rs1, funct3, bits11_7, opcode) ==
    (rs1 % 2) * 2^15 + funct3 * 2^12 + bits11_7 * 2^7 + opcode

encode_i(imm, rs1, funct3, rd, opcode) ==
    << field(imm, 0, 12) * 2^4 + rs1 \div 2, low(rs1, funct3, rd, opcode) >>

encode_s(imm, rs1, rs2, funct3, opcode) ==
    << field(imm, 5, 7) * 2^9 + rs2 * 2^4 + rs1 \div 2,
       low(rs1, funct3, field(imm, 0, 5), opcode) >>

\* imm is already shifted into place: its low 12 bits are dropped.
encode_u(imm, rd, opcode) ==
    << field(imm, 16, 16), field(imm, 12, 4) * 2^12 + rd * 2^7 + opcode >>

encode_j(imm, rd, opcode) ==
    << field(imm, 20, 1) * 2^15 + field(imm, 1, 10) * 2^5 + field(imm, 11, 1) * 2^4
         + field(imm, 16, 4),
       field(imm, 12, 4) * 2^12 + rd * 2^7 + opcode >>

encode_b(imm, rs1, rs2, funct3, opcode) ==
    << field(imm, 12, 1) * 2^15 + field(imm, 5, 6) * 2^9 + rs2 * 2^4 + rs1 \div 2,
       low(rs1, funct3, field(imm, 1, 4) * 2 + field(imm, 11, 1), opcode) >>

=============================================================================
