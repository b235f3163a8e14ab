-------------------------------- MODULE Execute --------------------------------
(***************************************************************************)
(* The unprivileged instructions of execute.rs: which effect one has, as   *)
(* terms over the registers it reads.  What the operations in those terms  *)
(* compute is in module Arith.                                             *)
(***************************************************************************)
EXTENDS Integers

-----------------------------------------------------------------------------
(* Terms and effects. *)

Imm(v) == <<"imm", v>>
Reg(r) == IF r = 0 THEN Imm(0) ELSE <<"reg", r>>   \* x0 reads as zero

plus(s, t) == CASE s = Imm(0) -> t [] t = Imm(0) -> s [] OTHER -> <<"add", s, t>>

Term(op, s, t) == IF op = "add" THEN plus(s, t) ELSE <<op, s, t>>

Next_pc     == <<"next">>      \* default_next: pc + 4, or + 2 when compressed
Relative(v) == <<"pc", v>>
Loaded(size, signed, address) == <<"load", size, signed, address>>

Nothing == <<"nothing">>

\* What an instruction does to a register, to memory and to the pc.  A write
\* of x0 is dropped (Registers::write).
Effect(rd, value, store, pc) ==
    [ rd |-> rd, value |-> IF rd = 0 THEN Nothing ELSE value, store |-> store, pc |-> pc ]

Writes(rd, value)  == Effect(rd, value, Nothing, Next_pc)
Stores(size, address, value) == Effect(0, Nothing, <<"store", size, address, value>>, Next_pc)
Jumps(rd, target)  == Effect(rd, Next_pc, Nothing, target)
Branches(cond, offset) == Effect(0, Nothing, Nothing, <<"if", cond, Relative(offset)>>)
NoOp    == Effect(0, Nothing, Nothing, Next_pc)
Illegal == [illegal |-> TRUE]

-----------------------------------------------------------------------------
(* The tables. *)

OpName ==   \* by funct3, for funct7 = 0, 0x20 and 1
    [ f \in {0, 32, 1} |->
        CASE f = 0  -> <<"add", "sll", "slt", "sltu", "xor", "srl", "or", "and">>
          [] f = 32 -> <<"sub", "", "", "", "", "sra", "", "">>
          [] f = 1  -> <<"mul", "mulh", "mulhsu", "mulhu", "div", "divu", "rem", "remu">> ]

Op32Name ==
    [ f \in {0, 32, 1} |->
        CASE f = 0  -> <<"addw", "", "", "", "", "srlw", "", "">>
          [] f = 32 -> <<"subw", "", "", "", "", "sraw", "", "">>
          [] f = 1  -> <<"mulw", "", "", "", "divw", "divuw", "remw", "remuw">> ]

BranchName == <<"eq", "ne", "", "", "lt", "ge", "ltu", "geu">>

named(table, funct7, funct3) == IF funct7 \in {0, 1, 32} THEN table[funct7][funct3 + 1] ELSE ""

LoadSize == <<1, 2, 4, 8, 1, 2, 4>>

named_op(i, name) ==
    IF name = "" THEN Illegal ELSE Writes(i.rd, Term(name, Reg(i.rs1), Reg(i.rs2)))

execute_op(i) == named_op(i, named(OpName, i.funct7, i.funct3))

\* SLLW does not look at funct7.
execute_op_32(i) ==
    named_op(i, IF i.funct3 = 1 THEN "sllw" ELSE named(Op32Name, i.funct7, i.funct3))

\* Shifts take shamt and look at one bit of funct7; the others take imm_i.
execute_op_imm(i) ==
    LET a == Reg(i.rs1)
    IN  CASE i.funct3 = 1 -> Writes(i.rd, Term("sll", a, Imm(i.shamt)))
          [] i.funct3 = 5 -> Writes(i.rd, Term(IF (i.funct7 \div 32) % 2 = 1 THEN "sra" ELSE "srl",
                                               a, Imm(i.shamt)))
          [] OTHER -> Writes(i.rd, Term(OpName[0][i.funct3 + 1], a, Imm(i.imm_i)))

execute_op_imm_32(i) ==
    LET a == Reg(i.rs1)
        shamt32 == Imm(i.shamt % 32)
    IN  CASE i.funct3 = 0 -> Writes(i.rd, Term("addw", a, Imm(i.imm_i)))
          [] i.funct3 = 1 -> Writes(i.rd, Term("sllw", a, shamt32))
          [] i.funct3 = 5 -> Writes(i.rd, Term(IF (i.funct7 \div 32) % 2 = 1 THEN "sraw" ELSE "srlw",
                                               a, shamt32))
          [] OTHER -> Illegal

execute_memory(i) ==
    IF i.opcode = 3
    THEN IF i.funct3 = 7 THEN Illegal
         ELSE Writes(i.rd, Loaded(LoadSize[i.funct3 + 1], i.funct3 <= 3,
                                  plus(Reg(i.rs1), Imm(i.imm_i))))
    ELSE IF i.funct3 > 3 THEN Illegal
         ELSE Stores(LoadSize[i.funct3 + 1], plus(Reg(i.rs1), Imm(i.imm_s)), Reg(i.rs2))

execute_branch(i) ==
    IF BranchName[i.funct3 + 1] = "" THEN Illegal
    ELSE Branches(<<BranchName[i.funct3 + 1], Reg(i.rs1), Reg(i.rs2)>>, i.imm_b)

\* AMOSWAP.W, the only AMO.
execute_amo(i) ==
    IF i.funct3 = 2 /\ i.funct7 \div 4 = 1
    THEN Effect(i.rd, Loaded(4, TRUE, Reg(i.rs1)), <<"store", 4, Reg(i.rs1), Reg(i.rs2)>>, Next_pc)
    ELSE Illegal

\* execute, but for the SYSTEM opcode (module Hart).
execute(i) ==
    CASE i.opcode \in {3, 35} -> execute_memory(i)
      [] i.opcode = 55  -> Writes(i.rd, Imm(i.imm_u))                       \* LUI
      [] i.opcode = 23  -> Writes(i.rd, Relative(i.imm_u))                  \* AUIPC
      [] i.opcode = 111 -> Jumps(i.rd, Relative(i.imm_j))                   \* JAL
      [] i.opcode = 103 -> Jumps(i.rd, <<"even", plus(Reg(i.rs1), Imm(i.imm_i))>>)
      [] i.opcode = 99  -> execute_branch(i)
      [] i.opcode = 19  -> execute_op_imm(i)
      [] i.opcode = 27  -> execute_op_imm_32(i)
      [] i.opcode = 51  -> execute_op(i)
      [] i.opcode = 59  -> execute_op_32(i)
      [] i.opcode = 15  -> NoOp                                             \* FENCE
      [] i.opcode = 47  -> execute_amo(i)
      [] OTHER -> Illegal

=============================================================================
