---------------------------------- MODULE Rvc ----------------------------------
(***************************************************************************)
(* The compressed instructions of rvc.rs: the fields and the immediates a  *)
(* 16-bit word holds, and the effect of each instruction, in the terms of  *)
(* module Execute.  An error (an illegal instruction, a zero immediate     *)
(* where the code refuses one) is Illegal: either stops the emulator.      *)
(***************************************************************************)
EXTENDS Decode, Execute

rd(w)        == field(w, 7, 5)      \* rs1 too
rs2(w)       == field(w, 2, 5)
rs1_prime(w) == field(w, 7, 3) + 8
rs2_prime(w) == field(w, 2, 3) + 8
funct3(w)    == field(w, 13, 3)
funct2(w)    == field(w, 5, 2)
bit12(w)     == field(w, 12, 1)

uimm_5_0(w) == field(w, 12, 1) * 2^5 + field(w, 2, 5)
imm_5_0(w)  == sext(uimm_5_0(w), 6)

nzuimm_9_2(w) ==
    field(w, 11, 2) * 2^4 + field(w, 7, 4) * 2^6 + field(w, 6, 1) * 2^2 + field(w, 5, 1) * 2^3

nzimm_9_4(w) ==
    sext(field(w, 12, 1) * 2^9 + field(w, 6, 1) * 2^4 + field(w, 5, 1) * 2^6
         + field(w, 3, 2) * 2^7 + field(w, 2, 1) * 2^5, 10)

offset_6_2(w) == field(w, 10, 3) * 2^3 + field(w, 6, 1) * 2^2 + field(w, 5, 1) * 2^6
offset_7_3(w) == field(w, 10, 3) * 2^3 + field(w, 5, 2) * 2^6

offset_8_1(w) ==
    sext(field(w, 12, 1) * 2^8 + field(w, 10, 2) * 2^3 + field(w, 5, 2) * 2^6
         + field(w, 3, 2) * 2 + field(w, 2, 1) * 2^5, 9)

offset_8_3_ldsp(w) == field(w, 12, 1) * 2^5 + field(w, 5, 2) * 2^3 + field(w, 2, 3) * 2^6
offset_8_3_sdsp(w) == field(w, 10, 3) * 2^3 + field(w, 7, 3) * 2^6

\* A mutant, for the checks of the properties: bits 6 and 7 change places.
offset_11_1_swapped(w) ==
    sext(field(w, 12, 1) * 2^11 + field(w, 11, 1) * 2^4 + field(w, 9, 2) * 2^8
         + field(w, 8, 1) * 2^10 + field(w, 7, 1) * 2^7 + field(w, 6, 1) * 2^6
         + field(w, 3, 3) * 2 + field(w, 2, 1) * 2^5, 12)

offset_11_1(w) ==
    sext(field(w, 12, 1) * 2^11 + field(w, 11, 1) * 2^4 + field(w, 9, 2) * 2^8
         + field(w, 8, 1) * 2^10 + field(w, 7, 1) * 2^6 + field(w, 6, 1) * 2^7
         + field(w, 3, 3) * 2 + field(w, 2, 1) * 2^5, 12)

\* nz: zero is refused.
nz(v, effect) == IF v = 0 THEN Illegal ELSE effect

-----------------------------------------------------------------------------
(* execute, one operator for each of the three quadrants. *)

execute_q0(w) ==
    LET word   == plus(Reg(rs1_prime(w)), Imm(offset_6_2(w)))
        double == plus(Reg(rs1_prime(w)), Imm(offset_7_3(w)))
    IN  CASE funct3(w) = 0 -> nz(nzuimm_9_2(w),
                                 Writes(rs2_prime(w), plus(Reg(2), Imm(nzuimm_9_2(w)))))
          [] funct3(w) = 2 -> Writes(rs2_prime(w), Loaded(4, TRUE, word))
          [] funct3(w) = 3 -> Writes(rs2_prime(w), Loaded(8, TRUE, double))
          [] funct3(w) = 6 -> Stores(4, word, Reg(rs2_prime(w)))
          [] funct3(w) = 7 -> Stores(8, double, Reg(rs2_prime(w)))
          [] OTHER -> Illegal

\* funct3 = 4 of quadrant 1: shifts, ANDI, and the register-register operations.
execute_arith(w) ==
    LET r == rs1_prime(w)
        s == Reg(rs2_prime(w))
        shift(name) == nz(uimm_5_0(w), Writes(r, Term(name, Reg(r), Imm(uimm_5_0(w)))))
    IN  CASE field(w, 10, 2) = 0 -> shift("srl")
          [] field(w, 10, 2) = 1 -> shift("sra")
          [] field(w, 10, 2) = 2 -> Writes(r, Term("and", Reg(r), Imm(imm_5_0(w))))
          [] field(w, 10, 2) = 3 /\ bit12(w) = 0 ->
                Writes(r, Term(<<"sub", "xor", "or", "and">>[funct2(w) + 1], Reg(r), s))
          [] field(w, 10, 2) = 3 /\ bit12(w) = 1 ->
                IF funct2(w) > 1 THEN Illegal
                ELSE Writes(r, Term(<<"subw", "addw">>[funct2(w) + 1], Reg(r), s))

execute_q1(w) ==
    LET r == rd(w)
    IN  CASE funct3(w) = 0 -> Writes(r, plus(Reg(r), Imm(imm_5_0(w))))
          [] funct3(w) = 1 -> nz(r, Writes(r, Term("addw", Reg(r), Imm(imm_5_0(w)))))
          [] funct3(w) = 2 -> nz(r, Writes(r, Imm(imm_5_0(w))))
          [] funct3(w) = 3 /\ r = 2 -> nz(nzimm_9_4(w), Writes(2, plus(Reg(2), Imm(nzimm_9_4(w)))))
          [] funct3(w) = 3 /\ r # 2 -> nz(r, nz(imm_5_0(w), Writes(r, Imm(imm_5_0(w) * 2^12))))
          [] funct3(w) = 4 -> execute_arith(w)
          [] funct3(w) = 5 -> Jumps(0, Relative(offset_11_1(w)))
          [] funct3(w) = 6 -> Branches(<<"eq", Reg(rs1_prime(w)), Imm(0)>>, offset_8_1(w))
          [] funct3(w) = 7 -> Branches(<<"ne", Reg(rs1_prime(w)), Imm(0)>>, offset_8_1(w))

\* funct3 = 4 of quadrant 2.  A jump leaves bit 0 of the register alone.
execute_mv_jr(w) ==
    CASE bit12(w) = 0 /\ rs2(w) # 0 -> nz(rd(w), Writes(rd(w), Reg(rs2(w))))
      [] bit12(w) = 0 /\ rs2(w) = 0 -> nz(rd(w), Jumps(0, Reg(rd(w))))
      [] bit12(w) = 1 /\ rs2(w) # 0 -> nz(rd(w), Writes(rd(w), plus(Reg(rd(w)), Reg(rs2(w)))))
      [] bit12(w) = 1 /\ rs2(w) = 0 -> nz(rd(w), Jumps(1, Reg(rd(w))))

execute_q2(w) ==
    CASE funct3(w) = 0 -> nz(uimm_5_0(w), Writes(rd(w), Term("sll", Reg(rd(w)), Imm(uimm_5_0(w)))))
      [] funct3(w) = 3 -> nz(rd(w), Writes(rd(w),
                              Loaded(8, TRUE, plus(Reg(2), Imm(offset_8_3_ldsp(w))))))
      [] funct3(w) = 4 -> execute_mv_jr(w)
      [] funct3(w) = 7 -> Stores(8, plus(Reg(2), Imm(offset_8_3_sdsp(w))), Reg(rs2(w)))
      [] OTHER -> Illegal

execute_c(w) ==
    CASE field(w, 0, 2) = 0 -> execute_q0(w)
      [] field(w, 0, 2) = 1 -> execute_q1(w)
      [] field(w, 0, 2) = 2 -> execute_q2(w)
      [] OTHER -> Illegal

=============================================================================
