--------------------------------- MODULE Hart ---------------------------------
(***************************************************************************)
(* The privileged half of one hart: the machine-level state of cpu.rs that *)
(* traps touch, and every function of trap.rs and of the SYSTEM opcode of  *)
(* execute.rs that changes it, as operators from one state of a Cpu to the *)
(* next.                                                                   *)
(*                                                                         *)
(* A 64-bit CSR that the code uses as a bit mask is the SET of its bit     *)
(* positions: a & b is a \cap b, a & !b is a \ b, a | b is a \cup b, and   *)
(* (a >> n) & 1 != 0 is n \in a.  Addresses are natural numbers below      *)
(* AddrSpace, the width the code's wrapping additions have.                *)
(***************************************************************************)
EXTENDS Integers

CONSTANT AddrSpace

\* Instructions are 2 or 4 bytes and a trap vector is 4-byte aligned, so the
\* space is a whole number of words (2^64 in the code).
ASSUME AddrSpaceAssumption == AddrSpace \in Nat \ {0} /\ AddrSpace % 4 = 0

Addr == 0 .. (AddrSpace - 1)

PRIV_U == 0
PRIV_S == 1
PRIV_M == 3

\* cpu.mode is a u8 that MRET fills from the two MPP bits: 2 is reachable.
Mode == 0 .. 3

\* Bit positions of mstatus.
MSTATUS_SIE  == 1
MSTATUS_MIE  == 3
MSTATUS_SPIE == 5
MSTATUS_MPIE == 7
MSTATUS_SPP  == 8
MSTATUS_MPP  == {11, 12}

SSTATUS_MASK == {MSTATUS_SIE, MSTATUS_SPIE, MSTATUS_SPP}
SIE_MASK     == {1, 5, 9}
SIP_MASK     == {1, 5, 9}

MIP_MTIP == 7
MIP_SEIP == 9

SUPERVISOR_SOFTWARE_INTERRUPT == 1
MACHINE_SOFTWARE_INTERRUPT    == 3
SUPERVISOR_TIMER_INTERRUPT    == 5
MACHINE_TIMER_INTERRUPT       == 7
SUPERVISOR_EXTERNAL_INTERRUPT == 9
MACHINE_EXTERNAL_INTERRUPT    == 11

MachineInterrupts ==
    {MACHINE_SOFTWARE_INTERRUPT, MACHINE_TIMER_INTERRUPT, MACHINE_EXTERNAL_INTERRUPT}

\* A mutant, for the checks of the properties: supervisor causes first.
PRIORITY_supervisor_first == <<9, 1, 5, 11, 3, 7>>

\* The order in which check_interrupt tries the causes.
PRIORITY == << MACHINE_EXTERNAL_INTERRUPT, MACHINE_SOFTWARE_INTERRUPT,
               MACHINE_TIMER_INTERRUPT, SUPERVISOR_EXTERNAL_INTERRUPT,
               SUPERVISOR_SOFTWARE_INTERRUPT, SUPERVISOR_TIMER_INTERRUPT >>

Interrupts == {1, 3, 5, 7, 9, 11}

(***************************************************************************)
(* The state of a Cpu.  tval is 0 at every call of raise_trap, and nothing *)
(* reads the scratch registers, so a guest's writes to mtval, stval,       *)
(* mcause, scause, mscratch and sscratch are left out.                     *)
(***************************************************************************)
Bits == 0 .. 63

Cause == [interrupt : BOOLEAN, code : Bits]

Cpu == [ mode : Mode, pc : Addr,
         mstatus : SUBSET Bits, mie : SUBSET Bits, mip : SUBSET Bits,
         medeleg : SUBSET Bits, mideleg : SUBSET Bits,
         mepc : Addr, mcause : Cause, mtval : Addr, mtvec : Addr,
         sepc : Addr, scause : Cause, stval : Addr, stvec : Addr ]

NoCause == [interrupt |-> FALSE, code |-> 0]

\* Cpu::new: mstatus 0xa_0000_0000, mie 0x222, every other CSR zero.
new_cpu(entry) ==
    [ mode |-> PRIV_M, pc |-> entry,
      mstatus |-> {33, 35}, mie |-> {1, 5, 9}, mip |-> {},
      medeleg |-> {}, mideleg |-> {},
      mepc |-> 0, mcause |-> NoCause, mtval |-> 0, mtvec |-> 0,
      sepc |-> 0, scause |-> NoCause, stval |-> 0, stvec |-> 0 ]

-----------------------------------------------------------------------------
(* Bit-field helpers. *)

put(bits, b, on) == IF on THEN bits \cup {b} ELSE bits \ {b}

\* (mode as u64) << 11, and its inverse (mstatus & MPP) >> 11.
mpp_bits(mode) == (IF mode \in {1, 3} THEN {11} ELSE {})
                  \cup (IF mode \in {2, 3} THEN {12} ELSE {})
mpp_of(mstatus) == (IF 11 \in mstatus THEN 1 ELSE 0)
                   + (IF 12 \in mstatus THEN 2 ELSE 0)

\* xtvec & !0b11: the vectored/direct bits are dropped.
trap_vector(tvec) == tvec - (tvec % 4)

\* A mutant, for the checks of the properties: an addition that does not wrap.
default_next_unwrapped(pc) == pc + 4

\* default_next of a 4-byte instruction: pc.wrapping_add(4).
default_next(pc) == (pc + 4) % AddrSpace

-----------------------------------------------------------------------------
(* CSR access. *)

\* The CSRs used as bit masks, under the names a guest uses; sstatus, sie and
\* sip are masked views of mstatus, mie and mip.
Alias == [ sstatus |-> [base |-> "mstatus", mask |-> SSTATUS_MASK],
           sie     |-> [base |-> "mie",     mask |-> SIE_MASK],
           sip     |-> [base |-> "mip",     mask |-> SIP_MASK] ]

AliasCsr == {"sstatus", "sie", "sip"}
MaskCsr  == {"mstatus", "mie", "mip", "medeleg", "mideleg"}
AddrCsr  == {"mepc", "mtvec", "sepc", "stvec"}

csr_read(c, addr) ==
    IF addr \in AliasCsr THEN c[Alias[addr].base] \cap Alias[addr].mask
                         ELSE c[addr]

\* A write to mhartid is ignored; a write through an alias changes only the
\* bits of its mask.  (The TLB flush of a satp write is in module Mmu.)
csr_write(c, addr, value) ==
    IF addr = "mhartid" THEN c
    ELSE IF addr \in AliasCsr
         THEN LET base == Alias[addr].base
                  mask == Alias[addr].mask
              IN  [c EXCEPT ![base] = (@ \ mask) \cup (value \cap mask)]
         ELSE [c EXCEPT ![addr] = value]

-----------------------------------------------------------------------------
(* Trap delivery. *)

\* A mutant, for the checks of the properties: the machine-level causes can be delegated.
mideleg_raw(c) == c.mideleg

\* mideleg & MIDELEG_DELEGATABLE_MASK: the machine-level causes read as zero.
mideleg_masked(c) == c.mideleg \ MachineInterrupts

\* A mutant, for the checks of the properties: delegation also out of M.
delegated_from_any_mode(c, cause, is_interrupt) ==
    cause \in (IF is_interrupt THEN mideleg_masked(c) ELSE c.medeleg)

delegated(c, cause, is_interrupt) ==
    /\ c.mode # PRIV_M
    /\ cause \in (IF is_interrupt THEN mideleg_masked(c) ELSE c.medeleg)

\* A mutant, for the checks of the properties: SIE is left on, or SPP is forgotten.
enter_S_keeps_sie(c, cause, is_interrupt, tval) ==
    [c EXCEPT !.sepc = c.pc, !.scause = [interrupt |-> is_interrupt, code |-> cause],
              !.stval = tval,
              !.mstatus = put(put(@, MSTATUS_SPIE, MSTATUS_SIE \in @), MSTATUS_SPP, c.mode = PRIV_S),
              !.mode = PRIV_S, !.pc = trap_vector(c.stvec)]
enter_S_no_spp(c, cause, is_interrupt, tval) ==
    [c EXCEPT !.sepc = c.pc, !.scause = [interrupt |-> is_interrupt, code |-> cause],
              !.stval = tval,
              !.mstatus = put(@, MSTATUS_SPIE, MSTATUS_SIE \in @) \ {MSTATUS_SIE, MSTATUS_SPP},
              !.mode = PRIV_S, !.pc = trap_vector(c.stvec)]

enter_S(c, cause, is_interrupt, tval) ==
    [c EXCEPT
        !.sepc    = c.pc,
        !.scause  = [interrupt |-> is_interrupt, code |-> cause],
        !.stval   = tval,
        !.mstatus = put(put(@, MSTATUS_SPIE, MSTATUS_SIE \in @) \ {MSTATUS_SIE},
                        MSTATUS_SPP, c.mode = PRIV_S),
        !.mode    = PRIV_S,
        !.pc      = trap_vector(c.stvec) ]

\* A mutant, for the checks of the properties: a trap into M clears SIE as well.
enter_M_clears_sie(c, cause, is_interrupt, tval) ==
    [c EXCEPT !.mepc = c.pc, !.mcause = [interrupt |-> is_interrupt, code |-> cause],
              !.mtval = tval,
              !.mstatus = ((put(@, MSTATUS_MPIE, MSTATUS_MIE \in @)
                              \ {MSTATUS_MIE, MSTATUS_SIE}) \ MSTATUS_MPP) \cup mpp_bits(c.mode),
              !.mode = PRIV_M, !.pc = trap_vector(c.mtvec)]

enter_M(c, cause, is_interrupt, tval) ==
    [c EXCEPT
        !.mepc    = c.pc,
        !.mcause  = [interrupt |-> is_interrupt, code |-> cause],
        !.mtval   = tval,
        !.mstatus = ((put(@, MSTATUS_MPIE, MSTATUS_MIE \in @) \ {MSTATUS_MIE})
                      \ MSTATUS_MPP) \cup mpp_bits(c.mode),
        !.mode    = PRIV_M,
        !.pc      = trap_vector(c.mtvec) ]

raise_trap(c, cause, is_interrupt, tval) ==
    IF delegated(c, cause, is_interrupt)
    THEN enter_S(c, cause, is_interrupt, tval)
    ELSE enter_M(c, cause, is_interrupt, tval)

\* A mutant, for the checks of the properties: SEIP is set and never cleared.
sample_sticky(c, mtip, seip) ==
    [c EXCEPT !.mip = put(@, MIP_MTIP, mtip) \cup (IF seip THEN {MIP_SEIP} ELSE {})]

\* A mutant, for the checks of the properties: mip is made of the lines alone.
sample_rebuilt(c, mtip, seip) ==
    [c EXCEPT !.mip = put(put({}, MIP_MTIP, mtip), MIP_SEIP, seip)]

\* The hardware-driven bits of mip: MTIP follows Clint::pending, SEIP follows
\* Plic::claimable, whatever a guest wrote there.
sample(c, mtip, seip) ==
    [c EXCEPT !.mip = put(put(@, MIP_MTIP, mtip), MIP_SEIP, seip)]

\* The conditions under which the loop of check_interrupt does not `continue`.
takes(c, cause) ==
    /\ cause \in c.mip \cap c.mie
    /\ IF delegated(c, cause, TRUE)
       THEN ~(c.mode = PRIV_S /\ MSTATUS_SIE \notin c.mstatus)
       ELSE ~(c.mode = PRIV_M /\ MSTATUS_MIE \notin c.mstatus)

\* A mutant, for the checks of the properties: `break` where the loop has `continue`.
first_taken_breaks(c) ==
    IF \E i \in 1 .. 6 : /\ takes(c, PRIORITY[i])
                        /\ \A j \in 1 .. (i - 1) : PRIORITY[j] \notin c.mip \cap c.mie
    THEN CHOOSE i \in 1 .. 6 : /\ takes(c, PRIORITY[i])
                               /\ \A j \in 1 .. (i - 1) : PRIORITY[j] \notin c.mip \cap c.mie
    ELSE 0

\* The position in PRIORITY of the cause the loop stops at; 0 if it runs out.
first_taken(c) ==
    IF \E i \in 1 .. 6 : takes(c, PRIORITY[i])
    THEN CHOOSE i \in 1 .. 6 : /\ takes(c, PRIORITY[i])
                               /\ \A j \in 1 .. (i - 1) : ~takes(c, PRIORITY[j])
    ELSE 0

\* check_interrupt after sampling: the next state, and the value returned.
deliver(c) == IF first_taken(c) = 0 THEN c
              ELSE raise_trap(c, PRIORITY[first_taken(c)], TRUE, 0)
interrupt_taken(c) == first_taken(c) # 0

-----------------------------------------------------------------------------
(* The SYSTEM opcode. *)

\* CSRRW, CSRRS and CSRRC; the immediate forms are the same with a value below
\* 32.  rd receives the old value, which no trap state depends on.
csr_value(op, old, rs1) == CASE op = "rw" -> rs1
                             [] op = "rs" -> old \cup rs1
                             [] op = "rc" -> old \ rs1

execute_csr(c, op, addr, rs1) ==
    [csr_write(c, addr, csr_value(op, csr_read(c, addr), rs1))
        EXCEPT !.pc = default_next(c.pc)]

\* The cause is 8 plus the mode: 8 from U, 9 from S, 11 from M.
ecall(c) == raise_trap(c, 8 + c.mode, FALSE, 0)

\* A mutant, for the checks of the properties: SIE is not restored.
sret_keeps_sie(c) ==
    [c EXCEPT !.mstatus = (@ \cup {MSTATUS_SPIE}) \ {MSTATUS_SPP},
              !.mode = IF MSTATUS_SPP \in c.mstatus THEN 1 ELSE 0, !.pc = c.sepc]

sret(c) ==
    [c EXCEPT
        !.mstatus = (put(@, MSTATUS_SIE, MSTATUS_SPIE \in @) \cup {MSTATUS_SPIE})
                     \ {MSTATUS_SPP},
        !.mode    = IF MSTATUS_SPP \in c.mstatus THEN 1 ELSE 0,
        !.pc      = c.sepc ]

mret(c) ==
    [c EXCEPT
        !.mstatus = (put(@, MSTATUS_MIE, MSTATUS_MPIE \in @) \cup {MSTATUS_MPIE})
                     \ MSTATUS_MPP,
        !.mode    = mpp_of(c.mstatus),
        !.pc      = c.mepc ]

=============================================================================
