--------------------------------- MODULE Trap ---------------------------------
(***************************************************************************)
(* One hart stepping under an arbitrary guest.  Cpu::step is fetch then    *)
(* execute: fetch samples the interrupt lines and may deliver a trap       *)
(* before the instruction word is read, so the instruction executed in the *)
(* same step is already the handler's first.  The two halves are the two   *)
(* phases of the model.                                                    *)
(*                                                                         *)
(* The guest is anything: execute.rs checks no privilege, so every         *)
(* instruction may be executed in every mode.                              *)
(***************************************************************************)
EXTENDS Hart

CONSTANTS
    CsrInstrs,  \* the CSR instructions of the guest: op, csr, value of rs1
    Targets     \* where a jump may go

ASSUME CsrInstrsAssumption ==
    \A i \in CsrInstrs :
        \/ /\ i.op \in {"rw", "rs", "rc"}
           /\ i.csr \in AliasCsr \cup MaskCsr
           /\ i.rs1 \in SUBSET Bits
        \/ i.op = "rw" /\ i.csr \in AddrCsr /\ i.rs1 \in Addr
ASSUME TargetsAssumption == Targets \subseteq Addr

VARIABLES
    cpu,    \* the Cpu
    phase,  \* "fetch", "execute", or "stopped" once step has returned Err
    took    \* what the last check_interrupt returned

vars == <<cpu, phase, took>>

TypeOK == /\ cpu \in Cpu
          /\ phase \in {"fetch", "execute", "stopped"}
          /\ took \in BOOLEAN

Init == /\ cpu = new_cpu(0)
        /\ phase = "fetch"
        /\ took = FALSE

-----------------------------------------------------------------------------

\* The first half of Cpu::step.  The lines of the CLINT and the PLIC are
\* whatever they are when check_interrupt looks.
Fetch == /\ phase = "fetch"
         /\ \E mtip, seip \in BOOLEAN :
               LET c == sample(cpu, mtip, seip)
               IN  /\ cpu' = deliver(c)
                   /\ took' = interrupt_taken(c)
         /\ phase' = "execute"

\* The second half: one instruction leaves the hart in state c.
Execute(c) == /\ phase = "execute"
              /\ cpu' = c
              /\ phase' = "fetch"
              /\ UNCHANGED took

CsrInstr == \E i \in CsrInstrs : Execute(execute_csr(cpu, i.op, i.csr, i.rs1))

Ecall == Execute(ecall(cpu))

Sret == Execute(sret(cpu))

Mret == Execute(mret(cpu))

\* Every other instruction leaves the privileged state alone.
Other == \E t \in Targets : Execute([cpu EXCEPT !.pc = t])

\* A page fault, an unmapped address or an unimplemented instruction is an
\* EmuError: step returns it and the run loop ends.
Fail == /\ phase = "execute"
        /\ phase' = "stopped"
        /\ UNCHANGED <<cpu, took>>

Next == Fetch \/ CsrInstr \/ Ecall \/ Sret \/ Mret \/ Other \/ Fail

Spec == Init /\ [][Next]_vars

-----------------------------------------------------------------------------
(* The state fetch interrupted, recovered from what the trap saved. *)

JustTrapped == phase = "execute" /\ took

CauseTaken == IF cpu.mode = PRIV_S THEN cpu.scause.code ELSE cpu.mcause.code

Interrupted ==
    IF cpu.mode = PRIV_S
    THEN [cpu EXCEPT !.mode = IF MSTATUS_SPP \in cpu.mstatus THEN PRIV_S ELSE PRIV_U,
                     !.mstatus = put(@, MSTATUS_SIE, MSTATUS_SPIE \in @)]
    ELSE [cpu EXCEPT !.mode = mpp_of(cpu.mstatus),
                     !.mstatus = put(@, MSTATUS_MIE, MSTATUS_MPIE \in @)]

\* The privileged architecture's rule, stated independently of the loop: a
\* pending and enabled interrupt is taken if its target mode is above the
\* current one, or equal to it with that mode's interrupts on.  A cause that
\* is not delegated, or that finds the hart in M, targets M.
Target(c, i) == IF c.mode # PRIV_M /\ i \in c.mideleg \ MachineInterrupts
                THEN PRIV_S ELSE PRIV_M
Deliverable(c) ==
    {i \in c.mip \cap c.mie \cap Interrupts :
        \/ c.mode < Target(c, i)
        \/ c.mode = Target(c, i) /\ Target(c, i) = PRIV_S /\ MSTATUS_SIE \in c.mstatus
        \/ c.mode = Target(c, i) /\ Target(c, i) = PRIV_M /\ MSTATUS_MIE \in c.mstatus}

\* External before software before timer, machine level before supervisor.
Rank == [i \in Interrupts |-> CASE i = 11 -> 1 [] i = 3 -> 2 [] i = 7 -> 3
                                [] i = 9 -> 4 [] i = 1 -> 5 [] i = 5 -> 6]

\* mode 2 is not a privilege level; a guest enters it by MRET with MPP = 2.
Sane(c) == c.mode \in {PRIV_U, PRIV_S, PRIV_M}

\* A machine-level interrupt never reaches the supervisor, whatever is in
\* mideleg: xv6 writes 0xffff there and relies on its timer landing in M
\* (check_interrupt and raise_trap must both apply the mask).
MachineInterruptsStayInM ==
    JustTrapped /\ cpu.mode = PRIV_S => cpu.scause.code \notin MachineInterrupts

\* An interrupt is delivered only where the interrupted state allowed it, and
\* of those allowed the one of highest rank is delivered: computed back from
\* the xPP and xPIE that raise_trap saved.
TakesHighestDeliverable ==
    JustTrapped /\ Sane(Interrupted) =>
        /\ CauseTaken \in Deliverable(Interrupted)
        /\ \A i \in Deliverable(Interrupted) : Rank[CauseTaken] <= Rank[i]

\* fetch goes on without a trap only if nothing was deliverable: a masked
\* interrupt of higher rank does not hide a deliverable one behind it.
NothingDeliverableIsSkipped ==
    phase = "execute" /\ ~took /\ Sane(cpu) => Deliverable(cpu) = {}

\* The only way down in privilege is a return instruction.
PrivilegeDropsOnlyByReturn ==
    [][Sane(cpu) /\ cpu'.mode < cpu.mode => Sret \/ Mret]_vars

\* What a trap into M may not touch: the supervisor's own trap registers, so
\* a timer trap between two instructions of a supervisor handler is invisible
\* to it.
SupervisorView(c) == <<c.sepc, c.scause, c.stval, c.stvec, c.mie, c.mstatus \cap SSTATUS_MASK>>
MachineTrapSparesSupervisor ==
    [][cpu.mode # PRIV_M /\ cpu'.mode = PRIV_M /\ ~Mret =>
          SupervisorView(cpu') = SupervisorView(cpu)]_vars

=============================================================================
