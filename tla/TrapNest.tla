------------------------------- MODULE TrapNest -------------------------------
(***************************************************************************)
(* One hart under a guest that keeps the rules of a RISC-V kernel such as  *)
(* xv6: user code makes no privileged access, a machine handler (xv6's     *)
(* timervec) leaves mstatus and mepc alone and returns with MRET, a        *)
(* supervisor handler that has not yet saved its trap registers leaves     *)
(* sstatus and sepc alone.  The question is whether the emulator then      *)
(* keeps its side: however traps nest, user under supervisor under         *)
(* machine, every return resumes exactly what was interrupted.             *)
(*                                                                         *)
(* sframe and mframe are history variables: what the live trap into S, and *)
(* the one into M, interrupted.  They constrain the guest (is a handler    *)
(* running?), never the emulator.                                          *)
(***************************************************************************)
EXTENDS Trap

CONSTANTS
    MIDELEG, MEDELEG,  \* what the machine-mode boot code delegated
    MTVEC, STVEC       \* the trap vectors it and the kernel installed

ASSUME NestAssumption ==
    /\ MIDELEG \in SUBSET Bits /\ MEDELEG \in SUBSET Bits
    /\ MTVEC \in Addr /\ STVEC \in Addr
    /\ \A i \in CsrInstrs : i.csr \in {"sie", "sip", "mie", "mip", "sstatus", "sepc"}

VARIABLES sframe, mframe

frames == <<sframe, mframe>>

nest_vars == <<vars, frames>>

Frame == [live : BOOLEAN, mode : Mode, pc : Addr, ie : BOOLEAN]

NoFrame == [live |-> FALSE, mode |-> 0, pc |-> 0, ie |-> FALSE]

FrameOf(c, bit) == [live |-> TRUE, mode |-> c.mode, pc |-> c.pc, ie |-> bit \in c.mstatus]

\* The kernel's first supervisor instruction: start() has set up delegation
\* and the vectors, enabled the timer and left M with MRET.
NestInit == /\ cpu = [new_cpu(0) EXCEPT
                        !.mode = PRIV_S, !.mideleg = MIDELEG, !.medeleg = MEDELEG,
                        !.mtvec = MTVEC, !.stvec = STVEC,
                        !.mie = {1, 5, 7, 9}, !.mstatus = {33, 35, MSTATUS_MPIE}]
            /\ phase = "fetch"
            /\ took = FALSE
            /\ sframe = NoFrame
            /\ mframe = NoFrame

-----------------------------------------------------------------------------
(* The steps of module Trap that such a guest takes. *)

\* This step is a trap: remember what it interrupts.
Remember ==
    /\ sframe' = IF cpu'.mode = PRIV_S THEN FrameOf(cpu, MSTATUS_SIE) ELSE sframe
    /\ mframe' = IF cpu'.mode = PRIV_S THEN mframe ELSE FrameOf(cpu, MSTATUS_MIE)

NestFetch == /\ Fetch
             /\ IF took' THEN Remember ELSE UNCHANGED frames

\* U never makes a privileged access, M is only the timer handler, and S sets
\* up the next trap only while no trap it has not saved is live.
MayWrite(csr) ==
    \/ csr \in {"sie", "sip"} /\ cpu.mode # PRIV_U
    \/ csr \in {"mie", "mip"} /\ cpu.mode = PRIV_M
    \/ csr \in {"sstatus", "sepc"} /\ cpu.mode = PRIV_S /\ ~sframe.live

NestCsrInstr == \E i \in CsrInstrs : /\ MayWrite(i.csr)
                                     /\ Execute(execute_csr(cpu, i.op, i.csr, i.rs1))
                                     /\ UNCHANGED frames

\* No ECALL from the machine handler, nor, delegated, from a supervisor
\* handler: either would trap onto the handler's own registers.
NestEcall == /\ cpu.mode # PRIV_M
             /\ ~(cpu.mode = PRIV_S /\ sframe.live /\ 9 \in MEDELEG)
             /\ Ecall
             /\ Remember

\* With no live frame an SRET enters a context that the kernel has set up in
\* sepc and sstatus itself.
NestSret == /\ cpu.mode = PRIV_S
            /\ Sret
            /\ sframe' = NoFrame
            /\ UNCHANGED mframe

NestMret == /\ cpu.mode = PRIV_M
            /\ Mret
            /\ mframe' = NoFrame
            /\ UNCHANGED sframe

NestOther == Other /\ UNCHANGED frames

NestNext == NestFetch \/ NestCsrInstr \/ NestEcall \/ NestSret \/ NestMret \/ NestOther

NestSpec == NestInit /\ [][NestNext]_nest_vars

-----------------------------------------------------------------------------

\* The mode of the code that a live machine handler has interrupted, or that
\* is running.
BelowM == IF mframe.live THEN mframe.mode ELSE cpu.mode

\* The machine handler's own registers describe exactly what it interrupted,
\* and M runs only as a handler, with its interrupts off.
MachineFrameHeld ==
    /\ mframe.live <=> cpu.mode = PRIV_M
    /\ mframe.live => /\ mframe.mode \in {PRIV_U, PRIV_S}
                      /\ cpu.mepc = mframe.pc
                      /\ mpp_of(cpu.mstatus) = mframe.mode
                      /\ (MSTATUS_MPIE \in cpu.mstatus) = mframe.ie
                      /\ MSTATUS_MIE \notin cpu.mstatus

\* So do the supervisor handler's, and they keep doing so while a machine
\* trap is taken and returned from in the middle of it.
SupervisorFrameHeld ==
    sframe.live => /\ BelowM = PRIV_S
                   /\ sframe.mode \in {PRIV_U, PRIV_S}
                   /\ cpu.sepc = sframe.pc
                   /\ (MSTATUS_SPP \in cpu.mstatus) = (sframe.mode = PRIV_S)
                   /\ (MSTATUS_SPIE \in cpu.mstatus) = sframe.ie
                   /\ MSTATUS_SIE \notin cpu.mstatus

\* Both frames hold, and the hart is in a real privilege level.
FramesHeld == /\ cpu.mode \in {PRIV_U, PRIV_S, PRIV_M}
              /\ MachineFrameHeld
              /\ SupervisorFrameHeld

\* raise_trap never runs on top of a trap of the same level that has not
\* returned: it would overwrite xepc and xPP, and the interrupted code would
\* be lost.
NoFrameOverwritten ==
    [][/\ sframe.live /\ sframe'.live => sframe' = sframe
       /\ mframe.live /\ mframe'.live => mframe' = mframe]_nest_vars

\* SRET and MRET resume the interrupted code at its pc, in its mode, with its
\* interrupt enable, whatever trapped in between.
ReturnResumesInterrupted ==
    [][/\ sframe.live /\ ~sframe'.live =>
             /\ cpu'.mode = sframe.mode
             /\ cpu'.pc = sframe.pc
             /\ (MSTATUS_SIE \in cpu'.mstatus) = sframe.ie
       /\ mframe.live /\ ~mframe'.live =>
             /\ cpu'.mode = mframe.mode
             /\ cpu'.pc = mframe.pc
             /\ (MSTATUS_MIE \in cpu'.mstatus) = mframe.ie]_nest_vars

=============================================================================
