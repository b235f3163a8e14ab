------------------------------ MODULE TrapProofs ------------------------------
(***************************************************************************)
(* Theorems about one hart, for every address space, every set of CSR      *)
(* instructions and every jump target: under an arbitrary guest (module    *)
(* Trap), and then under one that keeps the rules of module TrapNest,      *)
(* which gets every return it is owed, however traps nest.                 *)
(***************************************************************************)
EXTENDS TrapNest, OperatorLemmas

LEMMA TypeStep == ASSUME TypeOK, [Next]_vars PROVE TypeOK'
<1>0. cpu \in Cpu
  BY DEF TypeOK
<1>1. CASE Fetch
  <2>1. PICK mtip, seip \in BOOLEAN :
          /\ cpu' = deliver(sample(cpu, mtip, seip))
          /\ took' = interrupt_taken(sample(cpu, mtip, seip))
    BY <1>1 DEF Fetch
  <2>2. sample(cpu, mtip, seip) \in Cpu
    BY <1>0, SampleType
  <2>3. cpu' \in Cpu /\ took' \in BOOLEAN
    BY <2>1, <2>2, DeliverType
  <2> QED
    BY <1>1, <2>3 DEF Fetch, TypeOK
<1>2. ASSUME NEW c \in Cpu, Execute(c) PROVE TypeOK'
  BY <1>2 DEF Execute, TypeOK
<1>3. CASE CsrInstr
  <2>1. PICK i \in CsrInstrs : Execute(execute_csr(cpu, i.op, i.csr, i.rs1))
    BY <1>3 DEF CsrInstr
  <2>2. execute_csr(cpu, i.op, i.csr, i.rs1) \in Cpu
    BY <1>0, CsrInstrsAssumption, ExecuteCsrType
  <2> QED
    BY <1>2, <2>1, <2>2
<1>4. CASE Ecall
  BY <1>0, <1>2, <1>4, EcallType DEF Ecall
<1>5. CASE Sret
  BY <1>0, <1>2, <1>5, SretType DEF Sret
<1>6. CASE Mret
  BY <1>0, <1>2, <1>6, MretType DEF Mret
<1>7. CASE Other
  <2>1. PICK t \in Targets : Execute([cpu EXCEPT !.pc = t])
    BY <1>7 DEF Other
  <2>2. [cpu EXCEPT !.pc = t] \in Cpu
    BY <1>0, TargetsAssumption DEF Cpu
  <2> QED
    BY <1>2, <2>1, <2>2
<1>8. CASE Fail
  BY <1>8 DEF Fail, TypeOK
<1>9. CASE UNCHANGED vars
  BY <1>9 DEF vars, TypeOK
<1> QED
  BY <1>1, <1>3, <1>4, <1>5, <1>6, <1>7, <1>8, <1>9 DEF Next

\* The hart's state is well formed in every reachable state, however the
\* guest's CSR instructions, traps and returns follow each other.
THEOREM TypeCorrect == Spec => []TypeOK
<1>1. Init => TypeOK
  <2>1. 0 \in Addr
    BY AddrSpaceAssumption DEF Addr
  <2> QED
    BY <2>1, NewCpuType DEF Init, TypeOK
<1> QED
  BY <1>1, TypeStep, PTL DEF Spec

\* A step is a fetch, or leaves "execute", or changes nothing: what holds of
\* "execute" states has to be shown of fetch alone.
LEMMA OnlyFetchEntersExecute ==
    ASSUME [Next]_vars, phase' = "execute"
    PROVE  Fetch \/ UNCHANGED vars
BY DEF Next, CsrInstr, Ecall, Sret, Mret, Other, Fail, Execute

\* A machine-level interrupt is never delivered to the supervisor, whatever
\* the guest has put in mideleg.
THEOREM MachineInterruptsStay == Spec => []MachineInterruptsStayInM
<1> USE DEF MachineInterruptsStayInM, JustTrapped
<1>1. Init => MachineInterruptsStayInM
  BY DEF Init
<1>2. TypeOK /\ MachineInterruptsStayInM /\ [Next]_vars => MachineInterruptsStayInM'
  <2> SUFFICES ASSUME TypeOK, MachineInterruptsStayInM, [Next]_vars,
                      JustTrapped', cpu'.mode = PRIV_S
               PROVE  cpu'.scause.code \notin MachineInterrupts
    OBVIOUS
  <2>1. CASE UNCHANGED vars
    BY <2>1 DEF vars
  <2>2. CASE Fetch
    <3>1. PICK mtip, seip \in BOOLEAN :
            /\ cpu' = deliver(sample(cpu, mtip, seip))
            /\ took' = interrupt_taken(sample(cpu, mtip, seip))
      BY <2>2 DEF Fetch
    <3> DEFINE c == sample(cpu, mtip, seip)
    <3>2. c \in Cpu
      BY SampleType DEF TypeOK
    <3> HIDE DEF c
    <3>3. PICK cause \in Interrupts : takes(c, cause) /\ cpu' = raise_trap(c, cause, TRUE, 0)
      BY <3>1, DeliverCases DEF c
    <3>4. CASE delegated(c, cause, TRUE)
      <4>1. cause \notin MachineInterrupts
        BY <3>4 DEF delegated, mideleg_masked
      <4>2. cpu' = enter_S(c, cause, TRUE, 0)
        BY <3>3, <3>4 DEF raise_trap
      <4>3. cpu'.scause.code = cause
        BY <3>2, <4>2 DEF enter_S, Cpu
      <4> QED
        BY <4>1, <4>3
    <3>5. CASE ~delegated(c, cause, TRUE)
      <4>1. cpu' = enter_M(c, cause, TRUE, 0)
        BY <3>3, <3>5 DEF raise_trap
      <4>2. cpu'.mode = PRIV_M
        BY <3>2, <4>1 DEF enter_M, Cpu
      <4> QED
        BY <4>2 DEF PRIV_S, PRIV_M
    <3> QED
      BY <3>4, <3>5
  <2> QED
    BY <2>1, <2>2, OnlyFetchEntersExecute
<1> QED
  BY <1>1, <1>2, TypeCorrect, PTL DEF Spec

\* The loop's conditions are the architecture's rule: a cause can be taken
\* exactly if it is deliverable.
LEMMA TakesIffDeliverable ==
    ASSUME NEW c \in Cpu, Sane(c), NEW i \in Interrupts
    PROVE  takes(c, i) <=> i \in Deliverable(c)
BY DEF takes, delegated, mideleg_masked, Deliverable, Target, Sane, PRIV_U, PRIV_S, PRIV_M,
       MSTATUS_SIE, MSTATUS_MIE

LEMMA PriorityCovers == \A i \in Interrupts : \E k \in 1 .. 6 : PRIORITY[k] = i
<1> USE DEF PRIORITY, MACHINE_EXTERNAL_INTERRUPT, MACHINE_SOFTWARE_INTERRUPT,
       MACHINE_TIMER_INTERRUPT, SUPERVISOR_EXTERNAL_INTERRUPT,
       SUPERVISOR_SOFTWARE_INTERRUPT, SUPERVISOR_TIMER_INTERRUPT
<1>1. PRIORITY[1] = 11 /\ PRIORITY[2] = 3 /\ PRIORITY[3] = 7
  OBVIOUS
<1>2. PRIORITY[4] = 9 /\ PRIORITY[5] = 1 /\ PRIORITY[6] = 5
  OBVIOUS
<1> QED
  BY <1>1, <1>2 DEF Interrupts

\* fetch goes on to an instruction without a trap only if no interrupt could
\* be delivered.
THEOREM NothingSkipped == Spec => []NothingDeliverableIsSkipped
<1> USE DEF NothingDeliverableIsSkipped
<1>1. Init => NothingDeliverableIsSkipped
  BY DEF Init
<1>2. TypeOK /\ NothingDeliverableIsSkipped /\ [Next]_vars => NothingDeliverableIsSkipped'
  <2> SUFFICES ASSUME TypeOK, NothingDeliverableIsSkipped, [Next]_vars,
                      phase' = "execute", ~took', Sane(cpu')
               PROVE  Deliverable(cpu') = {}
    BY DEF Sane, Deliverable, Target
  <2>1. CASE UNCHANGED vars
    BY <2>1 DEF vars
  <2>2. CASE Fetch
    <3>1. PICK mtip, seip \in BOOLEAN :
            /\ cpu' = deliver(sample(cpu, mtip, seip))
            /\ took' = interrupt_taken(sample(cpu, mtip, seip))
      BY <2>2 DEF Fetch
    <3> DEFINE c == sample(cpu, mtip, seip)
    <3>2. c \in Cpu
      BY SampleType DEF TypeOK
    <3> HIDE DEF c
    <3>3. first_taken(c) = 0 /\ cpu' = c
      BY <3>1 DEF c, interrupt_taken, deliver
    <3>4. \A k \in 1 .. 6 : ~takes(c, PRIORITY[k])
      BY <3>3, FirstTaken
    <3>5. \A i \in Interrupts : ~takes(c, i)
      BY <3>4, PriorityCovers
    <3>6. \A i \in Interrupts : i \notin Deliverable(c)
      BY <3>2, <3>3, <3>5, TakesIffDeliverable
    <3>7. Deliverable(c) \subseteq Interrupts
      BY DEF Deliverable
    <3> QED
      BY <3>3, <3>6, <3>7
  <2> QED
    BY <2>1, <2>2, OnlyFetchEntersExecute
<1> QED
  BY <1>1, <1>2, TypeCorrect, PTL DEF Spec

\* No CSR instruction moves the privilege mode.
LEMMA CsrKeepsMode ==
    ASSUME NEW c \in Cpu, NEW op, NEW rs1, NEW csr \in AliasCsr \cup MaskCsr \cup AddrCsr
    PROVE  execute_csr(c, op, csr, rs1).mode = c.mode
<1> DEFINE v == csr_value(op, csr_read(c, csr), rs1)
<1> HIDE DEF v
<1>0. execute_csr(c, op, csr, rs1) = [csr_write(c, csr, v) EXCEPT !.pc = default_next(c.pc)]
  BY DEF execute_csr, v
<1> USE DEF AliasCsr, Alias, Cpu
<1>1. CASE csr = "sstatus"
  <2>1. csr_write(c, csr, v) =
          [c EXCEPT !.mstatus = (@ \ SSTATUS_MASK) \cup (v \cap SSTATUS_MASK)]
    BY <1>1 DEF csr_write
  <2> QED
    BY <1>0, <2>1
<1>2. CASE csr = "sie"
  <2>1. csr_write(c, csr, v) = [c EXCEPT !.mie = (@ \ SIE_MASK) \cup (v \cap SIE_MASK)]
    BY <1>2 DEF csr_write
  <2> QED
    BY <1>0, <2>1
<1>3. CASE csr = "sip"
  <2>1. csr_write(c, csr, v) = [c EXCEPT !.mip = (@ \ SIP_MASK) \cup (v \cap SIP_MASK)]
    BY <1>3 DEF csr_write
  <2> QED
    BY <1>0, <2>1
<1>4. CASE csr \in MaskCsr \cup AddrCsr
  <2>1. csr_write(c, csr, v) = [c EXCEPT ![csr] = v]
    BY <1>4 DEF csr_write, MaskCsr, AddrCsr
  <2> QED
    BY <1>0, <1>4, <2>1 DEF MaskCsr, AddrCsr
<1> QED
  BY <1>1, <1>2, <1>3, <1>4

\* But for the returns, the mode changes only by a trap, taken from a state
\* that differs from the present one at most in the sampled lines.
LEMMA ModeMovesByTrap ==
    ASSUME TypeOK, [Next]_vars, ~Sret, ~Mret
    PROVE  \/ cpu'.mode = cpu.mode
           \/ \E c \in Cpu, cause \in Bits, i \in BOOLEAN :
                 /\ c.mode = cpu.mode
                 /\ SupervisorView(c) = SupervisorView(cpu)
                 /\ cpu' = raise_trap(c, cause, i, 0)
<1>0. cpu \in Cpu
  BY DEF TypeOK
<1>1. CASE Fetch
  <2>1. PICK mtip, seip \in BOOLEAN : cpu' = deliver(sample(cpu, mtip, seip))
    BY <1>1 DEF Fetch
  <2> DEFINE c == sample(cpu, mtip, seip)
  <2>2. c \in Cpu
    BY <1>0, SampleType
  <2>3. c.mode = cpu.mode /\ SupervisorView(c) = SupervisorView(cpu)
    BY <1>0 DEF sample, SupervisorView, Cpu
  <2> HIDE DEF c
  <2>4. CASE cpu' = c
    BY <2>3, <2>4
  <2>5. CASE \E cause \in Interrupts : cpu' = raise_trap(c, cause, TRUE, 0)
    <3>1. Interrupts \subseteq Bits
      BY DEF Interrupts, Bits
    <3> QED
      BY <2>2, <2>3, <2>5, <3>1
  <2> QED
    BY <2>1, <2>4, <2>5, DeliverCases DEF c
<1>2. CASE CsrInstr
  <2>1. PICK i \in CsrInstrs : cpu' = execute_csr(cpu, i.op, i.csr, i.rs1)
    BY <1>2 DEF CsrInstr, Execute
  <2>2. i.csr \in AliasCsr \cup MaskCsr \cup AddrCsr
    BY CsrInstrsAssumption
  <2> QED
    BY <1>0, <2>1, <2>2, CsrKeepsMode
<1>3. CASE Ecall
  <2>1. cpu' = raise_trap(cpu, 8 + cpu.mode, FALSE, 0)
    BY <1>3 DEF Ecall, Execute, ecall
  <2>2. 8 + cpu.mode \in Bits
    BY <1>0 DEF Cpu, Mode, Bits
  <2> QED
    BY <1>0, <2>1, <2>2
<1>4. CASE Other
  BY <1>0, <1>4 DEF Other, Execute, Cpu
<1>5. CASE Fail \/ UNCHANGED vars
  BY <1>5 DEF Fail, vars
<1> QED
  BY <1>1, <1>2, <1>3, <1>4, <1>5 DEF Next

\* A trap never lowers the privilege of a hart in a real mode.
LEMMA TrapRaisesMode ==
    ASSUME NEW c \in Cpu, Sane(c), NEW cause, NEW i
    PROVE  raise_trap(c, cause, i, 0).mode >= c.mode
<1>1. CASE delegated(c, cause, i)
  <2>1. raise_trap(c, cause, i, 0).mode = PRIV_S
    BY <1>1 DEF raise_trap, enter_S, Cpu
  <2>2. c.mode \in {PRIV_U, PRIV_S}
    BY <1>1 DEF delegated, Sane
  <2> QED
    BY <2>1, <2>2 DEF PRIV_U, PRIV_S
<1>2. CASE ~delegated(c, cause, i)
  <2>1. raise_trap(c, cause, i, 0).mode = PRIV_M
    BY <1>2 DEF raise_trap, enter_M, Cpu
  <2> QED
    BY <2>1 DEF Sane, PRIV_U, PRIV_S, PRIV_M
<1> QED
  BY <1>1, <1>2

\* SRET and MRET are the only steps that lower the privilege mode: no CSR
\* write, trap or delegation does.
THEOREM DropsOnlyByReturn == Spec => PrivilegeDropsOnlyByReturn
<1>1. TypeOK /\ [Next]_vars =>
        [Sane(cpu) /\ cpu'.mode < cpu.mode => Sret \/ Mret]_vars
  <2> SUFFICES ASSUME TypeOK, [Next]_vars, Sane(cpu), cpu'.mode < cpu.mode, ~Sret, ~Mret
               PROVE  FALSE
    OBVIOUS
  <2>0. cpu.mode \in Nat
    BY DEF TypeOK, Cpu, Mode
  <2>1. cpu'.mode # cpu.mode
    BY <2>0
  <2>2. PICK c \in Cpu, cause \in Bits, i \in BOOLEAN :
           c.mode = cpu.mode /\ cpu' = raise_trap(c, cause, i, 0)
    BY <2>1, ModeMovesByTrap
  <2>3. Sane(c)
    BY <2>2 DEF Sane
  <2>4. raise_trap(c, cause, i, 0).mode >= c.mode
    BY <2>3, TrapRaisesMode
  <2>5. raise_trap(c, cause, i, 0).mode \in Nat
    BY DEF raise_trap, enter_S, enter_M, Cpu, PRIV_S, PRIV_M
  <2> QED
    BY <2>0, <2>2, <2>4, <2>5
<1> QED
  BY <1>1, TypeCorrect, PTL DEF Spec, PrivilegeDropsOnlyByReturn

\* A trap into M leaves the supervisor's trap registers and its part of
\* mstatus as they were, from whatever point of a supervisor handler it comes.
THEOREM MachineTrapSpares == Spec => MachineTrapSparesSupervisor
<1>1. TypeOK /\ [Next]_vars =>
        [cpu.mode # PRIV_M /\ cpu'.mode = PRIV_M /\ ~Mret =>
            SupervisorView(cpu') = SupervisorView(cpu)]_vars
  <2> SUFFICES ASSUME TypeOK, [Next]_vars, cpu.mode # PRIV_M, cpu'.mode = PRIV_M, ~Mret
               PROVE  SupervisorView(cpu') = SupervisorView(cpu)
    OBVIOUS
  <2>0. cpu \in Cpu
    BY DEF TypeOK
  <2>1. ~Sret
    <3>1. sret(cpu).mode = IF MSTATUS_SPP \in cpu.mstatus THEN 1 ELSE 0
      BY <2>0 DEF sret, Cpu
    <3>2. sret(cpu).mode # PRIV_M
      BY <3>1 DEF PRIV_M
    <3> QED
      BY <3>2 DEF Sret, Execute
  <2>2. PICK c \in Cpu, cause \in Bits, i \in BOOLEAN :
           /\ SupervisorView(c) = SupervisorView(cpu)
           /\ cpu' = raise_trap(c, cause, i, 0)
    BY <2>1, ModeMovesByTrap
  <2>3. cpu' = enter_M(c, cause, i, 0)
    BY <2>2 DEF raise_trap, enter_S, Cpu, PRIV_S, PRIV_M
  <2>4. cpu'.mstatus \cap SSTATUS_MASK = c.mstatus \cap SSTATUS_MASK
    <3>1. cpu'.mstatus = ((put(c.mstatus, MSTATUS_MPIE, MSTATUS_MIE \in c.mstatus)
                            \ {MSTATUS_MIE}) \ MSTATUS_MPP) \cup mpp_bits(c.mode)
      BY <2>3 DEF enter_M, Cpu
    <3> QED
      BY <3>1 DEF put, mpp_bits, MSTATUS_MIE, MSTATUS_MPIE, MSTATUS_MPP, SSTATUS_MASK,
                  MSTATUS_SIE, MSTATUS_SPIE, MSTATUS_SPP
  <2>5. /\ cpu'.sepc = c.sepc /\ cpu'.scause = c.scause /\ cpu'.stval = c.stval
        /\ cpu'.stvec = c.stvec /\ cpu'.mie = c.mie
    BY <2>3 DEF enter_M, Cpu
  <2> QED
    BY <2>2, <2>4, <2>5 DEF SupervisorView
<1> QED
  BY <1>1, TypeCorrect, PTL DEF Spec, MachineTrapSparesSupervisor

\* The two trap levels are distinct modes.
LEMMA ModesDiffer == PRIV_M # PRIV_S
BY DEF PRIV_M, PRIV_S

\* What a trap into S records of the state it leaves.
LEMMA EnterSRecord ==
    ASSUME NEW c \in Cpu, NEW cause \in Interrupts, delegated(c, cause, TRUE),
           cpu' = raise_trap(c, cause, TRUE, 0)
    PROVE  /\ cpu' \in Cpu /\ cpu'.mode = PRIV_S /\ CauseTaken' = cause
           /\ cpu'.mip = c.mip /\ cpu'.mie = c.mie /\ cpu'.mideleg = c.mideleg
           /\ cpu'.mstatus = put(put(c.mstatus, MSTATUS_SPIE, MSTATUS_SIE \in c.mstatus)
                                    \ {MSTATUS_SIE}, MSTATUS_SPP, c.mode = PRIV_S)
<1>0. cpu' = enter_S(c, cause, TRUE, 0)
  BY DEF raise_trap
<1>1. 0 \in Addr /\ cause \in Bits
  BY AddrSpaceAssumption DEF Addr, Interrupts, Bits
<1>2. cpu' \in Cpu
  BY <1>0, <1>1, EnterSType
<1>3. cpu'.mode = PRIV_S /\ cpu'.mip = c.mip /\ cpu'.mie = c.mie /\ cpu'.mideleg = c.mideleg
  BY <1>0 DEF enter_S, Cpu
<1>4. cpu'.mstatus = put(put(c.mstatus, MSTATUS_SPIE, MSTATUS_SIE \in c.mstatus)
                            \ {MSTATUS_SIE}, MSTATUS_SPP, c.mode = PRIV_S)
  BY <1>0 DEF enter_S, Cpu
<1>5. cpu'.scause.code = cause
  <2>1. cpu'.scause = [interrupt |-> TRUE, code |-> cause]
    BY <1>0 DEF enter_S, Cpu
  <2>2. [interrupt |-> TRUE, code |-> cause].code = cause
    OBVIOUS
  <2> QED
    BY <2>1, <2>2, Zenon
<1>6. CauseTaken' = cause
  BY <1>3, <1>5 DEF CauseTaken
<1> QED
  BY <1>2, <1>3, <1>4, <1>6

\* What a trap into M records of the state it leaves.
LEMMA EnterMRecord ==
    ASSUME NEW c \in Cpu, NEW cause \in Interrupts, ~delegated(c, cause, TRUE),
           cpu' = raise_trap(c, cause, TRUE, 0)
    PROVE  /\ cpu' \in Cpu /\ cpu'.mode = PRIV_M /\ CauseTaken' = cause
           /\ cpu'.mip = c.mip /\ cpu'.mie = c.mie /\ cpu'.mideleg = c.mideleg
           /\ cpu'.mstatus = ((put(c.mstatus, MSTATUS_MPIE, MSTATUS_MIE \in c.mstatus)
                                \ {MSTATUS_MIE}) \ MSTATUS_MPP) \cup mpp_bits(c.mode)
<1>0. cpu' = enter_M(c, cause, TRUE, 0)
  BY DEF raise_trap
<1>1. 0 \in Addr /\ cause \in Bits
  BY AddrSpaceAssumption DEF Addr, Interrupts, Bits
<1>2. cpu' \in Cpu
  BY <1>0, <1>1, EnterMType
<1>3. cpu'.mode = PRIV_M /\ cpu'.mip = c.mip /\ cpu'.mie = c.mie /\ cpu'.mideleg = c.mideleg
  BY <1>0 DEF enter_M, Cpu
<1>4. cpu'.mstatus = ((put(c.mstatus, MSTATUS_MPIE, MSTATUS_MIE \in c.mstatus)
                                \ {MSTATUS_MIE}) \ MSTATUS_MPP) \cup mpp_bits(c.mode)
  BY <1>0 DEF enter_M, Cpu
<1>5. cpu'.mcause.code = cause
  <2>1. cpu'.mcause = [interrupt |-> TRUE, code |-> cause]
    BY <1>0 DEF enter_M, Cpu
  <2>2. [interrupt |-> TRUE, code |-> cause].code = cause
    OBVIOUS
  <2> QED
    BY <2>1, <2>2, Zenon
<1>6. CauseTaken' = cause
  BY <1>3, <1>5, ModesDiffer, Zenon DEF CauseTaken
<1> QED
  BY <1>2, <1>3, <1>4, <1>6

\* The state recovered from what a trap saved allows the same interrupts as the
\* state that was interrupted, and the cause is the one that was raised.
LEMMA TrapSavesEnough ==
    ASSUME NEW c \in Cpu, NEW cause \in Interrupts,
           cpu' = raise_trap(c, cause, TRUE, 0), Sane(Interrupted')
    PROVE  /\ CauseTaken' = cause
           /\ \A i \in Interrupts : takes(c, i) <=> i \in Deliverable(Interrupted')
<1> DEFINE before == Interrupted'
<1>0. c.mstatus \in SUBSET Bits /\ c.mode \in Mode
  BY DEF Cpu
<1>1. CASE delegated(c, cause, TRUE)
  <2> DEFINE saved == put(put(c.mstatus, MSTATUS_SPIE, MSTATUS_SIE \in c.mstatus) \ {MSTATUS_SIE},
                          MSTATUS_SPP, c.mode = PRIV_S)
  <2>1. CauseTaken' = cause
    BY <1>1, EnterSRecord
  <2>2. /\ cpu' \in Cpu /\ cpu'.mode = PRIV_S /\ cpu'.mstatus = saved
        /\ cpu'.mip = c.mip /\ cpu'.mie = c.mie /\ cpu'.mideleg = c.mideleg
    BY <1>1, EnterSRecord
  <2> DEFINE mode == IF MSTATUS_SPP \in saved THEN PRIV_S ELSE PRIV_U
             mstatus == put(saved, MSTATUS_SIE, MSTATUS_SPIE \in saved)
  <2>3. before = [cpu' EXCEPT !.mode = mode, !.mstatus = mstatus]
    BY <2>2 DEF Interrupted
  <2> HIDE DEF mode, mstatus, saved
  <2>4. /\ before.mode = mode /\ before.mstatus = mstatus
        /\ before.mip = c.mip /\ before.mie = c.mie /\ before.mideleg = c.mideleg
    BY <2>2, <2>3 DEF Cpu
  <2>5. mode = IF c.mode = PRIV_S THEN PRIV_S ELSE PRIV_U
    BY DEF mode, saved, put, MSTATUS_SPP, MSTATUS_SPIE, MSTATUS_SIE
  <2>6. MSTATUS_SIE \in mstatus <=> MSTATUS_SIE \in c.mstatus
    BY DEF mstatus, saved, put, MSTATUS_SPP, MSTATUS_SPIE, MSTATUS_SIE
  <2>7. c.mode # PRIV_M
    BY <1>1 DEF delegated
  <2>8. \A i \in Interrupts : takes(c, i) <=> i \in Deliverable(before)
    <3> TAKE i \in Interrupts
    <3> HIDE DEF before
    <3>1. takes(c, i) <=> /\ i \in c.mip \cap c.mie
                          /\ ~(i \in c.mideleg \ MachineInterrupts /\ c.mode = PRIV_S
                               /\ MSTATUS_SIE \notin c.mstatus)
      BY <2>7 DEF takes, delegated, mideleg_masked
    <3>2. CASE c.mode = PRIV_S
      BY <2>4, <2>5, <2>6, <3>1, <3>2 DEF Deliverable, Target, PRIV_S, PRIV_M, PRIV_U
    <3>3. CASE c.mode # PRIV_S
      BY <2>4, <2>5, <2>6, <3>1, <3>3 DEF Deliverable, Target, PRIV_S, PRIV_M, PRIV_U
    <3> QED
      BY <3>2, <3>3
  <2> QED
    BY <2>1, <2>8
<1>2. CASE ~delegated(c, cause, TRUE)
  <2> DEFINE low == put(c.mstatus, MSTATUS_MPIE, MSTATUS_MIE \in c.mstatus) \ {MSTATUS_MIE}
             saved == (low \ MSTATUS_MPP) \cup mpp_bits(c.mode)
  <2>1. CauseTaken' = cause
    BY <1>2, EnterMRecord
  <2>2. /\ cpu' \in Cpu /\ cpu'.mode = PRIV_M /\ cpu'.mstatus = saved
        /\ cpu'.mip = c.mip /\ cpu'.mie = c.mie /\ cpu'.mideleg = c.mideleg
    BY <1>2, EnterMRecord
  <2> DEFINE mstatus == put(saved, MSTATUS_MIE, MSTATUS_MPIE \in saved)
  <2>3. before = [cpu' EXCEPT !.mode = mpp_of(saved), !.mstatus = mstatus]
    <3>1. cpu'.mode # PRIV_S
      BY <2>2, ModesDiffer, Zenon
    <3>2. cpu'.mstatus = saved
      BY <2>2
    <3> HIDE DEF saved
    <3> QED
      BY <3>1, <3>2 DEF Interrupted
  <2>4. mpp_of(saved) = c.mode
    <3>1. low \in SUBSET Bits
      BY <1>0 DEF put, Bits, MSTATUS_MPIE
    <3> QED
      BY <1>0, <3>1, MppRoundTrip
  <2>5. /\ MSTATUS_MIE \in mstatus <=> MSTATUS_MIE \in c.mstatus
        /\ MSTATUS_SIE \in mstatus <=> MSTATUS_SIE \in c.mstatus
    BY DEF put, mpp_bits, MSTATUS_MIE, MSTATUS_MPIE, MSTATUS_MPP, MSTATUS_SIE
  <2> HIDE DEF mstatus, saved, low
  <2>6. /\ before.mode = c.mode /\ before.mstatus = mstatus
        /\ before.mip = c.mip /\ before.mie = c.mie /\ before.mideleg = c.mideleg
    BY <2>2, <2>3, <2>4 DEF Cpu
  <2>7. \A i \in Interrupts : takes(c, i) <=> i \in Deliverable(before)
    <3> TAKE i \in Interrupts
    <3> HIDE DEF before
    <3>1. takes(c, i) <=> i \in Deliverable(c)
      <4>1. Sane(c)
        BY <2>6 DEF before, Sane
      <4> QED
        BY <4>1, TakesIffDeliverable
    <3>2. Deliverable(before) = Deliverable(c)
      BY <2>5, <2>6 DEF Deliverable, Target
    <3> QED
      BY <3>1, <3>2
  <2> QED
    BY <2>1, <2>7
<1> QED
  BY <1>1, <1>2

\* The order of the loop in check_interrupt is the architecture's rank.
LEMMA PriorityIsRank == \A k \in 1 .. 6 : Rank[PRIORITY[k]] = k
<1> USE DEF PRIORITY, MACHINE_EXTERNAL_INTERRUPT, MACHINE_SOFTWARE_INTERRUPT,
       MACHINE_TIMER_INTERRUPT, SUPERVISOR_EXTERNAL_INTERRUPT,
       SUPERVISOR_SOFTWARE_INTERRUPT, SUPERVISOR_TIMER_INTERRUPT
<1>1. PRIORITY[1] = 11 /\ PRIORITY[2] = 3 /\ PRIORITY[3] = 7
  OBVIOUS
<1>2. PRIORITY[4] = 9 /\ PRIORITY[5] = 1 /\ PRIORITY[6] = 5
  OBVIOUS
<1>3. Rank[11] = 1 /\ Rank[3] = 2 /\ Rank[7] = 3 /\ Rank[9] = 4 /\ Rank[1] = 5 /\ Rank[5] = 6
  BY DEF Rank, Interrupts
<1> QED
  BY <1>1, <1>2, <1>3

\* Of the interrupts that the interrupted state allowed, the one that is taken
\* has the highest rank.
THEOREM TakesHighest == Spec => []TakesHighestDeliverable
<1> USE DEF TakesHighestDeliverable, JustTrapped
<1>1. Init => TakesHighestDeliverable
  BY DEF Init
<1>2. TypeOK /\ TakesHighestDeliverable /\ [Next]_vars => TakesHighestDeliverable'
  <2> SUFFICES ASSUME TypeOK, TakesHighestDeliverable, [Next]_vars,
                      phase' = "execute", took', Sane(Interrupted')
               PROVE  /\ CauseTaken' \in Deliverable(Interrupted')
                      /\ \A i \in Deliverable(Interrupted') : Rank[CauseTaken'] <= Rank[i]
    BY DEF Sane, Deliverable, Target
  <2>1. CASE UNCHANGED vars
    BY <2>1 DEF vars, Sane, Deliverable, Target, Interrupted, CauseTaken
  <2>2. CASE Fetch
    <3>1. PICK mtip, seip \in BOOLEAN :
            /\ cpu' = deliver(sample(cpu, mtip, seip))
            /\ took' = interrupt_taken(sample(cpu, mtip, seip))
      BY <2>2 DEF Fetch
    <3> DEFINE c == sample(cpu, mtip, seip)
               k == first_taken(c)
    <3>2. c \in Cpu
      BY SampleType DEF TypeOK
    <3> HIDE DEF c
    <3>3. k # 0 /\ cpu' = raise_trap(c, PRIORITY[k], TRUE, 0)
      BY <3>1 DEF c, interrupt_taken, deliver
    <3>4. /\ k \in 1 .. 6 /\ takes(c, PRIORITY[k])
          /\ \A j \in 1 .. (k - 1) : ~takes(c, PRIORITY[j])
      BY <3>3, FirstTaken
    <3> HIDE DEF k
    <3>5. PRIORITY[k] \in Interrupts
      BY <3>4, PriorityRange
    <3>6. /\ CauseTaken' = PRIORITY[k]
          /\ \A i \in Interrupts : takes(c, i) <=> i \in Deliverable(Interrupted')
      BY <3>2, <3>3, <3>5, TrapSavesEnough
    <3>7. ASSUME NEW i \in Deliverable(Interrupted') PROVE Rank[CauseTaken'] <= Rank[i]
      <4>1. i \in Interrupts
        BY <3>7 DEF Deliverable
      <4>2. PICK j \in 1 .. 6 : PRIORITY[j] = i
        BY <4>1, PriorityCovers
      <4>3. takes(c, PRIORITY[j])
        BY <3>6, <3>7, <4>1, <4>2
      <4>4. j \notin 1 .. (k - 1)
        BY <3>4, <4>3
      <4>5. k <= j
        BY <3>4, <4>4
      <4> QED
        BY <3>4, <3>6, <4>2, <4>5, PriorityIsRank
    <3> QED
      BY <3>4, <3>5, <3>6, <3>7
  <2> QED
    BY <2>1, <2>2, OnlyFetchEntersExecute
<1> QED
  BY <1>1, <1>2, TypeCorrect, PTL DEF Spec

-----------------------------------------------------------------------------
(* Nested traps. *)

\* FramesHeld is inductive together with the types and the fact that nobody
\* changes the delegation registers.
Framed == sframe \in Frame /\ mframe \in Frame

NestInv == /\ TypeOK /\ Framed
           /\ FramesHeld
           /\ cpu.medeleg = MEDELEG

\* What a trap into S does to each register of the hart.
LEMMA EnterSFields ==
    ASSUME NEW c \in Cpu, NEW cause \in Bits, NEW i \in BOOLEAN,
           NEW d, d = enter_S(c, cause, i, 0)
    PROVE  /\ d \in Cpu
           /\ d.mode = PRIV_S /\ d.sepc = c.pc /\ d.mepc = c.mepc /\ d.medeleg = c.medeleg
           /\ MSTATUS_SIE \notin d.mstatus
           /\ MSTATUS_SPIE \in d.mstatus <=> MSTATUS_SIE \in c.mstatus
           /\ MSTATUS_SPP \in d.mstatus <=> c.mode = PRIV_S
<1> USE DEF MSTATUS_SIE, MSTATUS_SPIE, MSTATUS_SPP
<1>1. 0 \in Addr
  BY AddrSpaceAssumption DEF Addr
<1>2. d \in Cpu
  BY <1>1, EnterSType
<1>3. d.mode = PRIV_S /\ d.sepc = c.pc /\ d.mepc = c.mepc /\ d.medeleg = c.medeleg
  BY DEF enter_S, Cpu
<1>4. d.mstatus = put(put(c.mstatus, MSTATUS_SPIE, MSTATUS_SIE \in c.mstatus) \ {MSTATUS_SIE},
                      MSTATUS_SPP, c.mode = PRIV_S)
  BY DEF enter_S, Cpu
<1> QED
  BY <1>2, <1>3, <1>4 DEF put

\* What a trap into M does: the supervisor's bits of mstatus do not move.
LEMMA EnterMFields ==
    ASSUME NEW c \in Cpu, NEW cause \in Bits, NEW i \in BOOLEAN,
           NEW d, d = enter_M(c, cause, i, 0)
    PROVE  /\ d \in Cpu
           /\ d.mode = PRIV_M /\ d.mepc = c.pc /\ d.sepc = c.sepc /\ d.medeleg = c.medeleg
           /\ MSTATUS_MIE \notin d.mstatus
           /\ MSTATUS_MPIE \in d.mstatus <=> MSTATUS_MIE \in c.mstatus
           /\ mpp_of(d.mstatus) = c.mode
           /\ d.mstatus \cap SSTATUS_MASK = c.mstatus \cap SSTATUS_MASK
<1>1. 0 \in Addr
  BY AddrSpaceAssumption DEF Addr
<1>2. d \in Cpu
  BY <1>1, EnterMType
<1>3. d.mode = PRIV_M /\ d.mepc = c.pc /\ d.sepc = c.sepc /\ d.medeleg = c.medeleg
  BY DEF enter_M, Cpu
<1> DEFINE low == put(c.mstatus, MSTATUS_MPIE, MSTATUS_MIE \in c.mstatus) \ {MSTATUS_MIE}
<1>4. d.mstatus = (low \ MSTATUS_MPP) \cup mpp_bits(c.mode)
  BY DEF enter_M, Cpu
<1>5. low \in SUBSET Bits
  BY DEF put, Cpu, Bits, MSTATUS_MPIE
<1>6. mpp_of(d.mstatus) = c.mode
  BY <1>4, <1>5, MppRoundTrip DEF Cpu
<1>7. /\ MSTATUS_MIE \notin d.mstatus
      /\ MSTATUS_MPIE \in d.mstatus <=> MSTATUS_MIE \in c.mstatus
  BY <1>4 DEF put, mpp_bits, MSTATUS_MIE, MSTATUS_MPIE, MSTATUS_MPP
<1>8. d.mstatus \cap SSTATUS_MASK = c.mstatus \cap SSTATUS_MASK
  BY <1>4 DEF put, mpp_bits, MSTATUS_MIE, MSTATUS_MPIE, MSTATUS_MPP, SSTATUS_MASK,
              MSTATUS_SIE, MSTATUS_SPIE, MSTATUS_SPP
<1> QED
  BY <1>2, <1>3, <1>6, <1>7, <1>8

\* A trap that does not find its own level busy keeps the frames: it is the
\* common part of an interrupt in Fetch and of Ecall.
LEMMA TrapKeepsFrames ==
    ASSUME NestInv, NEW c \in Cpu,
           c.mode = cpu.mode, c.mstatus = cpu.mstatus, c.mepc = cpu.mepc,
           c.sepc = cpu.sepc, c.medeleg = cpu.medeleg,
           NEW cause \in Bits, NEW i \in BOOLEAN,
           ~mframe.live, delegated(c, cause, i) => ~sframe.live,
           c.pc = cpu.pc, cpu' = raise_trap(c, cause, i, 0), Remember, TypeOK'
    PROVE  /\ NestInv'
           /\ sframe.live => sframe' = sframe
<1> USE DEF SSTATUS_MASK, MSTATUS_SIE, MSTATUS_SPIE, MSTATUS_SPP,
            MSTATUS_MIE, MSTATUS_MPIE, PRIV_U, PRIV_S, PRIV_M
<1>0. c.mode \in {PRIV_U, PRIV_S}
  BY DEF NestInv, FramesHeld, MachineFrameHeld
<1>a. c.mode \in Mode /\ c.pc \in Addr
  BY DEF Cpu
<1>1. CASE delegated(c, cause, i)
  <2>1. cpu' = enter_S(c, cause, i, 0)
    BY <1>1 DEF raise_trap
  <2>2. /\ cpu' \in Cpu
        /\ cpu'.mode = PRIV_S /\ cpu'.sepc = c.pc /\ cpu'.mepc = c.mepc
        /\ cpu'.medeleg = c.medeleg
        /\ MSTATUS_SIE \notin cpu'.mstatus
        /\ MSTATUS_SPIE \in cpu'.mstatus <=> MSTATUS_SIE \in c.mstatus
        /\ MSTATUS_SPP \in cpu'.mstatus <=> c.mode = PRIV_S
    BY <2>1, EnterSFields
  <2>3. sframe' = FrameOf(c, MSTATUS_SIE) /\ mframe' = mframe
    BY <2>2 DEF Remember, FrameOf
  <2>4. Framed'
    BY <2>3, <1>a DEF NestInv, Framed, FrameOf, Frame
  <2>5. MachineFrameHeld'
    BY <2>2, <2>3 DEF MachineFrameHeld
  <2>6. SupervisorFrameHeld'
    BY <1>0, <2>2, <2>3 DEF SupervisorFrameHeld, BelowM, FrameOf
  <2> QED
    BY <1>1, <2>2, <2>4, <2>5, <2>6 DEF NestInv, FramesHeld
<1>2. CASE ~delegated(c, cause, i)
  <2>1. cpu' = enter_M(c, cause, i, 0)
    BY <1>2 DEF raise_trap
  <2>2. /\ cpu' \in Cpu
        /\ cpu'.mode = PRIV_M /\ cpu'.mepc = c.pc /\ cpu'.sepc = c.sepc
        /\ cpu'.medeleg = c.medeleg
        /\ MSTATUS_MIE \notin cpu'.mstatus
        /\ MSTATUS_MPIE \in cpu'.mstatus <=> MSTATUS_MIE \in c.mstatus
        /\ mpp_of(cpu'.mstatus) = c.mode
        /\ cpu'.mstatus \cap SSTATUS_MASK = c.mstatus \cap SSTATUS_MASK
    BY <2>1, EnterMFields
  <2>3. mframe' = FrameOf(c, MSTATUS_MIE) /\ sframe' = sframe
    BY <2>2 DEF Remember, FrameOf
  <2>4. Framed'
    BY <2>3, <1>a DEF NestInv, Framed, FrameOf, Frame
  <2>5. MachineFrameHeld'
    BY <1>0, <2>2, <2>3 DEF MachineFrameHeld, FrameOf
  <2>6. SupervisorFrameHeld'
    <3>1. \A b \in SSTATUS_MASK : b \in cpu'.mstatus <=> b \in cpu.mstatus
      BY <2>2
    <3>2. BelowM' = cpu.mode /\ BelowM = cpu.mode
      BY <2>3 DEF BelowM, FrameOf
    <3> QED
      BY <2>2, <2>3, <3>1, <3>2 DEF NestInv, FramesHeld, SupervisorFrameHeld
  <2> QED
    BY <2>2, <2>3, <2>4, <2>5, <2>6 DEF NestInv, FramesHeld
<1> QED
  BY <1>1, <1>2

\* An interrupt that check_interrupt takes does not find its level busy: a
\* live frame has its level's interrupts off.
LEMMA TakenFindsLevelFree ==
    ASSUME NestInv, NEW c \in Cpu, c.mode = cpu.mode, c.mstatus = cpu.mstatus,
           NEW cause \in Interrupts, takes(c, cause)
    PROVE  /\ ~mframe.live
           /\ delegated(c, cause, TRUE) => ~sframe.live
<1>1. ~mframe.live
  BY DEF NestInv, FramesHeld, MachineFrameHeld, takes, delegated
<1>2. ASSUME delegated(c, cause, TRUE), sframe.live PROVE FALSE
  BY <1>1, <1>2 DEF NestInv, FramesHeld, SupervisorFrameHeld, BelowM, takes
<1> QED
  BY <1>1, <1>2

\* The two conjuncts of the action properties.
Overwrites == /\ sframe.live /\ sframe'.live => sframe' = sframe
              /\ mframe.live /\ mframe'.live => mframe' = mframe

Resumes == /\ sframe.live /\ ~sframe'.live =>
                 /\ cpu'.mode = sframe.mode
                 /\ cpu'.pc = sframe.pc
                 /\ (MSTATUS_SIE \in cpu'.mstatus) = sframe.ie
           /\ mframe.live /\ ~mframe'.live =>
                 /\ cpu'.mode = mframe.mode
                 /\ cpu'.pc = mframe.pc
                 /\ (MSTATUS_MIE \in cpu'.mstatus) = mframe.ie

LEMMA FetchStep == ASSUME NestInv, NestFetch, TypeOK' PROVE NestInv' /\ Overwrites /\ Resumes
<1>1. PICK mtip, seip \in BOOLEAN :
        LET c == sample(cpu, mtip, seip)
        IN  cpu' = deliver(c) /\ took' = interrupt_taken(c)
  BY DEF NestFetch, Fetch
<1> DEFINE c == sample(cpu, mtip, seip)
<1>2. c \in Cpu
  BY SampleType DEF NestInv, TypeOK
<1>3. /\ c.mode = cpu.mode /\ c.mstatus = cpu.mstatus /\ c.mepc = cpu.mepc
      /\ c.sepc = cpu.sepc /\ c.medeleg = cpu.medeleg /\ c.pc = cpu.pc
  BY DEF sample, NestInv, TypeOK, Cpu
<1>4. cpu' = deliver(c)
  BY <1>1
<1>5. IF interrupt_taken(c) THEN Remember ELSE UNCHANGED <<sframe, mframe>>
  BY <1>1 DEF NestFetch, frames
<1> HIDE DEF c
<1>6. CASE ~interrupt_taken(c)
  <2>1. cpu' = c /\ UNCHANGED <<sframe, mframe>>
    BY <1>4, <1>5, <1>6, DeliverCases
  <2> QED
    BY <1>3, <2>1 DEF NestInv, Framed, FramesHeld, MachineFrameHeld,
        SupervisorFrameHeld, BelowM, Overwrites, Resumes
<1>7. CASE interrupt_taken(c)
  <2>1. PICK cause \in Interrupts : takes(c, cause) /\ cpu' = raise_trap(c, cause, TRUE, 0)
    BY <1>4, <1>7, DeliverCases
  <2>2. ~mframe.live /\ (delegated(c, cause, TRUE) => ~sframe.live)
    BY <1>2, <1>3, <2>1, TakenFindsLevelFree
  <2>3. Remember
    BY <1>5, <1>7
  <2>4. cause \in Bits
    BY DEF Interrupts, Bits
  <2>5. NestInv' /\ (sframe.live => sframe' = sframe)
    BY <1>2, <1>3, <2>1, <2>2, <2>3, <2>4, TrapKeepsFrames
  <2> QED
    BY <2>2, <2>5 DEF Overwrites, Resumes
<1> QED
  BY <1>6, <1>7

LEMMA EcallStep == ASSUME NestInv, NestEcall, TypeOK' PROVE NestInv' /\ Overwrites /\ Resumes
<1>1. cpu \in Cpu /\ cpu.mode # PRIV_M /\ ~mframe.live
  BY DEF NestEcall, NestInv, TypeOK, FramesHeld, MachineFrameHeld
<1>2. 8 + cpu.mode \in Bits
  BY <1>1 DEF Cpu, Mode, Bits
<1>3. cpu' = raise_trap(cpu, 8 + cpu.mode, FALSE, 0) /\ Remember
  BY DEF NestEcall, Ecall, Execute, ecall
<1>4. delegated(cpu, 8 + cpu.mode, FALSE) => ~sframe.live
  <2> SUFFICES ASSUME sframe.live, 8 + cpu.mode \in cpu.medeleg PROVE FALSE
    BY DEF delegated
  <2>1. cpu.mode = PRIV_S
    BY <1>1 DEF NestInv, FramesHeld, SupervisorFrameHeld, BelowM
  <2> QED
    BY <2>1 DEF NestEcall, NestInv, PRIV_S
<1>5. NestInv' /\ (sframe.live => sframe' = sframe)
  BY <1>1, <1>2, <1>3, <1>4, TrapKeepsFrames
<1> QED
  BY <1>1, <1>5 DEF Overwrites, Resumes

LEMMA SretStep == ASSUME NestInv, NestSret, TypeOK' PROVE NestInv' /\ Overwrites /\ Resumes
<1> USE DEF MSTATUS_SIE, MSTATUS_SPIE, MSTATUS_SPP, PRIV_U, PRIV_S, PRIV_M
<1>1. cpu \in Cpu /\ cpu.mode = PRIV_S /\ ~mframe.live
  BY DEF NestSret, NestInv, TypeOK, FramesHeld, MachineFrameHeld
<1>2. cpu' = sret(cpu) /\ sframe' = NoFrame /\ mframe' = mframe
  BY DEF NestSret, Sret, Execute
<1>3. cpu' \in Cpu
  BY DEF TypeOK
<1>4. /\ cpu'.mode = (IF MSTATUS_SPP \in cpu.mstatus THEN 1 ELSE 0)
      /\ cpu'.pc = cpu.sepc /\ cpu'.medeleg = cpu.medeleg
      /\ MSTATUS_SIE \in cpu'.mstatus <=> MSTATUS_SPIE \in cpu.mstatus
  BY <1>1, <1>2 DEF sret, Cpu, put
<1>5. NoFrame \in Frame /\ ~NoFrame.live
  BY AddrSpaceAssumption DEF NoFrame, Frame, Mode, Addr
<1>6. Framed'
  BY <1>2, <1>5 DEF NestInv, Framed
<1>7. MachineFrameHeld' /\ SupervisorFrameHeld' /\ cpu'.mode \in {PRIV_U, PRIV_S}
  BY <1>1, <1>2, <1>4, <1>5 DEF MachineFrameHeld, SupervisorFrameHeld
<1>8. Overwrites
  BY <1>1, <1>2, <1>5 DEF Overwrites
<1>9. Resumes
  BY <1>1, <1>2, <1>4 DEF Resumes, NestInv, FramesHeld, SupervisorFrameHeld
<1> QED
  BY <1>4, <1>6, <1>7, <1>8, <1>9 DEF NestInv, FramesHeld

LEMMA MretStep == ASSUME NestInv, NestMret, TypeOK' PROVE NestInv' /\ Overwrites /\ Resumes
<1> USE DEF MSTATUS_SIE, MSTATUS_SPIE, MSTATUS_SPP, MSTATUS_MIE, MSTATUS_MPIE,
            PRIV_U, PRIV_S, PRIV_M
<1>1. cpu \in Cpu /\ cpu.mode = PRIV_M /\ mframe.live
  BY DEF NestMret, NestInv, TypeOK, FramesHeld, MachineFrameHeld
<1>2. cpu' = mret(cpu) /\ mframe' = NoFrame /\ sframe' = sframe
  BY DEF NestMret, Mret, Execute
<1>3. cpu' \in Cpu
  BY DEF TypeOK
<1>4. /\ cpu'.mode = mpp_of(cpu.mstatus) /\ cpu'.pc = cpu.mepc
      /\ cpu'.sepc = cpu.sepc /\ cpu'.medeleg = cpu.medeleg
      /\ cpu'.mstatus = (put(cpu.mstatus, MSTATUS_MIE, MSTATUS_MPIE \in cpu.mstatus)
                          \cup {MSTATUS_MPIE}) \ MSTATUS_MPP
  BY <1>1, <1>2 DEF mret, Cpu
<1>5. /\ MSTATUS_MIE \in cpu'.mstatus <=> MSTATUS_MPIE \in cpu.mstatus
      /\ MSTATUS_SIE \in cpu'.mstatus <=> MSTATUS_SIE \in cpu.mstatus
      /\ MSTATUS_SPIE \in cpu'.mstatus <=> MSTATUS_SPIE \in cpu.mstatus
      /\ MSTATUS_SPP \in cpu'.mstatus <=> MSTATUS_SPP \in cpu.mstatus
  BY <1>4 DEF put, MSTATUS_MPP
<1>6. NoFrame \in Frame /\ ~NoFrame.live
  BY AddrSpaceAssumption DEF NoFrame, Frame, Mode, Addr
<1>7. Framed'
  BY <1>2, <1>6 DEF NestInv, Framed
<1>8. cpu'.mode = mframe.mode /\ cpu'.mode \in {PRIV_U, PRIV_S}
  BY <1>1, <1>4 DEF NestInv, FramesHeld, MachineFrameHeld
<1>9. MachineFrameHeld'
  BY <1>2, <1>6, <1>8 DEF MachineFrameHeld
<1>10. SupervisorFrameHeld'
  <2>1. BelowM' = BelowM
    BY <1>1, <1>2, <1>6, <1>8 DEF BelowM
  <2> QED
    BY <1>2, <1>4, <1>5, <2>1 DEF NestInv, FramesHeld, SupervisorFrameHeld
<1>11. Overwrites /\ Resumes
  BY <1>1, <1>2, <1>4, <1>5, <1>6 DEF Overwrites, Resumes, NestInv, FramesHeld, MachineFrameHeld
<1> QED
  BY <1>4, <1>7, <1>8, <1>9, <1>10, <1>11 DEF NestInv, FramesHeld

LEMMA OtherStep == ASSUME NestInv, NestOther, TypeOK' PROVE NestInv' /\ Overwrites /\ Resumes
<1>1. PICK t \in Targets : cpu' = [cpu EXCEPT !.pc = t]
  BY DEF NestOther, Other, Execute
<1>2. cpu \in Cpu /\ UNCHANGED <<sframe, mframe>>
  BY DEF NestOther, frames, NestInv, TypeOK
<1>3. /\ cpu'.mode = cpu.mode /\ cpu'.mstatus = cpu.mstatus
      /\ cpu'.mepc = cpu.mepc /\ cpu'.sepc = cpu.sepc /\ cpu'.medeleg = cpu.medeleg
  BY <1>1, <1>2 DEF Cpu
<1> QED
  BY <1>2, <1>3 DEF NestInv, Framed, FramesHeld, MachineFrameHeld, SupervisorFrameHeld, BelowM,
      Overwrites, Resumes

\* None of the guest's CSR instructions moves the mode or medeleg, and those a
\* handler may use leave all the trap registers alone.
LEMMA CsrFields ==
    ASSUME NEW c \in Cpu, NEW op, NEW rs1, NEW csr,
           csr \in {"sie", "sip", "mie", "mip", "sstatus", "sepc"},
           NEW d, d = execute_csr(c, op, csr, rs1)
    PROVE  /\ d.mode = c.mode /\ d.medeleg = c.medeleg
           /\ csr \in {"sie", "sip", "mie", "mip"} =>
                 d.mstatus = c.mstatus /\ d.mepc = c.mepc /\ d.sepc = c.sepc
<1> DEFINE v == csr_value(op, csr_read(c, csr), rs1)
<1> HIDE DEF v
<1>0. d = [csr_write(c, csr, v) EXCEPT !.pc = default_next(c.pc)]
  BY DEF execute_csr, v
<1> USE DEF AliasCsr, Alias, Cpu
<1>1. CASE csr = "sstatus"
  <2>1. csr_write(c, csr, v) =
          [c EXCEPT !.mstatus = (@ \ SSTATUS_MASK) \cup (v \cap SSTATUS_MASK)]
    BY <1>1 DEF csr_write
  <2> QED
    BY <1>0, <1>1, <2>1
<1>2. CASE csr = "sie"
  <2>1. csr_write(c, csr, v) = [c EXCEPT !.mie = (@ \ SIE_MASK) \cup (v \cap SIE_MASK)]
    BY <1>2 DEF csr_write
  <2> QED
    BY <1>0, <2>1
<1>3. CASE csr = "sip"
  <2>1. csr_write(c, csr, v) = [c EXCEPT !.mip = (@ \ SIP_MASK) \cup (v \cap SIP_MASK)]
    BY <1>3 DEF csr_write
  <2> QED
    BY <1>0, <2>1
<1>4. CASE csr \in {"mie", "mip", "sepc"}
  <2>1. csr_write(c, csr, v) = [c EXCEPT ![csr] = v]
    BY <1>4 DEF csr_write
  <2> QED
    BY <1>0, <1>4, <2>1
<1> QED
  BY <1>1, <1>2, <1>3, <1>4

LEMMA CsrStep == ASSUME NestInv, NestCsrInstr, TypeOK' PROVE NestInv' /\ Overwrites /\ Resumes
<1>1. PICK i \in CsrInstrs : MayWrite(i.csr) /\ cpu' = execute_csr(cpu, i.op, i.csr, i.rs1)
  BY DEF NestCsrInstr, Execute
<1>2. cpu \in Cpu /\ UNCHANGED <<sframe, mframe>>
  BY DEF NestCsrInstr, frames, NestInv, TypeOK
<1>3. i.csr \in {"sie", "sip", "mie", "mip", "sstatus", "sepc"}
  BY NestAssumption
<1>5. /\ cpu'.mode = cpu.mode /\ cpu'.medeleg = cpu.medeleg
      /\ i.csr \in {"sie", "sip", "mie", "mip"} =>
            cpu'.mstatus = cpu.mstatus /\ cpu'.mepc = cpu.mepc /\ cpu'.sepc = cpu.sepc
  BY <1>1, <1>2, <1>3, CsrFields
<1>6. Framed' /\ Overwrites /\ Resumes
  BY <1>2 DEF NestInv, Framed, Overwrites, Resumes
<1>7. CASE i.csr \in {"sie", "sip", "mie", "mip"}
  BY <1>2, <1>5, <1>6, <1>7 DEF NestInv, FramesHeld, MachineFrameHeld, SupervisorFrameHeld, BelowM
<1>8. CASE i.csr \in {"sstatus", "sepc"}
  <2>1. cpu.mode = PRIV_S /\ ~sframe.live
    BY <1>1, <1>8 DEF MayWrite
  <2>2. ~mframe.live
    BY <2>1 DEF NestInv, FramesHeld, MachineFrameHeld, PRIV_S, PRIV_M
  <2> QED
    BY <1>2, <1>5, <1>6, <2>1, <2>2 DEF NestInv, FramesHeld, MachineFrameHeld, SupervisorFrameHeld
<1> QED
  BY <1>3, <1>7, <1>8

LEMMA NestInitHolds == NestInit => NestInv
<1> SUFFICES ASSUME NestInit PROVE NestInv
  OBVIOUS
<1>1. 0 \in Addr
  BY AddrSpaceAssumption DEF Addr
<1>2. cpu \in Cpu
  <2>1. PRIV_S \in Mode
    BY DEF PRIV_S, Mode
  <2>2. {1, 5, 7, 9} \in SUBSET Bits /\ {33, 35, MSTATUS_MPIE} \in SUBSET Bits
    BY DEF Bits, MSTATUS_MPIE
  <2>3. MIDELEG \in SUBSET Bits /\ MEDELEG \in SUBSET Bits /\ MTVEC \in Addr /\ STVEC \in Addr
    BY NestAssumption
  <2>4. new_cpu(0) \in Cpu
    BY <1>1, NewCpuType
  <2> QED
    BY <2>1, <2>2, <2>3, <2>4 DEF NestInit, Cpu
<1>3. cpu.mode = PRIV_S /\ cpu.medeleg = MEDELEG
  BY <1>1, NewCpuType DEF NestInit, Cpu
<1>4. NoFrame \in Frame /\ ~NoFrame.live
  BY <1>1 DEF NoFrame, Frame, Mode
<1>5. TypeOK
  BY <1>2 DEF NestInit, TypeOK
<1>6. sframe = NoFrame /\ mframe = NoFrame
  BY DEF NestInit
<1>7. MachineFrameHeld /\ SupervisorFrameHeld
  BY <1>3, <1>4, <1>6 DEF MachineFrameHeld, SupervisorFrameHeld, PRIV_S, PRIV_M
<1> QED
  BY <1>3, <1>4, <1>5, <1>6, <1>7 DEF NestInv, Framed, FramesHeld

\* The guest of TrapNest is one of those of Trap.
LEMMA NestIsTrap == [NestNext]_nest_vars => [Next]_vars
BY DEF NestNext, NestFetch, NestCsrInstr, NestEcall, NestSret, NestMret, NestOther,
       Next, CsrInstr, nest_vars

LEMMA StepHolds ==
  ASSUME NestInv, [NestNext]_nest_vars
  PROVE  NestInv' /\ ((Overwrites /\ Resumes) \/ UNCHANGED nest_vars)
<1>0. TypeOK'
  BY NestIsTrap, TypeStep DEF NestInv
<1>1. CASE UNCHANGED nest_vars
  BY <1>0, <1>1 DEF nest_vars, vars, frames, NestInv, TypeOK, Framed, FramesHeld, MachineFrameHeld, SupervisorFrameHeld, BelowM
<1> QED
  BY <1>0, <1>1, FetchStep, CsrStep, EcallStep, SretStep, MretStep, OtherStep DEF NestNext

LEMMA Inductive == NestSpec => []NestInv
BY NestInitHolds, StepHolds, PTL DEF NestSpec

\* While a handler runs, and through every machine trap taken inside it, the
\* trap registers of its level still describe the code it interrupted.
THEOREM FramesAlwaysHeld == NestSpec => []FramesHeld
<1>1. NestInv => FramesHeld
  BY DEF NestInv
<1> QED
  BY <1>1, Inductive, PTL

\* No trap is ever delivered on top of an unreturned trap of its own level.
THEOREM NeverOverwritten == NestSpec => NoFrameOverwritten
<1>1. NestInv /\ [NestNext]_nest_vars => [Overwrites]_nest_vars
  BY StepHolds
<1> QED
  BY <1>1, Inductive, PTL DEF NestSpec, NoFrameOverwritten, Overwrites

\* Every SRET and MRET out of a handler resumes exactly the code that the
\* trap interrupted: its pc, its mode and its interrupt enable.
THEOREM ReturnsResume == NestSpec => ReturnResumesInterrupted
<1>1. NestInv /\ [NestNext]_nest_vars => [Resumes]_nest_vars
  BY StepHolds
<1> QED
  BY <1>1, Inductive, PTL DEF NestSpec, ReturnResumesInterrupted, Resumes

=============================================================================
