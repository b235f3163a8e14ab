---------------------------- MODULE OperatorLemmas ----------------------------
(***************************************************************************)
(* What the operators of Hart return and preserve, for every Cpu, and what *)
(* the loop of Plic computes, for every number of IRQs.  What a load or a  *)
(* store does to the receive queue of Uart.                                *)
(***************************************************************************)
EXTENDS Hart, Plic, Uart, NumberLemmas, SequenceTheorems

\* Setting or clearing a bit of a mask leaves a mask.
LEMMA PutType ==
    ASSUME NEW m \in SUBSET Bits, NEW b \in Bits, NEW on \in BOOLEAN
    PROVE  put(m, b, on) \in SUBSET Bits
BY DEF put

\* The mode bits written to MPP are read back as the mode.
LEMMA MppRoundTrip ==
    ASSUME NEW mode \in Mode, NEW rest \in SUBSET Bits
    PROVE  mpp_of((rest \ MSTATUS_MPP) \cup mpp_bits(mode)) = mode
BY DEF mpp_bits, mpp_of, MSTATUS_MPP, Mode

LEMMA MppType == ASSUME NEW m PROVE mpp_of(m) \in Mode
BY DEF mpp_of, Mode

\* Dropping the low bits of a vector, and stepping past an instruction, stay
\* in the address space.
LEMMA VectorType == ASSUME NEW a \in Addr PROVE trap_vector(a) \in Addr
BY AddrSpaceAssumption DEF trap_vector, Addr

LEMMA NextType == ASSUME NEW a \in Addr PROVE default_next(a) \in Addr
BY AddrSpaceAssumption DEF default_next, Addr

LEMMA EnterSType ==
    ASSUME NEW c \in Cpu, NEW cause \in Bits, NEW i \in BOOLEAN, NEW tval \in Addr
    PROVE  enter_S(c, cause, i, tval) \in Cpu
<1> DEFINE m == put(put(c.mstatus, MSTATUS_SPIE, MSTATUS_SIE \in c.mstatus) \ {MSTATUS_SIE},
                        MSTATUS_SPP, c.mode = PRIV_S)
<1>1. c.mstatus \in SUBSET Bits /\ c.pc \in Addr /\ c.stvec \in Addr
  BY DEF Cpu
<1>2. m \in SUBSET Bits
  BY <1>1 DEF put, Bits, MSTATUS_SPIE, MSTATUS_SPP, MSTATUS_SIE
<1>3. trap_vector(c.stvec) \in Addr
  BY <1>1, VectorType
<1>4. [interrupt |-> i, code |-> cause] \in Cause
  BY DEF Cause
<1>5. PRIV_S \in Mode
  BY DEF PRIV_S, Mode
<1> HIDE DEF m
<1> QED
  BY <1>1, <1>2, <1>3, <1>4, <1>5 DEF enter_S, Cpu, m

LEMMA EnterMType ==
    ASSUME NEW c \in Cpu, NEW cause \in Bits, NEW i \in BOOLEAN, NEW tval \in Addr
    PROVE  enter_M(c, cause, i, tval) \in Cpu
<1> DEFINE m == ((put(c.mstatus, MSTATUS_MPIE, MSTATUS_MIE \in c.mstatus) \ {MSTATUS_MIE})
                      \ MSTATUS_MPP) \cup mpp_bits(c.mode)
<1>1. c.mstatus \in SUBSET Bits /\ c.pc \in Addr /\ c.mtvec \in Addr /\ c.mode \in Mode
  BY DEF Cpu
<1>2. m \in SUBSET Bits
  <2>1. mpp_bits(c.mode) \in SUBSET Bits
    BY DEF mpp_bits, Bits
  <2>2. put(c.mstatus, MSTATUS_MPIE, MSTATUS_MIE \in c.mstatus) \in SUBSET Bits
    BY <1>1 DEF put, Bits, MSTATUS_MPIE
  <2> QED
    BY <2>1, <2>2
<1>3. trap_vector(c.mtvec) \in Addr
  BY <1>1, VectorType
<1>4. [interrupt |-> i, code |-> cause] \in Cause
  BY DEF Cause
<1>5. PRIV_M \in Mode
  BY DEF PRIV_M, Mode
<1> HIDE DEF m
<1> QED
  BY <1>1, <1>2, <1>3, <1>4, <1>5 DEF enter_M, Cpu, m

LEMMA RaiseTrapType ==
    ASSUME NEW c \in Cpu, NEW cause \in Bits, NEW i \in BOOLEAN, NEW tval \in Addr
    PROVE  raise_trap(c, cause, i, tval) \in Cpu
BY EnterSType, EnterMType DEF raise_trap

LEMMA SampleType ==
    ASSUME NEW c \in Cpu, NEW mtip \in BOOLEAN, NEW seip \in BOOLEAN
    PROVE  sample(c, mtip, seip) \in Cpu
<1> DEFINE m == put(put(c.mip, MIP_MTIP, mtip), MIP_SEIP, seip)
<1>1. c.mip \in SUBSET Bits
  BY DEF Cpu
<1>2. m \in SUBSET Bits
  BY <1>1 DEF put, Bits, MIP_MTIP, MIP_SEIP
<1> HIDE DEF m
<1> QED
  BY <1>2 DEF sample, Cpu, m

\* The loop over PRIORITY: it runs out exactly if it can take nothing, and
\* otherwise stops at the first cause it can take.
LEMMA FirstTaken ==
    ASSUME NEW c
    PROVE  \/ /\ first_taken(c) = 0
              /\ \A i \in 1 .. 6 : ~takes(c, PRIORITY[i])
           \/ /\ first_taken(c) \in 1 .. 6
              /\ takes(c, PRIORITY[first_taken(c)])
              /\ \A j \in 1 .. (first_taken(c) - 1) : ~takes(c, PRIORITY[j])
<1> DEFINE T(i) == takes(c, PRIORITY[i])
           F(i) == T(i) /\ \A j \in 1 .. (i - 1) : ~T(j)
<1>1. CASE \A i \in 1 .. 6 : ~T(i)
  BY <1>1 DEF first_taken
<1>2. CASE \E i \in 1 .. 6 : T(i)
  <2> HIDE DEF T
  <2>1. \E i \in 1 .. 6 : F(i)
    <3>1. CASE T(1)  BY <3>1
    <3>2. CASE ~T(1) /\ T(2)  BY <3>2
    <3>3. CASE ~T(1) /\ ~T(2) /\ T(3)  BY <3>3
    <3>4. CASE ~T(1) /\ ~T(2) /\ ~T(3) /\ T(4)  BY <3>4
    <3>5. CASE ~T(1) /\ ~T(2) /\ ~T(3) /\ ~T(4) /\ T(5)  BY <3>5
    <3>6. CASE ~T(1) /\ ~T(2) /\ ~T(3) /\ ~T(4) /\ ~T(5) /\ T(6)  BY <3>6
    <3> QED  BY <1>2, <3>1, <3>2, <3>3, <3>4, <3>5, <3>6
  <2> USE DEF T
  <2>2. first_taken(c) = CHOOSE i \in 1 .. 6 : F(i)
    BY <1>2 DEF first_taken
  <2> HIDE DEF F
  <2>3. first_taken(c) \in 1 .. 6 /\ F(first_taken(c))
    BY <2>1, <2>2
  <2> QED
    BY <2>3 DEF F
<1> QED
  BY <1>1, <1>2

\* A cause of the loop is one of the six interrupt numbers.
LEMMA PriorityRange == \A i \in 1 .. 6 : PRIORITY[i] \in Interrupts
BY DEF PRIORITY, Interrupts, MACHINE_EXTERNAL_INTERRUPT, MACHINE_SOFTWARE_INTERRUPT,
       MACHINE_TIMER_INTERRUPT, SUPERVISOR_EXTERNAL_INTERRUPT,
       SUPERVISOR_SOFTWARE_INTERRUPT, SUPERVISOR_TIMER_INTERRUPT

\* What check_interrupt does, without the loop: nothing, or a trap on a cause
\* that it could take.
LEMMA DeliverCases ==
    ASSUME NEW c
    PROVE  \/ ~interrupt_taken(c) /\ deliver(c) = c
           \/ /\ interrupt_taken(c)
              /\ \E cause \in Interrupts :
                    takes(c, cause) /\ deliver(c) = raise_trap(c, cause, TRUE, 0)
<1>1. CASE first_taken(c) = 0
  BY <1>1 DEF interrupt_taken, deliver
<1>2. CASE first_taken(c) # 0
  <2>1. first_taken(c) \in 1 .. 6 /\ takes(c, PRIORITY[first_taken(c)])
    BY <1>2, FirstTaken
  <2>2. PRIORITY[first_taken(c)] \in Interrupts
    BY <2>1, PriorityRange
  <2> QED
    BY <1>2, <2>1, <2>2 DEF interrupt_taken, deliver
<1> QED
  BY <1>1, <1>2

LEMMA DeliverType == ASSUME NEW c \in Cpu PROVE deliver(c) \in Cpu /\ interrupt_taken(c) \in BOOLEAN
<1>1. \A cause \in Interrupts : raise_trap(c, cause, TRUE, 0) \in Cpu
  <2>1. Interrupts \subseteq Bits /\ 0 \in Addr
    BY AddrSpaceAssumption DEF Interrupts, Bits, Addr
  <2> QED
    BY <2>1, RaiseTrapType
<1> QED
  BY <1>1, DeliverCases DEF interrupt_taken

LEMMA EcallType == ASSUME NEW c \in Cpu PROVE ecall(c) \in Cpu
<1>1. 8 + c.mode \in Bits /\ 0 \in Addr
  BY AddrSpaceAssumption DEF Cpu, Mode, Bits, Addr
<1> QED
  BY <1>1, RaiseTrapType DEF ecall

LEMMA SretType == ASSUME NEW c \in Cpu PROVE sret(c) \in Cpu
<1> DEFINE m == (put(c.mstatus, MSTATUS_SIE, MSTATUS_SPIE \in c.mstatus) \cup {MSTATUS_SPIE})
                     \ {MSTATUS_SPP}
<1>1. c.mstatus \in SUBSET Bits /\ c.sepc \in Addr
  BY DEF Cpu
<1>2. m \in SUBSET Bits
  BY <1>1 DEF put, Bits, MSTATUS_SIE, MSTATUS_SPIE
<1>3. (IF MSTATUS_SPP \in c.mstatus THEN 1 ELSE 0) \in Mode
  BY DEF Mode
<1> HIDE DEF m
<1> QED
  BY <1>1, <1>2, <1>3 DEF sret, Cpu, m

LEMMA MretType == ASSUME NEW c \in Cpu PROVE mret(c) \in Cpu
<1> DEFINE m == (put(c.mstatus, MSTATUS_MIE, MSTATUS_MPIE \in c.mstatus) \cup {MSTATUS_MPIE})
                     \ MSTATUS_MPP
<1>1. c.mstatus \in SUBSET Bits /\ c.mepc \in Addr
  BY DEF Cpu
<1>2. m \in SUBSET Bits
  BY <1>1 DEF put, Bits, MSTATUS_MIE, MSTATUS_MPIE
<1> HIDE DEF m
<1> QED
  BY <1>1, <1>2, MppType DEF mret, Cpu, m

\* A CSR instruction whose operand suits the CSR leaves a Cpu, and an alias
\* write moves no bit outside its mask.
LEMMA CsrReadType ==
    ASSUME NEW c \in Cpu, NEW addr \in AliasCsr \cup MaskCsr
    PROVE  csr_read(c, addr) \in SUBSET Bits
<1>1. CASE addr = "sstatus"
  BY <1>1 DEF csr_read, AliasCsr, Alias, Cpu
<1>2. CASE addr = "sie"
  BY <1>2 DEF csr_read, AliasCsr, Alias, Cpu
<1>3. CASE addr = "sip"
  BY <1>3 DEF csr_read, AliasCsr, Alias, Cpu
<1>4. CASE addr \in MaskCsr
  BY <1>4 DEF csr_read, AliasCsr, MaskCsr, Cpu
<1> QED
  BY <1>1, <1>2, <1>3, <1>4 DEF AliasCsr

LEMMA CsrValueType ==
    ASSUME NEW op \in {"rw", "rs", "rc"}, NEW old \in SUBSET Bits, NEW rs1 \in SUBSET Bits
    PROVE  csr_value(op, old, rs1) \in SUBSET Bits
<1>1. CASE op = "rw"
  BY <1>1 DEF csr_value
<1>2. CASE op = "rs"
  BY <1>2 DEF csr_value
<1>3. CASE op = "rc"
  BY <1>3 DEF csr_value
<1> QED
  BY <1>1, <1>2, <1>3

LEMMA CsrWriteType ==
    ASSUME NEW c \in Cpu, NEW addr, NEW v,
           \/ addr \in AliasCsr \cup MaskCsr /\ v \in SUBSET Bits
           \/ addr \in AddrCsr /\ v \in Addr
    PROVE  csr_write(c, addr, v) \in Cpu
<1> USE DEF AliasCsr, Alias
<1>1. CASE addr = "sstatus" /\ v \in SUBSET Bits
  <2>1. csr_write(c, addr, v) =
          [c EXCEPT !.mstatus = (@ \ SSTATUS_MASK) \cup (v \cap SSTATUS_MASK)]
    BY <1>1 DEF csr_write
  <2>2. (c.mstatus \ SSTATUS_MASK) \cup (v \cap SSTATUS_MASK) \in SUBSET Bits
    BY <1>1 DEF Cpu
  <2> QED
    BY <2>1, <2>2 DEF Cpu
<1>2. CASE addr = "sie" /\ v \in SUBSET Bits
  <2>1. csr_write(c, addr, v) = [c EXCEPT !.mie = (@ \ SIE_MASK) \cup (v \cap SIE_MASK)]
    BY <1>2 DEF csr_write
  <2>2. (c.mie \ SIE_MASK) \cup (v \cap SIE_MASK) \in SUBSET Bits
    BY <1>2 DEF Cpu
  <2> QED
    BY <2>1, <2>2 DEF Cpu
<1>3. CASE addr = "sip" /\ v \in SUBSET Bits
  <2>1. csr_write(c, addr, v) = [c EXCEPT !.mip = (@ \ SIP_MASK) \cup (v \cap SIP_MASK)]
    BY <1>3 DEF csr_write
  <2>2. (c.mip \ SIP_MASK) \cup (v \cap SIP_MASK) \in SUBSET Bits
    BY <1>3 DEF Cpu
  <2> QED
    BY <2>1, <2>2 DEF Cpu
<1>4. CASE addr \in MaskCsr /\ v \in SUBSET Bits
  <2>1. csr_write(c, addr, v) = [c EXCEPT ![addr] = v]
    BY <1>4 DEF csr_write, MaskCsr
  <2> QED
    BY <1>4, <2>1 DEF MaskCsr, Cpu
<1>5. CASE addr \in AddrCsr /\ v \in Addr
  <2>1. csr_write(c, addr, v) = [c EXCEPT ![addr] = v]
    BY <1>5 DEF csr_write, AddrCsr
  <2> QED
    BY <1>5, <2>1 DEF AddrCsr, Cpu
<1> QED
  BY <1>1, <1>2, <1>3, <1>4, <1>5

LEMMA ExecuteCsrType ==
    ASSUME NEW c \in Cpu, NEW op, NEW addr, NEW rs1,
           \/ /\ op \in {"rw", "rs", "rc"}
              /\ addr \in AliasCsr \cup MaskCsr
              /\ rs1 \in SUBSET Bits
           \/ op = "rw" /\ addr \in AddrCsr /\ rs1 \in Addr
    PROVE  execute_csr(c, op, addr, rs1) \in Cpu
<1> DEFINE v == csr_value(op, csr_read(c, addr), rs1)
<1>1. \/ addr \in AliasCsr \cup MaskCsr /\ v \in SUBSET Bits
      \/ addr \in AddrCsr /\ v \in Addr
  <2>1. CASE addr \in AliasCsr \cup MaskCsr /\ op \in {"rw", "rs", "rc"} /\ rs1 \in SUBSET Bits
    BY <2>1, CsrReadType, CsrValueType
  <2>2. CASE op = "rw" /\ addr \in AddrCsr /\ rs1 \in Addr
    BY <2>2 DEF csr_value
  <2> QED
    BY <2>1, <2>2
<1>2. csr_write(c, addr, v) \in Cpu
  BY <1>1, CsrWriteType
<1>3. default_next(c.pc) \in Addr
  BY NextType DEF Cpu
<1> QED
  BY <1>2, <1>3 DEF execute_csr, Cpu

LEMMA NewCpuType == ASSUME NEW entry \in Addr PROVE new_cpu(entry) \in Cpu
BY AddrSpaceAssumption DEF new_cpu, Cpu, Cause, NoCause, Bits, Addr, Mode, PRIV_M

-----------------------------------------------------------------------------
(* The loop of claim_irq. *)

\* f lists what best is after each of the first n turns of the loop.
IsLoop(p, candidates, threshold, f, n) ==
    f = [i \in 0 .. n |-> IF i = 0 THEN [irq |-> 0, priority |-> threshold]
                          ELSE better(p, candidates, f[i - 1], i)]

LEMMA LoopExtends ==
    ASSUME NEW p, NEW candidates, NEW threshold, NEW n \in Nat, n # 0,
           NEW g, IsLoop(p, candidates, threshold, g, n - 1)
    PROVE  \E f : IsLoop(p, candidates, threshold, f, n)
<1> DEFINE f == [i \in 0 .. n |-> IF i < n THEN g[i]
                                  ELSE better(p, candidates, g[n - 1], n)]
<1>1. ASSUME NEW i \in 0 .. n
      PROVE  f[i] = IF i = 0 THEN [irq |-> 0, priority |-> threshold]
                    ELSE better(p, candidates, f[i - 1], i)
  <2>1. CASE i = n
    BY <2>1
  <2>2. CASE i < n /\ i # 0
    BY <2>2 DEF IsLoop
  <2>3. CASE i = 0
    BY <2>3 DEF IsLoop
  <2> QED
    BY <2>1, <2>2, <2>3
<1>2. f = [i \in 0 .. n |-> f[i]]
  OBVIOUS
<1> HIDE DEF f
<1>3. IsLoop(p, candidates, threshold, f, n)
  BY <1>1, <1>2 DEF IsLoop
<1> QED
  BY <1>3

LEMMA LoopExists ==
    ASSUME NEW p, NEW candidates, NEW threshold, NEW n \in Nat
    PROVE  \E f : IsLoop(p, candidates, threshold, f, n)
<1> DEFINE Runs(k) == \E f : IsLoop(p, candidates, threshold, f, k)
           Stuck == {k \in Nat : ~Runs(k)}
<1>1. Runs(0)
  <2>1. IsLoop(p, candidates, threshold, [i \in 0 .. 0 |-> [irq |-> 0, priority |-> threshold]], 0)
    BY DEF IsLoop
  <2> QED
    BY <2>1
<1>2. ASSUME NEW k \in Nat, k # 0, Runs(k - 1)
      PROVE  Runs(k)
  BY <1>2, LoopExtends
<1> HIDE DEF Runs
<1>3. CASE Stuck # {}
  <2>1. PICK k \in Stuck : \A m \in Stuck : k <= m
    BY <1>3, LeastNatural
  <2>2. k \in Nat /\ ~Runs(k) /\ k # 0
    BY <1>1
  <2>3. k - 1 \in Nat /\ k - 1 \notin Stuck
    BY <2>1, <2>2
  <2> QED
    BY <1>2, <2>2, <2>3
<1>4. CASE Stuck = {}
  <2>1. Runs(n)
    BY <1>4
  <2> QED
    BY <2>1 DEF Runs
<1> QED
  BY <1>3, <1>4

\* claim_irq returns the irq of the last best.
LEMMA ClaimLoopRuns ==
    ASSUME NEW p, NEW candidates, NEW threshold
    PROVE  \E f : /\ IsLoop(p, candidates, threshold, f, MAX_IRQ - 1)
                  /\ claim_loop(p, candidates, threshold) = f[MAX_IRQ - 1].irq
<1> DEFINE f == CHOOSE g : IsLoop(p, candidates, threshold, g, MAX_IRQ - 1)
<1>1. MAX_IRQ - 1 \in Nat
  BY PlicAssumption
<1>2. \E g : IsLoop(p, candidates, threshold, g, MAX_IRQ - 1)
  BY <1>1, LoopExists
<1>3. IsLoop(p, candidates, threshold, f, MAX_IRQ - 1)
  BY <1>2
<1>4. claim_loop(p, candidates, threshold) = f[MAX_IRQ - 1].irq
  BY DEF claim_loop, IsLoop, IRQ
<1> QED
  BY <1>3, <1>4

\* The candidates among the first n that exceed the threshold, and the order
\* in which the PLIC specification prefers them.
Eligible(p, candidates, threshold, n) ==
    {i \in candidates \cap (1 .. n) : p.priority[i] > threshold}

Beats(p, i, j) == \/ p.priority[i] > p.priority[j]
                  \/ p.priority[i] = p.priority[j] /\ i <= j

Best(p, candidates, threshold, b, n) ==
    LET E == Eligible(p, candidates, threshold, n)
    IN  \/ E = {} /\ b.irq = 0 /\ b.priority = threshold
        \/ /\ b.irq \in E /\ b.priority = p.priority[b.irq]
           /\ \A j \in E : Beats(p, b.irq, j)

\* One turn of the loop.
LEMMA BetterIsBest ==
    ASSUME NEW p, p.priority \in [IRQ -> Nat], NEW candidates, NEW threshold \in Nat,
           NEW n \in IRQ, n # 0, NEW b, Best(p, candidates, threshold, b, n - 1)
    PROVE  Best(p, candidates, threshold, better(p, candidates, b, n), n)
<1> DEFINE E == Eligible(p, candidates, threshold, n - 1)
           F == Eligible(p, candidates, threshold, n)
<1>1. /\ n \in 1 .. n /\ n \notin 1 .. (n - 1)
      /\ \A i : i \in 1 .. n <=> i = n \/ i \in 1 .. (n - 1)
      /\ \A i \in 1 .. n : i \in IRQ /\ p.priority[i] \in Nat
      /\ \A i \in 1 .. (n - 1) : i < n
  BY PlicAssumption DEF IRQ
<1>2. \/ E = {} /\ b.irq = 0 /\ b.priority = threshold
      \/ /\ b.irq \in E /\ b.priority = p.priority[b.irq]
         /\ \A j \in E : Beats(p, b.irq, j)
  BY DEF Best
<1>3. \A i \in E : i \in 1 .. (n - 1) /\ p.priority[i] > threshold /\ p.priority[i] \in Nat
  BY <1>1 DEF Eligible
<1>4. CASE n \in candidates /\ p.priority[n] > threshold
  <2>1. F = E \cup {n}
    BY <1>1, <1>4 DEF Eligible
  <2> HIDE DEF E, F
  <2>2. CASE p.priority[n] > b.priority
    <3>1. better(p, candidates, b, n) = [irq |-> n, priority |-> p.priority[n]]
      BY <1>4, <2>2 DEF better
    <3>2. ASSUME NEW j \in F
          PROVE  Beats(p, n, j)
      BY <1>1, <1>2, <1>3, <2>1, <2>2 DEF Beats
    <3> QED
      BY <3>1, <3>2, <2>1 DEF Best, F
  <2>3. CASE ~(p.priority[n] > b.priority)
    <3>1. better(p, candidates, b, n) = b
      BY <2>3 DEF better
    <3>2. b.irq \in E /\ b.priority = p.priority[b.irq] /\ \A j \in E : Beats(p, b.irq, j)
      BY <1>2, <1>4, <2>3
    <3>3. Beats(p, b.irq, n)
      BY <1>1, <1>3, <2>3, <3>2 DEF Beats
    <3> QED
      BY <2>1, <3>1, <3>2, <3>3 DEF Best, F
  <2> QED
    BY <2>2, <2>3
<1>5. CASE ~(n \in candidates /\ p.priority[n] > threshold)
  <2>1. F = E
    BY <1>1, <1>5 DEF Eligible
  <2>2. b.priority >= threshold
    BY <1>2, <1>3
  <2> HIDE DEF E, F
  <2>3. better(p, candidates, b, n) = b
    <3>1. p.priority[n] \in Nat /\ b.priority \in Nat
      BY <1>1, <1>2, <1>3
    <3> QED
      BY <1>5, <2>2, <3>1 DEF better
  <2> QED
    BY <1>2, <2>1, <2>3 DEF Best, F
<1> QED
  BY <1>4, <1>5

\* The whole loop: 0 if no candidate exceeds the threshold, and otherwise the
\* one that beats all others that do.
LEMMA ClaimLoopIsBest ==
    ASSUME NEW p, p.priority \in [IRQ -> Nat], NEW candidates, NEW threshold \in Nat
    PROVE  LET E == Eligible(p, candidates, threshold, MAX_IRQ - 1)
               r == claim_loop(p, candidates, threshold)
           IN  \/ E = {} /\ r = 0
               \/ r \in E /\ \A j \in E : Beats(p, r, j)
<1>1. PICK f : /\ IsLoop(p, candidates, threshold, f, MAX_IRQ - 1)
               /\ claim_loop(p, candidates, threshold) = f[MAX_IRQ - 1].irq
  BY ClaimLoopRuns
<1> DEFINE Good(k) == Best(p, candidates, threshold, f[k], k)
           Bad == {k \in IRQ : ~Good(k)}
<1>2. 0 \in IRQ /\ MAX_IRQ - 1 \in IRQ /\ IRQ \subseteq Nat /\ IRQ = 0 .. (MAX_IRQ - 1)
  BY PlicAssumption DEF IRQ
<1>3. Good(0)
  <2>1. f[0] = [irq |-> 0, priority |-> threshold]
    BY <1>1, <1>2 DEF IsLoop
  <2>2. Eligible(p, candidates, threshold, 0) = {}
    BY DEF Eligible
  <2> QED
    BY <2>1, <2>2 DEF Best
<1>4. ASSUME NEW k \in IRQ, k # 0, Good(k - 1)
      PROVE  Good(k)
  <2>1. f[k] = better(p, candidates, f[k - 1], k)
    BY <1>1, <1>2, <1>4 DEF IsLoop
  <2> QED
    BY <1>4, <2>1, BetterIsBest
<1>5. Bad = {}
  <2> HIDE DEF Good
  <2>1. SUFFICES ASSUME Bad # {}
                 PROVE  FALSE
    OBVIOUS
  <2>2. PICK k \in Bad : \A m \in Bad : k <= m
    BY <1>2, <2>1, LeastNatural
  <2>3. k \in IRQ /\ ~Good(k) /\ k # 0
    BY <1>3
  <2>4. k - 1 \in IRQ /\ k - 1 \notin Bad
    BY <1>2, <2>2, <2>3
  <2> QED
    BY <1>4, <2>3, <2>4
<1>6. Good(MAX_IRQ - 1)
  <2> HIDE DEF Good
  <2> QED
    BY <1>2, <1>5
<1> QED
  BY <1>1, <1>6 DEF Best

\* The interrupt is claimable exactly if some line is.
LEMMA ClaimableIff ==
    ASSUME NEW p, p.priority \in [IRQ -> Nat], p.threshold \in [Context -> Nat],
           NEW on, NEW c \in Context
    PROVE  claimable(p, on, c)
              <=> Eligible(p, on \cap p.enable[c], p.threshold[c], MAX_IRQ - 1) # {}
<1> DEFINE E == Eligible(p, on \cap p.enable[c], p.threshold[c], MAX_IRQ - 1)
           r == claim_loop(p, on \cap p.enable[c], p.threshold[c])
<1>1. claimable(p, on, c) <=> r # 0
  BY DEF claimable, claim_irq, enable_get, threshold_get
<1>2. p.threshold[c] \in Nat
  OBVIOUS
<1>3. \/ E = {} /\ r = 0
      \/ r \in E
  BY <1>2, ClaimLoopIsBest
<1>4. \A i \in E : i # 0
  BY DEF Eligible
<1> HIDE DEF E, r
<1> QED
  BY <1>1, <1>3, <1>4 DEF E, r

\* A store keeps the types of the controller's registers, wherever it goes.
PlicState == [ priority  : [IRQ -> Nat],
               enable    : [Context -> SUBSET IRQ],
               threshold : [Context -> Nat] ]

LEMMA NewPlicType == new_plic \in PlicState
BY DEF new_plic, PlicState

LEMMA WordType == ASSUME NEW value \in Nat PROVE as_u32(value) \in 0 .. (power(2, MAX_IRQ) - 1)
<1>1. power(2, MAX_IRQ) \in Nat \ {0}
  BY PlicAssumption, PowerType
<1> QED
  BY <1>1 DEF as_u32

LEMMA PlicWriteType ==
    ASSUME NEW p \in PlicState, NEW address, NEW value \in Nat
    PROVE  plic_write(p, address, value) \in PlicState
<1> DEFINE r == register_at(address)
           k == r[1]
           n == r[2]
           v == as_u32(value)
           on == bits(v)
<1>1. plic_write(p, address, value)
         = CASE k = "priority" /\ n \in IRQ      -> [p EXCEPT !.priority[n] = v]
             [] k = "enable" /\ n \in Context    -> [p EXCEPT !.enable[n] = on]
             [] k = "threshold" /\ n \in Context -> [p EXCEPT !.threshold[n] = v]
             [] OTHER -> p
  BY DEF plic_write
<1>2. on \in SUBSET IRQ /\ v \in Nat
  BY WordType DEF bits
<1> HIDE DEF on, v, k, n
<1>3. CASE k = "priority" /\ n \in IRQ
  <2>1. plic_write(p, address, value) = [p EXCEPT !.priority[n] = v]
    BY <1>1, <1>3
  <2> QED
    BY <1>2, <1>3, <2>1 DEF PlicState
<1>4. CASE k = "enable" /\ n \in Context
  <2>1. plic_write(p, address, value) = [p EXCEPT !.enable[n] = on]
    BY <1>1, <1>4
  <2> QED
    BY <1>2, <1>4, <2>1 DEF PlicState
<1>5. CASE k = "threshold" /\ n \in Context
  <2>1. plic_write(p, address, value) = [p EXCEPT !.threshold[n] = v]
    BY <1>1, <1>5
  <2> QED
    BY <1>2, <1>5, <2>1 DEF PlicState
<1>6. CASE /\ ~(k = "priority" /\ n \in IRQ) /\ ~(k = "enable" /\ n \in Context)
           /\ ~(k = "threshold" /\ n \in Context)
  BY <1>1, <1>6
<1> QED
  BY <1>3, <1>4, <1>5, <1>6

\* The claim register of a context is where its driver looks for it.
LEMMA ClaimAddress ==
    ASSUME NEW c \in Nat
    PROVE  register_at(CONTEXT_BASE + CONTEXT_STRIDE * c + 4) = <<"claim", c>>
<1> DEFINE a == CONTEXT_BASE + CONTEXT_STRIDE * c + 4
<1>1. /\ a \in Nat /\ ~(a < PRIORITY_END) /\ a > ENABLE_END - 1 /\ a >= CONTEXT_BASE
      /\ ENABLE_BASE \in Nat /\ ENABLE_END \in Nat
      /\ (a - CONTEXT_BASE) % CONTEXT_STRIDE = 4 /\ (a - CONTEXT_BASE) \div CONTEXT_STRIDE = c
  BY DEF CONTEXT_BASE, CONTEXT_STRIDE, PRIORITY_END, ENABLE_BASE, ENABLE_END
<1> HIDE DEF a
<1>2. a \notin ENABLE_BASE .. (ENABLE_END - 1)
  BY <1>1
<1>3. register_at(a) = <<"claim", c>>
  BY <1>1, <1>2 DEF register_at
<1> QED
  BY <1>3 DEF a

-----------------------------------------------------------------------------
(* What bytes do between queues. *)

\* The first byte of one queue becomes the last of the queue before it.
LEMMA PassOn ==
    ASSUME NEW S, NEW s \in Seq(S), NEW t \in Seq(S), t # <<>>
    PROVE  Append(s, Head(t)) \o Tail(t) = s \o t
<1>1. Head(t) \in S /\ Tail(t) \in Seq(S) /\ Len(Tail(t)) = Len(t) - 1
  BY HeadTailProperties
<1>2. Append(s, Head(t)) \in Seq(S) /\ Len(Append(s, Head(t))) = Len(s) + 1
  BY <1>1, AppendProperties
<1>3. /\ Append(s, Head(t)) \o Tail(t) \in Seq(S)
      /\ Len(Append(s, Head(t)) \o Tail(t)) = Len(s) + Len(t)
  BY <1>1, <1>2, ConcatProperties
<1>4. s \o t \in Seq(S) /\ Len(s \o t) = Len(s) + Len(t)
  BY ConcatProperties
<1>5. ASSUME NEW i \in 1 .. (Len(s) + Len(t))
      PROVE  (Append(s, Head(t)) \o Tail(t))[i] = (s \o t)[i]
  BY <1>1, <1>2
<1> QED
  BY <1>3, <1>4, <1>5, SeqEqual

\* A queue is a first part of it and the rest.
LEMMA Cut ==
    ASSUME NEW S, NEW s \in Seq(S), NEW k \in 0 .. Len(s)
    PROVE  /\ SubSeq(s, 1, k) \in Seq(S) /\ Len(SubSeq(s, 1, k)) = k
           /\ SubSeq(s, k + 1, Len(s)) \in Seq(S)
           /\ SubSeq(s, 1, k) \o SubSeq(s, k + 1, Len(s)) = s
<1> DEFINE f == SubSeq(s, 1, k)
           g == SubSeq(s, k + 1, Len(s))
<1>1. Len(s) \in Nat /\ k \in Nat /\ k <= Len(s)
  OBVIOUS
<1>2. f \in Seq(S) /\ Len(f) = k /\ \A i \in 1 .. k : f[i] = s[i]
  BY <1>1
<1>3. g \in Seq(S) /\ Len(g) = Len(s) - k /\ \A i \in 1 .. (Len(s) - k) : g[i] = s[k + i]
  BY <1>1
<1> HIDE DEF f, g
<1>4. /\ f \o g \in Seq(S) /\ Len(f \o g) = Len(s)
      /\ \A i \in 1 .. Len(s) : (f \o g)[i] = IF i <= k THEN f[i] ELSE g[i - k]
  <2>1. f \in Seq(S)
    BY <1>2
  <2>2. g \in Seq(S)
    BY <1>3
  <2>3. /\ f \o g \in Seq(S) /\ Len(f \o g) = Len(f) + Len(g)
        /\ \A i \in 1 .. (Len(f) + Len(g)) :
              (f \o g)[i] = IF i <= Len(f) THEN f[i] ELSE g[i - Len(f)]
    BY <2>1, <2>2, ConcatProperties, Zenon
  <2>4. Len(f) = k /\ Len(f) + Len(g) = Len(s)
    BY <1>1, <1>2, <1>3
  <2> QED
    BY <2>3, <2>4
<1>5. ASSUME NEW i \in 1 .. Len(s)
      PROVE  (f \o g)[i] = s[i]
  <2>1. CASE i <= k
    BY <1>1, <1>2, <1>4, <2>1
  <2>2. CASE ~(i <= k)
    <3>1. i - k \in 1 .. (Len(s) - k) /\ k + (i - k) = i
      BY <1>1, <2>2
    <3> QED
      BY <1>3, <1>4, <2>2, <3>1
  <2> QED
    BY <2>1, <2>2
<1>6. f \o g = s
  BY <1>4, <1>5, SeqEqual
<1> QED
  BY <1>2, <1>3, <1>6 DEF f, g

-----------------------------------------------------------------------------
(* The UART. *)

UartState == [ dlab : BOOLEAN, rx_enabled : BOOLEAN, tx_enabled : BOOLEAN,
               nbits : 0 .. 3, dll : Nat, dlm : Nat, rx_queue : Seq(Nat) ]

\* A store leaves the receive queue alone, and only one to LCR moves the latch.
LEMMA UartWrite ==
    ASSUME NEW u \in UartState, NEW reg, NEW value \in Nat
    PROVE  /\ uart_write(u, reg, value) \in UartState
           /\ uart_write(u, reg, value).rx_queue = u.rx_queue
           /\ uart_write(u, reg, value).dlab = IF reg = LCR THEN value >= LCR_BAUD_LATCH
                                               ELSE u.dlab
<1>1. CASE reg = LCR
  <2> DEFINE on == value >= LCR_BAUD_LATCH
             n == value % 4
  <2>1. n \in 0 .. 3 /\ on \in BOOLEAN
    BY DEF LCR_BAUD_LATCH
  <2>2. uart_write(u, reg, value) = [u EXCEPT !.dlab = on, !.nbits = n]
    BY <1>1 DEF uart_write, RBR, IER, LCR
  <2> HIDE DEF on, n
  <2>3. uart_write(u, reg, value) \in UartState /\ uart_write(u, reg, value).rx_queue = u.rx_queue
        /\ uart_write(u, reg, value).dlab = on
    BY <2>1, <2>2 DEF UartState
  <2> QED
    BY <1>1, <2>3 DEF on
<1>2. CASE reg = RBR /\ u.dlab
  <2>1. uart_write(u, reg, value) = [u EXCEPT !.dll = value]
    BY <1>2 DEF uart_write, RBR, IER, LCR
  <2>2. reg # LCR
    BY <1>2 DEF RBR, LCR
  <2> QED
    BY <2>1, <2>2 DEF UartState
<1>3. CASE reg = IER /\ u.dlab
  <2>1. uart_write(u, reg, value) = [u EXCEPT !.dlm = value]
    BY <1>3 DEF uart_write, RBR, IER, LCR
  <2>2. reg # LCR
    BY <1>3 DEF IER, LCR
  <2> QED
    BY <2>1, <2>2 DEF UartState
<1>4. CASE reg = IER /\ ~u.dlab
  <2> DEFINE rx == value % 2 = 1
             tx == (value \div 2) % 2 = 1
  <2>1. uart_write(u, reg, value) = [u EXCEPT !.rx_enabled = rx, !.tx_enabled = tx]
    BY <1>4 DEF uart_write, RBR, IER, LCR
  <2>2. reg # LCR
    BY <1>4 DEF IER, LCR
  <2>3. rx \in BOOLEAN /\ tx \in BOOLEAN
    OBVIOUS
  <2> HIDE DEF rx, tx
  <2> QED
    BY <2>1, <2>2, <2>3 DEF UartState
<1>5. CASE reg # LCR /\ reg # IER /\ ~(reg = RBR /\ u.dlab)
  BY <1>5 DEF uart_write
<1>6. u.dlab \in BOOLEAN
  BY DEF UartState
<1> QED
  BY <1>1, <1>2, <1>3, <1>4, <1>5, <1>6

\* A load with the latch open, or of another register than RBR, changes nothing;
\* one of RBR with the latch closed takes the first byte, if there is one.
LEMMA UartRead ==
    ASSUME NEW u \in UartState, NEW reg
    PROVE  /\ uart_read(u, reg) \in UartState
           /\ uart_read(u, reg).dlab = u.dlab
           /\ uart_read(u, reg).rx_queue =
                 IF reg = RBR /\ ~u.dlab /\ u.rx_queue # <<>> THEN Tail(u.rx_queue) ELSE u.rx_queue
<1>1. u.rx_queue \in Seq(Nat)
  BY DEF UartState
<1>2. u.rx_queue # <<>> => Tail(u.rx_queue) \in Seq(Nat)
  BY <1>1
<1> QED
  BY <1>1, <1>2 DEF uart_read, data_available, UartState

LEMMA UartPoll ==
    ASSUME NEW u \in UartState, NEW bytes \in Seq(Nat)
    PROVE  /\ poll_input(u, bytes) \in UartState
           /\ poll_input(u, bytes).dlab = u.dlab
           /\ poll_input(u, bytes).rx_enabled = u.rx_enabled
           /\ poll_input(u, bytes).rx_queue = u.rx_queue \o bytes
<1>1. u.rx_queue \o bytes \in Seq(Nat)
  BY DEF UartState
<1> QED
  BY <1>1 DEF poll_input, UartState

\* What the guest learns from the status registers.
LEMMA UartStatus ==
    ASSUME NEW u \in UartState
    PROVE  /\ uart_value(u, LSR) % 2 = 1 <=> u.rx_queue # <<>>
           /\ uart_value(u, LCR) < LCR_BAUD_LATCH <=> ~u.dlab
           /\ ~u.dlab => uart_value(u, RBR) = IF u.rx_queue # <<>> THEN Head(u.rx_queue) ELSE 0
<1>1. u.nbits \in 0 .. 3 /\ u.dlab \in BOOLEAN
  BY DEF UartState
<1> QED
  BY <1>1 DEF uart_value, data_available, bit, LSR, LCR, RBR, IER, LCR_BAUD_LATCH

=============================================================================
