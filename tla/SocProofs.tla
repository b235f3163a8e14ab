------------------------------- MODULE SocProofs ------------------------------
(***************************************************************************)
(* Theorems about the xv6 machine (module Soc), for any number of harts,   *)
(* any input, any size of the poll buffer, any poll interval, timer        *)
(* interval and width of the timer.                                        *)
(***************************************************************************)
EXTENDS Soc, OperatorLemmas, FiniteSetTheorems, FunctionTheorems

-----------------------------------------------------------------------------
(* What is true of one hart that runs the guest's code. *)

\* Where the supervisor is: timervec interrupts it and returns to it.
spc(c) == IF c.mode = PRIV_M THEN c.mepc ELSE c.pc

\* The timer handler runs with machine interrupts off and returns to S; the
\* supervisor has interrupts on only where its trap would return to.
Control(c) ==
    /\ c \in Cpu
    /\ c.mtvec = TIMERVEC /\ c.stvec = KERNELVEC
    /\ c.mode \in {PRIV_S, PRIV_M}
    /\ c.mode = PRIV_M => /\ c.pc \in {0, 4, 8} /\ MSTATUS_MIE \notin c.mstatus
                          /\ mpp_of(c.mstatus) = PRIV_S
    /\ spc(c) \in 12 .. 120
    /\ MSTATUS_SIE \in c.mstatus => spc(c) \in {112, 116}
    /\ spc(c) \in 12 .. 52 => MSTATUS_SPP \in c.mstatus /\ c.sepc \in {112, 116}

\* An external interrupt is on its way from the trap to the claim.
External(c) == spc(c) = CLAIM \/ (spc(c) = KERNELVEC /\ c.scause.code = 9)

LEMMA Guest == /\ \A a \in 0 .. 120 : a \in Addr
               /\ \A a \in 0 .. 119 : default_next(a) = a + 4
<1>1. AddrSpace \in Nat /\ AddrSpace >= 124
  BY AddrSpaceAssumption, GuestAssumption
<1>2. ASSUME NEW a \in 0 .. 119
      PROVE  default_next(a) = a + 4
  BY <1>1 DEF default_next
<1> QED
  BY <1>1, <1>2 DEF Addr

LEMMA InS == ASSUME NEW c, Control(c), c.pc \notin {0, 4, 8} PROVE c.mode = PRIV_S /\ spc(c) = c.pc
BY DEF Control, spc, PRIV_M, PRIV_S

LEMMA InM == ASSUME NEW c, Control(c), c.pc \in {0, 4, 8} PROVE c.mode = PRIV_M /\ spc(c) = c.mepc
BY DEF Control, spc, PRIV_M, PRIV_S

Jump(c, q)    == [c EXCEPT !.pc = q]
Pend(c, m, q) == [c EXCEPT !.mip = m, !.pc = q]

\* Where the supervisor may jump.
Jumps(p, q) == /\ p \notin {0, 4, 8} /\ q \in 12 .. 120
               /\ p \in {112, 116} => q \in {112, 116}
               /\ q \in 12 .. 52 => p \in 12 .. 52

\* A jump of the supervisor.
LEMMA JumpS ==
    ASSUME NEW c, Control(c), NEW q, Jumps(c.pc, q)
    PROVE  Control(Jump(c, q)) /\ spc(Jump(c, q)) = q /\ Jump(c, q).scause = c.scause
<1>0. /\ c.pc \notin {0, 4, 8} /\ q \in 12 .. 120
      /\ c.pc \in {112, 116} => q \in {112, 116}
      /\ q \in 12 .. 52 => c.pc \in 12 .. 52
  BY DEF Jumps
<1> DEFINE d == Jump(c, q)
<1>1. c \in Cpu /\ c.mode = PRIV_S /\ spc(c) = c.pc /\ q \in Addr
  BY <1>0, InS, Guest DEF Control
<1>2. d \in Cpu /\ d.pc = q
  BY <1>1 DEF Cpu, Jump
<1>3. d.mode = c.mode /\ d.mstatus = c.mstatus /\ d.mtvec = c.mtvec /\ d.stvec = c.stvec
      /\ d.sepc = c.sepc /\ d.scause = c.scause
  BY <1>1 DEF Cpu, Jump
<1> HIDE DEF d
<1>4. spc(d) = q
  BY <1>1, <1>2, <1>3 DEF spc, PRIV_S, PRIV_M
<1>5. Control(d)
  BY <1>0, <1>1, <1>2, <1>3, <1>4 DEF Control, PRIV_S, PRIV_M
<1> QED
  BY <1>3, <1>4, <1>5 DEF d

\* A step inside the timer handler.
LEMMA JumpM ==
    ASSUME NEW c, Control(c), c.pc \in {0, 4, 8}, NEW q \in {0, 4, 8}, NEW m \in SUBSET Bits
    PROVE  LET d == Pend(c, m, q)
           IN  Control(d) /\ spc(d) = spc(c) /\ d.scause = c.scause
<1> DEFINE d == Pend(c, m, q)
<1>1. c \in Cpu /\ c.mode = PRIV_M /\ q \in Addr
  BY InM, Guest DEF Control
<1>2. d \in Cpu /\ d.pc = q
  BY <1>1 DEF Cpu, Pend
<1>3. d.mode = c.mode /\ d.mstatus = c.mstatus /\ d.mtvec = c.mtvec /\ d.stvec = c.stvec
      /\ d.sepc = c.sepc /\ d.scause = c.scause /\ d.mepc = c.mepc
  BY <1>1 DEF Cpu, Pend
<1> HIDE DEF d
<1>4. spc(d) = spc(c)
  BY <1>1, <1>3 DEF spc
<1>5. Control(d)
  BY <1>1, <1>2, <1>3, <1>4 DEF Control
<1> QED
  BY <1>3, <1>4, <1>5 DEF d

LEMMA TimerSkip ==
    ASSUME NEW c, Control(c), c.pc = TIMERVEC
    PROVE  LET d == [c EXCEPT !.pc = default_next(c.pc)]
           IN  Control(d) /\ spc(d) = spc(c) /\ d.scause = c.scause
<1>1. c.pc = 0 /\ default_next(c.pc) = 4
  BY Guest DEF TIMERVEC
<1>2. c \in Cpu /\ c.mip \in SUBSET Bits
  BY DEF Control, Cpu
<1>3. [c EXCEPT !.pc = default_next(c.pc)] = Pend(c, c.mip, 4)
  BY <1>1, <1>2 DEF Cpu, Pend
<1> QED
  BY <1>1, <1>2, <1>3, JumpM

LEMMA SipMask == Alias["sip"].base = "mip" /\ Alias["sip"].mask = SIP_MASK
                 /\ "sip" \in AliasCsr /\ "sip" # "mhartid"
BY DEF Alias, AliasCsr

LEMMA SipWrite ==
    ASSUME NEW c \in Cpu, NEW v \in SUBSET Bits
    PROVE  \E m \in SUBSET Bits : csr_write(c, "sip", v) = [c EXCEPT !.mip = m]
<1> DEFINE m == (c.mip \ SIP_MASK) \cup (v \cap SIP_MASK)
<1>1. c.mip \in SUBSET Bits
  BY DEF Cpu
<1>2. m \in SUBSET Bits
  BY <1>1
<1>3. csr_write(c, "sip", v) = [c EXCEPT !.mip = m]
  BY SipMask DEF csr_write
<1> QED
  BY <1>2, <1>3

LEMMA Relay ==
    ASSUME NEW c, Control(c), c.pc = TIMERVEC + 4
    PROVE  LET d == execute_csr(c, "rw", "sip", {1})
           IN  Control(d) /\ spc(d) = spc(c) /\ d.scause = c.scause
<1>1. c.pc = 4 /\ default_next(c.pc) = 8
  BY Guest DEF TIMERVEC
<1>2. c \in Cpu
  BY DEF Control
<1>3. {1} \in SUBSET Bits
  BY DEF Bits
<1>4. csr_value("rw", csr_read(c, "sip"), {1}) = {1}
  BY DEF csr_value
<1>5. PICK m \in SUBSET Bits : csr_write(c, "sip", {1}) = [c EXCEPT !.mip = m]
  BY <1>2, <1>3, SipWrite
<1>6. execute_csr(c, "rw", "sip", {1}) = Pend(c, m, 8)
  BY <1>1, <1>4, <1>5 DEF execute_csr, Pend
<1> QED
  BY <1>1, <1>6, JumpM

LEMMA Mret ==
    ASSUME NEW c, Control(c), c.pc = TIMERVEC + 8
    PROVE  Control(mret(c)) /\ spc(mret(c)) = spc(c) /\ mret(c).scause = c.scause
<1> DEFINE d == mret(c)
<1>1. c.pc = 8
  BY DEF TIMERVEC
<1>2. c \in Cpu /\ c.mode = PRIV_M /\ spc(c) = c.mepc /\ mpp_of(c.mstatus) = PRIV_S
  BY <1>1, InM DEF Control
<1>3. d \in Cpu
  BY <1>2, MretType
<1>4. d.mode = PRIV_S /\ d.pc = c.mepc /\ d.mtvec = c.mtvec /\ d.stvec = c.stvec
      /\ d.sepc = c.sepc /\ d.scause = c.scause
  BY <1>2 DEF mret, Cpu
<1>5. MSTATUS_SIE \in d.mstatus <=> MSTATUS_SIE \in c.mstatus
  BY <1>2 DEF mret, Cpu, put, MSTATUS_SIE, MSTATUS_MIE, MSTATUS_MPIE, MSTATUS_MPP
<1>6. MSTATUS_SPP \in d.mstatus <=> MSTATUS_SPP \in c.mstatus
  BY <1>2 DEF mret, Cpu, put, MSTATUS_SPP, MSTATUS_MIE, MSTATUS_MPIE, MSTATUS_MPP
<1> HIDE DEF d
<1>7. spc(d) = spc(c)
  BY <1>2, <1>4 DEF spc, PRIV_S, PRIV_M
<1>8. Control(d)
  BY <1>2, <1>3, <1>4, <1>5, <1>6, <1>7 DEF Control, PRIV_S, PRIV_M
<1> QED
  BY <1>4, <1>7, <1>8 DEF d

\* devintr writes sip back and goes on to the return.
LEMMA Ack ==
    ASSUME NEW c, Control(c), c.pc = ACK + 4, NEW v \in SUBSET Bits
    PROVE  LET d == [csr_write(c, "sip", v) EXCEPT !.pc = RETURN]
           IN  Control(d) /\ spc(d) = RETURN /\ d.scause = c.scause
<1>1. c.pc = 20 /\ RETURN = 52
  BY DEF ACK, RETURN
<1>2. c \in Cpu
  BY DEF Control
<1>3. PICK m \in SUBSET Bits : csr_write(c, "sip", v) = [c EXCEPT !.mip = m]
  BY <1>2, SipWrite
<1> DEFINE e == [c EXCEPT !.mip = m]
<1>4. e \in Cpu /\ e.pc = c.pc /\ e.mode = c.mode /\ e.mstatus = c.mstatus /\ e.mtvec = c.mtvec
      /\ e.stvec = c.stvec /\ e.sepc = c.sepc /\ e.scause = c.scause /\ e.mepc = c.mepc
  BY <1>2 DEF Cpu
<1> HIDE DEF e
<1>5. Control(e)
  <2>1. spc(e) = spc(c)
    BY <1>4 DEF spc
  <2> QED
    BY <1>4, <2>1 DEF Control
<1>6. Control(Jump(e, 52)) /\ spc(Jump(e, 52)) = 52 /\ Jump(e, 52).scause = e.scause
  <2>1. Jumps(e.pc, 52)
    BY <1>1, <1>4 DEF Jumps
  <2> QED
    BY <1>5, <2>1, JumpS
<1>7. [csr_write(c, "sip", v) EXCEPT !.pc = RETURN] = Jump(e, 52)
  BY <1>1, <1>3 DEF e, Jump
<1> QED
  BY <1>1, <1>4, <1>6, <1>7

LEMMA Sret ==
    ASSUME NEW c, Control(c), c.pc = RETURN
    PROVE  Control(sret(c)) /\ spc(sret(c)) \in {112, 116} /\ sret(c).scause = c.scause
<1> DEFINE d == sret(c)
<1>1. c.pc = 52
  BY DEF RETURN
<1>2. c \in Cpu /\ c.mode = PRIV_S /\ spc(c) = 52 /\ MSTATUS_SPP \in c.mstatus /\ c.sepc \in {112, 116}
  BY <1>1, InS DEF Control
<1>3. d \in Cpu
  BY <1>2, SretType
<1>4. d.mode = PRIV_S /\ d.pc = c.sepc /\ d.mtvec = c.mtvec /\ d.stvec = c.stvec
      /\ d.scause = c.scause
  BY <1>2 DEF sret, Cpu, PRIV_S
<1> HIDE DEF d
<1>5. spc(d) \in {112, 116}
  BY <1>2, <1>4 DEF spc, PRIV_S, PRIV_M
<1>6. Control(d)
  BY <1>2, <1>3, <1>4, <1>5 DEF Control, PRIV_S, PRIV_M
<1> QED
  BY <1>4, <1>5, <1>6 DEF d

\* intr_on and intr_off change one bit of mstatus.
LEMMA StatusWrite ==
    ASSUME NEW c \in Cpu, NEW op \in {"rs", "rc"}, c.pc \in 0 .. 116
    PROVE  LET d == execute_csr(c, op, "sstatus", {MSTATUS_SIE})
           IN  /\ d \in Cpu /\ d.pc = c.pc + 4 /\ d.mode = c.mode
               /\ d.mtvec = c.mtvec /\ d.stvec = c.stvec /\ d.scause = c.scause
               /\ d.mstatus = IF op = "rs" THEN c.mstatus \cup {MSTATUS_SIE}
                              ELSE c.mstatus \ {MSTATUS_SIE}
<1> DEFINE v == csr_value(op, csr_read(c, "sstatus"), {MSTATUS_SIE})
           m == (c.mstatus \ SSTATUS_MASK) \cup (v \cap SSTATUS_MASK)
           q == default_next(c.pc)
<1>1. c.mstatus \in SUBSET Bits /\ q = c.pc + 4 /\ q \in Addr
  BY Guest, NextType DEF Cpu
<1>2. Alias["sstatus"].base = "mstatus" /\ Alias["sstatus"].mask = SSTATUS_MASK
      /\ "sstatus" \in AliasCsr /\ "sstatus" # "mhartid"
  BY DEF Alias, AliasCsr
<1>3. csr_read(c, "sstatus") = c.mstatus \cap SSTATUS_MASK
  BY <1>2 DEF csr_read
<1>4. csr_write(c, "sstatus", v) = [c EXCEPT !.mstatus = m]
  BY <1>2 DEF csr_write
<1>5. execute_csr(c, op, "sstatus", {MSTATUS_SIE}) = [c EXCEPT !.mstatus = m, !.pc = q]
  BY <1>4 DEF execute_csr
<1>6. MSTATUS_SIE \in SSTATUS_MASK /\ MSTATUS_SIE \in Bits
  BY DEF MSTATUS_SIE, SSTATUS_MASK, Bits
<1>7. op = "rs" => m = c.mstatus \cup {MSTATUS_SIE}
  BY <1>3, <1>6 DEF csr_value
<1>8. op = "rc" => m = c.mstatus \ {MSTATUS_SIE}
  BY <1>3, <1>6 DEF csr_value
<1>9. m \in SUBSET Bits
  BY <1>1, <1>6, <1>7, <1>8
<1> HIDE DEF m, q
<1> DEFINE d == [c EXCEPT !.mstatus = m, !.pc = q]
<1>10. /\ d \in Cpu /\ d.pc = q /\ d.mode = c.mode
       /\ d.mtvec = c.mtvec /\ d.stvec = c.stvec /\ d.scause = c.scause /\ d.mstatus = m
  BY <1>1, <1>9 DEF Cpu
<1> HIDE DEF d
<1>11. execute_csr(c, op, "sstatus", {MSTATUS_SIE}) = d
  BY <1>5 DEF d
<1> QED
  BY <1>1, <1>7, <1>8, <1>10, <1>11

LEMMA IntrOn ==
    ASSUME NEW c, Control(c), c.pc = SCHEDULER
    PROVE  LET d == execute_csr(c, "rs", "sstatus", {MSTATUS_SIE})
           IN  Control(d) /\ spc(d) = 112 /\ d.scause = c.scause
<1> DEFINE d == execute_csr(c, "rs", "sstatus", {MSTATUS_SIE})
<1>1. c.pc = 108
  BY DEF SCHEDULER
<1>2. c \in Cpu /\ c.mode = PRIV_S /\ c.mtvec = TIMERVEC /\ c.stvec = KERNELVEC
  BY <1>1, InS DEF Control
<1>3. /\ d \in Cpu /\ d.pc = c.pc + 4 /\ d.mode = c.mode
      /\ d.mtvec = c.mtvec /\ d.stvec = c.stvec /\ d.scause = c.scause
  <2>1. c \in Cpu
    BY <1>2
  <2>2. c.pc \in 0 .. 116 /\ "rs" \in {"rs", "rc"}
    BY <1>1
  <2> QED
    BY <2>1, <2>2, StatusWrite, Zenon
<1> HIDE DEF d
<1>4. spc(d) = 112
  BY <1>1, <1>2, <1>3 DEF spc, PRIV_S, PRIV_M
<1>5. Control(d)
  BY <1>1, <1>2, <1>3, <1>4 DEF Control, PRIV_S, PRIV_M
<1> QED
  BY <1>3, <1>4, <1>5 DEF d

LEMMA IntrOff ==
    ASSUME NEW c, Control(c), c.pc = SCHEDULER + 8
    PROVE  LET d == execute_csr(c, "rc", "sstatus", {MSTATUS_SIE})
           IN  Control(d) /\ spc(d) = 120 /\ d.scause = c.scause
<1> DEFINE d == execute_csr(c, "rc", "sstatus", {MSTATUS_SIE})
<1>1. c.pc = 116
  BY DEF SCHEDULER
<1>2. c \in Cpu /\ c.mode = PRIV_S /\ c.mtvec = TIMERVEC /\ c.stvec = KERNELVEC
  BY <1>1, InS DEF Control
<1>3. /\ d \in Cpu /\ d.pc = c.pc + 4 /\ d.mode = c.mode
      /\ d.mtvec = c.mtvec /\ d.stvec = c.stvec /\ d.scause = c.scause
      /\ d.mstatus = c.mstatus \ {MSTATUS_SIE}
  BY <1>1, <1>2, StatusWrite
<1> HIDE DEF d
<1>4. spc(d) = 120
  BY <1>1, <1>2, <1>3 DEF spc, PRIV_S, PRIV_M
<1>5. Control(d)
  BY <1>1, <1>2, <1>3, <1>4 DEF Control, PRIV_S, PRIV_M
<1> QED
  BY <1>3, <1>4, <1>5 DEF d

LEMMA VectorsAligned == trap_vector(TIMERVEC) = TIMERVEC /\ trap_vector(KERNELVEC) = KERNELVEC
BY DEF trap_vector, TIMERVEC, KERNELVEC

\* A trap into M finds the hart in S and comes back there.
LEMMA EnterMControl ==
    ASSUME NEW c, Control(c), c.mode = PRIV_S, NEW cause \in Bits
    PROVE  LET d == enter_M(c, cause, TRUE, 0)
           IN  Control(d) /\ spc(d) = spc(c) /\ d.scause = c.scause
<1> DEFINE d == enter_M(c, cause, TRUE, 0)
           m == put(c.mstatus, MSTATUS_MPIE, MSTATUS_MIE \in c.mstatus) \ {MSTATUS_MIE}
<1>1. c \in Cpu /\ c.mtvec = TIMERVEC /\ 0 \in Addr /\ spc(c) = c.pc
  BY Guest DEF Control, spc, PRIV_S, PRIV_M
<1>2. d \in Cpu
  BY <1>1, EnterMType
<1>3. d.mode = PRIV_M /\ d.pc = 0 /\ d.mepc = c.pc /\ d.mtvec = c.mtvec /\ d.stvec = c.stvec
      /\ d.sepc = c.sepc /\ d.scause = c.scause
  BY <1>1, VectorsAligned DEF enter_M, Cpu, TIMERVEC
<1>4. d.mstatus = (m \ MSTATUS_MPP) \cup mpp_bits(PRIV_S)
  BY <1>1 DEF enter_M, Cpu
<1>5. m \in SUBSET Bits
  BY <1>1 DEF Cpu, put, Bits, MSTATUS_MPIE
<1>6. MSTATUS_MIE \notin m
  OBVIOUS
<1>7. /\ MSTATUS_SIE \in m <=> MSTATUS_SIE \in c.mstatus
      /\ MSTATUS_SPP \in m <=> MSTATUS_SPP \in c.mstatus
  BY DEF put, MSTATUS_SIE, MSTATUS_SPP, MSTATUS_MPIE, MSTATUS_MIE
<1> HIDE DEF d, m
<1>8. mpp_of(d.mstatus) = PRIV_S
  BY <1>4, <1>5, MppRoundTrip DEF PRIV_S, Mode
<1>9. /\ MSTATUS_MIE \notin d.mstatus
      /\ MSTATUS_SIE \in d.mstatus <=> MSTATUS_SIE \in c.mstatus
      /\ MSTATUS_SPP \in d.mstatus <=> MSTATUS_SPP \in c.mstatus
  BY <1>4, <1>6, <1>7 DEF mpp_bits, PRIV_S, MSTATUS_MPP, MSTATUS_SIE, MSTATUS_SPP, MSTATUS_MIE
<1>10. spc(d) = spc(c)
  BY <1>1, <1>3 DEF spc
<1>11. Control(d)
  BY <1>1, <1>2, <1>3, <1>8, <1>9, <1>10 DEF Control
<1> QED
  BY <1>3, <1>10, <1>11 DEF d

\* A trap into S finds interrupts on.
LEMMA EnterSControl ==
    ASSUME NEW c, Control(c), c.mode = PRIV_S, NEW cause \in Bits, MSTATUS_SIE \in c.mstatus
    PROVE  LET d == enter_S(c, cause, TRUE, 0)
           IN  /\ Control(d) /\ spc(d) = KERNELVEC /\ d.scause.code = cause
               /\ spc(c) \in {112, 116}
<1> DEFINE d == enter_S(c, cause, TRUE, 0)
<1>1. /\ c \in Cpu /\ c.stvec = KERNELVEC /\ c.mtvec = TIMERVEC /\ 0 \in Addr
      /\ spc(c) = c.pc /\ c.pc \in {112, 116}
  BY Guest DEF Control, spc, PRIV_S, PRIV_M
<1>2. d \in Cpu
  BY <1>1, EnterSType
<1>3. d.mode = PRIV_S /\ d.pc = KERNELVEC /\ d.sepc = c.pc /\ d.mtvec = c.mtvec /\ d.stvec = c.stvec
      /\ d.scause.code = cause
  BY <1>1, VectorsAligned DEF enter_S, Cpu
<1>4. d.mstatus = put(put(c.mstatus, MSTATUS_SPIE, MSTATUS_SIE \in c.mstatus) \ {MSTATUS_SIE},
                      MSTATUS_SPP, TRUE)
  BY <1>1 DEF enter_S, Cpu
<1>5. MSTATUS_SIE \notin d.mstatus /\ MSTATUS_SPP \in d.mstatus
  <2> DEFINE m == put(c.mstatus, MSTATUS_SPIE, MSTATUS_SIE \in c.mstatus)
  <2>1. d.mstatus = (m \ {MSTATUS_SIE}) \cup {MSTATUS_SPP}
    BY <1>4 DEF put
  <2> HIDE DEF m, d
  <2> QED
    BY <2>1 DEF MSTATUS_SIE, MSTATUS_SPP
<1> HIDE DEF d
<1>6. spc(d) = 12 /\ KERNELVEC = 12
  BY <1>3 DEF spc, PRIV_S, PRIV_M, KERNELVEC
<1>7. Control(d)
  BY <1>1, <1>2, <1>3, <1>5, <1>6 DEF Control, PRIV_S, PRIV_M
<1> QED
  BY <1>1, <1>3, <1>6, <1>7 DEF d

\* check_interrupt: nothing moves the supervisor but a trap that it is ready for.
LEMMA Delivered ==
    ASSUME NEW c, Control(c), NEW mtip \in BOOLEAN, NEW seip \in BOOLEAN
    PROVE  LET d == deliver(sample(c, mtip, seip))
           IN  /\ Control(d)
               /\ \/ spc(d) = spc(c) /\ d.scause = c.scause
                  \/ /\ spc(c) \in {112, 116} /\ spc(d) = KERNELVEC
                     /\ d.scause.code = 9 => seip
<1> DEFINE e == sample(c, mtip, seip)
<1>1. c \in Cpu
  BY DEF Control
<1>2. e \in Cpu
  BY <1>1, SampleType
<1>3. e.pc = c.pc /\ e.mode = c.mode /\ e.mstatus = c.mstatus /\ e.mtvec = c.mtvec
      /\ e.stvec = c.stvec /\ e.sepc = c.sepc /\ e.scause = c.scause /\ e.mepc = c.mepc
  BY <1>1 DEF sample, Cpu
<1>4. 9 \in e.mip <=> seip
  BY <1>1 DEF sample, Cpu, put, MIP_MTIP, MIP_SEIP
<1> HIDE DEF e
<1>5. spc(e) = spc(c) /\ Control(e)
  <2>1. spc(e) = spc(c)
    BY <1>3 DEF spc
  <2> QED
    BY <1>2, <1>3, <2>1 DEF Control
<1>6. CASE deliver(e) = e
  BY <1>3, <1>5, <1>6 DEF e
<1>7. CASE \E cause \in Interrupts : takes(e, cause) /\ deliver(e) = raise_trap(e, cause, TRUE, 0)
  <2>1. PICK cause \in Interrupts : takes(e, cause) /\ deliver(e) = raise_trap(e, cause, TRUE, 0)
    BY <1>7
  <2>2. cause \in Bits
    BY DEF Interrupts, Bits
  <2>3. e.mode = PRIV_S
    BY <1>5, <2>1 DEF Control, takes, delegated
  <2>4. CASE delegated(e, cause, TRUE)
    <3>1. MSTATUS_SIE \in e.mstatus /\ cause \in e.mip
      BY <2>1, <2>3, <2>4 DEF takes
    <3>2. deliver(e) = enter_S(e, cause, TRUE, 0)
      BY <2>1, <2>4 DEF raise_trap
    <3>3. /\ Control(deliver(e)) /\ spc(deliver(e)) = KERNELVEC /\ deliver(e).scause.code = cause
          /\ spc(e) \in {112, 116}
      <4> DEFINE d == enter_S(e, cause, TRUE, 0)
      <4>1. Control(e)
        BY <1>5
      <4>2. MSTATUS_SIE \in e.mstatus
        BY <3>1
      <4>3. Control(d) /\ spc(d) = KERNELVEC /\ d.scause.code = cause /\ spc(e) \in {112, 116}
        BY <4>1, <2>2, <2>3, <4>2, EnterSControl
      <4> HIDE DEF d
      <4> QED
        BY <3>2, <4>3 DEF d
    <3>4. cause = 9 => seip
      BY <1>4, <3>1
    <3> QED
      BY <1>5, <3>3, <3>4 DEF e
  <2>5. CASE ~delegated(e, cause, TRUE)
    <3>1. deliver(e) = enter_M(e, cause, TRUE, 0)
      BY <2>1, <2>5 DEF raise_trap
    <3>2. /\ Control(deliver(e)) /\ spc(deliver(e)) = spc(e) /\ deliver(e).scause = e.scause
      BY <1>5, <2>2, <2>3, <3>1, EnterMControl
    <3> QED
      BY <1>3, <1>5, <3>2 DEF e
  <2> QED
    BY <2>4, <2>5
<1> QED
  BY <1>6, <1>7, DeliverCases

-----------------------------------------------------------------------------
(* The inductive invariant. *)

Byte == 1 .. 255

Types == /\ load \in Loads
         /\ cpu = [h \in Harts |-> cpu[h]]
         /\ uart \in UartState /\ uart.rx_queue \in Seq(Byte)
         /\ channel \in Seq(Byte) /\ stdin \in Seq(Byte) /\ got \in Seq(Byte)
         /\ started \in BOOLEAN
         /\ saved_sip \in [Harts -> SUBSET Bits]
         /\ char \in [Harts -> 0 .. 255]
         /\ plic \in PlicState

\* Until hart 0 has set up the devices the other harts wait, and afterwards no
\* hart sets them up again.
Boot == IF started THEN \A h \in Harts : spc(cpu[h]) \notin 56 .. 88
        ELSE /\ spc(cpu[0]) \in 56 .. 104
             /\ \A h \in Harts \ {0} : spc(cpu[h]) = WAIT

\* The divisor latch is open only while hart 0 sets the baud rate.
Latch == uart.dlab => ~started /\ spc(cpu[0]) \in {64, 68, 72}

\* A hart has a byte in hand only between uartgetc and consoleintr.
InHand == \A h \in Harts : char[h] # 0 => spc(cpu[h]) = GETC + 8

\* What has not been read yet.
Pipe == (uart.rx_queue \o channel) \o stdin

Hand == IF char[0] = 0 THEN <<>> ELSE <<char[0]>>

Holders(b) == {h \in Harts : char[h] = b}

Fifo == load.ncpu = 1 => (got \o Hand) \o Pipe = load.input

Conserved == \A b \in Byte :
                Count(b, got) + Count(b, Pipe) + Cardinality(Holders(b)) = Count(b, load.input)

\* The line that caused an external interrupt is up until it is claimed.
Claimable == load.ncpu = 1 /\ External(cpu[0]) => claimable(plic, lines(uart, virtio), 1)

Controlled == (\A h \in Harts : Control(cpu[h])) /\ Boot /\ Latch /\ InHand

Inv == Types /\ Controlled /\ Fifo /\ Conserved /\ Claimable

-----------------------------------------------------------------------------
(* Steps that only move one hart. *)

Kernel == (12 .. 52) \cup (108 .. 120)

\* Where the supervisor may go from p, apart from uartinit and the end of main.
Path(p, q) == \/ q = p
              \/ p \in {84, 88} /\ q \in {88, 96}
              \/ p = WAIT /\ started /\ q = 96
              \/ p \in {96, 100} /\ q \in {100, 104}
              \/ p \in Kernel /\ q \in Kernel

Moves(h, c) == /\ cpu' = [cpu EXCEPT ![h] = c]
               /\ Control(c)
               /\ Path(spc(cpu[h]), spc(c))

LEMMA MovesKeep ==
    ASSUME Types, Controlled, NEW h \in Harts, NEW c, Moves(h, c),
           UNCHANGED <<load, started>>, uart'.dlab = uart.dlab,
           \A k \in Harts \ {h} : char'[k] = char[k],
           char'[h] # 0 => spc(c) = 36
    PROVE  Controlled' /\ cpu' = [k \in Harts |-> cpu'[k]]
<1>1. Harts' = Harts
  BY DEF Harts
<1>2. cpu = [k \in Harts |-> cpu[k]]
  BY DEF Types
<1>3. cpu' = [k \in Harts |-> IF k = h THEN c ELSE cpu[k]]
  BY <1>2 DEF Moves
<1>4. cpu'[h] = c /\ \A k \in Harts \ {h} : cpu'[k] = cpu[k]
  BY <1>3
<1>5. Control(c) /\ Path(spc(cpu[h]), spc(c)) /\ WAIT = 92
  BY DEF Moves, WAIT
<1>6. \A k \in Harts : Control(cpu'[k])
  BY <1>4, <1>5 DEF Controlled
<1>7. 0 \in Harts
  BY LoadAssumption DEF Types, Harts
<1>8. Boot'
  <2>1. CASE started
    <3>1. spc(cpu[h]) \notin 56 .. 88
      BY <2>1 DEF Controlled, Boot
    <3>2. spc(c) \notin 56 .. 88
      BY <1>5, <3>1 DEF Path, Kernel
    <3> QED
      BY <1>1, <1>4, <2>1, <3>2 DEF Controlled, Boot
  <2>2. CASE ~started /\ h = 0
    <3>1. spc(cpu[h]) \in 56 .. 104
      BY <2>2 DEF Controlled, Boot
    <3>2. spc(c) \in 56 .. 104
      BY <1>5, <2>2, <3>1 DEF Path, Kernel
    <3> QED
      BY <1>1, <1>4, <2>2, <3>2 DEF Controlled, Boot
  <2>3. CASE ~started /\ h # 0
    <3>1. spc(cpu[h]) = 92
      BY <1>5, <2>3 DEF Controlled, Boot
    <3>2. spc(c) = 92
      BY <1>5, <2>3, <3>1 DEF Path, Kernel
    <3> QED
      BY <1>1, <1>4, <1>5, <1>7, <2>3, <3>2 DEF Controlled, Boot
  <2> QED
    BY <2>1, <2>2, <2>3
<1>9. Latch'
  <2>1. CASE ~uart.dlab
    BY <2>1 DEF Latch
  <2>2. CASE uart.dlab
    <3>1. ~started /\ spc(cpu[0]) \in {64, 68, 72}
      BY <2>2 DEF Controlled, Latch
    <3>2. CASE h = 0
      <4>1. spc(c) = spc(cpu[0])
        BY <1>5, <3>1, <3>2 DEF Path, Kernel
      <4> QED
        BY <1>4, <3>1, <3>2, <4>1 DEF Latch
    <3>3. CASE h # 0
      BY <1>4, <1>7, <3>1, <3>3 DEF Latch
    <3> QED
      BY <3>2, <3>3
  <2> QED
    BY <2>1, <2>2
<1>10. InHand'
  <2>1. ASSUME NEW k \in Harts, char'[k] # 0
        PROVE  spc(cpu'[k]) = 36
    <3>1. CASE k = h
      BY <1>4, <2>1, <3>1
    <3>2. CASE k # h
      BY <1>4, <2>1, <3>2 DEF Controlled, InHand, GETC
    <3> QED
      BY <3>1, <3>2
  <2> QED
    BY <1>1, <2>1 DEF InHand, GETC
<1> QED
  BY <1>1, <1>3, <1>6, <1>8, <1>9, <1>10 DEF Controlled

\* A step that moves one hart and touches no byte.
Quiet(h, c) == /\ Moves(h, c)
               /\ spc(cpu[h]) = 36 => spc(c) = 36
               /\ UNCHANGED <<load, started, char, got, uart, channel, stdin>>
               /\ saved_sip' \in [Harts -> SUBSET Bits]
               /\ plic' \in PlicState
               /\ External(c) => External(cpu[h]) /\ UNCHANGED <<plic, virtio>>

LEMMA QuietInv ==
    ASSUME Inv, NEW h \in Harts, NEW c, Quiet(h, c)
    PROVE  Inv'
<1>1. Types /\ Controlled /\ Fifo /\ Conserved /\ Claimable
  BY DEF Inv
<1>2. UNCHANGED <<load, started, char, got, uart, channel, stdin>>
  BY DEF Quiet
<1>3. Controlled' /\ cpu' = [k \in Harts |-> cpu'[k]]
  <2>1. char[h] # 0 => spc(c) = 36
    BY <1>1 DEF Quiet, Controlled, InHand, GETC
  <2>2. Moves(h, c) /\ (char'[h] # 0 => spc(c) = 36) /\ uart'.dlab = uart.dlab
    BY <1>2, <2>1 DEF Quiet
  <2> QED
    BY <1>1, <1>2, <2>2, MovesKeep
<1>4. Harts' = Harts
  BY <1>2 DEF Harts
<1>5. Types'
  BY <1>1, <1>2, <1>3, <1>4 DEF Types, Quiet
<1>6. Fifo' /\ Conserved'
  BY <1>1, <1>2, <1>4 DEF Fifo, Conserved, Hand, Pipe, Holders
<1>7. Claimable'
  <2>1. SUFFICES ASSUME load.ncpu = 1, External(cpu'[0])
                 PROVE  claimable(plic, lines(uart, virtio), 1)'
    BY <1>2 DEF Claimable
  <2>2. h = 0 /\ cpu'[0] = c
    BY <1>1, <2>1 DEF Harts, Quiet, Moves, Types
  <2>3. External(cpu[0]) /\ UNCHANGED <<plic, virtio>>
    BY <2>1, <2>2 DEF Quiet
  <2> QED
    BY <1>1, <1>2, <2>1, <2>3 DEF Claimable
<1> QED
  BY <1>3, <1>5, <1>6, <1>7 DEF Inv

LEMMA HartFacts ==
    ASSUME Inv, NEW h \in Harts
    PROVE  Control(cpu[h]) /\ saved_sip \in [Harts -> SUBSET Bits] /\ plic \in PlicState
           /\ h \in Nat
<1>1. Control(cpu[h]) /\ saved_sip \in [Harts -> SUBSET Bits] /\ plic \in PlicState
  BY DEF Inv, Types, Controlled
<1>2. load \in Loads
  BY DEF Inv, Types
<1>3. h \in Nat
  BY <1>2, LoadAssumption DEF Harts
<1> QED
  BY <1>1, <1>3

\* What a jump of the supervisor does.
LEMMA Jumped ==
    ASSUME Inv, NEW h \in Harts, NEW p, NEW q, cpu[h].pc = p, Goto(h, q), Jumps(p, q)
    PROVE  /\ spc(cpu[h]) = p
           /\ UNCHANGED <<load, channel, stdin>>
           /\ \E c : Control(c) /\ spc(c) = q /\ cpu' = [cpu EXCEPT ![h] = c]
<1> DEFINE x == cpu[h]
           c == Jump(x, q)
<1>1. Control(x)
  BY HartFacts
<1>2. x.pc = p /\ Jumps(x.pc, q)
  OBVIOUS
<1>3. x.pc \notin {0, 4, 8}
  BY <1>2 DEF Jumps
<1>4. cpu' = [cpu EXCEPT ![h] = c] /\ UNCHANGED <<load, channel, stdin>>
  BY DEF Goto, Execute, Jump, host
<1> HIDE DEF x
<1>5. Control(c) /\ spc(c) = q
  BY <1>1, <1>2, JumpS, Zenon
<1>6. spc(x) = x.pc
  BY <1>1, <1>3, InS
<1> HIDE DEF c
<1> QED
  BY <1>2, <1>4, <1>5, <1>6 DEF x

\* A jump of the supervisor is quiet if it keeps to the paths and is not one of
\* consoleintr.
Along(p, q) == Jumps(p, q) /\ Path(p, q) /\ p # 36 /\ q # 12

LEMMA GotoQuiet ==
    ASSUME Inv, NEW h \in Harts, NEW p, NEW q, cpu[h].pc = p, Goto(h, q), Along(p, q),
           UNCHANGED <<started, char, got, uart>>,
           saved_sip' \in [Harts -> SUBSET Bits], plic' \in PlicState,
           q = 24 => External(cpu[h]) /\ UNCHANGED <<plic, virtio>>
    PROVE  Inv'
<1>0. Jumps(p, q) /\ Path(p, q) /\ p # 36 /\ q # 12
  BY DEF Along
<1>1. spc(cpu[h]) = p /\ UNCHANGED <<load, channel, stdin>>
  BY <1>0, Jumped
<1>2. PICK c : Control(c) /\ spc(c) = q /\ cpu' = [cpu EXCEPT ![h] = c]
  BY <1>0, Jumped
<1>3. Moves(h, c)
  BY <1>0, <1>1, <1>2 DEF Moves
<1>4. External(c) => q = 24
  BY <1>0, <1>2 DEF External, CLAIM, KERNELVEC
<1>5. Quiet(h, c)
  BY <1>0, <1>1, <1>2, <1>3, <1>4 DEF Quiet
<1> QED
  BY <1>5, QuietInv

\* So is anything that leaves the supervisor where it is.
LEMMA StayQuiet ==
    ASSUME Inv, NEW h \in Harts, NEW c, Execute(h, c), Control(c), spc(c) = spc(cpu[h]),
           c.scause = cpu[h].scause,
           UNCHANGED <<started, char, got, uart, saved_sip, plic, virtio>>
    PROVE  Inv'
<1>1. cpu' = [cpu EXCEPT ![h] = c] /\ UNCHANGED <<load, channel, stdin>>
  BY DEF Execute, host
<1>2. External(c) => External(cpu[h])
  BY DEF External
<1>3. Moves(h, c)
  BY <1>1 DEF Moves, Path
<1>4. Quiet(h, c)
  BY <1>1, <1>2, <1>3, HartFacts DEF Quiet
<1> QED
  BY <1>4, QuietInv

\* Nothing but the hart changes: the form most steps have.
LEMMA GotoOnly ==
    ASSUME Inv, NEW h \in Harts, NEW p, NEW q, cpu[h].pc = p, Goto(h, q), Along(p, q),
           UNCHANGED <<devices, guest>>, q = 24 => External(cpu[h])
    PROVE  Inv'
<1>1. saved_sip \in [Harts -> SUBSET Bits] /\ plic \in PlicState
  BY HartFacts
<1>2. UNCHANGED <<started, char, got, uart>> /\ UNCHANGED <<plic, virtio>> /\ UNCHANGED saved_sip
  BY DEF devices, guest
<1>3. saved_sip' \in [Harts -> SUBSET Bits] /\ plic' \in PlicState
  BY <1>1, <1>2
<1> QED
  BY <1>2, <1>3, GotoQuiet

-----------------------------------------------------------------------------
(* The timer handler. *)

LEMMA TimerInv ==
    ASSUME Inv, NEW h \in Harts, TimerAdvance(h) \/ TimerRelay(h) \/ TimerReturn(h)
    PROVE  Inv'
<1> DEFINE x == cpu[h]
<1>1. Control(x)
  BY HartFacts
<1>2. CASE TimerAdvance(h)
  <2> DEFINE d == [x EXCEPT !.pc = default_next(x.pc)]
  <2>1. x.pc = TIMERVEC /\ Execute(h, d)
    BY <1>2 DEF TimerAdvance, At, Skip, Goto
  <2>2. UNCHANGED <<started, char, got, uart, saved_sip, plic, virtio>>
    BY <1>2 DEF TimerAdvance, guest
  <2> HIDE DEF x
  <2>3. Control(d) /\ spc(d) = spc(x) /\ d.scause = x.scause
    BY <1>1, <2>1, TimerSkip
  <2> HIDE DEF d
  <2> QED
    BY <2>1, <2>2, <2>3, StayQuiet DEF x
<1>3. CASE TimerRelay(h)
  <2> DEFINE d == execute_csr(x, "rw", "sip", {1})
  <2>1. x.pc = TIMERVEC + 4 /\ Execute(h, d)
    BY <1>3 DEF TimerRelay, At
  <2>2. UNCHANGED <<started, char, got, uart, saved_sip, plic, virtio>>
    BY <1>3 DEF TimerRelay, devices, guest
  <2> HIDE DEF x
  <2>3. Control(d) /\ spc(d) = spc(x) /\ d.scause = x.scause
    BY <1>1, <2>1, Relay
  <2> HIDE DEF d
  <2> QED
    BY <2>1, <2>2, <2>3, StayQuiet DEF x
<1>4. CASE TimerReturn(h)
  <2> DEFINE d == mret(x)
  <2>1. x.pc = TIMERVEC + 8 /\ Execute(h, d)
    BY <1>4 DEF TimerReturn, At
  <2>2. UNCHANGED <<started, char, got, uart, saved_sip, plic, virtio>>
    BY <1>4 DEF TimerReturn, devices, guest
  <2> HIDE DEF x
  <2>3. Control(d) /\ spc(d) = spc(x) /\ d.scause = x.scause
    BY <1>1, <2>1, Mret
  <2> HIDE DEF d
  <2> QED
    BY <2>1, <2>2, <2>3, StayQuiet DEF x
<1> QED
  BY <1>2, <1>3, <1>4

-----------------------------------------------------------------------------
(* kernelvec and devintr, apart from what happens to a byte. *)

LEMMA DevIntrInv ==
    ASSUME Inv, NEW h \in Harts, DevIntr(h)
    PROVE  Inv'
<1> DEFINE q == CASE cpu[h].scause.code = 9 -> CLAIM
                  [] cpu[h].scause.code = 1 -> ACK
                  [] OTHER -> RETURN
<1>1. cpu[h].pc = 12 /\ Goto(h, q) /\ UNCHANGED <<devices, guest>>
  BY DEF DevIntr, At, KERNELVEC
<1>2. q \in {24, 16, 52} /\ (q = 24 => cpu[h].scause.code = 9)
  BY DEF CLAIM, ACK, RETURN
<1> HIDE DEF q
<1>3. Control(cpu[h])
  BY HartFacts
<1>4. spc(cpu[h]) = 12
  BY <1>1, <1>3, InS
<1>5. q = 24 => External(cpu[h])
  BY <1>2, <1>4 DEF External, KERNELVEC
<1>6. Along(12, q)
  BY <1>2 DEF Along, Jumps, Path, Kernel
<1> QED
  BY <1>1, <1>2, <1>5, <1>6, GotoOnly

LEMMA AckInv ==
    ASSUME Inv, NEW h \in Harts, AckRead(h) \/ AckWrite(h)
    PROVE  Inv'
<1> DEFINE x == cpu[h]
<1>1. Control(x) /\ x \in Cpu /\ saved_sip \in [Harts -> SUBSET Bits] /\ plic \in PlicState
  BY HartFacts DEF Control
<1>2. CASE AckRead(h)
  <2>1. cpu[h].pc = 16 /\ Goto(h, 20)
    BY <1>2, Guest DEF AckRead, At, Skip, ACK
  <2>2. UNCHANGED <<started, char, got, uart>> /\ UNCHANGED <<plic, virtio>>
    BY <1>2 DEF AckRead, devices
  <2>3. csr_read(x, "sip") \in SUBSET Bits
    BY <1>1, CsrReadType DEF AliasCsr
  <2>4. saved_sip' = [saved_sip EXCEPT ![h] = csr_read(x, "sip") \ {1}]
    BY <1>2 DEF AckRead
  <2>5. saved_sip' \in [Harts -> SUBSET Bits]
    BY <1>1, <2>3, <2>4
  <2>6. Along(16, 20)
    BY DEF Along, Jumps, Path, Kernel
  <2> QED
    BY <1>1, <2>1, <2>2, <2>5, <2>6, GotoQuiet
<1>3. CASE AckWrite(h)
  <2> DEFINE v == saved_sip[h]
             d == [csr_write(x, "sip", v) EXCEPT !.pc = RETURN]
  <2>1. x.pc = ACK + 4 /\ Execute(h, d)
    BY <1>3 DEF AckWrite, At
  <2>2. UNCHANGED <<started, char, got, uart, saved_sip, plic, virtio>>
    BY <1>3 DEF AckWrite, devices, guest
  <2>3. v \in SUBSET Bits
    BY <1>1
  <2>4. spc(x) = 20
    BY <1>1, <2>1, InS DEF ACK
  <2> HIDE DEF x, v
  <2>5. Control(d) /\ spc(d) = RETURN
    BY <1>1, <2>1, <2>3, Ack
  <2> HIDE DEF d
  <2>6. cpu' = [cpu EXCEPT ![h] = d] /\ UNCHANGED <<load, channel, stdin>>
    BY <2>1 DEF Execute, host
  <2>7. Path(20, 52)
    BY DEF Path, Kernel
  <2>8. Moves(h, d)
    BY <2>4, <2>5, <2>6, <2>7 DEF Moves, RETURN, x
  <2>9. ~External(d)
    BY <2>5 DEF External, CLAIM, KERNELVEC, RETURN
  <2>10. Quiet(h, d)
    BY <1>1, <2>2, <2>4, <2>6, <2>8, <2>9 DEF Quiet, x
  <2> QED
    BY <2>10, QuietInv
<1> QED
  BY <1>2, <1>3

LEMMA ClaimInv ==
    ASSUME Inv, NEW h \in Harts, Claim(h)
    PROVE  Inv'
<1> DEFINE i == plic_read(plic, lines(uart, virtio), PLIC_SCLAIM(h))
           q == CASE i = UART0_IRQ -> GETC [] i = VIRTIO0_IRQ -> DISK [] OTHER -> RETURN
<1>1. cpu[h].pc = 24 /\ Goto(h, q)
  BY DEF Claim, At, CLAIM
<1>2. UNCHANGED <<started, char, got, uart>> /\ UNCHANGED <<plic, virtio>> /\ UNCHANGED saved_sip
  BY DEF Claim, devices
<1> HIDE DEF i
<1>3. q \in {28, 40, 52}
  BY DEF GETC, DISK, RETURN
<1> HIDE DEF q
<1>4. Along(24, q)
  BY <1>3 DEF Along, Jumps, Path, Kernel
<1> QED
  BY <1>1, <1>2, <1>3, <1>4, GotoQuiet, HartFacts

LEMMA GetcLookInv ==
    ASSUME Inv, NEW h \in Harts, GetcLook(h)
    PROVE  Inv'
<1>1. cpu[h].pc = 28 /\ UNCHANGED <<devices, guest>>
  BY DEF GetcLook, At, GETC
<1>2. Goto(h, 32) \/ Goto(h, 48)
  BY <1>1, Guest DEF GetcLook, Skip, COMPLETE
<1>3. Along(28, 32) /\ Along(28, 48)
  BY DEF Along, Jumps, Path, Kernel
<1> QED
  BY <1>1, <1>2, <1>3, GotoOnly

LEMMA DiskInv ==
    ASSUME Inv, NEW h \in Harts, DiskAck(h) \/ DiskReap(h)
    PROVE  Inv'
<1>1. CASE DiskAck(h)
  <2>1. cpu[h].pc = 40 /\ Goto(h, 44)
    BY <1>1, Guest DEF DiskAck, At, DISK, Skip
  <2>2. UNCHANGED <<started, char, got, uart>> /\ UNCHANGED <<plic, saved_sip>>
    BY <1>1 DEF DiskAck, guest
  <2>3. Along(40, 44)
    BY DEF Along, Jumps, Path, Kernel
  <2> QED
    BY <2>1, <2>2, <2>3, GotoQuiet, HartFacts
<1>2. CASE DiskReap(h)
  <2>1. cpu[h].pc = 44 /\ (Goto(h, 44) \/ Goto(h, 48))
    BY <1>2 DEF DiskReap, At, DISK, COMPLETE
  <2>2. UNCHANGED <<started, char, got, uart>> /\ UNCHANGED <<plic, saved_sip>>
    BY <1>2 DEF DiskReap, devices
  <2>3. Along(44, 44) /\ Along(44, 48)
    BY DEF Along, Jumps, Path, Kernel
  <2> QED
    BY <2>1, <2>2, <2>3, GotoQuiet, HartFacts
<1> QED
  BY <1>1, <1>2

\* Completing a claim writes to a register that ignores it.
LEMMA CompleteInv ==
    ASSUME Inv, NEW h \in Harts, Complete(h)
    PROVE  Inv'
<1>1. cpu[h].pc = 48 /\ Goto(h, 52)
  BY Guest DEF Complete, At, COMPLETE, Skip
<1>2. UNCHANGED <<started, char, got, uart>> /\ UNCHANGED saved_sip
  BY DEF Complete
<1>3. plic' = plic
  <2> DEFINE c == 2 * h + 1
             v == irq[h]
  <2>1. h \in Nat /\ c \in Nat
    BY HartFacts
  <2>2. PLIC_SCLAIM(h) = CONTEXT_BASE + CONTEXT_STRIDE * c + 4
    BY <2>1 DEF PLIC_SCLAIM, PLIC_SPRIORITY, CONTEXT_BASE, CONTEXT_STRIDE
  <2> HIDE DEF c, v
  <2>3. register_at(PLIC_SCLAIM(h)) = <<"claim", c>>
    BY <2>1, <2>2, ClaimAddress
  <2>4. plic_write(plic, PLIC_SCLAIM(h), v) = plic
    BY <2>3 DEF plic_write
  <2> QED
    BY <2>4 DEF Complete, v
<1>4. Along(48, 52)
  BY DEF Along, Jumps, Path, Kernel
<1> QED
  BY <1>1, <1>2, <1>3, <1>4, GotoQuiet, HartFacts

LEMMA TrapReturnInv ==
    ASSUME Inv, NEW h \in Harts, TrapReturn(h)
    PROVE  Inv'
<1> DEFINE x == cpu[h]
           d == sret(x)
<1>1. Control(x) /\ saved_sip \in [Harts -> SUBSET Bits] /\ plic \in PlicState
  BY HartFacts
<1>2. x.pc = RETURN /\ Execute(h, d)
  BY DEF TrapReturn, At
<1>3. UNCHANGED <<started, char, got, uart, saved_sip, plic, virtio>>
  BY DEF TrapReturn, devices, guest
<1>4. spc(x) = 52
  BY <1>1, <1>2, InS DEF RETURN
<1> HIDE DEF x
<1>5. Control(d) /\ spc(d) \in {112, 116}
  BY <1>1, <1>2, Sret
<1> HIDE DEF d
<1>6. cpu' = [cpu EXCEPT ![h] = d] /\ UNCHANGED <<load, channel, stdin>>
  BY <1>2 DEF Execute, host
<1>7. Path(52, spc(d))
  BY <1>5 DEF Path, Kernel
<1>8. Moves(h, d)
  BY <1>4, <1>5, <1>6, <1>7 DEF Moves, x
<1>9. ~External(d)
  BY <1>5 DEF External, CLAIM, KERNELVEC
<1>10. Quiet(h, d)
  BY <1>1, <1>3, <1>4, <1>6, <1>8, <1>9 DEF Quiet, x
<1> QED
  BY <1>10, QuietInv

-----------------------------------------------------------------------------
(* main and the scheduler, apart from uartinit and started. *)

LEMMA PlicInitInv ==
    ASSUME Inv, NEW h \in Harts, PlicInit(h)
    PROVE  Inv'
<1>1. plic \in PlicState
  BY HartFacts
<1>2. \/ cpu[h].pc = 84 /\ Goto(h, 88)
      \/ cpu[h].pc = 88 /\ Goto(h, 96)
  BY Guest DEF PlicInit, At, MAIN, HARTINIT, Skip
<1>3. \E a : plic' = plic_write(plic, a, 1)
  BY DEF PlicInit
<1>4. plic' \in PlicState
  BY <1>1, <1>3, PlicWriteType
<1>5. UNCHANGED <<started, char, got, uart>> /\ UNCHANGED saved_sip
  BY DEF PlicInit, guest
<1>6. Along(84, 88) /\ Along(88, 96)
  BY DEF Along, Jumps, Path
<1> QED
  BY <1>2, <1>4, <1>5, <1>6, GotoQuiet, HartFacts

LEMMA WaitStartedInv ==
    ASSUME Inv, NEW h \in Harts, WaitStarted(h)
    PROVE  Inv'
<1>1. cpu[h].pc = 92 /\ UNCHANGED <<devices, guest>>
  BY DEF WaitStarted, At, WAIT
<1>2. Goto(h, 92) \/ (started /\ Goto(h, 96))
  BY <1>1, Guest DEF WaitStarted, Skip, WAIT
<1>3. Along(92, 92) /\ (started => Along(92, 96))
  BY DEF Along, Jumps, Path, WAIT
<1> QED
  BY <1>1, <1>2, <1>3, GotoOnly

LEMMA PlicInitHartInv ==
    ASSUME Inv, NEW h \in Harts, PlicInitHart(h)
    PROVE  Inv'
<1>1. plic \in PlicState
  BY HartFacts
<1>2. \/ cpu[h].pc = 96 /\ Goto(h, 100)
      \/ cpu[h].pc = 100 /\ Goto(h, 104)
  BY Guest DEF PlicInitHart, At, HARTINIT, Skip
<1>3. 2^UART0_IRQ + 2^VIRTIO0_IRQ \in Nat
  BY DEF UART0_IRQ, VIRTIO0_IRQ
<1>4. \E a, v : v \in Nat /\ plic' = plic_write(plic, a, v)
  BY <1>3 DEF PlicInitHart
<1>5. plic' \in PlicState
  BY <1>1, <1>4, PlicWriteType
<1>6. UNCHANGED <<started, char, got, uart>> /\ UNCHANGED saved_sip
  BY DEF PlicInitHart, guest
<1>7. Along(96, 100) /\ Along(100, 104)
  BY DEF Along, Jumps, Path
<1> QED
  BY <1>2, <1>5, <1>6, <1>7, GotoQuiet, HartFacts

LEMMA SchedulerInv ==
    ASSUME Inv, NEW h \in Harts, Scheduler(h)
    PROVE  Inv'
<1> DEFINE x == cpu[h]
           on == execute_csr(x, "rs", "sstatus", {MSTATUS_SIE})
           off == execute_csr(x, "rc", "sstatus", {MSTATUS_SIE})
<1>1. Control(x) /\ saved_sip \in [Harts -> SUBSET Bits] /\ plic \in PlicState
  BY HartFacts
<1>2. \/ x.pc = SCHEDULER /\ Execute(h, on)
      \/ x.pc = 112 /\ (Goto(h, 116) \/ Goto(h, 112))
      \/ x.pc = SCHEDULER + 8 /\ Execute(h, off)
      \/ x.pc = 120 /\ Goto(h, 108)
  BY Guest DEF Scheduler, At, SCHEDULER, Skip
<1>3. UNCHANGED <<devices, guest>>
  BY DEF Scheduler
<1>4. Along(112, 116) /\ Along(112, 112) /\ Along(120, 108)
  BY DEF Along, Jumps, Path, Kernel
<1>5. CASE x.pc = 112 /\ (Goto(h, 116) \/ Goto(h, 112))
  BY <1>3, <1>4, <1>5, GotoOnly
<1>6. CASE x.pc = 120 /\ Goto(h, 108)
  BY <1>3, <1>4, <1>6, GotoOnly
<1>7. ASSUME NEW d, x.pc \in {108, 116}, Execute(h, d), Control(d), spc(d) \in {112, 120}
      PROVE  Inv'
  <2>1. cpu' = [cpu EXCEPT ![h] = d] /\ UNCHANGED <<load, channel, stdin>>
    BY <1>7 DEF Execute, host
  <2>2. spc(x) = x.pc
    BY <1>1, <1>7, InS
  <2>3. Path(x.pc, spc(d))
    BY <1>7 DEF Path, Kernel
  <2>4. Moves(h, d)
    BY <1>7, <2>1, <2>2, <2>3 DEF Moves
  <2>5. ~External(d)
    BY <1>7 DEF External, CLAIM, KERNELVEC
  <2>6. Quiet(h, d)
    BY <1>1, <1>3, <1>7, <2>1, <2>2, <2>4, <2>5 DEF Quiet, devices, guest
  <2> QED
    BY <2>6, QuietInv
<1>8. CASE x.pc = SCHEDULER /\ Execute(h, on)
  <2> HIDE DEF x
  <2>1. Control(on) /\ spc(on) = 112
    BY <1>1, <1>8, IntrOn
  <2> HIDE DEF on
  <2> QED
    BY <1>7, <1>8, <2>1 DEF SCHEDULER
<1>9. CASE x.pc = SCHEDULER + 8 /\ Execute(h, off)
  <2> HIDE DEF x
  <2>1. Control(off) /\ spc(off) = 120
    BY <1>1, <1>9, IntrOff
  <2> HIDE DEF off
  <2> QED
    BY <1>7, <1>9, <2>1 DEF SCHEDULER
<1> QED
  BY <1>2, <1>5, <1>6, <1>8, <1>9

LEMMA DiskRequestInv ==
    ASSUME Inv, NEW h \in Harts, DiskRequest(h)
    PROVE  Inv'
<1>1. cpu[h].pc = 120 /\ Goto(h, 108)
  BY DEF DiskRequest, At, SCHEDULER
<1>2. UNCHANGED <<started, char, got, uart>> /\ UNCHANGED <<plic, saved_sip>>
  BY DEF DiskRequest, guest
<1>3. Along(120, 108)
  BY DEF Along, Jumps, Path, Kernel
<1> QED
  BY <1>1, <1>2, <1>3, GotoQuiet, HartFacts

-----------------------------------------------------------------------------
(* Counting bytes. *)

Places(b, s) == {i \in 1 .. Len(s) : s[i] = b}

LEMMA CountPlaces ==
    ASSUME NEW s \in Seq(Byte), NEW b
    PROVE  Count(b, s) = Cardinality(Places(b, s)) /\ IsFiniteSet(Places(b, s))
           /\ Count(b, s) \in Nat
<1>1. DOMAIN s = 1 .. Len(s) /\ Len(s) \in Nat
  OBVIOUS
<1>2. IsFiniteSet(1 .. Len(s))
  BY <1>1, FS_Interval
<1>3. Places(b, s) \in SUBSET (1 .. Len(s))
  BY DEF Places
<1>4. IsFiniteSet(Places(b, s))
  BY <1>2, <1>3, FS_Subset
<1>5. Cardinality(Places(b, s)) \in Nat
  BY <1>4, FS_CardinalityType
<1>6. Count(b, s) = Cardinality(Places(b, s))
  BY <1>1 DEF Count, Places
<1> QED
  BY <1>4, <1>5, <1>6

LEMMA CountAppend ==
    ASSUME NEW s \in Seq(Byte), NEW x \in Byte, NEW b
    PROVE  Count(b, Append(s, x)) = Count(b, s) + IF x = b THEN 1 ELSE 0
<1> DEFINE t == Append(s, x)
           n == Len(s) + 1
<1>1. t \in Seq(Byte) /\ Len(t) = n /\ t[n] = x /\ \A i \in 1 .. Len(s) : t[i] = s[i]
  BY AppendProperties
<1>2. Len(s) \in Nat /\ n \notin 1 .. Len(s)
      /\ \A i : i \in 1 .. n <=> i = n \/ i \in 1 .. Len(s)
  OBVIOUS
<1> HIDE DEF t, n
<1>3. Places(b, t) = IF x = b THEN Places(b, s) \cup {n} ELSE Places(b, s)
  <2>1. CASE x = b
    BY <1>1, <1>2, <2>1 DEF Places
  <2>2. CASE x # b
    BY <1>1, <1>2, <2>2 DEF Places
  <2> QED
    BY <2>1, <2>2
<1>4. n \notin Places(b, s)
  BY <1>2 DEF Places
<1>5. IsFiniteSet(Places(b, s)) /\ Count(b, s) = Cardinality(Places(b, s)) /\ Count(b, s) \in Nat
  BY CountPlaces
<1>6. Count(b, t) = Cardinality(Places(b, t))
  BY <1>1, CountPlaces
<1>7. Cardinality(Places(b, s) \cup {n}) = Cardinality(Places(b, s)) + 1
  BY <1>4, <1>5, FS_AddElement
<1> QED
  BY <1>3, <1>5, <1>6, <1>7 DEF t

LEMMA CountTail ==
    ASSUME NEW s \in Seq(Byte), s # <<>>, NEW b
    PROVE  Count(b, s) = Count(b, Tail(s)) + IF Head(s) = b THEN 1 ELSE 0
<1> DEFINE t == Tail(s)
           P == Places(b, t)
           Q == Places(b, s) \ {1}
           f == [i \in P |-> i + 1]
<1>1. /\ t \in Seq(Byte) /\ Len(t) = Len(s) - 1 /\ Len(s) \in Nat /\ Len(s) >= 1
      /\ \A i \in 1 .. Len(t) : t[i] = s[i + 1]
  BY HeadTailProperties
<1>2. Head(s) = s[1]
  OBVIOUS
<1> HIDE DEF t
<1>3. f \in [P -> Q]
  BY <1>1 DEF Places
<1>4. \A i, j \in P : f[i] = f[j] => i = j
  BY <1>1 DEF Places
<1>5. ASSUME NEW k \in Q
      PROVE  \E i \in P : f[i] = k
  <2>1. k \in 1 .. Len(s) /\ k # 1 /\ s[k] = b
    BY DEF Places
  <2>2. k - 1 \in 1 .. Len(t) /\ (k - 1) + 1 = k
    BY <1>1, <2>1
  <2>3. k - 1 \in P
    BY <1>1, <2>1, <2>2 DEF Places
  <2> QED
    BY <2>2, <2>3
<1> HIDE DEF f
<1>6. ExistsBijection(P, Q)
  <2> HIDE DEF P, Q
  <2>1. f \in Bijection(P, Q)
    BY <1>3, <1>4, <1>5, Fun_IsBij
  <2> QED
    BY <2>1 DEF ExistsBijection
<1>7. IsFiniteSet(P) /\ Count(b, t) = Cardinality(P) /\ Count(b, t) \in Nat
  BY <1>1, CountPlaces
<1>8. IsFiniteSet(Places(b, s)) /\ Count(b, s) = Cardinality(Places(b, s)) /\ Count(b, s) \in Nat
  BY CountPlaces
<1> DEFINE all == Places(b, s)
<1> HIDE DEF P
<1>9. Cardinality(Q) = Cardinality(P)
  <2> HIDE DEF Q
  <2> QED
    BY <1>6, <1>7, FS_Bijection
<1>10. 1 \in all <=> Head(s) = b
  BY <1>1, <1>2 DEF Places
<1> HIDE DEF all
<1>11. Cardinality(Q) = IF 1 \in all THEN Cardinality(all) - 1 ELSE Cardinality(all)
  BY <1>8, FS_RemoveElement DEF all
<1> HIDE DEF Q
<1> QED
  BY <1>7, <1>8, <1>9, <1>10, <1>11 DEF t, all

LEMMA HoldersCount ==
    ASSUME Inv, NEW b
    PROVE  IsFiniteSet(Holders(b)) /\ Cardinality(Holders(b)) \in Nat
<1>1. load.ncpu \in Nat
  BY LoadAssumption DEF Inv, Types
<1>2. IsFiniteSet(Harts)
  BY <1>1, FS_Interval DEF Harts
<1>3. Holders(b) \in SUBSET Harts
  BY DEF Holders
<1>4. IsFiniteSet(Holders(b))
  BY <1>2, <1>3, FS_Subset
<1> QED
  BY <1>4, FS_CardinalityType

-----------------------------------------------------------------------------
(* The way of a byte. *)

LEMMA Assoc ==
    ASSUME NEW s \in Seq(Byte), NEW t \in Seq(Byte), NEW u \in Seq(Byte)
    PROVE  (s \o t) \o u = s \o (t \o u)
<1>1. s \o t \in Seq(Byte) /\ t \o u \in Seq(Byte)
      /\ Len(s \o t) = Len(s) + Len(t) /\ Len(t \o u) = Len(t) + Len(u)
  BY ConcatProperties
<1>2. /\ (s \o t) \o u \in Seq(Byte) /\ s \o (t \o u) \in Seq(Byte)
      /\ Len((s \o t) \o u) = Len(s) + Len(t) + Len(u)
      /\ Len(s \o (t \o u)) = Len(s) + Len(t) + Len(u)
  BY <1>1, ConcatProperties
<1>3. ASSUME NEW i \in 1 .. (Len(s) + Len(t) + Len(u))
      PROVE  ((s \o t) \o u)[i] = (s \o (t \o u))[i]
  BY <1>1
<1> QED
  BY <1>2, <1>3, SeqEqual

LEMMA BytesAreNumbers == ASSUME NEW s \in Seq(Byte) PROVE s \in Seq(Nat)
<1>1. Len(s) \in Nat /\ s \in [1 .. Len(s) -> Byte]
  BY LenProperties
<1>2. Byte \subseteq Nat
  BY DEF Byte
<1>3. s \in [1 .. Len(s) -> Nat]
  BY <1>1, <1>2
<1> QED
  BY <1>1, <1>3, SeqDef

LEMMA Queues ==
    ASSUME Inv
    PROVE  /\ uart \in UartState /\ uart.rx_queue \in Seq(Byte) /\ channel \in Seq(Byte)
           /\ stdin \in Seq(Byte) /\ got \in Seq(Byte) /\ Pipe \in Seq(Byte)
           /\ load.ncpu \in Nat \ {0} /\ 1 \in Context /\ 0 \in Harts /\ load.input \in Seq(Byte)
<1>1. /\ uart \in UartState /\ uart.rx_queue \in Seq(Byte) /\ channel \in Seq(Byte)
      /\ stdin \in Seq(Byte) /\ got \in Seq(Byte) /\ load \in Loads
  BY DEF Inv, Types
<1>2. uart.rx_queue \o channel \in Seq(Byte)
  BY <1>1, ConcatProperties
<1>3. Pipe \in Seq(Byte)
  BY <1>1, <1>2, ConcatProperties DEF Pipe
<1>4. load.ncpu \in Nat \ {0} /\ 2 * load.ncpu <= MAX_CONTEXTS /\ load.input \in Seq(Byte)
  BY <1>1, LoadAssumption DEF Byte
<1>5. 1 \in Context /\ 0 \in Harts
  BY <1>4, PlicAssumption DEF Context, Harts
<1> QED
  BY <1>1, <1>3, <1>4, <1>5

\* What only moves bytes along the pipe keeps their order and their number.
LEMMA PipeKept ==
    ASSUME Inv, UNCHANGED <<load, char, got>>, Pipe' = Pipe
    PROVE  Fifo' /\ Conserved'
<1>1. Harts' = Harts
  BY DEF Harts
<1>2. Hand' = Hand /\ \A b : Holders(b)' = Holders(b)
  BY <1>1 DEF Hand, Holders
<1> QED
  BY <1>2 DEF Inv, Fifo, Conserved

\* The reader thread passes a byte on.
LEMMA ReadStdinInv ==
    ASSUME Inv, ReadStdin
    PROVE  Inv'
<1>1. /\ stdin # <<>> /\ channel' = Append(channel, Head(stdin)) /\ stdin' = Tail(stdin)
      /\ UNCHANGED <<load, cpu, uart, plic, virtio, started, saved_sip, char, got>>
  BY DEF ReadStdin, devices, guest
<1>2. channel \in Seq(Byte) /\ stdin \in Seq(Byte) /\ uart.rx_queue \in Seq(Byte)
  BY Queues
<1>3. channel' \in Seq(Byte) /\ stdin' \in Seq(Byte)
  BY <1>1, <1>2, HeadTailProperties, AppendProperties
<1>4. channel' \o stdin' = channel \o stdin
  BY <1>1, <1>2, PassOn
<1>5. Pipe' = Pipe
  <2>1. (uart.rx_queue \o channel) \o stdin = uart.rx_queue \o (channel \o stdin)
    BY <1>2, Assoc
  <2>2. (uart.rx_queue \o channel') \o stdin' = uart.rx_queue \o (channel' \o stdin')
    BY <1>2, <1>3, Assoc
  <2> QED
    BY <1>1, <1>4, <2>1, <2>2 DEF Pipe
<1>6. Harts' = Harts
  BY <1>1 DEF Harts
<1>7. Types' /\ Controlled' /\ Claimable'
  BY <1>1, <1>3, <1>6 DEF Inv, Types, Controlled, Boot, Latch, InHand, Claimable
<1>8. Fifo' /\ Conserved'
  BY <1>1, <1>5, PipeKept
<1> QED
  BY <1>7, <1>8 DEF Inv

\* poll_input takes a first part of the channel to the end of the receive queue.
LEMMA PollKeeps ==
    ASSUME Inv, NEW h \in Harts, Poll(h), UNCHANGED stdin
    PROVE  /\ uart' \in UartState /\ uart'.rx_queue \in Seq(Byte) /\ channel' \in Seq(Byte)
           /\ Pipe' = Pipe
           /\ uart'.dlab = uart.dlab
           /\ interrupt_status(uart) => interrupt_status(uart')
<1>1. /\ uart \in UartState /\ uart.rx_queue \in Seq(Byte) /\ channel \in Seq(Byte)
      /\ stdin \in Seq(Byte)
  BY Queues
<1>2. CASE UNCHANGED <<uart, channel>>
  BY <1>1, <1>2 DEF Pipe
<1>3. CASE /\ uart' = poll_input(uart, Received)
           /\ channel' = SubSeq(channel, Len(Received) + 1, Len(channel))
  <2> DEFINE k == IF Len(channel) < BUF THEN Len(channel) ELSE BUF
             r == SubSeq(channel, 1, k)
             rest == SubSeq(channel, k + 1, Len(channel))
             q == uart.rx_queue
  <2>1. k \in 0 .. Len(channel)
    BY <1>1, GuestAssumption
  <2> HIDE DEF k
  <2>2. r \in Seq(Byte) /\ Len(r) = k /\ rest \in Seq(Byte) /\ r \o rest = channel
    BY <1>1, <2>1, Cut
  <2>3. Received = r
    BY DEF Received, k
  <2> HIDE DEF r, rest, q
  <2>4. channel' = rest
    BY <1>3, <2>2, <2>3 DEF rest
  <2>5. r \in Seq(Nat)
    BY <2>2, BytesAreNumbers
  <2>6. /\ uart' \in UartState /\ uart'.dlab = uart.dlab /\ uart'.rx_enabled = uart.rx_enabled
        /\ uart'.rx_queue = q \o r
    BY <1>1, <1>3, <2>3, <2>5, UartPoll DEF q
  <2>7. q \in Seq(Byte)
    BY <1>1 DEF q
  <2>8. q \o r \in Seq(Byte)
    BY <2>2, <2>7, ConcatProperties
  <2>9. (q \o r) \o rest = q \o channel
    BY <2>2, <2>7, Assoc
  <2>10. q # <<>> => q \o r # <<>>
    BY <2>2, <2>7, ConcatEqualIffEmpty
  <2> QED
    BY <2>2, <2>4, <2>6, <2>8, <2>9, <2>10 DEF q, Pipe, interrupt_status, data_available
<1> QED
  BY <1>2, <1>3 DEF Poll

\* A line that rises only adds to what can be claimed.
LEMMA ClaimableMore ==
    ASSUME NEW p \in PlicState, NEW c \in Context, NEW on, NEW more, on \subseteq more,
           claimable(p, on, c)
    PROVE  claimable(p, more, c)
<1>1. p.priority \in [IRQ -> Nat]
  BY DEF PlicState
<1>2. p.threshold \in [Context -> Nat]
  BY DEF PlicState
<1>3. Eligible(p, on \cap p.enable[c], p.threshold[c], MAX_IRQ - 1) # {}
  BY <1>1, <1>2, ClaimableIff
<1>4. Eligible(p, more \cap p.enable[c], p.threshold[c], MAX_IRQ - 1) # {}
  BY <1>3 DEF Eligible
<1> QED
  BY <1>1, <1>2, <1>4, ClaimableIff

\* Cpu::fetch: a byte may move on, and a trap may be taken.
LEMMA FetchInv ==
    ASSUME Inv, NEW h \in Harts, Fetch(h)
    PROVE  Inv'
<1> DEFINE x == cpu[h]
           mtip == pending(clint', h)
           seip == claimable(plic, lines(uart', virtio), context(h))
           d == deliver(sample(x, mtip, seip))
<1>1. /\ cpu' = [cpu EXCEPT ![h] = d] /\ Poll(h)
      /\ UNCHANGED <<load, plic, virtio, stdin, started, saved_sip, char, got>>
  BY DEF Fetch, guest
<1>2. mtip \in BOOLEAN /\ seip \in BOOLEAN
  BY DEF pending, claimable
<1>3. Control(x)
  BY HartFacts
<1>4. /\ uart' \in UartState /\ uart'.rx_queue \in Seq(Byte) /\ channel' \in Seq(Byte)
      /\ Pipe' = Pipe /\ uart'.dlab = uart.dlab
      /\ interrupt_status(uart) => interrupt_status(uart')
  BY <1>1, PollKeeps
<1>5. /\ Control(d)
      /\ \/ spc(d) = spc(x) /\ d.scause = x.scause
         \/ spc(x) \in {112, 116} /\ spc(d) = KERNELVEC /\ (d.scause.code = 9 => seip)
  <2> HIDE DEF x, mtip, seip
  <2> QED
    BY <1>2, <1>3, Delivered
<1> HIDE DEF d
<1>6. Moves(h, d)
  BY <1>1, <1>5 DEF Moves, Path, Kernel, KERNELVEC
<1>7. Types /\ Controlled /\ Claimable
  BY DEF Inv
<1>8. Controlled' /\ cpu' = [k \in Harts |-> cpu'[k]]
  <2>1. char'[h] # 0 => spc(d) = 36
    BY <1>1, <1>5, <1>7 DEF Controlled, InHand, GETC
  <2> QED
    BY <1>1, <1>4, <1>6, <1>7, <2>1, MovesKeep
<1>9. Harts' = Harts
  BY <1>1 DEF Harts
<1>10. Types'
  BY <1>1, <1>4, <1>7, <1>8, <1>9 DEF Types
<1>11. Fifo' /\ Conserved'
  BY <1>1, <1>4, PipeKept
<1>12. Claimable'
  <2>1. SUFFICES ASSUME load.ncpu = 1, External(cpu'[0])
                 PROVE  claimable(plic, lines(uart', virtio), 1)
    BY <1>1 DEF Claimable
  <2>2. h = 0 /\ cpu'[0] = d
    BY <1>1, <1>7, <2>1 DEF Harts, Types
  <2>3. CASE spc(d) = spc(x) /\ d.scause = x.scause
    <3>1. claimable(plic, lines(uart, virtio), 1)
      BY <1>7, <2>1, <2>2, <2>3 DEF Claimable, External
    <3>2. lines(uart, virtio) \subseteq lines(uart', virtio)
      BY <1>4 DEF lines
    <3>3. plic \in PlicState /\ 1 \in Context
      BY Queues, HartFacts
    <3> QED
      BY <3>1, <3>2, <3>3, ClaimableMore
  <2>4. CASE spc(d) = KERNELVEC /\ (d.scause.code = 9 => seip)
    <3>1. d.scause.code = 9
      BY <2>1, <2>2, <2>4 DEF External, KERNELVEC, CLAIM
    <3>2. context(h) = 1
      BY <2>2 DEF context
    <3> QED
      BY <2>4, <3>1, <3>2
  <2> QED
    BY <1>5, <2>3, <2>4
<1> QED
  BY <1>8, <1>10, <1>11, <1>12 DEF Inv

LEMMA TailConcat ==
    ASSUME NEW s \in Seq(Byte), NEW t \in Seq(Byte), s # <<>>
    PROVE  s \o t # <<>> /\ Head(s \o t) = Head(s) /\ Tail(s \o t) = Tail(s) \o t
<1>1. /\ Tail(s) \in Seq(Byte) /\ Len(Tail(s)) = Len(s) - 1 /\ Len(s) \in Nat /\ Len(s) >= 1
      /\ \A i \in 1 .. Len(Tail(s)) : Tail(s)[i] = s[i + 1]
  BY HeadTailProperties
<1>2. s \o t \in Seq(Byte) /\ Len(s \o t) = Len(s) + Len(t) /\ Len(t) \in Nat
  BY ConcatProperties
<1>3. s \o t # <<>> /\ Head(s \o t) = Head(s)
  BY <1>1, <1>2
<1>4. Tail(s \o t) \in Seq(Byte) /\ Len(Tail(s \o t)) = Len(s) + Len(t) - 1
  BY <1>1, <1>2, <1>3, HeadTailProperties
<1>5. Tail(s) \o t \in Seq(Byte) /\ Len(Tail(s) \o t) = Len(s) + Len(t) - 1
  BY <1>1, <1>2, ConcatProperties
<1>6. ASSUME NEW i \in 1 .. (Len(s) + Len(t) - 1)
      PROVE  Tail(s \o t)[i] = (Tail(s) \o t)[i]
  <2>1. Tail(s \o t)[i] = (s \o t)[i + 1]
    BY <1>2, <1>3, <1>4, HeadTailProperties
  <2>2. CASE i <= Len(s) - 1
    BY <1>1, <1>2, <2>1, <2>2
  <2>3. CASE i > Len(s) - 1
    BY <1>1, <1>2, <2>1, <2>3
  <2> QED
    BY <1>1, <2>2, <2>3
<1>7. Tail(s \o t) = Tail(s) \o t
  BY <1>4, <1>5, <1>6, SeqEqual
<1> QED
  BY <1>3, <1>7

LEMMA SingleHart ==
    ASSUME Inv, load.ncpu = 1, NEW h \in Harts
    PROVE  h = 0
BY DEF Harts

\* A hart with empty hands takes the first byte that has not been read.
LEMMA Taken ==
    ASSUME Inv, NEW h \in Harts, char[h] = 0, Pipe # <<>>, UNCHANGED <<load, got>>,
           char' = [char EXCEPT ![h] = Head(Pipe)], Pipe' = Tail(Pipe)
    PROVE  Fifo' /\ Conserved'
<1> DEFINE x == Head(Pipe)
<1>1. Pipe \in Seq(Byte) /\ got \in Seq(Byte)
  BY Queues
<1>2. x \in Byte /\ Pipe' \in Seq(Byte)
  BY <1>1, HeadTailProperties
<1>3. x # 0
  <2>1. \A y \in Byte : y # 0
    BY DEF Byte
  <2> HIDE DEF x
  <2> QED
    BY <1>2, <2>1
<1>4. Harts' = Harts /\ char \in [Harts -> 0 .. 255]
  BY DEF Harts, Inv, Types
<1>5. char'[h] = x /\ \A k \in Harts \ {h} : char'[k] = char[k]
  BY <1>4
<1>6. Fifo'
  <2>1. SUFFICES ASSUME load.ncpu = 1
                 PROVE  (got \o Hand') \o Pipe' = load.input
    BY DEF Fifo
  <2>2. h = 0
    BY <2>1, SingleHart
  <2>3. Hand = <<>> /\ Hand' = <<x>>
    BY <1>3, <1>5, <2>2 DEF Hand
  <2>4. (got \o Hand) \o Pipe = load.input
    BY <2>1 DEF Inv, Fifo
  <2>5. got \o Hand = got
    BY <1>1, <2>3, ConcatEmptySeq
  <2>6. got \o Hand' = Append(got, x)
    BY <1>1, <1>2, <2>3, AppendIsConcat
  <2>7. Append(got, x) \o Pipe' = got \o Pipe
    BY <1>1, PassOn
  <2> QED
    BY <2>4, <2>5, <2>6, <2>7
<1>7. ASSUME NEW b \in Byte
      PROVE  (Count(b, got) + Count(b, Pipe) + Cardinality(Holders(b)) = Count(b, load.input))'
  <2>1. Count(b, got) + Count(b, Pipe) + Cardinality(Holders(b)) = Count(b, load.input)
    BY DEF Inv, Conserved
  <2>2. Count(b, Pipe) = Count(b, Pipe') + IF x = b THEN 1 ELSE 0
    BY <1>1, CountTail
  <2>3. Count(b, got) \in Nat /\ Count(b, Pipe) \in Nat /\ Count(b, Pipe') \in Nat
    BY <1>1, <1>2, CountPlaces
  <2>4. h \notin Holders(b) /\ IsFiniteSet(Holders(b)) /\ Cardinality(Holders(b)) \in Nat
    <3>1. h \notin Holders(b)
      BY DEF Holders, Byte
    <3> QED
      BY <3>1, HoldersCount
  <2>5. Holders(b)' = IF x = b THEN Holders(b) \cup {h} ELSE Holders(b)
    BY <1>4, <1>5, <2>4 DEF Holders
  <2>6. Cardinality(Holders(b) \cup {h}) = Cardinality(Holders(b)) + 1
    BY <2>4, FS_AddElement
  <2>7. Cardinality(Holders(b)') = Cardinality(Holders(b)) + IF x = b THEN 1 ELSE 0
    BY <2>4, <2>5, <2>6
  <2>8. Count(b, got') + Count(b, Pipe') + Cardinality(Holders(b)') = Count(b, load'.input)
    BY <2>1, <2>2, <2>3, <2>4, <2>7
  <2> QED
    BY <2>8 DEF Count
<1> QED
  BY <1>6, <1>7 DEF Conserved

\* consoleintr puts the byte in hand into the console's buffer.
LEMMA Kept ==
    ASSUME Inv, NEW h \in Harts, char[h] # 0, UNCHANGED load,
           char' = [char EXCEPT ![h] = 0], got' = Append(got, char[h]), Pipe' = Pipe
    PROVE  Fifo' /\ Conserved'
<1> DEFINE x == char[h]
<1>1. Pipe \in Seq(Byte) /\ got \in Seq(Byte)
  BY Queues
<1>2. Harts' = Harts /\ char \in [Harts -> 0 .. 255]
  BY DEF Harts, Inv, Types
<1>3. x \in Byte
  BY <1>2 DEF Byte
<1>4. char'[h] = 0 /\ \A k \in Harts \ {h} : char'[k] = char[k]
  BY <1>2
<1>5. got' \in Seq(Byte)
  BY <1>1, <1>3, AppendProperties
<1>6. Fifo'
  <2>1. SUFFICES ASSUME load.ncpu = 1
                 PROVE  (got' \o Hand') \o Pipe' = load.input
    BY DEF Fifo
  <2>2. h = 0
    BY <2>1, SingleHart
  <2>3. Hand = <<x>> /\ Hand' = <<>>
    BY <1>4, <2>2 DEF Hand
  <2>4. (got \o Hand) \o Pipe = load.input
    BY <2>1 DEF Inv, Fifo
  <2>5. got' \o Hand' = got'
    BY <1>5, <2>3, ConcatEmptySeq
  <2>6. got \o Hand = Append(got, x)
    BY <1>1, <1>3, <2>3, AppendIsConcat
  <2> QED
    BY <2>4, <2>5, <2>6
<1>7. ASSUME NEW b \in Byte
      PROVE  (Count(b, got) + Count(b, Pipe) + Cardinality(Holders(b)) = Count(b, load.input))'
  <2>1. Count(b, got) + Count(b, Pipe) + Cardinality(Holders(b)) = Count(b, load.input)
    BY DEF Inv, Conserved
  <2>2. Count(b, got') = Count(b, got) + IF x = b THEN 1 ELSE 0
    BY <1>1, <1>3, CountAppend
  <2>3. Count(b, got) \in Nat /\ Count(b, Pipe) \in Nat
    BY <1>1, CountPlaces
  <2>4. /\ h \in Holders(b) <=> x = b
        /\ IsFiniteSet(Holders(b)) /\ Cardinality(Holders(b)) \in Nat
    BY HoldersCount DEF Holders
  <2>5. Holders(b)' = Holders(b) \ {h}
    BY <1>2, <1>4 DEF Holders, Byte
  <2>6. Cardinality(Holders(b) \ {h})
           = IF h \in Holders(b) THEN Cardinality(Holders(b)) - 1 ELSE Cardinality(Holders(b))
    BY <2>4, FS_RemoveElement
  <2>7. Cardinality(Holders(b)') = Cardinality(Holders(b)) - IF x = b THEN 1 ELSE 0
    BY <2>4, <2>5, <2>6
  <2>8. Count(b, got') + Count(b, Pipe') + Cardinality(Holders(b)') = Count(b, load'.input)
    BY <2>1, <2>2, <2>3, <2>4, <2>7
  <2> QED
    BY <2>8 DEF Count
<1> QED
  BY <1>6, <1>7 DEF Conserved

\* No hart can be in devintr while the latch is open.
LEMMA LatchClosed ==
    ASSUME Inv, NEW h \in Harts, spc(cpu[h]) \in 12 .. 52
    PROVE  ~uart.dlab
BY DEF Inv, Controlled, Latch, Boot, WAIT

\* uartgetc takes a byte out of the receive queue, or finds that another hart
\* has emptied it.
LEMMA GetcReadInv ==
    ASSUME Inv, NEW h \in Harts, GetcRead(h)
    PROVE  Inv'
<1>1. cpu[h].pc = 32 /\ Goto(h, 36)
  BY Guest DEF GetcRead, At, GETC, Skip
<1>0. Jumps(32, 36)
  BY DEF Jumps
<1>2. /\ char' = [char EXCEPT ![h] = uart_value(uart, RBR)] /\ uart' = uart_read(uart, RBR)
      /\ UNCHANGED <<plic, virtio, started, saved_sip, got>>
  BY DEF GetcRead
<1>3. spc(cpu[h]) = 32 /\ UNCHANGED <<load, channel, stdin>>
  BY <1>0, <1>1, Jumped
<1>4. PICK c : Control(c) /\ spc(c) = 36 /\ cpu' = [cpu EXCEPT ![h] = c]
  BY <1>0, <1>1, Jumped
<1>5. Types /\ Controlled
  BY DEF Inv
<1>6. char[h] = 0
  BY <1>3, <1>5 DEF Controlled, InHand, GETC
<1>7. /\ uart \in UartState /\ uart.rx_queue \in Seq(Byte) /\ channel \in Seq(Byte)
      /\ stdin \in Seq(Byte)
  BY Queues
<1>8. ~uart.dlab
  BY <1>3, LatchClosed
<1> DEFINE v == uart_value(uart, RBR)
           q == uart.rx_queue
<1>9. v = IF q # <<>> THEN Head(q) ELSE 0
  BY <1>7, <1>8, UartStatus
<1>10. /\ uart' \in UartState /\ uart'.dlab = uart.dlab
       /\ uart'.rx_queue = IF q # <<>> THEN Tail(q) ELSE q
  BY <1>2, <1>7, <1>8, UartRead
<1> HIDE DEF v
<1>11. Harts' = Harts /\ char \in [Harts -> 0 .. 255]
  BY <1>3, <1>5 DEF Harts, Types
<1>12. v \in 0 .. 255 /\ uart'.rx_queue \in Seq(Byte)
  <2>1. CASE q = <<>>
    BY <1>7, <1>9, <1>10, <2>1
  <2>2. CASE q # <<>>
    <3>1. Head(q) \in Byte /\ Tail(q) \in Seq(Byte)
      BY <1>7, <2>2, HeadTailProperties
    <3>2. \A y \in Byte : y \in 0 .. 255
      BY DEF Byte
    <3> QED
      BY <1>9, <1>10, <2>2, <3>1, <3>2
  <2> QED
    BY <2>1, <2>2
<1>13. char' = [char EXCEPT ![h] = v]
  BY <1>2 DEF v
<1>14. char' \in [Harts -> 0 .. 255] /\ \A k \in Harts \ {h} : char'[k] = char[k]
  BY <1>11, <1>12, <1>13
<1>15. Controlled' /\ cpu' = [k \in Harts |-> cpu'[k]]
  <2>1. Moves(h, c)
    BY <1>3, <1>4 DEF Moves, Path, Kernel
  <2> QED
    BY <1>2, <1>3, <1>4, <1>5, <1>10, <1>14, <2>1, MovesKeep
<1>16. Types'
  BY <1>2, <1>3, <1>5, <1>10, <1>11, <1>12, <1>14, <1>15 DEF Types
<1>17. Fifo' /\ Conserved'
  <2>1. CASE q = <<>>
    <3>1. char' = char
      BY <1>6, <1>9, <1>11, <1>13, <2>1
    <3>2. Pipe' = Pipe
      BY <1>3, <1>10, <2>1 DEF Pipe
    <3> QED
      BY <1>2, <1>3, <3>1, <3>2, PipeKept
  <2>2. CASE q # <<>>
    <3>1. q \o channel # <<>> /\ Head(q \o channel) = Head(q) /\ Tail(q \o channel) = Tail(q) \o channel
      BY <1>7, <2>2, TailConcat
    <3> DEFINE r == q \o channel
    <3>2. r \in Seq(Byte) /\ stdin \in Seq(Byte) /\ Pipe = r \o stdin
      BY <1>7, ConcatProperties DEF Pipe
    <3>3. Pipe # <<>> /\ Head(Pipe) = Head(q) /\ Tail(Pipe) = (Tail(q) \o channel) \o stdin
      <4>1. r # <<>> /\ Head(r) = Head(q) /\ Tail(r) = Tail(q) \o channel
        BY <3>1
      <4> HIDE DEF r, q
      <4>2. /\ r \o stdin # <<>> /\ Head(r \o stdin) = Head(r)
            /\ Tail(r \o stdin) = Tail(r) \o stdin
        BY <3>2, <4>1, TailConcat
      <4> QED
        BY <3>2, <4>1, <4>2
    <3>4. Pipe' = Tail(Pipe) /\ v = Head(Pipe)
      BY <1>3, <1>9, <1>10, <2>2, <3>3 DEF Pipe
    <3> QED
      BY <1>2, <1>3, <1>6, <1>13, <3>3, <3>4, Taken
  <2> QED
    BY <2>1, <2>2
<1>18. Claimable'
  <2>1. SUFFICES ASSUME load.ncpu = 1, External(cpu'[0])
                 PROVE  FALSE
    BY <1>3 DEF Claimable
  <2>2. cpu'[0] = c
    BY <1>4, <1>5, <2>1 DEF Harts, Types
  <2> QED
    BY <1>4, <2>1, <2>2 DEF External, CLAIM, KERNELVEC
<1> QED
  BY <1>15, <1>16, <1>17, <1>18 DEF Inv

LEMMA ConsoleIntrInv ==
    ASSUME Inv, NEW h \in Harts, ConsoleIntr(h)
    PROVE  Inv'
<1>1. cpu[h].pc = 36 /\ Goto(h, 28)
  BY DEF ConsoleIntr, At, GETC
<1>0. Jumps(36, 28)
  BY DEF Jumps
<1>2. /\ got' = IF char[h] = 0 THEN got ELSE Append(got, char[h])
      /\ char' = [char EXCEPT ![h] = 0]
      /\ UNCHANGED <<plic, virtio, uart, started, saved_sip>>
  BY DEF ConsoleIntr, devices
<1>3. spc(cpu[h]) = 36 /\ UNCHANGED <<load, channel, stdin>>
  BY <1>0, <1>1, Jumped
<1>4. PICK c : Control(c) /\ spc(c) = 28 /\ cpu' = [cpu EXCEPT ![h] = c]
  BY <1>0, <1>1, Jumped
<1>5. Types /\ Controlled
  BY DEF Inv
<1>6. Harts' = Harts /\ char \in [Harts -> 0 .. 255] /\ got \in Seq(Byte)
  BY <1>3, <1>5 DEF Harts, Types
<1>7. char' \in [Harts -> 0 .. 255] /\ char'[h] = 0 /\ \A k \in Harts \ {h} : char'[k] = char[k]
  BY <1>2, <1>6
<1>8. Controlled' /\ cpu' = [k \in Harts |-> cpu'[k]]
  <2>1. Moves(h, c)
    BY <1>3, <1>4 DEF Moves, Path, Kernel
  <2> QED
    BY <1>2, <1>3, <1>5, <1>7, <2>1, MovesKeep
<1>9. Pipe' = Pipe
  BY <1>2, <1>3 DEF Pipe
<1>10. Fifo' /\ Conserved' /\ got' \in Seq(Byte)
  <2>1. CASE char[h] = 0
    <3>1. char' = char /\ got' = got
      BY <1>2, <1>6, <2>1
    <3> QED
      BY <1>3, <1>6, <1>9, <3>1, PipeKept
  <2>2. CASE char[h] # 0
    <3>1. char[h] \in Byte
      BY <1>6, <2>2 DEF Byte
    <3>2. got' = Append(got, char[h])
      BY <1>2, <2>2
    <3>3. got' \in Seq(Byte)
      BY <1>6, <3>1, <3>2, AppendProperties
    <3>4. Fifo' /\ Conserved'
      BY <1>2, <1>3, <1>9, <2>2, <3>2, Kept
    <3> QED
      BY <3>3, <3>4
  <2> QED
    BY <2>1, <2>2
<1>11. Types'
  BY <1>2, <1>3, <1>5, <1>6, <1>7, <1>8, <1>10 DEF Types
<1>12. Claimable'
  <2>1. SUFFICES ASSUME load.ncpu = 1, External(cpu'[0])
                 PROVE  FALSE
    BY <1>3 DEF Claimable
  <2>2. cpu'[0] = c
    BY <1>4, <1>5, <2>1 DEF Harts, Types
  <2> QED
    BY <1>4, <2>1, <2>2 DEF External, CLAIM, KERNELVEC
<1> QED
  BY <1>8, <1>10, <1>11, <1>12 DEF Inv

-----------------------------------------------------------------------------
(* Hart 0 sets up the UART and releases the others. *)

LEMMA OnlyHartZero ==
    ASSUME Inv, NEW h \in Harts, spc(cpu[h]) \in 56 .. 88
    PROVE  h = 0 /\ ~started
BY DEF Inv, Controlled, Boot, WAIT

\* The seven stores of uartinit leave the receive queue alone, and the latch,
\* which the second opens, is closed by the fifth.
LEMMA UartInitInv ==
    ASSUME Inv, NEW h \in Harts, UartInit(h)
    PROVE  Inv'
<1>1. PICK i \in 1 .. 7 :
         /\ At(h, MAIN + 4 * (i - 1))
         /\ Skip(h)
         /\ uart' = uart_write(uart, UartStores[i][1], UartStores[i][2])
         /\ UNCHANGED <<clint, plic, virtio, used, guest>>
  BY DEF UartInit
<1> DEFINE p == 56 + 4 * (i - 1)
           reg == UartStores[i][1]
           value == UartStores[i][2]
<1>2. p \in 56 .. 80 /\ p + 4 \in 60 .. 84
  OBVIOUS
<1>3. cpu[h].pc = p /\ Goto(h, p + 4)
  BY <1>1, <1>2, Guest DEF At, MAIN, Skip
<1>4. /\ reg \in Nat /\ value \in Nat
      /\ reg = LCR <=> i \in {2, 5}
      /\ i = 2 => value >= LCR_BAUD_LATCH
      /\ i = 5 => ~(value >= LCR_BAUD_LATCH)
  BY DEF UartStores, IER, LCR, RBR, FCR, LCR_BAUD_LATCH
<1>5. uart' = uart_write(uart, reg, value)
      /\ UNCHANGED <<plic, virtio, started, saved_sip, char, got>>
  BY <1>1 DEF guest
<1> HIDE DEF reg, value
<1>0. Jumps(p, p + 4)
  BY <1>2 DEF Jumps
<1>6. spc(cpu[h]) = p /\ UNCHANGED <<load, channel, stdin>>
  BY <1>0, <1>3, Jumped
<1>7. PICK c : Control(c) /\ spc(c) = p + 4 /\ cpu' = [cpu EXCEPT ![h] = c]
  BY <1>0, <1>3, Jumped
<1>8. Types /\ Controlled
  BY DEF Inv
<1>9. h = 0 /\ ~started
  BY <1>2, <1>6, OnlyHartZero
<1>10. uart \in UartState /\ uart.rx_queue \in Seq(Byte)
  BY Queues
<1>11. /\ uart' \in UartState /\ uart'.rx_queue = uart.rx_queue
       /\ uart'.dlab = IF reg = LCR THEN value >= LCR_BAUD_LATCH ELSE uart.dlab
  BY <1>4, <1>5, <1>10, UartWrite
<1>12. Harts' = Harts /\ 0 \in Harts
  BY <1>6, Queues DEF Harts
<1>13. cpu' = [k \in Harts |-> IF k = 0 THEN c ELSE cpu[k]]
  BY <1>7, <1>8, <1>9 DEF Types
<1>14. cpu'[0] = c /\ (\A k \in Harts \ {0} : cpu'[k] = cpu[k]) /\ cpu' = [k \in Harts |-> cpu'[k]]
  BY <1>12, <1>13
<1>15. Boot'
  BY <1>2, <1>5, <1>7, <1>8, <1>9, <1>12, <1>14 DEF Controlled, Boot
<1>16. Latch'
  <2>1. uart.dlab => i \in {3, 4, 5}
    BY <1>6, <1>8, <1>9 DEF Controlled, Latch
  <2>2. uart'.dlab => i \in {2, 3, 4}
    BY <1>4, <1>11, <2>1
  <2>3. uart'.dlab => spc(c) \in {64, 68, 72}
    BY <1>7, <2>2
  <2> QED
    BY <1>5, <1>9, <1>14, <2>3 DEF Latch
<1>17. InHand'
  <2>1. ASSUME NEW k \in Harts, char[k] # 0
        PROVE  k # 0 /\ spc(cpu[k]) = GETC + 8
    BY <1>2, <1>6, <1>8, <1>9, <2>1 DEF Controlled, InHand, GETC
  <2> QED
    BY <1>5, <1>12, <1>14, <2>1 DEF InHand
<1>18. Controlled'
  BY <1>7, <1>8, <1>12, <1>14, <1>15, <1>16, <1>17 DEF Controlled
<1>19. Types'
  BY <1>5, <1>6, <1>8, <1>10, <1>11, <1>12, <1>14 DEF Types
<1>20. Fifo' /\ Conserved'
  <2>1. Pipe' = Pipe
    BY <1>6, <1>11 DEF Pipe
  <2> QED
    BY <1>5, <1>6, <2>1, PipeKept
<1>21. Claimable'
  BY <1>2, <1>7, <1>14 DEF Claimable, External, CLAIM, KERNELVEC
<1> QED
  BY <1>18, <1>19, <1>20, <1>21 DEF Inv

LEMMA StartedInv ==
    ASSUME Inv, NEW h \in Harts, Started(h)
    PROVE  Inv'
<1>1. cpu[h].pc = 104 /\ Goto(h, 108)
  BY Guest DEF Started, At, HARTINIT, Skip
<1>0. Jumps(104, 108)
  BY DEF Jumps
<1>2. started' = TRUE /\ UNCHANGED <<plic, virtio, uart, saved_sip, char, got>>
  BY DEF Started, devices
<1>3. spc(cpu[h]) = 104 /\ UNCHANGED <<load, channel, stdin>>
  BY <1>0, <1>1, Jumped
<1>4. PICK c : Control(c) /\ spc(c) = 108 /\ cpu' = [cpu EXCEPT ![h] = c]
  BY <1>0, <1>1, Jumped
<1>5. Types /\ Controlled
  BY DEF Inv
<1>6. Harts' = Harts /\ 0 \in Harts
  BY <1>3, Queues DEF Harts
<1>7. cpu' = [k \in Harts |-> IF k = h THEN c ELSE cpu[k]]
  BY <1>4, <1>5 DEF Types
<1>8. cpu'[h] = c /\ (\A k \in Harts \ {h} : cpu'[k] = cpu[k]) /\ cpu' = [k \in Harts |-> cpu'[k]]
  BY <1>6, <1>7
<1>9. \A k \in Harts \ {h} : spc(cpu[k]) \notin 56 .. 88
  BY <1>3, <1>5 DEF Controlled, Boot, WAIT
<1>10. Boot'
  BY <1>2, <1>4, <1>6, <1>8, <1>9 DEF Boot
<1>11. ~uart.dlab
  BY <1>3, <1>5, <1>6, <1>9 DEF Controlled, Latch
<1>12. Latch'
  BY <1>2, <1>11 DEF Latch
<1>13. InHand'
  <2>1. ASSUME NEW k \in Harts, char[k] # 0
        PROVE  k # h /\ spc(cpu[k]) = GETC + 8
    BY <1>3, <1>5, <2>1 DEF Controlled, InHand, GETC
  <2> QED
    BY <1>2, <1>6, <1>8, <2>1 DEF InHand
<1>14. Controlled'
  BY <1>4, <1>5, <1>6, <1>8, <1>10, <1>12, <1>13 DEF Controlled
<1>15. Types'
  BY <1>2, <1>3, <1>5, <1>6, <1>8 DEF Types
<1>16. Fifo' /\ Conserved'
  <2>1. Pipe' = Pipe
    BY <1>2, <1>3 DEF Pipe
  <2> QED
    BY <1>2, <1>3, <2>1, PipeKept
<1>17. Claimable'
  <2>1. SUFFICES ASSUME load.ncpu = 1, External(cpu'[0])
                 PROVE  FALSE
    BY <1>3 DEF Claimable
  <2>2. cpu'[0] = c
    BY <1>4, <1>5, <2>1 DEF Harts, Types
  <2> QED
    BY <1>4, <2>1, <2>2 DEF External, CLAIM, KERNELVEC
<1> QED
  BY <1>14, <1>15, <1>16, <1>17 DEF Inv

-----------------------------------------------------------------------------
(* The machine as start() left it. *)

LEMMA BootedControl ==
    ASSUME NEW h \in Nat
    PROVE  Control(Booted(h)) /\ spc(Booted(h)) = IF h = 0 THEN 56 ELSE 92
<1> DEFINE pc == IF h = 0 THEN 56 ELSE 92
           n == new_cpu(pc)
           d == Booted(h)
<1>1. pc \in Addr /\ 0 \in Addr /\ 12 \in Addr /\ pc \in 12 .. 120 /\ pc \notin 12 .. 52
      /\ pc \notin {112, 116}
  BY Guest
<1> HIDE DEF pc
<1>2. n \in Cpu /\ n.pc = pc
  <2>1. n \in Cpu
    BY <1>1, NewCpuType
  <2> QED
    BY <2>1 DEF new_cpu
<1> HIDE DEF n
<1> DEFINE e == [n EXCEPT !.mode = PRIV_S, !.mideleg = 0 .. 15, !.medeleg = 0 .. 15,
                          !.mtvec = TIMERVEC, !.stvec = KERNELVEC,
                          !.mie = {1, 5, 7, 9}, !.mstatus = {33, 35, MSTATUS_MPIE}]
<1>3. d = e
  BY DEF Booted, MAIN, WAIT, n, pc
<1>4. /\ 0 .. 15 \in SUBSET Bits /\ {1, 5, 7, 9} \in SUBSET Bits
      /\ {33, 35, MSTATUS_MPIE} \in SUBSET Bits /\ PRIV_S \in Mode
      /\ TIMERVEC \in Addr /\ KERNELVEC \in Addr
  BY <1>1 DEF Bits, MSTATUS_MPIE, PRIV_S, Mode, TIMERVEC, KERNELVEC
<1>5. e \in Cpu
  BY <1>2, <1>4 DEF Cpu
<1>6. /\ e.mode = PRIV_S /\ e.mtvec = TIMERVEC /\ e.stvec = KERNELVEC
      /\ e.mstatus = {33, 35, MSTATUS_MPIE} /\ e.pc = pc
  BY <1>2 DEF Cpu
<1> HIDE DEF d, e
<1>7. spc(e) = pc
  BY <1>6 DEF spc, PRIV_S, PRIV_M
<1>8. MSTATUS_SIE \notin e.mstatus
  BY <1>6 DEF MSTATUS_SIE, MSTATUS_MPIE
<1>9. Control(e)
  BY <1>1, <1>5, <1>6, <1>7, <1>8 DEF Control, PRIV_S, PRIV_M
<1> QED
  BY <1>3, <1>7, <1>9 DEF d, pc

LEMMA InitInv == Init => Inv
<1> SUFFICES ASSUME Init
             PROVE  Inv
  OBVIOUS
<1>1. /\ load \in Loads /\ cpu = [h \in Harts |-> Booted(h)]
      /\ plic = new_plic /\ uart = new_uart /\ stdin = load.input /\ channel = <<>>
      /\ started = FALSE /\ saved_sip = [h \in Harts |-> {}] /\ char = [h \in Harts |-> 0]
      /\ got = <<>>
  BY DEF Init
<1>2. load.ncpu \in Nat \ {0} /\ load.input \in Seq(Byte)
  BY <1>1, LoadAssumption DEF Byte
<1>3. 0 \in Harts /\ Harts \subseteq Nat
  BY <1>2 DEF Harts
<1>4. \A h \in Harts : Control(cpu[h]) /\ spc(cpu[h]) = IF h = 0 THEN 56 ELSE 92
  BY <1>1, <1>3, BootedControl
<1>5. new_uart \in UartState /\ new_uart.rx_queue = <<>> /\ ~new_uart.dlab
  BY DEF new_uart, UartState
<1>6. <<>> \in Seq(Byte)
  OBVIOUS
<1>7. Types
  <2>1. cpu = [h \in Harts |-> cpu[h]]
    BY <1>1
  <2>2. saved_sip \in [Harts -> SUBSET Bits] /\ char \in [Harts -> 0 .. 255]
    BY <1>1
  <2> QED
    BY <1>1, <1>2, <1>5, <1>6, <2>1, <2>2, NewPlicType DEF Types
<1>8. Controlled
  BY <1>1, <1>3, <1>4, <1>5 DEF Controlled, Boot, Latch, InHand, WAIT
<1>9. Pipe = load.input
  <2>1. <<>> \o <<>> = <<>>
    BY <1>6, ConcatEmptySeq
  <2>2. <<>> \o load.input = load.input
    BY <1>2, ConcatEmptySeq
  <2> QED
    BY <1>1, <1>5, <2>1, <2>2 DEF Pipe
<1>10. Fifo
  <2>1. Hand = <<>> /\ got \o Hand = <<>>
    BY <1>1, <1>3, <1>6, ConcatEmptySeq DEF Hand
  <2>2. <<>> \o load.input = load.input
    BY <1>2, ConcatEmptySeq
  <2> QED
    BY <1>9, <2>1, <2>2 DEF Fifo
<1>11. ASSUME NEW b \in Byte
       PROVE  Count(b, got) + Count(b, Pipe) + Cardinality(Holders(b)) = Count(b, load.input)
  <2>1. Count(b, got) = 0
    <3>1. Places(b, <<>>) = {}
      BY DEF Places
    <3> QED
      BY <1>1, <1>6, <3>1, CountPlaces, FS_EmptySet
  <2>2. Holders(b) = {}
    BY <1>1 DEF Holders, Byte
  <2>3. Cardinality(Holders(b)) = 0
    BY <2>2, FS_EmptySet
  <2>4. Count(b, load.input) \in Nat
    BY <1>2, CountPlaces
  <2> QED
    BY <1>9, <2>1, <2>3, <2>4
<1>12. Claimable
  BY <1>3, <1>4 DEF Claimable, External, CLAIM, KERNELVEC
<1> QED
  BY <1>7, <1>8, <1>10, <1>11, <1>12 DEF Inv, Conserved

LEMMA NextInv == Inv /\ [Next]_vars => Inv'
<1> SUFFICES ASSUME Inv, [Next]_vars
             PROVE  Inv'
  OBVIOUS
<1>1. CASE UNCHANGED vars
  <2>1. UNCHANGED <<load, cpu, plic, uart, virtio, stdin, channel, started, saved_sip, char, got>>
    BY <1>1 DEF vars
  <2>2. Harts' = Harts
    BY <2>1 DEF Harts
  <2>3. Types' /\ Controlled' /\ Claimable'
    BY <2>1, <2>2 DEF Inv, Types, Controlled, Boot, Latch, InHand, Claimable
  <2>4. Pipe' = Pipe
    BY <2>1 DEF Pipe
  <2>5. Fifo' /\ Conserved'
    BY <2>1, <2>4, PipeKept
  <2> QED
    BY <2>3, <2>5 DEF Inv
<1>2. CASE ReadStdin
  BY <1>2, ReadStdinInv
<1>3. ASSUME NEW h \in Harts, Step(h)
      PROVE  Inv'
  BY <1>3, FetchInv, TimerInv, DevIntrInv, AckInv, ClaimInv, GetcLookInv, GetcReadInv,
     ConsoleIntrInv, DiskInv, CompleteInv, TrapReturnInv, UartInitInv, PlicInitInv,
     WaitStartedInv, PlicInitHartInv, StartedInv, SchedulerInv, DiskRequestInv, Zenon DEF Step
<1> QED
  BY <1>1, <1>2, <1>3 DEF Next, Run

LEMMA InvHolds == Spec => []Inv
BY InitInv, NextInv, PTL DEF Spec

-----------------------------------------------------------------------------

\* Nothing typed is lost, duplicated or reordered between stdin and the console
\* of a single hart, for any input, any size of the poll buffer and any poll
\* and timer interval: spawn_stdin_reader, StdinChannel::read, Uart::poll_input
\* and the UART's receive queue pass every byte on in order, whatever trap
\* check_interrupt takes on the way.
THEOREM ConsoleFifo == Spec => []ConsoleIsFifo
<1>1. ASSUME Inv
      PROVE  ConsoleIsFifo
  <2>1. SUFFICES ASSUME load.ncpu = 1
                 PROVE  (((got \o Hand) \o uart.rx_queue) \o channel) \o stdin = load.input
    BY DEF ConsoleIsFifo, Hand
  <2> DEFINE g == got \o Hand
             q == uart.rx_queue
  <2>2. q \in Seq(Byte) /\ channel \in Seq(Byte) /\ stdin \in Seq(Byte) /\ got \in Seq(Byte)
    BY <1>1, Queues
  <2>3. g \in Seq(Byte)
    <3>1. char[0] \in 0 .. 255
      BY <1>1, Queues DEF Inv, Types
    <3>2. char[0] # 0 => char[0] \in Byte
      BY <3>1 DEF Byte
    <3>3. Hand \in Seq(Byte)
      BY <3>2 DEF Hand
    <3> QED
      BY <2>2, <3>3, ConcatProperties
  <2>4. g \o ((q \o channel) \o stdin) = load.input
    BY <1>1, <2>1 DEF Inv, Fifo, Pipe
  <2> HIDE DEF g, q
  <2>5. q \o channel \in Seq(Byte)
    BY <2>2, ConcatProperties
  <2>6. (g \o (q \o channel)) \o stdin = g \o ((q \o channel) \o stdin)
    BY <2>2, <2>3, <2>5, Assoc
  <2>7. (g \o q) \o channel = g \o (q \o channel)
    BY <2>2, <2>3, Assoc
  <2> QED
    BY <2>4, <2>6, <2>7 DEF g, q
<1> QED
  BY <1>1, InvHolds, PTL

\* On any number of harts, which may all be in uartintr at once because a claim
\* (claim_irq) consumes nothing, no byte is lost and none comes twice.
THEOREM InputConserved == Spec => []InputIsConserved
<1>1. ASSUME Inv
      PROVE  InputIsConserved
  <2>1. SUFFICES ASSUME NEW i \in DOMAIN load.input
                 PROVE  LET b == load.input[i]
                        IN  Count(b, got) + Count(b, Pipe) + Cardinality(Holders(b))
                               = Count(b, load.input)
    BY DEF InputIsConserved, Pipe, Holders
  <2>2. load.input[i] \in Byte
    BY <1>1, Queues
  <2> QED
    BY <1>1, <2>2 DEF Inv, Conserved
<1> QED
  BY <1>1, InvHolds, PTL

\* An external interrupt is never spurious on a single hart: a line that
\* check_interrupt has seen up is up when devintr comes to claim it, because
\* only devintr takes it down and poll_input only adds bytes.
THEOREM ClaimSucceeds == Spec => []ClaimFindsWork
<1>1. ASSUME Inv
      PROVE  ClaimFindsWork
  <2>1. SUFFICES ASSUME load.ncpu = 1, cpu[0].pc = 24
                 PROVE  claim_irq(plic, lines(uart, virtio), context(0)) # 0
    BY DEF ClaimFindsWork, At, CLAIM
  <2>2. Control(cpu[0])
    BY <1>1, Queues, HartFacts
  <2>3. External(cpu[0])
    BY <2>1, <2>2, InS DEF External, CLAIM
  <2>4. claimable(plic, lines(uart, virtio), 1)
    BY <1>1, <2>1, <2>3 DEF Inv, Claimable
  <2> QED
    BY <2>4 DEF claimable, context
<1> QED
  BY <1>1, InvHolds, PTL

-----------------------------------------------------------------------------
(* The software interrupt by which timervec tells the supervisor. *)

\* timervec has raised SSIP before it returns, and the copy of sip that devintr
\* holds is without it.
Relayed == \A h \in Harts : /\ cpu[h].pc = 8 => 1 \in cpu[h].mip
                            /\ 1 \notin saved_sip[h]

\* What a step may do to a hart.
Waits(x, c) == /\ x.pc = 8 => 1 \in x.mip
               /\ c.pc = 8 => 1 \in c.mip
               /\ 1 \in x.mip /\ 1 \notin c.mip => x.pc = 20
               /\ 1 \notin x.mip /\ 1 \in c.mip => x.pc = 4

Waiting(h) == \E c : cpu' = [cpu EXCEPT ![h] = c] /\ Waits(cpu[h], c)

\* A jump leaves mip alone.
LEMMA GotoWaits ==
    ASSUME Inv, Relayed, NEW h \in Harts, NEW q, q # 8, Goto(h, q)
    PROVE  Waiting(h)
<1> DEFINE x == cpu[h]
           c == [x EXCEPT !.pc = q]
<1>1. x \in Cpu
  BY HartFacts DEF Control
<1>2. x.pc = 8 => 1 \in x.mip
  BY DEF Relayed
<1>3. cpu' = [cpu EXCEPT ![h] = c]
  BY DEF Goto, Execute
<1> HIDE DEF x
<1>4. c.pc = q /\ c.mip = x.mip
  BY <1>1 DEF Cpu
<1> HIDE DEF c
<1>5. Waits(x, c)
  BY <1>2, <1>4 DEF Waits
<1> QED
  BY <1>3, <1>5 DEF Waiting, x

LEMMA SkipWaits ==
    ASSUME Inv, Relayed, NEW h \in Harts, cpu[h].pc \in 0 .. 119, cpu[h].pc # 4, Skip(h)
    PROVE  Waiting(h)
<1> DEFINE p == cpu[h].pc
<1>1. p \in 0 .. 119 /\ p # 4 /\ Goto(h, default_next(p))
  BY DEF Skip
<1> HIDE DEF p
<1>2. default_next(p) = p + 4
  BY <1>1, Guest
<1>3. default_next(p) # 8
  BY <1>1, <1>2
<1> QED
  BY <1>1, <1>3, GotoWaits

\* Sampling puts MTIP and SEIP, and a trap leaves mip as it is.
LEMMA FetchWaits ==
    ASSUME Inv, Relayed, NEW h \in Harts, Fetch(h)
    PROVE  Waiting(h)
<1> DEFINE x == cpu[h]
           mtip == pending(clint', h)
           seip == claimable(plic, lines(uart', virtio), context(h))
           e == sample(x, mtip, seip)
           d == deliver(e)
<1>1. cpu' = [cpu EXCEPT ![h] = d]
  BY DEF Fetch
<1>2. Control(x) /\ x \in Cpu
  BY HartFacts DEF Control
<1>3. mtip \in BOOLEAN /\ seip \in BOOLEAN
  BY DEF pending, claimable
<1>4. x.pc = 8 => 1 \in x.mip
  BY DEF Relayed
<1> HIDE DEF x, mtip, seip
<1>5. e.pc = x.pc /\ e.mtvec = x.mtvec /\ e.stvec = x.stvec
      /\ (1 \in e.mip <=> 1 \in x.mip) /\ e \in Cpu
  <2>1. e \in Cpu
    BY <1>2, <1>3, SampleType
  <2>2. e.mip = put(put(x.mip, MIP_MTIP, mtip), MIP_SEIP, seip)
        /\ e.pc = x.pc /\ e.mtvec = x.mtvec /\ e.stvec = x.stvec
    BY <1>2 DEF sample, Cpu
  <2> HIDE DEF e
  <2>3. 1 \in e.mip <=> 1 \in x.mip
    BY <2>2 DEF put, MIP_MTIP, MIP_SEIP
  <2> QED
    BY <2>1, <2>2, <2>3
<1> HIDE DEF e
<1>6. d.mip = e.mip /\ (d.pc = e.pc \/ d.pc \in {0, 12})
  <2>1. CASE deliver(e) = e
    BY <2>1
  <2>2. CASE \E cause \in Interrupts : takes(e, cause) /\ deliver(e) = raise_trap(e, cause, TRUE, 0)
    <3>1. PICK cause \in Interrupts : deliver(e) = raise_trap(e, cause, TRUE, 0)
      BY <2>2
    <3>2. e.mtvec = 0 /\ e.stvec = 12
      BY <1>2, <1>5 DEF Control, TIMERVEC, KERNELVEC
    <3>3. trap_vector(e.mtvec) = 0 /\ trap_vector(e.stvec) = 12
      BY <3>2, VectorsAligned DEF TIMERVEC, KERNELVEC
    <3>4. CASE delegated(e, cause, TRUE)
      BY <1>5, <3>1, <3>3, <3>4 DEF raise_trap, enter_S, Cpu
    <3>5. CASE ~delegated(e, cause, TRUE)
      BY <1>5, <3>1, <3>3, <3>5 DEF raise_trap, enter_M, Cpu
    <3> QED
      BY <3>4, <3>5
  <2> QED
    BY <1>5, <2>1, <2>2, DeliverCases
<1> HIDE DEF d
<1>7. Waits(x, d)
  BY <1>4, <1>5, <1>6 DEF Waits
<1> QED
  BY <1>1, <1>7 DEF Waiting, x

\* timervec raises SSIP between two of its instructions.
LEMMA TimerWaits ==
    ASSUME Inv, Relayed, NEW h \in Harts, TimerAdvance(h) \/ TimerRelay(h) \/ TimerReturn(h)
    PROVE  Waiting(h)
<1> DEFINE x == cpu[h]
<1>1. Control(x) /\ x \in Cpu /\ (x.pc = 8 => 1 \in x.mip)
  BY HartFacts DEF Control, Relayed
<1>2. CASE TimerAdvance(h)
  <2>1. cpu[h].pc = 0 /\ Skip(h)
    BY <1>2 DEF TimerAdvance, At, TIMERVEC
  <2> QED
    BY <2>1, SkipWaits
<1>3. CASE TimerRelay(h)
  <2> DEFINE d == execute_csr(x, "rw", "sip", {1})
             m == (x.mip \ SIP_MASK) \cup ({1} \cap SIP_MASK)
  <2>1. x.pc = 4 /\ cpu' = [cpu EXCEPT ![h] = d]
    BY <1>3 DEF TimerRelay, At, TIMERVEC, Execute
  <2> HIDE DEF x
  <2>2. d.mip = m
    <3>1. csr_value("rw", csr_read(x, "sip"), {1}) = {1}
      BY DEF csr_value
    <3>2. csr_write(x, "sip", {1}) = [x EXCEPT !.mip = m]
      BY SipMask DEF csr_write
    <3>3. d = [[x EXCEPT !.mip = m] EXCEPT !.pc = default_next(x.pc)]
      BY <3>1, <3>2 DEF execute_csr
    <3> HIDE DEF d, m
    <3> QED
      BY <1>1, <3>3 DEF Cpu
  <2>3. 1 \in m
    BY DEF SIP_MASK
  <2> HIDE DEF d, m
  <2>4. Waits(x, d)
    BY <2>1, <2>2, <2>3 DEF Waits
  <2> QED
    BY <2>1, <2>4 DEF Waiting, x
<1>4. CASE TimerReturn(h)
  <2> DEFINE d == mret(x)
  <2>1. x.pc = 8 /\ cpu' = [cpu EXCEPT ![h] = d]
    BY <1>4 DEF TimerReturn, At, TIMERVEC, Execute
  <2> HIDE DEF x
  <2>2. d.mip = x.mip
    BY <1>1 DEF mret, Cpu
  <2> HIDE DEF d
  <2>3. Waits(x, d)
    BY <1>1, <2>1, <2>2 DEF Waits
  <2> QED
    BY <2>1, <2>3 DEF Waiting, x
<1> QED
  BY <1>2, <1>3, <1>4

\* The acknowledge takes SSIP down and cannot raise it.
LEMMA AckWaits ==
    ASSUME Inv, Relayed, NEW h \in Harts, AckRead(h) \/ AckWrite(h)
    PROVE  Waiting(h) /\ \A k \in Harts : 1 \notin saved_sip'[k]
<1>1. saved_sip \in [Harts -> SUBSET Bits] /\ \A k \in Harts : 1 \notin saved_sip[k]
  BY HartFacts DEF Relayed
<1>2. CASE AckRead(h)
  <2>1. cpu[h].pc = 16 /\ Skip(h)
    BY <1>2 DEF AckRead, At, ACK
  <2>2. saved_sip' = [saved_sip EXCEPT ![h] = csr_read(cpu[h], "sip") \ {1}]
    BY <1>2 DEF AckRead
  <2>3. \A k \in Harts : 1 \notin saved_sip'[k]
    BY <1>1, <2>2
  <2> QED
    BY <2>1, <2>3, SkipWaits
<1>3. CASE AckWrite(h)
  <2> DEFINE x == cpu[h]
             v == saved_sip[h]
             m == (x.mip \ SIP_MASK) \cup (v \cap SIP_MASK)
             d == [csr_write(x, "sip", v) EXCEPT !.pc = RETURN]
  <2>1. x.pc = 20 /\ cpu' = [cpu EXCEPT ![h] = d] /\ UNCHANGED saved_sip
    BY <1>3 DEF AckWrite, At, ACK, Execute, guest
  <2>2. x \in Cpu /\ 1 \notin v
    BY <1>1, HartFacts DEF Control
  <2> HIDE DEF x, v
  <2>3. csr_write(x, "sip", v) = [x EXCEPT !.mip = m]
    BY SipMask DEF csr_write
  <2>4. 1 \notin m
    BY <2>2 DEF SIP_MASK
  <2> HIDE DEF m
  <2>5. d.mip = m /\ d.pc = 52
    BY <2>2, <2>3 DEF Cpu, RETURN
  <2> HIDE DEF d
  <2>6. Waits(x, d)
    BY <2>1, <2>4, <2>5 DEF Waits
  <2> QED
    BY <1>1, <2>1, <2>6 DEF Waiting, x
<1> QED
  BY <1>2, <1>3

\* devintr, its handlers, and main up to the scheduler only jump.
LEMMA KernelWaits ==
    ASSUME Inv, Relayed, NEW h \in Harts,
           \/ DevIntr(h) \/ Claim(h) \/ GetcLook(h) \/ GetcRead(h) \/ ConsoleIntr(h)
           \/ DiskAck(h) \/ DiskReap(h) \/ Complete(h) \/ DiskRequest(h)
           \/ UartInit(h) \/ PlicInit(h) \/ WaitStarted(h) \/ PlicInitHart(h) \/ Started(h)
    PROVE  Waiting(h) /\ UNCHANGED saved_sip
<1>1. /\ TIMERVEC = 0 /\ KERNELVEC = 12 /\ ACK = 16 /\ CLAIM = 24 /\ GETC = 28 /\ DISK = 40
      /\ COMPLETE = 48 /\ RETURN = 52 /\ MAIN = 56 /\ WAIT = 92 /\ HARTINIT = 96
      /\ SCHEDULER = 108
  BY DEF TIMERVEC, KERNELVEC, ACK, CLAIM, GETC, DISK, COMPLETE, RETURN, MAIN, WAIT, HARTINIT,
         SCHEDULER
<1>2. CASE DevIntr(h)
  <2>1. \E q \in {CLAIM, ACK, RETURN} : Goto(h, q)
    BY <1>2 DEF DevIntr
  <2> QED
    BY <1>1, <1>2, <2>1, GotoWaits DEF DevIntr, guest
<1>3. CASE Claim(h)
  <2>1. \E q \in {GETC, DISK, RETURN} : Goto(h, q)
    BY <1>3 DEF Claim
  <2> QED
    BY <1>1, <1>3, <2>1, GotoWaits DEF Claim
<1>4. CASE GetcLook(h)
  <2>1. cpu[h].pc = 28 /\ (Skip(h) \/ Goto(h, 48))
    BY <1>1, <1>4 DEF GetcLook, At
  <2> QED
    BY <1>4, <2>1, GotoWaits, SkipWaits DEF GetcLook, guest
<1>5. CASE GetcRead(h) \/ DiskAck(h) \/ Complete(h) \/ PlicInitHart(h) \/ Started(h)
  <2>1. cpu[h].pc \in {32, 40, 48, 96, 100, 104} /\ Skip(h)
    BY <1>1, <1>5 DEF GetcRead, DiskAck, Complete, PlicInitHart, Started, At
  <2>2. UNCHANGED saved_sip
    BY <1>5 DEF GetcRead, DiskAck, Complete, PlicInitHart, Started, guest
  <2> QED
    BY <2>1, <2>2, SkipWaits
<1>6. CASE ConsoleIntr(h) \/ DiskReap(h) \/ DiskRequest(h)
  <2>1. \E q \in {28, 44, 48, 108} : Goto(h, q)
    BY <1>1, <1>6 DEF ConsoleIntr, DiskReap, DiskRequest
  <2>2. UNCHANGED saved_sip
    BY <1>6 DEF ConsoleIntr, DiskReap, DiskRequest, guest
  <2> QED
    BY <2>1, <2>2, GotoWaits
<1>7. CASE UartInit(h)
  <2>1. PICK i \in 1 .. 7 : cpu[h].pc = 56 + 4 * (i - 1) /\ Skip(h) /\ UNCHANGED saved_sip
    BY <1>1, <1>7 DEF UartInit, At, guest
  <2>2. cpu[h].pc \in 0 .. 119 /\ cpu[h].pc # 4
    BY <2>1
  <2> QED
    BY <2>1, <2>2, SkipWaits
<1>8. CASE PlicInit(h)
  <2>1. (cpu[h].pc = 84 /\ Skip(h)) \/ Goto(h, 96)
    BY <1>1, <1>8 DEF PlicInit, At
  <2> QED
    BY <1>8, <2>1, GotoWaits, SkipWaits DEF PlicInit, guest
<1>9. CASE WaitStarted(h)
  <2>1. cpu[h].pc = 92 /\ (Skip(h) \/ Goto(h, 92))
    BY <1>1, <1>9 DEF WaitStarted, At
  <2> QED
    BY <1>9, <2>1, GotoWaits, SkipWaits DEF WaitStarted, guest
<1> QED
  BY <1>2, <1>3, <1>4, <1>5, <1>6, <1>7, <1>8, <1>9

\* SRET and the writes of sstatus leave mip alone.
LEMMA StatusWaits ==
    ASSUME Inv, Relayed, NEW h \in Harts, TrapReturn(h) \/ Scheduler(h)
    PROVE  Waiting(h) /\ UNCHANGED saved_sip
<1> DEFINE x == cpu[h]
<1>1. Control(x) /\ x \in Cpu /\ (x.pc = 8 => 1 \in x.mip)
  BY HartFacts DEF Control, Relayed
<1>2. UNCHANGED saved_sip
  BY DEF TrapReturn, Scheduler, guest
<1>3. CASE TrapReturn(h)
  <2> DEFINE d == sret(x)
  <2>1. x.pc = 52 /\ cpu' = [cpu EXCEPT ![h] = d]
    BY <1>3 DEF TrapReturn, At, RETURN, Execute
  <2> HIDE DEF x
  <2>2. x.sepc \in {112, 116}
    BY <1>1, <2>1, InS DEF Control
  <2>3. d.mip = x.mip /\ d.pc = x.sepc
    BY <1>1 DEF sret, Cpu
  <2> HIDE DEF d
  <2>4. Waits(x, d)
    BY <2>1, <2>2, <2>3 DEF Waits
  <2> QED
    BY <1>2, <2>1, <2>4 DEF Waiting, x
<1>4. CASE Scheduler(h) /\ \E q \in {108, 112, 116} : Goto(h, q)
  BY <1>2, <1>4, GotoWaits
<1>5. CASE \E name \in {"rs", "rc"} :
              Execute(h, execute_csr(x, name, "sstatus", {MSTATUS_SIE})) /\ x.pc \in {108, 116}
  <2>1. PICK name \in {"rs", "rc"} :
              Execute(h, execute_csr(x, name, "sstatus", {MSTATUS_SIE})) /\ x.pc \in {108, 116}
    BY <1>5
  <2> DEFINE d == execute_csr(x, name, "sstatus", {MSTATUS_SIE})
             v == csr_value(name, csr_read(x, "sstatus"), {MSTATUS_SIE})
             e == csr_write(x, "sstatus", v)
  <2>2. cpu' = [cpu EXCEPT ![h] = d] /\ d = [e EXCEPT !.pc = default_next(x.pc)]
    BY <2>1 DEF Execute, execute_csr
  <2>3. default_next(x.pc) \in {112, 120}
    BY <2>1, Guest
  <2> HIDE DEF x, v
  <2>4. e \in Cpu /\ e.mip = x.mip
    <3> DEFINE m == (x.mstatus \ SSTATUS_MASK) \cup (v \cap SSTATUS_MASK)
    <3>1. e = [x EXCEPT !.mstatus = m]
      BY DEF csr_write, Alias, AliasCsr
    <3>2. m \in SUBSET Bits
      BY <1>1 DEF Cpu, SSTATUS_MASK, MSTATUS_SIE, MSTATUS_SPIE, MSTATUS_SPP, Bits
    <3> HIDE DEF e, m
    <3> QED
      BY <1>1, <3>1, <3>2 DEF Cpu
  <2> HIDE DEF e
  <2>5. d.mip = x.mip /\ d.pc = default_next(x.pc)
    <3> HIDE DEF d
    <3> QED
      BY <2>2, <2>4 DEF Cpu
  <2> HIDE DEF d
  <2>6. Waits(x, d)
    BY <1>1, <2>3, <2>5 DEF Waits
  <2> QED
    BY <1>2, <2>2, <2>6 DEF Waiting, x
<1>6. Scheduler(h) => \/ \E q \in {108, 112, 116} : Goto(h, q)
                      \/ \E name \in {"rs", "rc"} :
                             Execute(h, execute_csr(x, name, "sstatus", {MSTATUS_SIE}))
                                /\ x.pc \in {108, 116}
  <2>1. SCHEDULER = 108 /\ default_next(112) = 116
    BY Guest DEF SCHEDULER
  <2> QED
    BY <2>1 DEF Scheduler, At, Skip
<1> QED
  BY <1>3, <1>4, <1>5, <1>6

\* One step, of the reader thread or of a hart: every hart waits as it should.
LEMMA StepWaits ==
    ASSUME Inv, Relayed, [Next]_vars
    PROVE  Relayed' /\ \A h \in Harts : Waits(cpu[h], cpu'[h])
<1>1. cpu = [h \in Harts |-> cpu[h]]
  BY DEF Inv, Types
<1>2. ASSUME NEW h \in Harts PROVE cpu[h].pc = 8 => 1 \in cpu[h].mip
  BY DEF Relayed
<1>3. ASSUME UNCHANGED <<load, cpu, saved_sip>>
      PROVE  Relayed' /\ \A h \in Harts : Waits(cpu[h], cpu'[h])
  <2>1. Harts' = Harts
    BY <1>3 DEF Harts
  <2> QED
    BY <1>2, <1>3, <2>1 DEF Relayed, Waits
<1>4. ASSUME NEW h \in Harts, Step(h)
      PROVE  Waiting(h) /\ \A k \in Harts : 1 \notin saved_sip'[k]
  <2>1. UNCHANGED saved_sip => \A k \in Harts : 1 \notin saved_sip'[k]
    BY DEF Relayed
  <2>2. Fetch(h) \/ TimerAdvance(h) \/ TimerRelay(h) \/ TimerReturn(h) => UNCHANGED saved_sip
    BY DEF Fetch, TimerAdvance, TimerRelay, TimerReturn, guest
  <2> QED
    BY <1>4, <2>1, <2>2, FetchWaits, TimerWaits, AckWaits, KernelWaits, StatusWaits, Zenon DEF Step
<1>5. ASSUME NEW h \in Harts, Step(h)
      PROVE  UNCHANGED load
  <2>1. \A c : Execute(h, c) => UNCHANGED load
    BY DEF Execute
  <2>2. \A q : Goto(h, q) => UNCHANGED load
    BY <2>1 DEF Goto
  <2> QED
    BY <1>5, <2>1, <2>2 DEF Step, Fetch, TimerAdvance, TimerRelay, TimerReturn, DevIntr, AckRead,
       AckWrite, Claim, GetcLook, GetcRead, ConsoleIntr, DiskAck, DiskReap, Complete, TrapReturn,
       UartInit, PlicInit, WaitStarted, PlicInitHart, Started, Scheduler, DiskRequest, Skip
<1>6. ASSUME NEW h \in Harts, Step(h)
      PROVE  Relayed' /\ \A k \in Harts : Waits(cpu[k], cpu'[k])
  <2>1. PICK c : cpu' = [cpu EXCEPT ![h] = c] /\ Waits(cpu[h], c)
    BY <1>4, <1>6 DEF Waiting
  <2>2. cpu'[h] = c /\ \A k \in Harts \ {h} : cpu'[k] = cpu[k]
    <3>1. cpu' = [k \in Harts |-> IF k = h THEN c ELSE cpu[k]]
      BY <1>1, <2>1
    <3> QED
      BY <3>1
  <2>3. ASSUME NEW k \in Harts PROVE Waits(cpu[k], cpu'[k])
    <3>1. CASE k = h
      BY <2>1, <2>2, <3>1
    <3>2. CASE k # h
      BY <1>2, <2>2, <3>2 DEF Waits
    <3> QED
      BY <3>1, <3>2
  <2>4. Harts' = Harts
    BY <1>5, <1>6 DEF Harts
  <2> QED
    BY <1>4, <1>6, <2>3, <2>4 DEF Relayed, Waits
<1>7. CASE ReadStdin
  BY <1>3, <1>7 DEF ReadStdin, guest
<1>8. CASE UNCHANGED vars
  BY <1>3, <1>8 DEF vars
<1> QED
  BY <1>6, <1>7, <1>8 DEF Next, Run

LEMMA RelayedInit == Init => Relayed
<1> SUFFICES ASSUME Init, NEW h \in Harts
             PROVE  cpu[h].pc # 8 /\ 1 \notin saved_sip[h]
  BY DEF Relayed
<1>1. cpu[h] = Booted(h) /\ saved_sip[h] = {}
  BY DEF Init
<1>2. Booted(h).pc \in {56, 92}
  BY DEF Booted, new_cpu, MAIN, WAIT
<1> QED
  BY <1>1, <1>2

\* The software interrupt of a timer trap waits for the supervisor: SSIP is up when
\* timervec returns and falls only when devintr writes sip, on any number of harts
\* and whatever check_interrupt samples, takes and delegates meanwhile.
THEOREM TicksWait == Spec => TickWaits
<1> DEFINE Held == \A h \in Harts :
                      /\ At(h, TIMERVEC + 8) => Ticked(h)
                      /\ Ticked(h)' # Ticked(h) =>
                            At(h, IF Ticked(h) THEN ACK + 4 ELSE TIMERVEC + 4)
<1>1. ASSUME Inv, Relayed, [Next]_vars
      PROVE  Relayed' /\ [Held]_vars
  <2>1. ASSUME NEW h \in Harts
        PROVE  /\ At(h, TIMERVEC + 8) => Ticked(h)
               /\ Ticked(h)' # Ticked(h) => At(h, IF Ticked(h) THEN ACK + 4 ELSE TIMERVEC + 4)
    <3>1. Waits(cpu[h], cpu'[h])
      BY <1>1, StepWaits
    <3>2. TIMERVEC + 8 = 8 /\ TIMERVEC + 4 = 4 /\ ACK + 4 = 20
      BY DEF TIMERVEC, ACK
    <3>3. CASE Ticked(h)
      BY <3>1, <3>2, <3>3 DEF Waits, Ticked, At
    <3>4. CASE ~Ticked(h)
      BY <3>1, <3>2, <3>4 DEF Waits, Ticked, At
    <3> QED
      BY <3>3, <3>4
  <2> QED
    BY <1>1, <2>1, StepWaits
<1> QED
  BY <1>1, InvHolds, RelayedInit, PTL DEF Spec, TickWaits

=============================================================================
