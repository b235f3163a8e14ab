----------------------------- MODULE DevicesProofs ----------------------------
(***************************************************************************)
(* The registers of the devices under an arbitrary guest (module Devices), *)
(* for every number of IRQs and contexts, every offset and value stored,   *)
(* and every amount of input.                                              *)
(***************************************************************************)
EXTENDS Devices, OperatorLemmas, SequenceTheorems

-----------------------------------------------------------------------------
(* The PLIC. *)

PlicInv == plic \in PlicState /\ lines \in SUBSET (IRQ \ {0})

LEMMA PlicInvariance == Spec => []PlicInv
<1>1. Init => PlicInv
  BY NewPlicType DEF Init, PlicInv
<1>2. ASSUME PlicInv, [Next]_vars
      PROVE  PlicInv'
  <2>1. CASE plic' = plic /\ lines' = lines
    BY <1>2, <2>1 DEF PlicInv
  <2>2. CASE Store
    <3>1. PICK a \in Offsets[target], v \in Values[target] :
             StoreClint(a, v) \/ StorePlic(a, v) \/ StoreUart(a, v) \/ StoreVirtIO(a, v)
      BY <2>2 DEF Store
    <3>2. lines' = lines
      BY <2>2 DEF Store
    <3>3. CASE StorePlic(a, v)
      <4>1. v \in Nat
        BY <3>3, TrafficAssumption DEF StorePlic, Targets
      <4> QED
        BY <1>2, <3>2, <3>3, <4>1, PlicWriteType DEF StorePlic, PlicInv
    <3>4. CASE StoreClint(a, v) \/ StoreUart(a, v) \/ StoreVirtIO(a, v)
      BY <2>1, <3>2, <3>4 DEF StoreClint, StoreUart, StoreVirtIO
    <3> QED
      BY <3>1, <3>3, <3>4
  <2>3. CASE LinesChange
    BY <1>2, <2>3 DEF LinesChange, PlicInv
  <2>4. CASE Refused
    BY <2>1, <2>4 DEF Refused
  <2>5. CASE Tick
    BY <2>1, <2>5 DEF Tick
  <2>6. ASSUME NEW a \in Offsets["uart"], LoadUart(a)
        PROVE  PlicInv'
    BY <2>1, <2>6 DEF LoadUart
  <2>7. ASSUME NEW b \in Values["uart"], Arrive(b)
        PROVE  PlicInv'
    BY <2>1, <2>7 DEF Arrive
  <2>8. ASSUME NEW r \in Rings, NEW high \in BOOLEAN, NEW value \in AddrBits,
               StoreHalf(r, high, value)
        PROVE  PlicInv'
    BY <2>1, <2>8 DEF StoreHalf
  <2>9. CASE UNCHANGED vars
    BY <2>1, <2>9 DEF vars
  <2> QED
    BY <1>2, <2>2, <2>3, <2>4, <2>5, <2>6, <2>7, <2>8, <2>9 DEF Next
<1> QED
  BY <1>1, <1>2, PTL DEF Spec

\* A load of the claim register gives what the PLIC specification names, for
\* every number of IRQs and contexts and all priorities, enables and
\* thresholds: the loop of claim_irq finds the eligible line that beats all
\* others, and 0 only when there is none.
THEOREM ClaimsAreBest == Spec => []ClaimIsBest
<1>1. ASSUME PlicInv
      PROVE  ClaimIsBest
  <2>1. SUFFICES ASSUME NEW c \in Context
        PROVE
          LET eligible == {i \in lines \cap plic.enable[c] : plic.priority[i] > plic.threshold[c]}
              beats(i, j) == \/ plic.priority[i] > plic.priority[j]
                             \/ plic.priority[i] = plic.priority[j] /\ i <= j
              claimed == plic_read(plic, lines, CONTEXT_BASE + CONTEXT_STRIDE * c + 4)
          IN  IF eligible = {} THEN claimed = 0
              ELSE claimed \in eligible /\ \A j \in eligible : beats(claimed, j)
    BY DEF ClaimIsBest
  <2> DEFINE E == {i \in lines \cap plic.enable[c] : plic.priority[i] > plic.threshold[c]}
             r == claim_loop(plic, lines \cap plic.enable[c], plic.threshold[c])
             a == CONTEXT_BASE + CONTEXT_STRIDE * c + 4
  <2>2. /\ plic.priority \in [IRQ -> Nat] /\ plic.threshold[c] \in Nat
        /\ lines \subseteq 1 .. (MAX_IRQ - 1) /\ c \in Nat
    BY <1>1, PlicAssumption DEF PlicInv, PlicState, IRQ, Context
  <2>3. E = Eligible(plic, lines \cap plic.enable[c], plic.threshold[c], MAX_IRQ - 1)
    BY <2>2 DEF Eligible
  <2>4. \/ E = {} /\ r = 0
        \/ r \in E /\ \A j \in E : Beats(plic, r, j)
    BY <2>2, <2>3, ClaimLoopIsBest
  <2>5. plic_read(plic, lines, a) = r
    <3>1. register_at(a) = <<"claim", c>>
      BY <2>2, ClaimAddress
    <3> HIDE DEF a
    <3>2. plic_read(plic, lines, a) = claim_irq(plic, lines, c)
      BY <3>1 DEF plic_read
    <3> QED
      BY <3>2 DEF claim_irq, enable_get, threshold_get
  <2> HIDE DEF r
  <2> QED
    BY <2>4, <2>5 DEF Beats
<1> QED
  BY <1>1, PlicInvariance, PTL

-----------------------------------------------------------------------------
(* The registers of the PLIC and of the CLINT. *)

\* The register at a is that of kind k and number n.
PlicCell(a, k, n) == \/ k = "priority" /\ n \in IRQ /\ a = 4 * n
                     \/ k = "enable" /\ n \in Context /\ a = ENABLE_BASE + ENABLE_STRIDE * n
                     \/ k = "threshold" /\ n \in Context /\ a = CONTEXT_BASE + CONTEXT_STRIDE * n

Kinds == {"priority", "enable", "threshold"}

LEMMA CellOf ==
    ASSUME NEW a \in PlicRegisters
    PROVE  \E k \in Kinds, n \in Nat : PlicCell(a, k, n)
<1>1. CASE \E i \in IRQ : a = 4 * i
  BY <1>1 DEF PlicCell, Kinds, IRQ
<1>2. CASE \E c \in Context : a = ENABLE_BASE + ENABLE_STRIDE * c
  BY <1>2 DEF PlicCell, Kinds, Context
<1>3. CASE \E c \in Context : a = CONTEXT_BASE + CONTEXT_STRIDE * c
  BY <1>3 DEF PlicCell, Kinds, Context
<1> QED
  BY <1>1, <1>2, <1>3 DEF PlicRegisters

\* The address map finds each register where it is said to be.
LEMMA CellAddress ==
    ASSUME NEW a, NEW k \in Kinds, NEW n \in Nat, PlicCell(a, k, n)
    PROVE  register_at(a) = <<k, n>>
<1>1. CASE k = "priority"
  <2>1. a = 4 * n /\ n < MAX_IRQ
    BY <1>1, PlicAssumption DEF PlicCell, IRQ
  <2>2. a < PRIORITY_END /\ a \div 4 = n
    <3>1. a \div 4 = n
      BY <2>1
    <3>2. 4 * n < 4 * MAX_IRQ
      BY <2>1, PlicAssumption
    <3> QED
      BY <2>1, <3>1, <3>2, AddressMapAssumption, PlicAssumption DEF PRIORITY_END
  <2>3. a \in Nat /\ a < ENABLE_BASE /\ ENABLE_BASE \in Nat /\ ENABLE_END \in Nat
    BY <2>1, <2>2 DEF PRIORITY_END, ENABLE_BASE, ENABLE_END
  <2>4. a \notin ENABLE_BASE .. (ENABLE_END - 1) /\ ~(a >= CONTEXT_BASE)
    BY <2>2, <2>3 DEF PRIORITY_END, CONTEXT_BASE
  <2> QED
    BY <1>1, <2>2, <2>4 DEF register_at
<1>2. CASE k = "enable"
  <2>1. a = ENABLE_BASE + ENABLE_STRIDE * n /\ n < MAX_CONTEXTS
    BY <1>2, PlicAssumption DEF PlicCell, Context
  <2>2. a \in Nat /\ a >= ENABLE_BASE /\ a <= ENABLE_END - 1 /\ (a - ENABLE_BASE) \div ENABLE_STRIDE = n
    <3>1. a \in Nat /\ a >= 8192 /\ (a - 8192) \div 128 = n
      BY <2>1 DEF ENABLE_BASE, ENABLE_STRIDE
    <3>2. 8192 + 128 * MAX_CONTEXTS <= 2039808 /\ MAX_CONTEXTS \in Nat
      BY AddressMapAssumption, PlicAssumption DEF ENABLE_BASE, ENABLE_END, ENABLE_STRIDE
    <3>3. a <= 2039807
      BY <2>1, <3>2 DEF ENABLE_BASE, ENABLE_STRIDE
    <3> QED
      BY <3>1, <3>3 DEF ENABLE_BASE, ENABLE_END, ENABLE_STRIDE
  <2>3. ~(a < PRIORITY_END) /\ ~(a >= CONTEXT_BASE) /\ ENABLE_BASE \in Nat /\ ENABLE_END \in Nat
    BY <2>2 DEF PRIORITY_END, ENABLE_BASE, ENABLE_END, CONTEXT_BASE
  <2>4. a \in ENABLE_BASE .. (ENABLE_END - 1)
    BY <2>2, <2>3
  <2> QED
    BY <1>2, <2>2, <2>3, <2>4 DEF register_at
<1>3. CASE k = "threshold"
  <2>1. a = CONTEXT_BASE + CONTEXT_STRIDE * n
    BY <1>3 DEF PlicCell
  <2>2. /\ a \in Nat /\ ~(a < PRIORITY_END) /\ a > ENABLE_END - 1 /\ a >= CONTEXT_BASE
        /\ (a - CONTEXT_BASE) % CONTEXT_STRIDE = 0 /\ (a - CONTEXT_BASE) \div CONTEXT_STRIDE = n
        /\ ENABLE_BASE \in Nat /\ ENABLE_END \in Nat
    BY <2>1 DEF CONTEXT_BASE, CONTEXT_STRIDE, PRIORITY_END, ENABLE_BASE, ENABLE_END
  <2>3. a \notin ENABLE_BASE .. (ENABLE_END - 1)
    BY <2>2
  <2> QED
    BY <1>3, <2>2, <2>3 DEF register_at
<1> QED
  BY <1>1, <1>2, <1>3 DEF Kinds

\* The enable bits of a word make up that word again.
LEMMA MaskOfBits ==
    ASSUME NEW v \in 0 .. (power(2, MAX_IRQ) - 1)
    PROVE  mask(bits(v)) = v
<1> DEFINE d == [i \in IRQ |-> IF i \in bits(v) THEN 1 ELSE 0]
           e == [i \in 0 .. (MAX_IRQ - 1) |-> digit(v, 2, i)]
<1>1. power(2, MAX_IRQ) \in Nat \ {0} /\ MAX_IRQ \in Nat
  BY PlicAssumption, PowerType
<1>2. v \in Nat /\ v < power(2, MAX_IRQ)
  BY <1>1
<1>3. ASSUME NEW i \in 0 .. (MAX_IRQ - 1)
      PROVE  d[i] = e[i]
  <2>1. digit(v, 2, i) \in 0 .. (2 - 1)
    <3>1. v \in Int /\ i \in Nat /\ 2 \in Nat \ {0}
      BY <1>1, <1>2
    <3> QED
      BY <3>1, DigitType, Zenon
  <2>2. digit(v, 2, i) = 0 \/ digit(v, 2, i) = 1
    BY <2>1
  <2> QED
    BY <2>2 DEF bits, IRQ
<1>4. number(d, 2, MAX_IRQ) = number(e, 2, MAX_IRQ)
  <2> HIDE DEF d, e
  <2> QED
    BY <1>1, <1>3, NumberSame
<1>5. number(e, 2, MAX_IRQ) = v % power(2, MAX_IRQ)
  BY <1>1, <1>2, NumberOfDigits
<1>6. v % power(2, MAX_IRQ) = v
  BY <1>1, <1>2
<1> QED
  BY <1>4, <1>5, <1>6 DEF mask

\* What a register holds, as a number.
Holds(p, k, n) == CASE k = "priority"  -> p.priority[n]
                    [] k = "enable"    -> mask(p.enable[n])
                    [] k = "threshold" -> p.threshold[n]

LEMMA CellRead ==
    ASSUME NEW p, NEW ls, NEW a, NEW k \in Kinds, NEW n \in Nat, PlicCell(a, k, n)
    PROVE  plic_read(p, ls, a) = Holds(p, k, n)
<1>1. register_at(a) = <<k, n>>
  BY CellAddress
<1>2. CASE k = "priority"
  BY <1>1, <1>2 DEF plic_read, Holds, PlicCell
<1>3. CASE k = "enable"
  BY <1>1, <1>3 DEF plic_read, Holds, PlicCell, enable_get
<1>4. CASE k = "threshold"
  BY <1>1, <1>4 DEF plic_read, Holds, PlicCell, threshold_get
<1> QED
  BY <1>2, <1>3, <1>4 DEF Kinds

LEMMA CellWrite ==
    ASSUME NEW p \in PlicState, NEW a, NEW value \in Nat, NEW k \in Kinds, NEW n \in Nat,
           PlicCell(a, k, n), NEW l \in Kinds, NEW m \in Nat, NEW b, PlicCell(b, l, m)
    PROVE  Holds(plic_write(p, a, value), l, m)
              = IF l = k /\ m = n THEN as_u32(value) ELSE Holds(p, l, m)
<1> DEFINE v == as_u32(value)
           on == bits(v)
<1>1. register_at(a) = <<k, n>>
  BY CellAddress
<1>2. mask(on) = v
  BY WordType, MaskOfBits
<1>3. plic_write(p, a, value)
         = CASE k = "priority" /\ n \in IRQ      -> [p EXCEPT !.priority[n] = v]
             [] k = "enable" /\ n \in Context    -> [p EXCEPT !.enable[n] = on]
             [] k = "threshold" /\ n \in Context -> [p EXCEPT !.threshold[n] = v]
             [] OTHER -> p
  BY <1>1 DEF plic_write
<1> HIDE DEF v, on
<1>4. CASE k = "priority"
  <2>1. plic_write(p, a, value) = [p EXCEPT !.priority[n] = v] /\ n \in IRQ
    BY <1>3, <1>4 DEF PlicCell
  <2>2. l = "priority" => m \in IRQ
    BY DEF PlicCell
  <2> QED
    BY <1>4, <2>1, <2>2 DEF Holds, PlicState, Kinds, v
<1>5. CASE k = "enable"
  <2>1. plic_write(p, a, value) = [p EXCEPT !.enable[n] = on] /\ n \in Context
    BY <1>3, <1>5 DEF PlicCell
  <2>2. l = "enable" => m \in Context
    BY DEF PlicCell
  <2> QED
    BY <1>2, <1>5, <2>1, <2>2 DEF Holds, PlicState, Kinds, v
<1>6. CASE k = "threshold"
  <2>1. plic_write(p, a, value) = [p EXCEPT !.threshold[n] = v] /\ n \in Context
    BY <1>3, <1>6 DEF PlicCell
  <2>2. l = "threshold" => m \in Context
    BY DEF PlicCell
  <2> QED
    BY <1>6, <2>1, <2>2 DEF Holds, PlicState, Kinds, v
<1> QED
  BY <1>4, <1>5, <1>6 DEF Kinds

LEMMA PlicCells ==
    ASSUME NEW p \in PlicState, NEW ls, NEW a \in PlicRegisters, NEW r \in PlicRegisters,
           NEW value \in Nat
    PROVE  plic_read(plic_write(p, a, value), ls, r)
              = IF r = a THEN as_u32(value) ELSE plic_read(p, ls, r)
<1>1. PICK k \in Kinds, n \in Nat : PlicCell(a, k, n)
  BY CellOf
<1>2. PICK l \in Kinds, m \in Nat : PlicCell(r, l, m)
  BY CellOf
<1>3. r = a <=> l = k /\ m = n
  <2>1. register_at(a) = <<k, n>> /\ register_at(r) = <<l, m>>
    BY <1>1, <1>2, CellAddress
  <2>2. r = a => l = k /\ m = n
    BY <2>1
  <2>3. l = k /\ m = n => r = a
    BY <1>1, <1>2 DEF PlicCell
  <2> QED
    BY <2>2, <2>3
<1>4. /\ plic_read(plic_write(p, a, value), ls, r) = Holds(plic_write(p, a, value), l, m)
      /\ plic_read(p, ls, r) = Holds(p, l, m)
  BY <1>2, CellRead
<1>5. Holds(plic_write(p, a, value), l, m)
         = IF l = k /\ m = n THEN as_u32(value) ELSE Holds(p, l, m)
  BY <1>1, <1>2, CellWrite
<1> QED
  BY <1>3, <1>4, <1>5

ClintState == [mtime : Nat, mtimecmp : [0 .. (NHART - 1) -> Nat]]

LEMMA ClintSlot ==
    ASSUME NEW h \in 0 .. (NHART - 1)
    PROVE  slot_of(MTIMECMP_OFFSET + 8 * h) = h /\ MTIMECMP_OFFSET + 8 * h # MTIME_OFFSET
BY AddressMapAssumption DEF slot_of, MTIMECMP_OFFSET, MTIME_OFFSET

LEMMA ClintWriteType ==
    ASSUME NEW c \in ClintState, NEW a, NEW v \in Nat
    PROVE  clint_write(c, a, v) \in ClintState
<1> DEFINE s == slot_of(a)
<1>1. DOMAIN c.mtimecmp = 0 .. (NHART - 1)
  BY DEF ClintState
<1>2. clint_write(c, a, v)
         = IF a = MTIME_OFFSET THEN [c EXCEPT !.mtime = v]
           ELSE IF s \in DOMAIN c.mtimecmp THEN [c EXCEPT !.mtimecmp[s] = v]
           ELSE c
  BY DEF clint_write
<1> HIDE DEF s
<1> QED
  BY <1>1, <1>2 DEF ClintState

LEMMA ClintCells ==
    ASSUME NEW c \in ClintState, NEW a \in ClintRegisters, NEW r \in ClintRegisters, NEW v \in Nat
    PROVE  clint_read(clint_write(c, a, v), r) = IF r = a THEN v ELSE clint_read(c, r)
<1>1. DOMAIN c.mtimecmp = 0 .. (NHART - 1)
  BY DEF ClintState
<1>2. CASE a = MTIME_OFFSET
  <2>1. clint_write(c, a, v) = [c EXCEPT !.mtime = v]
    BY <1>2 DEF clint_write
  <2> QED
    BY <1>2, <2>1 DEF clint_read, ClintState
<1>3. CASE \E h \in 0 .. (NHART - 1) : a = MTIMECMP_OFFSET + 8 * h
  <2>1. PICK h \in 0 .. (NHART - 1) : a = MTIMECMP_OFFSET + 8 * h
    BY <1>3
  <2>2. slot_of(a) = h /\ a # MTIME_OFFSET
    BY <2>1, ClintSlot
  <2>3. clint_write(c, a, v) = [c EXCEPT !.mtimecmp[h] = v]
    BY <1>1, <2>2 DEF clint_write
  <2>4. CASE r = MTIME_OFFSET
    BY <2>2, <2>3, <2>4 DEF clint_read, ClintState
  <2>5. CASE \E g \in 0 .. (NHART - 1) : r = MTIMECMP_OFFSET + 8 * g
    <3>1. PICK g \in 0 .. (NHART - 1) : r = MTIMECMP_OFFSET + 8 * g
      BY <2>5
    <3>2. slot_of(r) = g /\ r # MTIME_OFFSET
      BY <3>1, ClintSlot
    <3>3. r = a <=> g = h
      BY <2>1, <2>2, <3>1, <3>2
    <3>4. clint_read(c, r) = c.mtimecmp[g]
      BY <1>1, <3>2 DEF clint_read
    <3>5. clint_read([c EXCEPT !.mtimecmp[h] = v], r) = IF g = h THEN v ELSE c.mtimecmp[g]
      BY <1>1, <3>2 DEF clint_read, ClintState
    <3> QED
      BY <2>3, <3>3, <3>4, <3>5
  <2> QED
    BY <2>4, <2>5 DEF ClintRegisters
<1> QED
  BY <1>2, <1>3 DEF ClintRegisters

ClintInv == clint \in ClintState

LEMMA ClintInvariance == Spec => []ClintInv
<1>1. Init => ClintInv
  BY ClintAssumption DEF Init, ClintInv, ClintState, new_clint
<1>2. ASSUME ClintInv, [Next]_vars
      PROVE  ClintInv'
  <2>1. CASE clint' = clint
    BY <1>2, <2>1 DEF ClintInv
  <2>2. CASE Store
    <3>1. PICK a \in Offsets[target], v \in Values[target] :
             StoreClint(a, v) \/ StorePlic(a, v) \/ StoreUart(a, v) \/ StoreVirtIO(a, v)
      BY <2>2 DEF Store
    <3>2. CASE StoreClint(a, v)
      <4>1. v \in Nat
        BY <3>2, TrafficAssumption DEF StoreClint, Targets
      <4> QED
        BY <1>2, <3>2, <4>1, ClintWriteType DEF StoreClint, ClintInv
    <3>3. CASE StorePlic(a, v) \/ StoreUart(a, v) \/ StoreVirtIO(a, v)
      BY <2>1, <3>3 DEF StorePlic, StoreUart, StoreVirtIO
    <3> QED
      BY <3>1, <3>2, <3>3
  <2>3. CASE LinesChange
    BY <2>1, <2>3 DEF LinesChange
  <2>4. CASE Refused
    BY <2>1, <2>4 DEF Refused
  <2>5. CASE Tick
    <3>1. (clint.mtime + 1) % TimeSpace \in Nat
      BY <1>2, ClintAssumption DEF ClintInv, ClintState
    <3> QED
      BY <1>2, <2>5, <3>1 DEF Tick, tick, ClintInv, ClintState
  <2>6. ASSUME NEW a \in Offsets["uart"], LoadUart(a)
        PROVE  ClintInv'
    BY <2>1, <2>6 DEF LoadUart
  <2>7. ASSUME NEW b \in Values["uart"], Arrive(b)
        PROVE  ClintInv'
    BY <2>1, <2>7 DEF Arrive
  <2>8. ASSUME NEW r \in Rings, NEW high \in BOOLEAN, NEW value \in AddrBits,
               StoreHalf(r, high, value)
        PROVE  ClintInv'
    BY <2>1, <2>8 DEF StoreHalf
  <2>9. CASE UNCHANGED vars
    BY <2>1, <2>9 DEF vars
  <2> QED
    BY <1>2, <2>2, <2>3, <2>4, <2>5, <2>6, <2>7, <2>8, <2>9 DEF Next
<1> QED
  BY <1>1, <1>2, PTL DEF Spec

\* For every number of IRQs, contexts and harts that the address maps have room
\* for, and every value, a store to a register of the PLIC or of the CLINT is
\* read back from it, cut to the register's width, and leaves every other
\* register as it was.  The enable bits make the round trip through their set.
THEOREM CellsHold == Spec => []RegistersAreCells
<1>1. ASSUME PlicInv, ClintInv
      PROVE  RegistersAreCells
  <2>1. ASSUME NEW a \in PlicRegisters, NEW v \in Values["plic"], NEW r \in PlicRegisters
        PROVE  plic_read(plic_write(plic, a, v), lines, r)
                  = IF r = a THEN as_u32(v) ELSE plic_read(plic, lines, r)
    <3>1. v \in Nat /\ plic \in PlicState
      BY <1>1, TrafficAssumption DEF Targets, PlicInv
    <3> QED
      BY <3>1, PlicCells
  <2>2. ASSUME NEW a \in ClintRegisters, NEW v \in Values["clint"], NEW r \in ClintRegisters
        PROVE  clint_read(clint_write(clint, a, v), r) = IF r = a THEN v ELSE clint_read(clint, r)
    <3>1. v \in Nat /\ clint \in ClintState
      BY <1>1, TrafficAssumption DEF Targets, ClintInv
    <3> QED
      BY <3>1, ClintCells
  <2> QED
    BY <2>1, <2>2, Zenon DEF RegistersAreCells
<1> QED
  BY <1>1, PlicInvariance, ClintInvariance, PTL

-----------------------------------------------------------------------------
(* The UART. *)

UartInv == /\ uart \in UartState
           /\ arrived \in Seq(Nat) /\ taken \in Seq(Nat)
           /\ taken \o uart.rx_queue = arrived

LEMMA NewUartType == new_uart \in UartState
<1>1. <<>> \in Seq(Nat)
  OBVIOUS
<1> QED
  BY <1>1 DEF new_uart, UartState

\* A load takes a byte off the queue exactly when the guest can tell that it did.
LEMMA LoadUartInv ==
    ASSUME UartInv, NEW a, LoadUart(a)
    PROVE  UartInv'
<1> DEFINE q == uart.rx_queue
           takes_byte == a = RBR /\ ~uart.dlab /\ q # <<>>
<1>1. uart \in UartState /\ taken \in Seq(Nat) /\ q \in Seq(Nat) /\ taken \o q = arrived
  BY DEF UartInv, UartState
<1>2. /\ uart' \in UartState
      /\ uart'.rx_queue = IF takes_byte THEN Tail(q) ELSE q
  BY <1>1, UartRead DEF LoadUart
<1>3. taken' = IF takes_byte THEN Append(taken, Head(q)) ELSE taken
  <2>1. /\ uart_value(uart, LSR) % 2 = 1 <=> q # <<>>
        /\ uart_value(uart, LCR) < LCR_BAUD_LATCH <=> ~uart.dlab
        /\ ~uart.dlab => uart_value(uart, RBR) = IF q # <<>> THEN Head(q) ELSE 0
    BY <1>1, UartStatus
  <2> QED
    BY <2>1 DEF LoadUart
<1>4. arrived' = arrived
  BY DEF LoadUart
<1> HIDE DEF q
<1>5. CASE takes_byte
  <2>1. Head(q) \in Nat /\ Tail(q) \in Seq(Nat)
    BY <1>1, <1>5, HeadTailProperties
  <2>2. Append(taken, Head(q)) \in Seq(Nat)
    BY <1>1, <2>1, AppendProperties
  <2>3. Append(taken, Head(q)) \o Tail(q) = taken \o q
    BY <1>1, <1>5, PassOn
  <2> QED
    BY <1>1, <1>2, <1>3, <1>4, <1>5, <2>2, <2>3 DEF UartInv
<1>6. CASE ~takes_byte
  BY <1>1, <1>2, <1>3, <1>4, <1>6 DEF UartInv
<1> QED
  BY <1>5, <1>6

LEMMA ArriveInv ==
    ASSUME UartInv, NEW b \in Nat, Arrive(b)
    PROVE  UartInv'
<1> DEFINE q == uart.rx_queue
<1>1. uart \in UartState /\ taken \in Seq(Nat) /\ q \in Seq(Nat) /\ arrived \in Seq(Nat)
      /\ taken \o q = arrived
  BY DEF UartInv, UartState
<1>2. <<b>> \in Seq(Nat)
  OBVIOUS
<1>3. uart' \in UartState /\ uart'.rx_queue = q \o <<b>>
  BY <1>1, <1>2, UartPoll DEF Arrive
<1>4. arrived' = arrived \o <<b>> /\ arrived' \in Seq(Nat)
  BY <1>1, AppendIsConcat, AppendProperties DEF Arrive
<1>5. taken' = taken
  BY DEF Arrive
<1> HIDE DEF q
<1>6. (taken \o q) \o <<b>> = taken \o (q \o <<b>>)
  BY <1>1, <1>2, ConcatAssociative
<1> QED
  BY <1>1, <1>3, <1>4, <1>5, <1>6 DEF UartInv

\* Nothing the guest does to the UART's registers loses, repeats or reorders a
\* byte of the input, for any number of bytes, any values stored and any order
\* of loads and stores: a load takes a byte from the queue only where RBR is.
THEOREM InputSurvives == Spec => []InputSurvivesTraffic
<1>1. Init => UartInv
  <2>1. <<>> \o <<>> = <<>> /\ <<>> \in Seq(Nat)
    OBVIOUS
  <2>2. new_uart.rx_queue = <<>>
    BY DEF new_uart
  <2> QED
    BY <2>1, <2>2, NewUartType DEF Init, UartInv
<1>2. ASSUME UartInv, [Next]_vars
      PROVE  UartInv'
  <2>1. CASE UNCHANGED <<uart, arrived, taken>>
    BY <1>2, <2>1 DEF UartInv
  <2>2. CASE Store
    <3>1. PICK a \in Offsets[target], v \in Values[target] :
             StoreClint(a, v) \/ StorePlic(a, v) \/ StoreUart(a, v) \/ StoreVirtIO(a, v)
      BY <2>2 DEF Store
    <3>2. arrived' = arrived /\ taken' = taken
      BY <2>2 DEF Store
    <3>3. CASE StoreUart(a, v)
      <4>1. v \in Nat
        BY <3>3, TrafficAssumption DEF StoreUart, Targets
      <4>2. uart' \in UartState /\ uart'.rx_queue = uart.rx_queue
        BY <1>2, <3>3, <4>1, UartWrite DEF StoreUart, UartInv
      <4> QED
        BY <1>2, <3>2, <4>2 DEF UartInv
    <3>4. CASE StoreClint(a, v) \/ StorePlic(a, v) \/ StoreVirtIO(a, v)
      BY <2>1, <3>2, <3>4 DEF StoreClint, StorePlic, StoreVirtIO
    <3> QED
      BY <3>1, <3>3, <3>4
  <2>3. CASE LinesChange
    BY <2>1, <2>3 DEF LinesChange
  <2>4. CASE Refused
    BY <2>1, <2>4 DEF Refused
  <2>5. CASE Tick
    BY <2>1, <2>5 DEF Tick
  <2>6. ASSUME NEW a \in Offsets["uart"], LoadUart(a)
        PROVE  UartInv'
    BY <1>2, <2>6, LoadUartInv
  <2>7. ASSUME NEW b \in Values["uart"], Arrive(b)
        PROVE  UartInv'
    <3>1. b \in Nat
      BY TrafficAssumption DEF Targets
    <3> QED
      BY <1>2, <2>7, <3>1, ArriveInv
  <2>8. ASSUME NEW r \in Rings, NEW high \in BOOLEAN, NEW value \in AddrBits,
               StoreHalf(r, high, value)
        PROVE  UartInv'
    BY <2>1, <2>8 DEF StoreHalf
  <2>9. CASE UNCHANGED vars
    BY <2>1, <2>9 DEF vars
  <2> QED
    BY <1>2, <2>2, <2>3, <2>4, <2>5, <2>6, <2>7, <2>8, <2>9 DEF Next
<1>3. UartInv => InputSurvivesTraffic
  BY DEF UartInv, InputSurvivesTraffic
<1> QED
  BY <1>1, <1>2, <1>3, PTL DEF Spec

-----------------------------------------------------------------------------
(* The addresses of the rings. *)

RegsState == [ driver_features : Nat, queue_sel : Nat, queue_num : Nat, queue_ready : Nat,
               desc_addr : SUBSET Nat, avail_addr : SUBSET Nat, used_addr : SUBSET Nat,
               status : Nat, interrupt_status : SUBSET Nat, last_avail_idx : {NoRecord} ]

Half == [low : SUBSET Nat, high : SUBSET Nat, complete : BOOLEAN]

RingAddr(d, r) == CASE r = QUEUE_DESC_LOW -> d.desc_addr
                    [] r = DRIVER_DESC_LOW -> d.avail_addr
                    [] OTHER -> d.used_addr

Low(bs)   == {b \in bs : b < W}
Shift(bs) == {b + W : b \in {v \in bs : v < W}}

\* The low half of the register is always the one stored last; the high half
\* is the one stored after it, once there is one.
Assembled(addr, h) == /\ Low(addr) = Low(h.low)
                      /\ h.complete => addr = Low(h.low) \cup Shift(h.high)

RingInv == /\ regs \in RegsState /\ pair \in [Rings -> Half]
           /\ \A r \in Rings : Assembled(RingAddr(regs, r), pair[r])

\* Storing LOW replaces the low half and may disturb the high one, which HIGH
\* then sets: nothing of the old address, and nothing of the upper half of the
\* register LOW was stored from, is left.
LEMMA LowStored ==
    ASSUME NEW addr \in SUBSET Nat, NEW value \in SUBSET Nat, NEW h,
           h = [low |-> value, high |-> {}, complete |-> FALSE]
    PROVE  set_low(addr, value) \in SUBSET Nat /\ Assembled(set_low(addr, value), h)
<1>1. W \in Nat /\ h.low = value /\ ~h.complete
  BY TrafficAssumption
<1>2. set_low(addr, value) \in SUBSET Nat
  BY DEF set_low
<1>3. ASSUME NEW b
      PROVE  b \in Low(set_low(addr, value)) <=> b \in Low(value)
  <2>1. b \in addr => ~(b >= W /\ b < W)
    BY <1>1
  <2> QED
    BY <2>1 DEF set_low, Low
<1>4. Low(set_low(addr, value)) = Low(value)
  BY <1>3
<1> QED
  BY <1>1, <1>2, <1>4 DEF Assembled

LEMMA HighStored ==
    ASSUME NEW addr \in SUBSET Nat, NEW value \in SUBSET Nat, NEW h \in Half, Assembled(addr, h)
    PROVE  /\ set_high(addr, value) \in SUBSET Nat
           /\ Assembled(set_high(addr, value), [h EXCEPT !.high = value, !.complete = TRUE])
<1> DEFINE g == [h EXCEPT !.high = value, !.complete = TRUE]
<1>1. g.low = h.low /\ g.high = value
  BY DEF Half
<1>2. set_high(addr, value) = Low(addr) \cup Shift(value)
  BY DEF set_high, Low, Shift
<1>3. Shift(value) \in SUBSET Nat /\ \A b \in Shift(value) : ~(b < W)
  BY TrafficAssumption DEF Shift
<1>4. Low(addr) \in SUBSET Nat /\ Low(addr) = Low(h.low)
  BY DEF Low, Assembled
<1> HIDE DEF g
<1>5. set_high(addr, value) = Low(g.low) \cup Shift(g.high)
  BY <1>1, <1>2, <1>4
<1>6. Low(set_high(addr, value)) = Low(addr)
  BY <1>2, <1>3 DEF Low
<1>7. set_high(addr, value) \in SUBSET Nat
  BY <1>2, <1>3, <1>4
<1>8. Assembled(set_high(addr, value), g)
  BY <1>1, <1>4, <1>5, <1>6 DEF Assembled
<1> QED
  BY <1>7, <1>8 DEF g

\* A store to half of one ring's address leaves the other rings' alone.
LEMMA HalfWritten ==
    ASSUME NEW d \in RegsState, NEW r \in Rings, NEW high \in BOOLEAN, NEW value \in SUBSET Nat
    PROVE  LET e == regs_write_bits(d, IF high THEN r + 4 ELSE r, value)
               addr == RingAddr(d, r)
           IN  /\ e \in RegsState
               /\ RingAddr(e, r) = IF high THEN set_high(addr, value) ELSE set_low(addr, value)
               /\ \A s \in Rings \ {r} : RingAddr(e, s) = RingAddr(d, s)
<1> DEFINE e == regs_write_bits(d, IF high THEN r + 4 ELSE r, value)
           new(addr) == IF high THEN set_high(addr, value) ELSE set_low(addr, value)
<1>1. ASSUME NEW addr \in SUBSET Nat
      PROVE  new(addr) \in SUBSET Nat
  <2>1. set_low(addr, value) \in SUBSET Nat
    BY DEF set_low
  <2>2. set_high(addr, value) \in SUBSET Nat
    <3>1. Shift(value) \in SUBSET Nat
      BY TrafficAssumption DEF Shift
    <3>2. set_high(addr, value) = Low(addr) \cup Shift(value)
      BY DEF set_high, Low, Shift
    <3> QED
      BY <3>1, <3>2 DEF Low
  <2> QED
    BY <2>1, <2>2
<1>2. d.desc_addr \in SUBSET Nat /\ d.avail_addr \in SUBSET Nat /\ d.used_addr \in SUBSET Nat
  BY DEF RegsState
<1>3. CASE r = QUEUE_DESC_LOW
  <2> DEFINE n == new(d.desc_addr)
  <2>1. e = [d EXCEPT !.desc_addr = n]
    BY <1>3 DEF regs_write_bits, QUEUE_DESC_LOW, DRIVER_DESC_LOW, DEVICE_DESC_LOW, INTERRUPT_ACK
  <2>2. n \in SUBSET Nat
    BY <1>1, <1>2
  <2> HIDE DEF n, e
  <2>3. e \in RegsState /\ e.desc_addr = n /\ e.avail_addr = d.avail_addr /\ e.used_addr = d.used_addr
    BY <2>1, <2>2 DEF RegsState
  <2> QED
    BY <1>3, <2>3 DEF RingAddr, Rings, QUEUE_DESC_LOW, DRIVER_DESC_LOW, DEVICE_DESC_LOW, n, e
<1>4. CASE r = DRIVER_DESC_LOW
  <2> DEFINE n == new(d.avail_addr)
  <2>1. e = [d EXCEPT !.avail_addr = n]
    BY <1>4 DEF regs_write_bits, QUEUE_DESC_LOW, DRIVER_DESC_LOW, DEVICE_DESC_LOW, INTERRUPT_ACK
  <2>2. n \in SUBSET Nat
    BY <1>1, <1>2
  <2> HIDE DEF n, e
  <2>3. e \in RegsState /\ e.avail_addr = n /\ e.desc_addr = d.desc_addr /\ e.used_addr = d.used_addr
    BY <2>1, <2>2 DEF RegsState
  <2> QED
    BY <1>4, <2>3 DEF RingAddr, Rings, QUEUE_DESC_LOW, DRIVER_DESC_LOW, DEVICE_DESC_LOW, n, e
<1>5. CASE r = DEVICE_DESC_LOW
  <2> DEFINE n == new(d.used_addr)
  <2>1. e = [d EXCEPT !.used_addr = n]
    BY <1>5 DEF regs_write_bits, QUEUE_DESC_LOW, DRIVER_DESC_LOW, DEVICE_DESC_LOW, INTERRUPT_ACK
  <2>2. n \in SUBSET Nat
    BY <1>1, <1>2
  <2> HIDE DEF n, e
  <2>3. e \in RegsState /\ e.used_addr = n /\ e.desc_addr = d.desc_addr /\ e.avail_addr = d.avail_addr
    BY <2>1, <2>2 DEF RegsState
  <2> QED
    BY <1>5, <2>3 DEF RingAddr, Rings, QUEUE_DESC_LOW, DRIVER_DESC_LOW, DEVICE_DESC_LOW, n, e
<1> QED
  BY <1>3, <1>4, <1>5 DEF Rings

LEMMA RingAddrType == ASSUME NEW d \in RegsState, NEW r PROVE RingAddr(d, r) \in SUBSET Nat
BY DEF RegsState, RingAddr

LEMMA StoreHalfInv ==
    ASSUME RingInv, NEW r \in Rings, NEW high \in BOOLEAN, NEW value \in AddrBits,
           StoreHalf(r, high, value)
    PROVE  RingInv'
<1> DEFINE addr == RingAddr(regs, r)
<1>1. value \in SUBSET Nat
  BY TrafficAssumption
<1>2. regs \in RegsState /\ pair \in [Rings -> Half] /\ pair[r] \in Half
      /\ \A s \in Rings : Assembled(RingAddr(regs, s), pair[s])
  BY DEF RingInv
<1>3. /\ regs' \in RegsState
      /\ RingAddr(regs', r) = IF high THEN set_high(addr, value) ELSE set_low(addr, value)
      /\ \A s \in Rings \ {r} : RingAddr(regs', s) = RingAddr(regs, s)
  BY <1>1, <1>2, HalfWritten DEF StoreHalf
<1>4. addr \in SUBSET Nat
  BY <1>2, RingAddrType
<1> DEFINE h == IF high THEN [pair[r] EXCEPT !.high = value, !.complete = TRUE]
                ELSE [low |-> value, high |-> {}, complete |-> FALSE]
<1>5. pair' = [pair EXCEPT ![r] = h]
  BY DEF StoreHalf
<1>6. h \in Half
  BY <1>1, <1>2 DEF Half
<1>7. Assembled(RingAddr(regs', r), h)
  <2>1. CASE high
    BY <1>1, <1>2, <1>3, <1>4, <2>1, HighStored
  <2>2. CASE ~high
    BY <1>1, <1>3, <1>4, <2>2, LowStored
  <2> QED
    BY <2>1, <2>2
<1> HIDE DEF h
<1>8. pair' \in [Rings -> Half] /\ pair'[r] = h /\ \A s \in Rings \ {r} : pair'[s] = pair[s]
  BY <1>2, <1>5, <1>6
<1> QED
  BY <1>2, <1>3, <1>7, <1>8 DEF RingInv

\* Of the stores of numbers only a reset touches the addresses, and it clears
\* them with everything the driver had assembled.
LEMMA StoreVirtIOInv ==
    ASSUME RingInv, NEW a, NEW v \in Nat, StoreVirtIO(a, v)
    PROVE  RingInv'
<1>1. regs \in RegsState /\ pair \in [Rings -> Half]
      /\ \A s \in Rings : Assembled(RingAddr(regs, s), pair[s])
  BY DEF RingInv
<1>2. CASE a = STATUS /\ v = 0
  <2>1. regs' = reset(regs)
    BY <1>2 DEF StoreVirtIO, regs_write, DRIVER_FEATURES, QUEUE_SEL, QUEUE_NUM, QUEUE_READY, STATUS
  <2>2. /\ regs' \in RegsState
        /\ regs'.desc_addr = {} /\ regs'.avail_addr = {} /\ regs'.used_addr = {}
    BY <1>1, <2>1 DEF reset, RegsState
  <2>3. \A s \in Rings : RingAddr(regs', s) = {}
    BY <2>2 DEF RingAddr
  <2>4. pair' = [r \in Rings |-> NoHalf] /\ NoHalf \in Half
    BY <1>2 DEF StoreVirtIO, NoHalf, Half
  <2>5. Assembled({}, NoHalf)
    BY DEF Assembled, NoHalf, Low
  <2> QED
    BY <2>2, <2>3, <2>4, <2>5 DEF RingInv
<1>3. CASE ~(a = STATUS /\ v = 0)
  <2>1. pair' = pair
    BY <1>3 DEF StoreVirtIO
  <2>2. \/ regs' = [regs EXCEPT !.driver_features = v]
        \/ regs' = [regs EXCEPT !.queue_sel = v]
        \/ regs' = [regs EXCEPT !.queue_num = v]
        \/ regs' = [regs EXCEPT !.queue_ready = v]
        \/ regs' = [regs EXCEPT !.status = v]
        \/ regs' = regs
    BY <1>3 DEF StoreVirtIO, regs_write
  <2>3. /\ regs' \in RegsState
        /\ regs'.desc_addr = regs.desc_addr /\ regs'.avail_addr = regs.avail_addr
        /\ regs'.used_addr = regs.used_addr
    BY <1>1, <2>2 DEF RegsState
  <2>4. \A s \in Rings : RingAddr(regs', s) = RingAddr(regs, s)
    BY <2>3 DEF RingAddr
  <2> QED
    BY <1>1, <2>1, <2>3, <2>4 DEF RingInv
<1> QED
  BY <1>2, <1>3

\* The device uses the ring addresses that the driver stored, for every width of
\* the registers and every value, though HIGH and LOW are two stores and LOW may
\* carry the upper half of its source register into the address.
THEOREM RingAddresses == Spec => []RingAddressIsAssembled
<1>1. Init => RingInv
  <2>1. ASSUME Init
        PROVE  RingInv
    <3>1. /\ regs \in RegsState
          /\ regs.desc_addr = {} /\ regs.avail_addr = {} /\ regs.used_addr = {}
      BY <2>1 DEF Init, new_regs, RegsState
    <3>2. \A s \in Rings : RingAddr(regs, s) = {}
      BY <3>1 DEF RingAddr
    <3>3. pair = [r \in Rings |-> NoHalf] /\ NoHalf \in Half
      BY <2>1 DEF Init, NoHalf, Half
    <3>4. Assembled({}, NoHalf)
      BY DEF Assembled, NoHalf, Low
    <3> QED
      BY <3>1, <3>2, <3>3, <3>4 DEF RingInv
  <2> QED
    BY <2>1
<1>2. ASSUME RingInv, [Next]_vars
      PROVE  RingInv'
  <2>1. CASE UNCHANGED <<regs, pair>>
    BY <1>2, <2>1 DEF RingInv
  <2>2. CASE Store
    <3>1. PICK a \in Offsets[target], v \in Values[target] :
             StoreClint(a, v) \/ StorePlic(a, v) \/ StoreUart(a, v) \/ StoreVirtIO(a, v)
      BY <2>2 DEF Store
    <3>2. CASE StoreVirtIO(a, v)
      <4>1. v \in Nat
        BY <3>2, TrafficAssumption DEF StoreVirtIO, Targets
      <4> QED
        BY <1>2, <3>2, <4>1, StoreVirtIOInv
    <3>3. CASE StoreClint(a, v) \/ StorePlic(a, v) \/ StoreUart(a, v)
      BY <2>1, <3>3 DEF StoreClint, StorePlic, StoreUart
    <3> QED
      BY <3>1, <3>2, <3>3
  <2>3. CASE LinesChange
    BY <2>1, <2>3 DEF LinesChange
  <2>4. CASE Refused
    BY <2>1, <2>4 DEF Refused
  <2>5. CASE Tick
    BY <2>1, <2>5 DEF Tick
  <2>6. ASSUME NEW a \in Offsets["uart"], LoadUart(a)
        PROVE  RingInv'
    BY <2>1, <2>6 DEF LoadUart
  <2>7. ASSUME NEW b \in Values["uart"], Arrive(b)
        PROVE  RingInv'
    BY <2>1, <2>7 DEF Arrive
  <2>8. ASSUME NEW r \in Rings, NEW high \in BOOLEAN, NEW value \in AddrBits,
               StoreHalf(r, high, value)
        PROVE  RingInv'
    BY <1>2, <2>8, StoreHalfInv
  <2>9. CASE UNCHANGED vars
    BY <2>1, <2>9 DEF vars
  <2> QED
    BY <1>2, <2>2, <2>3, <2>4, <2>5, <2>6, <2>7, <2>8, <2>9 DEF Next
<1>3. RingInv => RingAddressIsAssembled
  BY DEF RingInv, RingAddressIsAssembled, RingAddr, Assembled, Low, Shift
<1> QED
  BY <1>1, <1>2, <1>3, PTL DEF Spec

=============================================================================
