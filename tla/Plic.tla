---------------------------------- MODULE Plic ---------------------------------
(* The interrupt controller of plic.rs.  A line is high while its device says *)
(* so: the controller keeps no pending bit, reading the claim register only   *)
(* looks, and writing it (complete) does nothing.                             *)
EXTENDS Numbers

CONSTANTS
    MAX_IRQ,      \* 32, the width of a register: its enable bits are a u32
    MAX_CONTEXTS  \* 64

ASSUME PlicAssumption == MAX_IRQ \in Nat \ {0} /\ MAX_CONTEXTS \in Nat

IRQ     == 0 .. (MAX_IRQ - 1)
Context == 0 .. (MAX_CONTEXTS - 1)

new_plic == [ priority  |-> [i \in IRQ |-> 0],
              enable    |-> [c \in Context |-> {}],
              threshold |-> [c \in Context |-> 0] ]

\* Contexts past the arrays read as zero and ignore writes.
enable_get(p, context)    == IF context \in Context THEN p.enable[context] ELSE {}
threshold_get(p, context) == IF context \in Context THEN p.threshold[context] ELSE 0

\* A mutant, for the checks of the properties: the last of equals wins.
better_or_equal(p, candidates, best, irq) ==
    IF irq \in candidates /\ p.priority[irq] >= best.priority
    THEN [irq |-> irq, priority |-> p.priority[irq]] ELSE best

\* The loop of claim_irq over 1 .. MAX_IRQ - 1: a strictly higher priority wins,
\* so the lowest number wins a tie, and the threshold has to be exceeded.
better(p, candidates, best, irq) ==
    IF irq \in candidates /\ p.priority[irq] > best.priority
    THEN [irq |-> irq, priority |-> p.priority[irq]] ELSE best

claim_loop(p, candidates, threshold) ==
    LET best[i \in IRQ] == IF i = 0 THEN [irq |-> 0, priority |-> threshold]
                           ELSE better(p, candidates, best[i - 1], i)
    IN  best[MAX_IRQ - 1].irq

\* lines is pending_mask: the IRQs whose device has interrupt_status bit 0 set.
claim_irq(p, lines, context) ==
    claim_loop(p, lines \cap enable_get(p, context), threshold_get(p, context))

claimable(p, lines, context) == claim_irq(p, lines, context) # 0

\* The address map.
PRIORITY_END   == 4096     \* 0x1000
ENABLE_BASE    == 8192     \* 0x2000
ENABLE_END     == 2039808  \* 0x1f2000
ENABLE_STRIDE  == 128
CONTEXT_BASE   == 2097152  \* 0x200000
CONTEXT_STRIDE == 4096

\* The register at an address, and the number of its IRQ or context.  Every word
\* of a context's enable bits is its first word.
register_at(address) ==
    CASE address < PRIORITY_END -> <<"priority", address \div 4>>
      [] address \in ENABLE_BASE .. (ENABLE_END - 1) ->
            <<"enable", (address - ENABLE_BASE) \div ENABLE_STRIDE>>
      [] address >= CONTEXT_BASE ->
            LET offset == (address - CONTEXT_BASE) % CONTEXT_STRIDE
            IN  << CASE offset = 0 -> "threshold" [] offset = 4 -> "claim" [] OTHER -> "none",
                   (address - CONTEXT_BASE) \div CONTEXT_STRIDE >>
      [] OTHER -> <<"none", 0>>

as_u32(value) == value % power(2, MAX_IRQ)

\* The enable bits as a set of IRQs, and the word that has them.
bits(value) == {i \in IRQ : digit(value, 2, i) = 1}

mask(irqs) == number([i \in IRQ |-> IF i \in irqs THEN 1 ELSE 0], 2, MAX_IRQ)

\* Device::read.  Reading the claim register changes nothing.
plic_read(p, lines, address) ==
    LET r == register_at(address)
    IN  CASE r[1] = "priority"  -> IF r[2] \in IRQ THEN p.priority[r[2]] ELSE 0
          [] r[1] = "enable"    -> mask(enable_get(p, r[2]))
          [] r[1] = "threshold" -> threshold_get(p, r[2])
          [] r[1] = "claim"     -> claim_irq(p, lines, r[2])
          [] OTHER -> 0

\* A mutant, for the checks of the properties: every context has the one threshold.
plic_write_shared(p, address, value) ==
    LET r == register_at(address)
    IN  IF r[1] = "threshold" THEN [p EXCEPT !.threshold = [c \in Context |-> as_u32(value)]] ELSE p

\* Device::write.  Writing the claim register (complete) does nothing.
plic_write(p, address, value) ==
    LET r == register_at(address)
        v == as_u32(value)
    IN  CASE r[1] = "priority" /\ r[2] \in IRQ      -> [p EXCEPT !.priority[r[2]] = v]
          [] r[1] = "enable" /\ r[2] \in Context    -> [p EXCEPT !.enable[r[2]] = bits(v)]
          [] r[1] = "threshold" /\ r[2] \in Context -> [p EXCEPT !.threshold[r[2]] = v]
          [] OTHER -> p

=============================================================================
