----------------------------- MODULE MC_TrapNest -----------------------------
(* TrapNest as xv6 boots it: everything delegated, the timer relayed by M.   *)
EXTENDS TrapNest

MC_MIDELEG == 0 .. 15
MC_MEDELEG == {8}
MC_Targets == {0}

csr(op, name, rs1) == [op |-> op, csr |-> name, rs1 |-> rs1]

MC_CsrInstrs ==
    { csr("rs", "sip", {1}),          \* timervec raises SSIP
      csr("rc", "sip", {1}),          \* devintr acknowledges it
      csr("rs", "sstatus", {1}),      \* intr_on
      csr("rw", "sstatus", {3, 5, 8}),\* SPP = S, SPIE; MIE is outside the mask
      csr("rw", "mie", {1, 7}),
      csr("rw", "sepc", 8) }

=============================================================================
