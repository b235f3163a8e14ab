------------------------------- MODULE MC_Trap -------------------------------
(* Trap on a small instance: one word of code (which address a trap returns  *)
(* to is the subject of module TrapNest), and the CSR writes that an         *)
(* xv6-like guest and a careless one make.                                   *)
EXTENDS Trap

MC_Targets == {0}

csr(op, name, rs1) == [op |-> op, csr |-> name, rs1 |-> rs1]

MC_CsrInstrs ==
    { csr("rw", "mstatus", {3, 11}),   \* MIE and MPP = S
      csr("rs", "mstatus", {12}),      \* MPP = 2 (no such level) or 3
      csr("rs", "sstatus", {1, 3}),    \* SIE; MIE is outside the mask
      csr("rc", "sstatus", {1, 8}),    \* push_off, and SPP = U
      csr("rs", "mie", {7}),           \* MTIE
      csr("rs", "sip", {1, 7}),        \* the timer relay; MTIP is outside
      csr("rc", "sip", {1}),
      csr("rw", "mideleg", 0 .. 15),   \* xv6: delegate everything
      csr("rw", "mideleg", {9}),       \* SSIP is left to M, SEIP is not
      csr("rw", "medeleg", {8, 9}) }

=============================================================================
