------------------------------- MODULE PageTable -------------------------------
(***************************************************************************)
(* The Sv39 page-table walk of mmu.rs as operators on the contents of      *)
(* physical memory.  Addresses are page numbers: the 12 offset bits pass   *)
(* through translation unchanged.  A page table is a page of Fan entries   *)
(* (512 in the code); the three levels are those of the code.              *)
(***************************************************************************)
EXTENDS Integers

CONSTANTS
    Fan,         \* entries of a page table
    TablePages,  \* the physical pages backed by RAM, where page tables can be
    PPN          \* physical page numbers

ASSUME PageTableAssumption == /\ Fan \in Nat \ {0}
                              /\ PPN \subseteq Nat /\ 0 \in PPN
                              /\ TablePages \subseteq PPN

Access == {"R", "W", "X"}

Index == 0 .. (Fan - 1)

\* A PTE: the V bit, the R, W and X bits, and the PPN field.
PTE == [v : BOOLEAN, perm : SUBSET Access, ppn : PPN]

Memory == [TablePages -> [Index -> PTE]]

\* A mutant, for the checks of the properties: the fields taken in the opposite order.
index_reversed(vpn, level) ==
    CASE level = 2 -> vpn % Fan
      [] level = 1 -> (vpn \div Fan) % Fan
      [] level = 0 -> (vpn \div (Fan * Fan)) % Fan

\* vpn[level], a 9-bit field of the virtual address.  The bits above the
\* three fields are not looked at.
index(vpn, level) ==
    CASE level = 0 -> vpn % Fan
      [] level = 1 -> (vpn \div Fan) % Fan
      [] level = 2 -> (vpn \div (Fan * Fan)) % Fan

\* 2^(9*level): the number of 4 KB pages a leaf at that level spans.
span(level) == CASE level = 0 -> 1 [] level = 1 -> Fan [] level = 2 -> Fan * Fan

\* Where a walk stands: at the table in page a, at a leaf, or failed.
At(a)  == [at |-> "table", a |-> a, ppn |-> 0, perm |-> {}]
Leaf(ppn, perm) == [at |-> "leaf", a |-> 0, ppn |-> ppn, perm |-> perm]
Fault == [at |-> "fault", a |-> 0, ppn |-> 0, perm |-> {}]

\* A mutant, for the checks of the properties: no alignment check.
leaf_unchecked(pte, vpn, level) == Leaf(pte.ppn + (vpn % span(level)), pte.perm)

\* A leaf above level 0 is a superpage: its PPN must be aligned, and the low
\* PPN fields come from the virtual address.
leaf(pte, vpn, level) ==
    IF pte.ppn % span(level) # 0 THEN Fault
    ELSE Leaf(pte.ppn + (vpn % span(level)), pte.perm)

\* One iteration of the loop in translate_paged.
walk_step(mem, vpn, level, w) ==
    IF w.at # "table" THEN w
    ELSE IF w.a \notin TablePages THEN Fault    \* bus.read fails
    ELSE LET pte == mem[w.a][index(vpn, level)]
         IN  IF ~pte.v THEN Fault
             ELSE IF pte.perm \cap {"R", "X"} # {} THEN leaf(pte, vpn, level)
             ELSE IF "W" \in pte.perm THEN Fault  \* reserved encoding
             ELSE At(pte.ppn)

\* The whole loop: a table still to be read after level 0 is exhaustion.
walk(mem, root, vpn) ==
    LET w == walk_step(mem, vpn, 0,
               walk_step(mem, vpn, 1,
                 walk_step(mem, vpn, 2, At(root))))
    IN  IF w.at = "leaf" THEN w ELSE Fault

\* The result of translate: an EmuError, or a physical page.
Ok(ppn) == [ok |-> TRUE, ppn |-> ppn]
Err     == [ok |-> FALSE, ppn |-> 0]

permitted(w, access) ==
    IF w.at = "leaf" /\ access \in w.perm THEN Ok(w.ppn) ELSE Err

\* satp: Bare, Sv39, or a mode that is not implemented.
Satp == [mode : {"bare", "sv39", "other"}, root : PPN]

Bare == [mode |-> "bare", root |-> 0]

\* What translate did before there was a TLB, and does on a miss.
fresh(mem, satp, vpn, access) ==
    CASE satp.mode = "bare" -> Ok(vpn)
      [] satp.mode = "sv39" -> permitted(walk(mem, satp.root, vpn), access)
      [] OTHER -> Err

=============================================================================
