-------------------------------- MODULE MC_Mmu --------------------------------
(* Two harts, tables of two entries, a TLB of two slots.  The root is page 0:  *)
(* its upper half is a superpage that maps virtual pages 4..7 onto pages 0..3 *)
(* (so a paging hart can store to its own tables), its lower half leads to    *)
(* page 1 and from there to page 2.                                           *)
EXTENDS Mmu

ptr(p) == [v |-> TRUE, perm |-> {}, ppn |-> p]
page(p, perm) == [v |-> TRUE, perm |-> perm, ppn |-> p]
invalid == [v |-> FALSE, perm |-> {}, ppn |-> 0]

RW == {"R", "W"}

MC_InitMem == [p \in {0, 1, 2} |->
    CASE p = 0 -> [i \in 0 .. 1 |-> IF i = 0 THEN ptr(1) ELSE page(0, RW)]
      [] p = 1 -> [i \in 0 .. 1 |-> IF i = 0 THEN ptr(2) ELSE page(4, {"R", "X"})]
      [] p = 2 -> [i \in 0 .. 1 |-> IF i = 0 THEN page(4, RW) ELSE invalid]]

MC_VPNs == {0, 6, 8}   \* all in one slot of two; 8 walks as 0

MC_Satps == {Bare, [mode |-> "sv39", root |-> 0]}

MC_PteStores ==
    { [page |-> 2, i |-> 0, pte |-> page(5, {"R"})],      \* remap and protect
      [page |-> 2, i |-> 0, pte |-> invalid] }            \* unmap

=============================================================================
