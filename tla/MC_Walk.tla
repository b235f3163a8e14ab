-------------------------------- MODULE MC_Walk -------------------------------
(* Tables of two entries: a virtual page is three binary digits.  A table may *)
(* point to itself, to another table, to a page that is not RAM (4 and 6), or *)
(* hold a leaf aligned for every level (4) or only for the lower two (6).     *)
EXTENDS Walk

MC_Entries == {<<0, 0>>, <<0, 1>>, <<1, 0>>, <<1, 1>>, <<2, 0>>}

pte(perm, p) == [v |-> TRUE, perm |-> perm, ppn |-> p]

MC_PTEs == { Invalid, pte({}, 1), pte({}, 2), pte({"R", "W"}, 4),
             pte({"X"}, 6), pte({"W"}, 4) }

=============================================================================
