---------------------------------- MODULE Walk ---------------------------------
(***************************************************************************)
(* The page-table walk of mmu.rs against the Sv39 rules, while a guest     *)
(* edits its page tables one entry at a time.  The loop of translate_paged *)
(* is in PageTable; here the rules are stated without a loop: there is a   *)
(* path of table pages from the root to a leaf.                            *)
(***************************************************************************)
EXTENDS PageTable

CONSTANTS
    Entries,  \* the entries the guest edits: <<page, index>>
    PTEs,     \* the values it stores
    Root      \* the PPN field of satp

ASSUME WalkAssumption == /\ Entries \subseteq TablePages \X Index
                         /\ PTEs \subseteq PTE
                         /\ Root \in TablePages

VARIABLE tables

VPN == 0 .. (Fan * Fan * Fan - 1)

Invalid == [v |-> FALSE, perm |-> {}, ppn |-> 0]

WalkInit == tables = [p \in TablePages |-> [i \in Index |-> Invalid]]

StorePte(e, pte) == tables' = [tables EXCEPT ![e[1]][e[2]] = pte]

WalkNext == \E e \in Entries, pte \in PTEs : StorePte(e, pte)

WalkSpec == WalkInit /\ [][WalkNext]_tables

-----------------------------------------------------------------------------

Pointer(pte) == pte.v /\ pte.perm = {}
IsLeaf(pte)  == pte.v /\ pte.perm \cap {"R", "X"} # {}

\* The digits of a virtual page number in base Fan, level 0 the lowest.
Digit(vpn, level) == (vpn \div span(level)) % Fan

\* Table pages from the root down to a level, each pointed to by the one above.
Paths(vpn, level) ==
    {t \in [level .. 2 -> TablePages] :
        /\ t[2] = Root
        /\ \A l \in (level + 1) .. 2 : LET pte == tables[t[l]][Digit(vpn, l)]
                                       IN  Pointer(pte) /\ pte.ppn = t[l - 1]}

\* The translations that the rules allow: a leaf at the end of a path, aligned
\* to the memory it spans.
Mappings(vpn) ==
    UNION {{Leaf(pte.ppn + (vpn % span(level)), pte.perm) :
               pte \in {q \in {tables[t[level]][Digit(vpn, level)] : t \in Paths(vpn, level)} :
                           IsLeaf(q) /\ q.ppn % span(level) = 0}} : level \in 0 .. 2}

\* translate_paged finds exactly the mapping the rules allow, and a page fault
\* when there is none.
WalkFollowsTheRules ==
    \A vpn \in VPN : walk(tables, Root, vpn) = IF Mappings(vpn) = {} THEN Fault
                                            ELSE CHOOSE w \in Mappings(vpn) : TRUE

\* A store to one entry changes the translation only of the pages whose path
\* goes through that entry: no page is remapped by a neighbour's PTE.
StoreIsLocal ==
    [][\A vpn \in VPN : walk(tables', Root, vpn) # walk(tables, Root, vpn) =>
          \E level \in 0 .. 2 : \E t \in Paths(vpn, level) :
              tables'[t[level]][Digit(vpn, level)] # tables[t[level]][Digit(vpn, level)]]_tables

=============================================================================
