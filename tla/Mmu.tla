---------------------------------- MODULE Mmu ----------------------------------
(***************************************************************************)
(* Address translation as mmu.rs does it: each hart has a direct-mapped    *)
(* TLB, filled by the page-table walk on a miss, consulted before it, and  *)
(* emptied whole by SFENCE.VMA and by any write of satp on that hart.      *)
(* Nothing else empties it: not a store to a page table, and not another   *)
(* hart's SFENCE.VMA.  recent and last are the history variables of the    *)
(* abstract specification MmuAbs, which this module implements.            *)
(***************************************************************************)
EXTENDS PageTable

CONSTANTS Harts, VPNs, Satps, PteStores, InitMem,
          TLB_ENTRIES  \* 256 in the code

ASSUME MmuAssumption == /\ TLB_ENTRIES \in Nat \ {0}
                        /\ VPNs \subseteq PPN
                        /\ Satps \subseteq Satp
                        /\ InitMem \in Memory
                        /\ \A s \in PteStores : /\ s.page \in TablePages
                                                /\ s.i \in Index
                                                /\ s.pte \in PTE

VARIABLES mem, satp, tlb, recent, last

vars == <<mem, satp, tlb, recent, last>>

Slots == 0 .. (TLB_ENTRIES - 1)

NoEntry == [valid |-> FALSE, vpn |-> 0, ppn |-> 0, perm |-> {}]

Abs == INSTANCE MmuAbs

Init == Abs!Init /\ tlb = [h \in Harts |-> [s \in Slots |-> NoEntry]]

-----------------------------------------------------------------------------
(* struct Tlb *)

slot(vpn) == vpn % TLB_ENTRIES

\* A mutant, for the checks of the properties: the tag is not compared.
hit_any_tag(t, vpn) == t[slot(vpn)].valid

hit(t, vpn) == t[slot(vpn)].valid /\ t[slot(vpn)].vpn = vpn

insert(t, vpn, w) ==
    [t EXCEPT ![slot(vpn)] = [valid |-> TRUE, vpn |-> vpn, ppn |-> w.ppn, perm |-> w.perm]]

\* A mutant, for the checks of the properties: nothing is flushed.
flush_nothing(t) == t

flush(t) == [s \in Slots |-> [t[s] EXCEPT !.valid = FALSE]]

-----------------------------------------------------------------------------
(* translate: its result, and the TLB it leaves. *)

\* A mutant, for the checks of the properties: the permissions are not kept.
cached_any_access(t, vpn) == Leaf(t[slot(vpn)].ppn, Access)

cached(t, vpn) == Leaf(t[slot(vpn)].ppn, t[slot(vpn)].perm)

translate(h, vpn, access) ==
    IF satp[h].mode = "sv39" /\ hit(tlb[h], vpn)
    THEN permitted(cached(tlb[h], vpn), access)
    ELSE fresh(mem, satp[h], vpn, access)

\* A miss that ends well is inserted; a hit, a fault and Bare mode are not.
tlb_after(h, vpn, access) ==
    IF satp[h].mode = "sv39" /\ ~hit(tlb[h], vpn) /\ fresh(mem, satp[h], vpn, access).ok
    THEN insert(tlb[h], vpn, walk(mem, satp[h].root, vpn))
    ELSE tlb[h]

Translated(h, vpn, access) ==
    /\ Abs!Accessed(h, vpn, access, translate(h, vpn, access))
    /\ tlb' = [tlb EXCEPT ![h] = tlb_after(h, vpn, access)]

-----------------------------------------------------------------------------
(* The steps of a hart. *)

\* Cpu::read and the fetch in Cpu::fetch.
Load(h, vpn) == /\ Abs!Running
                /\ \E access \in {"R", "X"} : Translated(h, vpn, access)
                /\ UNCHANGED <<mem, satp, recent>>

\* Cpu::write: the store may land in a page table, and no TLB is told.
Store(h, vpn) ==
    LET r == translate(h, vpn, "W")
    IN  /\ Abs!Running
        /\ Translated(h, vpn, "W")
        /\ IF r.ok /\ r.ppn \in TablePages
           THEN \E s \in PteStores : s.page = r.ppn /\ Abs!Stored(s.page, s.i, s.pte)
           ELSE UNCHANGED <<mem, recent>>
        /\ UNCHANGED satp

\* csr_write of satp flushes this hart's TLB.
SatpWrite(h, s) == /\ Abs!Running
                   /\ satp' = [satp EXCEPT ![h] = s]
                   /\ tlb' = [tlb EXCEPT ![h] = flush(tlb[h])]
                   /\ Abs!Flush(h)
                   /\ UNCHANGED <<mem, last>>

Sfence(h) == /\ Abs!Running
             /\ tlb' = [tlb EXCEPT ![h] = flush(tlb[h])]
             /\ Abs!Flush(h)
             /\ UNCHANGED <<mem, satp, last>>

Next == \E h \in Harts : \/ \E vpn \in VPNs : Load(h, vpn) \/ Store(h, vpn)
                         \/ \E s \in Satps : SatpWrite(h, s)
                         \/ Sfence(h)

Spec == Init /\ [][Next]_vars

-----------------------------------------------------------------------------

TypeOK == /\ mem \in Memory
          /\ satp \in [Harts -> Satp]
          /\ recent \in [Harts -> SUBSET Memory]
          /\ \A h \in Harts : mem \in recent[h]
          /\ tlb \in [Harts -> [Slots -> [valid : BOOLEAN, vpn : VPNs \cup {0},
                                          ppn : Nat, perm : SUBSET Access]]]

\* Every valid TLB entry is in the slot its VPN selects and is the leaf that a
\* walk gave at some moment since this hart's last flush, whatever was stored
\* to the page tables since and whatever the other harts flushed.
TlbEntriesAreRecentWalks ==
    \A h \in Harts : \A s \in Slots :
        LET e == tlb[h][s]
        IN  e.valid => /\ s = slot(e.vpn)
                       /\ satp[h].mode = "sv39"
                       /\ \E m \in recent[h] :
                             walk(m, satp[h].root, e.vpn) = Leaf(e.ppn, e.perm)

\* With the TLB in the way, an access still has only the results that the
\* abstract specification allows: a walk over page tables no older than this
\* hart's last SFENCE.VMA or satp write.
ImplementsMmuAbs == Abs!Spec

\* The guest's discipline pays: if no page table changed since this hart last
\* flushed, translation is what it was before there was a TLB.
ExactAfterFlush ==
    [][\A h \in Harts : recent[h] = {mem} /\ last' # last /\ last'.hart = h =>
          last'.res = last'.now]_vars

=============================================================================
