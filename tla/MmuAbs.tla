-------------------------------- MODULE MmuAbs --------------------------------
(***************************************************************************)
(* What a guest may rely on from address translation, with no TLB in       *)
(* sight: an access is translated by a walk over the page tables as they   *)
(* are now, or as they were at some moment since this hart last executed   *)
(* SFENCE.VMA or wrote satp.  recent[h] is the set of those page tables.   *)
(***************************************************************************)
EXTENDS PageTable

CONSTANTS
    Harts,
    VPNs,       \* virtual page numbers that are accessed
    Satps,      \* values written to satp
    PteStores,  \* the PTEs a guest stores: page, index, value
    InitMem     \* the page tables to begin with

VARIABLES
    mem,     \* page tables, shared by the harts
    satp,    \* per hart
    recent,  \* per hart: the page tables since its last flush
    last     \* the last access and its result

avars == <<mem, satp, recent, last>>

Nothing == [hart |-> 0, vpn |-> 0, access |-> "R", res |-> Ok(0), now |-> Ok(0)]

Init == /\ mem = InitMem
        /\ satp = [h \in Harts |-> Bare]
        /\ recent = [h \in Harts |-> {mem}]
        /\ last = Nothing

\* The run loop ends at the first EmuError.
Running == last.res.ok

\* An access with result r; `now` is what a walk at this moment would give.
Accessed(h, vpn, access, r) ==
    last' = [hart |-> h, vpn |-> vpn, access |-> access, res |-> r,
             now |-> fresh(mem, satp[h], vpn, access)]

\* A store that lands in a page table.
Stored(page, i, pte) ==
    /\ mem' = [mem EXCEPT ![page][i] = pte]
    /\ recent' = [h \in Harts |-> recent[h] \cup {mem'}]

Results(h, vpn, access) == {fresh(m, satp[h], vpn, access) : m \in recent[h]}

Load(h, vpn) == /\ Running
                /\ \E access \in {"R", "X"} : \E r \in Results(h, vpn, access) :
                      Accessed(h, vpn, access, r)
                /\ UNCHANGED <<mem, satp, recent>>

Store(h, vpn) ==
    /\ Running
    /\ \E r \in Results(h, vpn, "W") :
          /\ Accessed(h, vpn, "W", r)
          /\ IF r.ok /\ r.ppn \in TablePages
             THEN \E s \in PteStores : s.page = r.ppn /\ Stored(s.page, s.i, s.pte)
             ELSE UNCHANGED <<mem, recent>>
    /\ UNCHANGED satp

Flush(h) == recent' = [recent EXCEPT ![h] = {mem}]

SatpWrite(h, s) == /\ Running
                   /\ satp' = [satp EXCEPT ![h] = s]
                   /\ Flush(h)
                   /\ UNCHANGED <<mem, last>>

Sfence(h) == /\ Running
             /\ Flush(h)
             /\ UNCHANGED <<mem, satp, last>>

Next == \E h \in Harts : \/ \E vpn \in VPNs : Load(h, vpn) \/ Store(h, vpn)
                         \/ \E s \in Satps : SatpWrite(h, s)
                         \/ Sfence(h)

Spec == Init /\ [][Next]_avars

=============================================================================
