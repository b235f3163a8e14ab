------------------------------- MODULE MmuProofs -------------------------------
(***************************************************************************)
(* The address translation of mmu.rs, for every table size and every       *)
(* content of the page tables.  First the TLB, which implements MmuAbs for *)
(* every number of harts and TLB size: the inductive invariant is          *)
(* TlbEntriesAreRecentWalks with the types.  Then the loop of              *)
(* translate_paged, which finds the mapping of the Sv39 rules: at each     *)
(* level a walk that has come to a table page stands at the end of a path  *)
(* of the rules, and the entry found there decides alike for both.         *)
(***************************************************************************)
EXTENDS Mmu, Walk, TLAPS

-----------------------------------------------------------------------------
(* The TLB. *)

Entry == [valid : BOOLEAN, vpn : VPNs \cup {0}, ppn : Nat, perm : SUBSET Access]

LEMMA SlotRange == ASSUME NEW vpn \in VPNs PROVE slot(vpn) \in Slots /\ vpn \in Nat
<1>1. vpn \in Nat
  BY MmuAssumption, PageTableAssumption
<1> QED
  BY <1>1, MmuAssumption DEF slot, Slots

LEMMA SpanType == \A l \in 0 .. 2 : span(l) \in Nat \ {0}
BY PageTableAssumption DEF span

LEMMA IndexType == ASSUME NEW vpn \in Nat, NEW l \in 0 .. 2 PROVE index(vpn, l) \in Index
<1>1. Fan \in Nat \ {0} /\ Fan * Fan \in Nat \ {0}
  BY PageTableAssumption
<1>2. vpn \div Fan \in Nat /\ vpn \div (Fan * Fan) \in Nat
  BY <1>1
<1> QED
  BY <1>1, <1>2 DEF index, Index

\* What a walk can be at any point: in a table, failed, or at a leaf with a
\* physical page number and permissions.
WalkState(w) == \/ \E a \in PPN : w = At(a)
                \/ w = Fault
                \/ \E p \in Nat, perm \in SUBSET Access : w = Leaf(p, perm)

LEMMA LeafType ==
    ASSUME NEW pte \in PTE, NEW vpn \in Nat, NEW l \in 0 .. 2
    PROVE  WalkState(leaf(pte, vpn, l))
<1>1. span(l) \in Nat \ {0}
  BY SpanType
<1>2. vpn % span(l) \in Nat
  BY <1>1
<1>3. pte.ppn \in Nat /\ pte.perm \in SUBSET Access
  BY PageTableAssumption DEF PTE
<1>4. pte.ppn + (vpn % span(l)) \in Nat
  BY <1>2, <1>3
<1> QED
  BY <1>3, <1>4 DEF leaf, WalkState

LEMMA StepType ==
    ASSUME NEW m \in Memory, NEW vpn \in Nat, NEW l \in 0 .. 2, NEW w, WalkState(w)
    PROVE  WalkState(walk_step(m, vpn, l, w))
<1>1. CASE w.at # "table"
  BY <1>1 DEF walk_step
<1>2. CASE w.at = "table" /\ w.a \notin TablePages
  BY <1>2 DEF walk_step, WalkState
<1>3. CASE w.at = "table" /\ w.a \in TablePages
  <2> DEFINE pte == m[w.a][index(vpn, l)]
  <2>1. pte \in PTE
    BY <1>3, IndexType DEF Memory
  <2>2. WalkState(leaf(pte, vpn, l)) /\ WalkState(At(pte.ppn)) /\ WalkState(Fault)
    BY <2>1, LeafType DEF WalkState, PTE
  <2>3. walk_step(m, vpn, l, w) \in {Fault, leaf(pte, vpn, l), At(pte.ppn)}
    BY <1>3 DEF walk_step
  <2> QED
    BY <2>2, <2>3
<1> QED
  BY <1>1, <1>2, <1>3

LEMMA WalkType ==
    ASSUME NEW m \in Memory, NEW vpn \in Nat, NEW root \in PPN
    PROVE  \/ walk(m, root, vpn) = Fault
           \/ \E p \in Nat, perm \in SUBSET Access : walk(m, root, vpn) = Leaf(p, perm)
<1> DEFINE w2 == walk_step(m, vpn, 2, At(root))
           w1 == walk_step(m, vpn, 1, w2)
           w0 == walk_step(m, vpn, 0, w1)
<1>1. WalkState(At(root))
  BY DEF WalkState
<1>2. WalkState(w2)
  BY <1>1, StepType
<1> HIDE DEF w2
<1>3. WalkState(w1)
  BY <1>2, StepType
<1> HIDE DEF w1
<1>4. WalkState(w0)
  BY <1>3, StepType
<1> HIDE DEF w0
<1>5. walk(m, root, vpn) = IF w0.at = "leaf" THEN w0 ELSE Fault
  BY DEF walk, w0, w1, w2
<1> QED
  BY <1>4, <1>5 DEF WalkState, At

-----------------------------------------------------------------------------

IInv == TypeOK /\ TlbEntriesAreRecentWalks

\* The invariant as a property of one hart's TLB, for given page tables.
TlbOf(t, st, rec) ==
    \A s \in Slots : t[s].valid =>
        /\ s = slot(t[s].vpn)
        /\ st.mode = "sv39"
        /\ \E m \in rec : walk(m, st.root, t[s].vpn) = Leaf(t[s].ppn, t[s].perm)

LEMMA InvByHart == TlbEntriesAreRecentWalks <=> \A h \in Harts : TlbOf(tlb[h], satp[h], recent[h])
BY DEF TlbEntriesAreRecentWalks, TlbOf

\* More page tables to choose from do not hurt, and a flush leaves nothing to
\* show.
LEMMA TlbMonotone ==
    ASSUME NEW t, NEW st, NEW rec, NEW more, rec \subseteq more, TlbOf(t, st, rec)
    PROVE  TlbOf(t, st, more)
BY DEF TlbOf

LEMMA FlushType == ASSUME NEW t \in [Slots -> Entry]
                   PROVE  /\ flush(t) \in [Slots -> Entry]
                          /\ \A st, rec : TlbOf(flush(t), st, rec)
<1>1. \A s \in Slots : [t[s] EXCEPT !.valid = FALSE] \in Entry
  BY DEF Entry
<1>2. flush(t) \in [Slots -> Entry]
  BY <1>1 DEF flush
<1>3. \A s \in Slots : ~flush(t)[s].valid
  BY DEF flush, Entry
<1> QED
  BY <1>2, <1>3 DEF TlbOf

\* The instance's copy of the walk is the walk.
LEMMA SameWalk == ASSUME NEW m, NEW root, NEW vpn PROVE Abs!walk(m, root, vpn) = walk(m, root, vpn)
<1>1. ASSUME NEW l, NEW pte PROVE Abs!leaf(pte, vpn, l) = leaf(pte, vpn, l)
  BY DEF Abs!leaf, leaf, Abs!Fault, Fault, Abs!Leaf, Leaf, Abs!span, span
<1>2. ASSUME NEW l, NEW w PROVE Abs!walk_step(m, vpn, l, w) = walk_step(m, vpn, l, w)
  <2>1. Abs!index(vpn, l) = index(vpn, l)
    BY DEF Abs!index, index
  <2>2. Abs!Fault = Fault /\ \A a : Abs!At(a) = At(a)
    BY DEF Abs!Fault, Fault, Abs!At, At
  <2> QED
    BY <1>1, <2>1, <2>2 DEF Abs!walk_step, walk_step
<1>3. Abs!At(root) = At(root) /\ Abs!Fault = Fault
  BY DEF Abs!At, At, Abs!Fault, Fault
<1> QED
  BY <1>2, <1>3 DEF Abs!walk, walk

LEMMA SameFresh ==
    ASSUME NEW m, NEW st, NEW vpn, NEW access
    PROVE  Abs!fresh(m, st, vpn, access) = fresh(m, st, vpn, access)
<1>1. Abs!Err = Err /\ Abs!Ok(vpn) = Ok(vpn)
  BY DEF Abs!Err, Err, Abs!Ok, Ok
<1>2. ASSUME NEW w PROVE Abs!permitted(w, access) = permitted(w, access)
  BY <1>1 DEF Abs!permitted, permitted, Abs!Err, Err, Abs!Ok, Ok
<1> QED
  BY <1>1, <1>2, SameWalk DEF Abs!fresh, fresh

\* What translate returns is what a walk over some recent page table gives.
LEMMA TranslateAllowed ==
    ASSUME IInv, NEW h \in Harts, NEW vpn \in VPNs, NEW access \in Access
    PROVE  translate(h, vpn, access) \in Abs!Results(h, vpn, access)
<1>1. CASE satp[h].mode = "sv39" /\ hit(tlb[h], vpn)
  <2>1. slot(vpn) \in Slots
    BY SlotRange
  <2>2. PICK m \in recent[h] : walk(m, satp[h].root, vpn) = cached(tlb[h], vpn)
    BY <1>1, <2>1 DEF IInv, TlbEntriesAreRecentWalks, hit, cached
  <2>3. translate(h, vpn, access) = fresh(m, satp[h], vpn, access)
    BY <1>1, <2>2 DEF translate, fresh
  <2> QED
    BY <2>3, SameFresh DEF Abs!Results
<1>2. CASE ~(satp[h].mode = "sv39" /\ hit(tlb[h], vpn))
  <2>1. mem \in recent[h] /\ translate(h, vpn, access) = fresh(mem, satp[h], vpn, access)
    BY <1>2 DEF IInv, TypeOK, translate
  <2> QED
    BY <2>1, SameFresh DEF Abs!Results
<1> QED
  BY <1>1, <1>2

\* The TLB that translate leaves holds only recent walks.
LEMMA TlbAfterHolds ==
    ASSUME IInv, NEW h \in Harts, NEW vpn \in VPNs, NEW access \in Access
    PROVE  /\ tlb_after(h, vpn, access) \in [Slots -> Entry]
           /\ TlbOf(tlb_after(h, vpn, access), satp[h], recent[h])
<1>0. tlb[h] \in [Slots -> Entry] /\ TlbOf(tlb[h], satp[h], recent[h])
  BY InvByHart DEF IInv, TypeOK, Entry
<1> DEFINE w == walk(mem, satp[h].root, vpn)
<1>1. CASE satp[h].mode = "sv39" /\ ~hit(tlb[h], vpn) /\ fresh(mem, satp[h], vpn, access).ok
  <2>1. slot(vpn) \in Slots /\ vpn \in Nat
    BY SlotRange
  <2>2. mem \in Memory /\ mem \in recent[h] /\ satp[h].root \in PPN
    BY DEF IInv, TypeOK, Satp
  <2>3. PICK p \in Nat, perm \in SUBSET Access : w = Leaf(p, perm)
    <3>1. w # Fault
      BY <1>1 DEF fresh, permitted, Fault, Err
    <3> QED
      BY <2>1, <2>2, <3>1, WalkType
  <2> DEFINE e == [valid |-> TRUE, vpn |-> vpn, ppn |-> p, perm |-> perm]
  <2>4. tlb_after(h, vpn, access) = [tlb[h] EXCEPT ![slot(vpn)] = e]
    BY <1>1, <2>3 DEF tlb_after, insert, Leaf
  <2>5. e \in Entry
    BY DEF Entry
  <2>6. [tlb[h] EXCEPT ![slot(vpn)] = e] \in [Slots -> Entry]
    BY <1>0, <2>1, <2>5
  <2>7. TlbOf([tlb[h] EXCEPT ![slot(vpn)] = e], satp[h], recent[h])
    BY <1>0, <1>1, <2>1, <2>2, <2>3 DEF TlbOf
  <2> QED
    BY <2>4, <2>6, <2>7
<1>2. CASE ~(satp[h].mode = "sv39" /\ ~hit(tlb[h], vpn) /\ fresh(mem, satp[h], vpn, access).ok)
  BY <1>0, <1>2 DEF tlb_after
<1> QED
  BY <1>1, <1>2

\* A step that only translates, and one that also stores a PTE.
LEMMA TranslatedHolds ==
    ASSUME IInv, NEW h \in Harts, NEW vpn \in VPNs, NEW access \in Access,
           Translated(h, vpn, access), satp' = satp, mem' \in Memory,
           recent' \in [Harts -> SUBSET Memory],
           \A g \in Harts : recent[g] \subseteq recent'[g] /\ mem' \in recent'[g]
    PROVE  IInv'
<1>1. tlb' = [tlb EXCEPT ![h] = tlb_after(h, vpn, access)]
  BY DEF Translated
<1>2. tlb \in [Harts -> [Slots -> Entry]]
  BY DEF IInv, TypeOK, Entry
<1>3. tlb' \in [Harts -> [Slots -> Entry]]
  BY <1>1, <1>2, TlbAfterHolds
<1>4. ASSUME NEW g \in Harts PROVE TlbOf(tlb'[g], satp'[g], recent'[g])
  <2>1. TlbOf(tlb'[g], satp[g], recent[g])
    BY <1>1, <1>2, TlbAfterHolds, InvByHart DEF IInv
  <2> QED
    BY <2>1, TlbMonotone
<1>5. TlbEntriesAreRecentWalks'
  BY <1>4 DEF TlbEntriesAreRecentWalks, TlbOf
<1>6. TypeOK'
  BY <1>3 DEF IInv, TypeOK, Entry
<1> QED
  BY <1>5, <1>6 DEF IInv

\* The flush of SFENCE.VMA and of a satp write.
LEMMA FlushedHolds ==
    ASSUME IInv, NEW h \in Harts, mem' = mem,
           tlb' = [tlb EXCEPT ![h] = flush(tlb[h])],
           satp' \in [Harts -> Satp], \A g \in Harts \ {h} : satp'[g] = satp[g],
           Abs!Flush(h)
    PROVE  IInv'
<1>1. tlb \in [Harts -> [Slots -> Entry]]
  BY DEF IInv, TypeOK, Entry
<1>2. flush(tlb[h]) \in [Slots -> Entry] /\ \A st, rec : TlbOf(flush(tlb[h]), st, rec)
  BY <1>1, FlushType
<1>3. tlb' \in [Harts -> [Slots -> Entry]]
  BY <1>1, <1>2
<1>4. recent' = [recent EXCEPT ![h] = {mem}]
  BY DEF Abs!Flush
<1>5. ASSUME NEW g \in Harts PROVE TlbOf(tlb'[g], satp'[g], recent'[g]) /\ mem' \in recent'[g]
  <2>1. CASE g = h
    <3>1. tlb'[g] = flush(tlb[h])
      BY <1>1, <2>1
    <3>2. mem' \in recent'[g]
      BY <1>4, <2>1 DEF IInv, TypeOK
    <3> QED
      BY <1>2, <3>1, <3>2
  <2>2. CASE g # h
    <3>1. tlb'[g] = tlb[g] /\ satp'[g] = satp[g] /\ recent'[g] = recent[g]
      BY <1>1, <1>4, <2>2
    <3> QED
      BY <3>1, InvByHart DEF IInv, TypeOK
  <2> QED
    BY <2>1, <2>2
<1>6. TlbEntriesAreRecentWalks'
  BY <1>5 DEF TlbEntriesAreRecentWalks, TlbOf
<1> QED
  <2>1. recent' \in [Harts -> SUBSET Memory]
    BY <1>4 DEF IInv, TypeOK
  <2> QED
    BY <1>3, <1>5, <1>6, <2>1 DEF IInv, TypeOK, Entry

-----------------------------------------------------------------------------

LEMMA LoadStep ==
    ASSUME IInv, NEW h \in Harts, NEW vpn \in VPNs, Load(h, vpn)
    PROVE  IInv' /\ Abs!Load(h, vpn)
<1>1. PICK access \in {"R", "X"} : Translated(h, vpn, access)
  BY DEF Load
<1>2. access \in Access /\ Abs!Running /\ UNCHANGED <<mem, satp, recent>>
  BY DEF Load, Access
<1>3. IInv'
  <2>1. mem' \in Memory /\ recent' \in [Harts -> SUBSET Memory]
    BY <1>2 DEF IInv, TypeOK
  <2>2. \A g \in Harts : recent[g] \subseteq recent'[g] /\ mem' \in recent'[g]
    BY <1>2 DEF IInv, TypeOK
  <2> QED
    BY <1>1, <1>2, <2>1, <2>2, TranslatedHolds
<1>4. /\ translate(h, vpn, access) \in Abs!Results(h, vpn, access)
      /\ Abs!Accessed(h, vpn, access, translate(h, vpn, access))
  BY <1>1, <1>2, TranslateAllowed DEF Translated
<1> QED
  BY <1>2, <1>3, <1>4 DEF Abs!Load

LEMMA StoreStep ==
    ASSUME IInv, NEW h \in Harts, NEW vpn \in VPNs, Store(h, vpn)
    PROVE  IInv' /\ Abs!Store(h, vpn)
<1> DEFINE r == translate(h, vpn, "W")
<1>1. /\ Abs!Running /\ Translated(h, vpn, "W") /\ UNCHANGED satp
      /\ IF r.ok /\ r.ppn \in TablePages
         THEN \E s \in PteStores : s.page = r.ppn /\ Abs!Stored(s.page, s.i, s.pte)
         ELSE UNCHANGED <<mem, recent>>
  BY DEF Store
<1>2. "W" \in Access
  BY DEF Access
<1>3. r \in Abs!Results(h, vpn, "W") /\ Abs!Accessed(h, vpn, "W", r)
  BY <1>1, <1>2, TranslateAllowed DEF Translated
<1> HIDE DEF r
<1>4. /\ mem' \in Memory /\ recent' \in [Harts -> SUBSET Memory]
      /\ \A g \in Harts : recent[g] \subseteq recent'[g] /\ mem' \in recent'[g]
  <2>1. CASE UNCHANGED <<mem, recent>>
    BY <2>1 DEF IInv, TypeOK
  <2>2. CASE \E s \in PteStores : Abs!Stored(s.page, s.i, s.pte)
    <3>1. PICK s \in PteStores : Abs!Stored(s.page, s.i, s.pte)
      BY <2>2
    <3>2. s.page \in TablePages /\ s.i \in Index /\ s.pte \in PTE
      BY MmuAssumption
    <3>3. mem' = [mem EXCEPT ![s.page][s.i] = s.pte]
      BY <3>1 DEF Abs!Stored
    <3>4. mem' \in Memory
      BY <3>2, <3>3 DEF IInv, TypeOK, Memory
    <3>5. recent' = [g \in Harts |-> recent[g] \cup {mem'}]
      BY <3>1 DEF Abs!Stored
    <3> QED
      BY <3>4, <3>5 DEF IInv, TypeOK
  <2> QED
    BY <1>1, <2>1, <2>2
<1>5. IInv'
  BY <1>1, <1>2, <1>4, TranslatedHolds
<1> QED
  BY <1>1, <1>3, <1>5 DEF Abs!Store

LEMMA SatpStep ==
    ASSUME IInv, NEW h \in Harts, NEW s \in Satps, SatpWrite(h, s)
    PROVE  IInv' /\ Abs!SatpWrite(h, s)
<1>1. satp' = [satp EXCEPT ![h] = s] /\ s \in Satp /\ satp \in [Harts -> Satp]
  BY MmuAssumption DEF SatpWrite, IInv, TypeOK
<1>2. satp' \in [Harts -> Satp] /\ \A g \in Harts \ {h} : satp'[g] = satp[g]
  BY <1>1
<1>3. mem' = mem /\ tlb' = [tlb EXCEPT ![h] = flush(tlb[h])] /\ Abs!Flush(h)
  BY DEF SatpWrite
<1> QED
  BY <1>2, <1>3, FlushedHolds DEF SatpWrite, Abs!SatpWrite

LEMMA SfenceStep ==
    ASSUME IInv, NEW h \in Harts, Sfence(h)
    PROVE  IInv' /\ Abs!Sfence(h)
<1>1. satp' \in [Harts -> Satp] /\ \A g \in Harts \ {h} : satp'[g] = satp[g]
  BY DEF Sfence, IInv, TypeOK
<1>2. mem' = mem /\ tlb' = [tlb EXCEPT ![h] = flush(tlb[h])] /\ Abs!Flush(h)
  BY DEF Sfence
<1> QED
  BY <1>1, <1>2, FlushedHolds DEF Sfence, Abs!Sfence

LEMMA InitHolds == Init => IInv
<1> SUFFICES ASSUME Init PROVE IInv
  OBVIOUS
<1>1. mem = InitMem /\ recent = [h \in Harts |-> {mem}] /\ satp = [h \in Harts |-> Abs!Bare]
  BY DEF Init, Abs!Init
<1>2. tlb = [h \in Harts |-> [s \in Slots |-> NoEntry]]
  BY DEF Init
<1>3. TypeOK
  <2>1. satp \in [Harts -> Satp]
    BY <1>1, PageTableAssumption DEF Abs!Bare, Satp
  <2>2. NoEntry \in Entry
    BY DEF NoEntry, Entry
  <2>3. tlb \in [Harts -> [Slots -> Entry]]
    BY <1>2, <2>2
  <2> QED
    BY <1>1, <2>1, <2>3, MmuAssumption DEF TypeOK, Entry
<1>4. TlbEntriesAreRecentWalks
  BY <1>2 DEF TlbEntriesAreRecentWalks, NoEntry
<1> QED
  BY <1>3, <1>4 DEF IInv

LEMMA StepHolds == ASSUME IInv, [Next]_vars PROVE IInv' /\ [Abs!Next]_(Abs!avars)
<1>1. CASE UNCHANGED vars
  BY <1>1 DEF vars, Abs!avars, IInv, TypeOK, TlbEntriesAreRecentWalks
<1>2. CASE Next
  <2>1. PICK h \in Harts : \/ \E vpn \in VPNs : Load(h, vpn) \/ Store(h, vpn)
                           \/ \E s \in Satps : SatpWrite(h, s)
                           \/ Sfence(h)
    BY <1>2 DEF Next
  <2>2. CASE \E vpn \in VPNs : Load(h, vpn)
    BY <2>2, LoadStep DEF Abs!Next
  <2>3. CASE \E vpn \in VPNs : Store(h, vpn)
    BY <2>3, StoreStep DEF Abs!Next
  <2>4. CASE \E s \in Satps : SatpWrite(h, s)
    BY <2>4, SatpStep DEF Abs!Next
  <2>5. CASE Sfence(h)
    BY <2>5, SfenceStep DEF Abs!Next
  <2> QED
    BY <2>1, <2>2, <2>3, <2>4, <2>5
<1> QED
  BY <1>1, <1>2

LEMMA Inductive == Spec => []IInv
BY InitHolds, StepHolds, PTL DEF Spec

\* The state of the TLB is well formed.
THEOREM TypeCorrect == Spec => []TypeOK
<1>1. IInv => TypeOK
  BY DEF IInv
<1> QED
  BY <1>1, Inductive, PTL

\* Every valid TLB entry of every hart is the result of a walk over page
\* tables no older than that hart's last flush.
THEOREM TlbSound == Spec => []TlbEntriesAreRecentWalks
<1>1. IInv => TlbEntriesAreRecentWalks
  BY DEF IInv
<1> QED
  BY <1>1, Inductive, PTL

\* Translation through the TLB implements translation without one, up to
\* the staleness the architecture allows between flushes.
THEOREM TlbImplementsAbs == Spec => ImplementsMmuAbs
<1>1. Init => Abs!Init
  BY DEF Init
<1>2. IInv /\ [Next]_vars => [Abs!Next]_(Abs!avars)
  BY StepHolds
<1> QED
  BY <1>1, <1>2, Inductive, PTL DEF Spec, ImplementsMmuAbs, Abs!Spec

\* A hart since whose last flush no page table has changed translates as if
\* it had no TLB.
THEOREM FlushMakesExact == Spec => ExactAfterFlush
<1> DEFINE Exact == \A h \in Harts : recent[h] = {mem} /\ last' # last /\ last'.hart = h =>
                                        last'.res = last'.now
<1>1. IInv /\ [Next]_vars => [Exact]_vars
  <2> SUFFICES ASSUME IInv, Next, NEW h \in Harts, recent[h] = {mem}, last' # last, last'.hart = h
               PROVE  last'.res = last'.now
    OBVIOUS
  <2>1. PICK g \in Harts, vpn \in VPNs, access \in Access :
          Abs!Accessed(g, vpn, access, translate(g, vpn, access))
    BY DEF Next, Load, Store, SatpWrite, Sfence, Translated, Access
  <2>2. last' = [hart |-> g, vpn |-> vpn, access |-> access,
                 res |-> translate(g, vpn, access),
                 now |-> Abs!fresh(mem, satp[g], vpn, access)]
    BY <2>1 DEF Abs!Accessed
  <2>3. g = h
    BY <2>2
  <2>4. translate(h, vpn, access) \in Abs!Results(h, vpn, access)
    BY TranslateAllowed
  <2>5. translate(h, vpn, access) = Abs!fresh(mem, satp[h], vpn, access)
    BY <2>4 DEF Abs!Results
  <2> QED
    BY <2>2, <2>3, <2>5
<1> QED
  BY <1>1, Inductive, PTL DEF Spec, ExactAfterFlush

-----------------------------------------------------------------------------
(* The walk. *)

\* The invariant: physical memory holds page tables of the right shape.
TablesOK == tables \in Memory

\* The shifts and masks of the code pick the digits of the page number.
LEMMA IndexIsDigit ==
    ASSUME NEW vpn \in VPN, NEW l \in 0 .. 2
    PROVE  index(vpn, l) = Digit(vpn, l) /\ index(vpn, l) \in Index
<1>1. Fan \in Nat \ {0} /\ Fan * Fan \in Nat \ {0}
  BY PageTableAssumption
<1>2. vpn \in Nat
  BY <1>1 DEF VPN
<1>3. vpn \div 1 = vpn
  BY <1>2
<1>4. vpn \div Fan \in Nat /\ vpn \div (Fan * Fan) \in Nat
  BY <1>1, <1>2
<1>5. index(vpn, l) \in Index
  BY <1>1, <1>2, <1>4 DEF index, Index
<1>6. index(vpn, l) = Digit(vpn, l)
  BY <1>3 DEF index, Digit, span
<1> QED
  BY <1>5, <1>6

-----------------------------------------------------------------------------
(* One iteration of the loop, by the entry it finds. *)

LEMMA StepAtTable ==
    ASSUME NEW m \in Memory, NEW a \in TablePages, NEW vpn \in VPN, NEW l \in 0 .. 2,
           NEW pte, pte = m[a][Digit(vpn, l)]
    PROVE  /\ pte \in PTE
           /\ IsLeaf(pte) => walk_step(m, vpn, l, At(a)) = leaf(pte, vpn, l)
           /\ Pointer(pte) => walk_step(m, vpn, l, At(a)) = At(pte.ppn)
           /\ ~IsLeaf(pte) /\ ~Pointer(pte) => walk_step(m, vpn, l, At(a)) = Fault
<1>1. pte = m[a][index(vpn, l)] /\ pte \in PTE
  BY IndexIsDigit DEF Memory
<1>2. pte.perm \subseteq {"R", "W", "X"}
  BY <1>1 DEF PTE, Access
<1>3. At(a).at = "table" /\ At(a).a = a
  BY DEF At
<1>4. walk_step(m, vpn, l, At(a)) =
        IF ~pte.v THEN Fault
        ELSE IF pte.perm \cap {"R", "X"} # {} THEN leaf(pte, vpn, l)
        ELSE IF "W" \in pte.perm THEN Fault
        ELSE At(pte.ppn)
  BY <1>1, <1>3 DEF walk_step
<1> QED
  BY <1>1, <1>2, <1>4 DEF IsLeaf, Pointer

\* Outside the tables there is nothing to read, and a walk that has ended stays.
LEMMA StepElsewhere ==
    ASSUME NEW m, NEW vpn, NEW l
    PROVE  /\ \A a : a \notin TablePages => walk_step(m, vpn, l, At(a)) = Fault
           /\ \A w : w.at # "table" => walk_step(m, vpn, l, w) = w
BY DEF walk_step, At

LEMMA LeafOrFault ==
    ASSUME NEW pte, NEW vpn, NEW l
    PROVE  /\ leaf(pte, vpn, l).at # "table"
           /\ pte.ppn % span(l) # 0 => leaf(pte, vpn, l) = Fault
           /\ pte.ppn % span(l) = 0 =>
                 /\ leaf(pte, vpn, l) = Leaf(pte.ppn + (vpn % span(l)), pte.perm)
                 /\ leaf(pte, vpn, l).at = "leaf"
           /\ Fault.at = "fault"
           /\ \A a : At(a).at = "table"
BY DEF leaf, Leaf, Fault, At

-----------------------------------------------------------------------------
(* Paths of the rules, one level at a time. *)

LEMMA PathToRoot ==
    ASSUME NEW vpn
    PROVE  /\ \A t \in Paths(vpn, 2) : t[2] = Root
           /\ \E t \in Paths(vpn, 2) : t[2] = Root
<1>1. [l \in 2 .. 2 |-> Root] \in Paths(vpn, 2)
  BY WalkAssumption DEF Paths
<1> QED
  BY <1>1 DEF Paths

LEMMA PathToLevel1 ==
    ASSUME NEW vpn, NEW pte, pte = tables[Root][Digit(vpn, 2)]
    PROVE  /\ \A t \in Paths(vpn, 1) : Pointer(pte) /\ t[1] = pte.ppn /\ t[1] \in TablePages
           /\ Pointer(pte) /\ pte.ppn \in TablePages =>
                 \E t \in Paths(vpn, 1) : t[1] = pte.ppn
<1>1. ASSUME NEW t \in Paths(vpn, 1)
      PROVE  Pointer(pte) /\ t[1] = pte.ppn /\ t[1] \in TablePages
  <2>1. t[2] = Root /\ t[1] \in TablePages
    BY <1>1 DEF Paths
  <2>2. Pointer(tables[t[2]][Digit(vpn, 2)]) /\ tables[t[2]][Digit(vpn, 2)].ppn = t[2 - 1]
    BY <1>1 DEF Paths
  <2> QED
    BY <2>1, <2>2
<1>2. ASSUME Pointer(pte), pte.ppn \in TablePages
      PROVE  \E t \in Paths(vpn, 1) : t[1] = pte.ppn
  <2> DEFINE t == [l \in 1 .. 2 |-> IF l = 2 THEN Root ELSE pte.ppn]
  <2>1. t \in [1 .. 2 -> TablePages] /\ t[2] = Root /\ t[1] = pte.ppn
    BY <1>2, WalkAssumption
  <2>2. \A l \in 2 .. 2 : l = 2
    OBVIOUS
  <2>3. t \in Paths(vpn, 1)
    BY <1>2, <2>1, <2>2 DEF Paths
  <2> QED
    BY <2>1, <2>3
<1> QED
  BY <1>1, <1>2

LEMMA PathToLevel0 ==
    ASSUME NEW vpn, NEW pte, pte = tables[Root][Digit(vpn, 2)],
           NEW q, q = tables[pte.ppn][Digit(vpn, 1)]
    PROVE  /\ \A t \in Paths(vpn, 0) : /\ Pointer(pte) /\ pte.ppn \in TablePages
                                       /\ Pointer(q) /\ t[0] = q.ppn /\ t[0] \in TablePages
           /\ Pointer(pte) /\ pte.ppn \in TablePages /\ Pointer(q) /\ q.ppn \in TablePages =>
                 \E t \in Paths(vpn, 0) : t[0] = q.ppn
<1>1. ASSUME NEW t \in Paths(vpn, 0)
      PROVE  /\ Pointer(pte) /\ pte.ppn \in TablePages
             /\ Pointer(q) /\ t[0] = q.ppn /\ t[0] \in TablePages
  <2>1. t[2] = Root /\ t[1] \in TablePages /\ t[0] \in TablePages
    BY <1>1 DEF Paths
  <2>2. \A l \in 1 .. 2 : /\ Pointer(tables[t[l]][Digit(vpn, l)])
                         /\ tables[t[l]][Digit(vpn, l)].ppn = t[l - 1]
    BY <1>1 DEF Paths
  <2>3. Pointer(tables[t[2]][Digit(vpn, 2)]) /\ tables[t[2]][Digit(vpn, 2)].ppn = t[1]
    BY <2>2
  <2>4. Pointer(tables[t[1]][Digit(vpn, 1)]) /\ tables[t[1]][Digit(vpn, 1)].ppn = t[0]
    BY <2>2
  <2> QED
    BY <2>1, <2>3, <2>4
<1>2. ASSUME Pointer(pte), pte.ppn \in TablePages, Pointer(q), q.ppn \in TablePages
      PROVE  \E t \in Paths(vpn, 0) : t[0] = q.ppn
  <2> DEFINE t == [l \in 0 .. 2 |-> IF l = 2 THEN Root ELSE IF l = 1 THEN pte.ppn ELSE q.ppn]
  <2>1. t \in [0 .. 2 -> TablePages] /\ t[2] = Root /\ t[1] = pte.ppn /\ t[0] = q.ppn
    BY <1>2, WalkAssumption
  <2>2. \A l \in 1 .. 2 : l \in {1, 2}
    OBVIOUS
  <2> HIDE DEF t
  <2>3. \A l \in 1 .. 2 : LET e == tables[t[l]][Digit(vpn, l)]
                          IN  Pointer(e) /\ e.ppn = t[l - 1]
    BY <1>2, <2>1, <2>2
  <2>4. t \in Paths(vpn, 0)
    BY <2>1, <2>3 DEF Paths
  <2> QED
    BY <2>1, <2>4
<1> QED
  BY <1>1, <1>2

-----------------------------------------------------------------------------
(* The whole walk, level by level. *)

\* The entries the walk reads, as long as it reads any.
e2(m, vpn) == m[Root][Digit(vpn, 2)]
e1(m, vpn) == m[e2(m, vpn).ppn][Digit(vpn, 1)]
e0(m, vpn) == m[e1(m, vpn).ppn][Digit(vpn, 0)]

Leads(pte) == Pointer(pte) /\ pte.ppn \in TablePages

LEMMA WalkByLevels ==
    ASSUME NEW m \in Memory, NEW vpn \in VPN
    PROVE  walk(m, Root, vpn) =
             IF IsLeaf(e2(m, vpn)) THEN leaf(e2(m, vpn), vpn, 2)
             ELSE IF ~Leads(e2(m, vpn)) THEN Fault
             ELSE IF IsLeaf(e1(m, vpn)) THEN leaf(e1(m, vpn), vpn, 1)
             ELSE IF ~Leads(e1(m, vpn)) THEN Fault
             ELSE IF IsLeaf(e0(m, vpn)) THEN leaf(e0(m, vpn), vpn, 0)
             ELSE Fault
<1> DEFINE w2 == walk_step(m, vpn, 2, At(Root))
           w1 == walk_step(m, vpn, 1, w2)
           w0 == walk_step(m, vpn, 0, w1)
<1>0. walk(m, Root, vpn) = IF w0.at = "leaf" THEN w0 ELSE Fault
  BY DEF walk
<1>1. /\ IsLeaf(e2(m, vpn)) => w2 = leaf(e2(m, vpn), vpn, 2)
      /\ Pointer(e2(m, vpn)) => w2 = At(e2(m, vpn).ppn)
      /\ ~IsLeaf(e2(m, vpn)) /\ ~Pointer(e2(m, vpn)) => w2 = Fault
  BY StepAtTable, WalkAssumption DEF e2
<1> HIDE DEF w2
<1>2. /\ w2.at # "table" => w1 = w2
      /\ \A a : w2 = At(a) /\ a \notin TablePages => w1 = Fault
  BY StepElsewhere
<1>3. ASSUME Leads(e2(m, vpn))
      PROVE  /\ IsLeaf(e1(m, vpn)) => w1 = leaf(e1(m, vpn), vpn, 1)
             /\ Pointer(e1(m, vpn)) => w1 = At(e1(m, vpn).ppn)
             /\ ~IsLeaf(e1(m, vpn)) /\ ~Pointer(e1(m, vpn)) => w1 = Fault
  BY <1>1, <1>3, StepAtTable DEF e1, Leads
<1> HIDE DEF w1
<1>4. /\ w1.at # "table" => w0 = w1
      /\ \A a : w1 = At(a) /\ a \notin TablePages => w0 = Fault
  BY StepElsewhere
<1>5. ASSUME Leads(e1(m, vpn)), w1 = At(e1(m, vpn).ppn)
      PROVE  /\ IsLeaf(e0(m, vpn)) => w0 = leaf(e0(m, vpn), vpn, 0)
             /\ Pointer(e0(m, vpn)) => w0 = At(e0(m, vpn).ppn)
             /\ ~IsLeaf(e0(m, vpn)) /\ ~Pointer(e0(m, vpn)) => w0 = Fault
  BY <1>5, StepAtTable DEF e0, Leads
<1> HIDE DEF w0
<1>6. /\ \A pte, l : /\ leaf(pte, vpn, l).at # "table"
                     /\ leaf(pte, vpn, l) = Fault \/ leaf(pte, vpn, l).at = "leaf"
      /\ Fault.at = "fault" /\ \A a : At(a).at = "table"
  BY LeafOrFault
<1>7. \A pte : IsLeaf(pte) => ~Pointer(pte)
  BY DEF IsLeaf, Pointer
<1>8. CASE IsLeaf(e2(m, vpn))
  BY <1>0, <1>1, <1>2, <1>4, <1>6, <1>8
<1>9. CASE ~IsLeaf(e2(m, vpn)) /\ ~Leads(e2(m, vpn))
  BY <1>0, <1>1, <1>2, <1>4, <1>6, <1>9 DEF Leads
<1>10. CASE ~IsLeaf(e2(m, vpn)) /\ Leads(e2(m, vpn)) /\ IsLeaf(e1(m, vpn))
  BY <1>0, <1>3, <1>4, <1>6, <1>10
<1>11. CASE ~IsLeaf(e2(m, vpn)) /\ Leads(e2(m, vpn)) /\ ~IsLeaf(e1(m, vpn)) /\ ~Leads(e1(m, vpn))
  BY <1>0, <1>3, <1>4, <1>6, <1>11 DEF Leads
<1>12. CASE ~IsLeaf(e2(m, vpn)) /\ Leads(e2(m, vpn)) /\ ~IsLeaf(e1(m, vpn)) /\ Leads(e1(m, vpn))
  <2>1. w1 = At(e1(m, vpn).ppn)
    BY <1>3, <1>12 DEF Leads
  <2> QED
    BY <1>0, <1>5, <1>6, <1>7, <1>12, <2>1
<1> QED
  BY <1>8, <1>9, <1>10, <1>11, <1>12

-----------------------------------------------------------------------------
(* The rules, in the same terms. *)

\* What is found at a level if the rules lead there.
Found(vpn, level, pte) == \E t \in Paths(vpn, level) : pte = tables[t[level]][Digit(vpn, level)]

LEMMA FoundByLevels ==
    ASSUME NEW vpn
    PROVE  /\ \A pte : Found(vpn, 2, pte) <=> pte = e2(tables, vpn)
           /\ \A pte : Found(vpn, 1, pte) <=> pte = e1(tables, vpn) /\ Leads(e2(tables, vpn))
           /\ \A pte : Found(vpn, 0, pte) <=> /\ pte = e0(tables, vpn)
                                              /\ Leads(e2(tables, vpn)) /\ Leads(e1(tables, vpn))
<1>1. \A pte : Found(vpn, 2, pte) <=> pte = e2(tables, vpn)
  BY PathToRoot DEF Found, e2
<1>2. /\ \A t \in Paths(vpn, 1) : Leads(e2(tables, vpn)) /\ t[1] = e2(tables, vpn).ppn
      /\ Leads(e2(tables, vpn)) => \E t \in Paths(vpn, 1) : t[1] = e2(tables, vpn).ppn
  BY PathToLevel1 DEF e2, Leads
<1>3. \A pte : Found(vpn, 1, pte) <=> pte = e1(tables, vpn) /\ Leads(e2(tables, vpn))
  BY <1>2 DEF Found, e1
<1>4. /\ \A t \in Paths(vpn, 0) : /\ Leads(e2(tables, vpn)) /\ Leads(e1(tables, vpn))
                                  /\ t[0] = e1(tables, vpn).ppn
      /\ Leads(e2(tables, vpn)) /\ Leads(e1(tables, vpn)) =>
            \E t \in Paths(vpn, 0) : t[0] = e1(tables, vpn).ppn
  BY PathToLevel0 DEF e2, e1, Leads
<1>5. \A pte : Found(vpn, 0, pte) <=> /\ pte = e0(tables, vpn)
                                      /\ Leads(e2(tables, vpn)) /\ Leads(e1(tables, vpn))
  BY <1>4 DEF Found, e0
<1> QED
  BY <1>1, <1>3, <1>5

LEMMA MappingsByLevels ==
    ASSUME NEW vpn, NEW w
    PROVE  w \in Mappings(vpn) <=>
             \E level \in 0 .. 2 : \E pte :
                 /\ Found(vpn, level, pte) /\ IsLeaf(pte) /\ pte.ppn % span(level) = 0
                 /\ w = Leaf(pte.ppn + (vpn % span(level)), pte.perm)
BY DEF Mappings, Found

\* The two agree: the rules allow the walk's result and nothing else.
LEMMA WalkIsTheMapping ==
    ASSUME TablesOK, NEW vpn \in VPN
    PROVE  Mappings(vpn) = IF walk(tables, Root, vpn) = Fault THEN {} ELSE {walk(tables, Root, vpn)}
<1> DEFINE aligned(pte, l) == pte.ppn % span(l) = 0
           W == walk(tables, Root, vpn)
<1>1. \A w : w \in Mappings(vpn) <=>
        \/ IsLeaf(e2(tables, vpn)) /\ aligned(e2(tables, vpn), 2) /\ w = leaf(e2(tables, vpn), vpn, 2)
        \/ /\ Leads(e2(tables, vpn)) /\ IsLeaf(e1(tables, vpn)) /\ aligned(e1(tables, vpn), 1)
           /\ w = leaf(e1(tables, vpn), vpn, 1)
        \/ /\ Leads(e2(tables, vpn)) /\ Leads(e1(tables, vpn)) /\ IsLeaf(e0(tables, vpn))
           /\ aligned(e0(tables, vpn), 0) /\ w = leaf(e0(tables, vpn), vpn, 0)
  <2>1. \A l : l \in 0 .. 2 <=> l = 2 \/ l = 1 \/ l = 0
    OBVIOUS
  <2>2. \A pte, l : aligned(pte, l) =>
           leaf(pte, vpn, l) = Leaf(pte.ppn + (vpn % span(l)), pte.perm)
    BY LeafOrFault
  <2> HIDE DEF aligned
  <2>3. ASSUME NEW w
        PROVE  w \in Mappings(vpn) <=>
                 \E l \in 0 .. 2 : \E pte : /\ Found(vpn, l, pte) /\ IsLeaf(pte) /\ aligned(pte, l)
                                            /\ w = leaf(pte, vpn, l)
    BY <2>2, MappingsByLevels DEF aligned
  <2> QED
    BY <2>1, <2>3, FoundByLevels
<1>2. \A pte, l : /\ ~aligned(pte, l) => leaf(pte, vpn, l) = Fault
                  /\ aligned(pte, l) => leaf(pte, vpn, l) # Fault
  BY LeafOrFault
<1>3. \A pte : IsLeaf(pte) => ~Leads(pte)
  BY DEF IsLeaf, Leads, Pointer
<1>4. W = IF IsLeaf(e2(tables, vpn)) THEN leaf(e2(tables, vpn), vpn, 2)
          ELSE IF ~Leads(e2(tables, vpn)) THEN Fault
          ELSE IF IsLeaf(e1(tables, vpn)) THEN leaf(e1(tables, vpn), vpn, 1)
          ELSE IF ~Leads(e1(tables, vpn)) THEN Fault
          ELSE IF IsLeaf(e0(tables, vpn)) THEN leaf(e0(tables, vpn), vpn, 0)
          ELSE Fault
  BY WalkByLevels DEF TablesOK
<1> HIDE DEF aligned, W
<1>5. \A w : w \in Mappings(vpn) <=> W # Fault /\ w = W
  BY <1>1, <1>2, <1>3, <1>4
<1> QED
  BY <1>5 DEF W

-----------------------------------------------------------------------------

LEMMA TablesInit == WalkInit => TablesOK
<1>1. Invalid \in PTE
  BY PageTableAssumption DEF Invalid, PTE, Access
<1> QED
  BY <1>1 DEF WalkInit, TablesOK, Memory

LEMMA TablesStep == TablesOK /\ [WalkNext]_tables => TablesOK'
<1> SUFFICES ASSUME TablesOK, [WalkNext]_tables PROVE TablesOK'
  OBVIOUS
<1>1. CASE UNCHANGED tables
  BY <1>1 DEF TablesOK
<1>2. ASSUME NEW e \in Entries, NEW pte \in PTEs, StorePte(e, pte)
      PROVE  TablesOK'
  <2>1. e[1] \in TablePages /\ e[2] \in Index /\ pte \in PTE
    BY WalkAssumption
  <2> QED
    BY <1>2, <2>1 DEF StorePte, TablesOK, Memory
<1> QED
  BY <1>1, <1>2 DEF WalkNext

\* Page tables stay page tables under every store of the guest.
LEMMA TablesCorrect == WalkSpec => []TablesOK
BY TablesInit, TablesStep, PTL DEF WalkSpec

\* translate_paged finds exactly the mapping that the Sv39 rules define, and a
\* fault where they define none, for tables of any size and content: loops,
\* misaligned superpages and pointers out of memory too.
THEOREM WalkIsSv39 == WalkSpec => []WalkFollowsTheRules
<1>1. TablesOK => WalkFollowsTheRules
  <2> SUFFICES ASSUME TablesOK, NEW vpn \in VPN
               PROVE  walk(tables, Root, vpn) = IF Mappings(vpn) = {} THEN Fault
                                             ELSE CHOOSE w \in Mappings(vpn) : TRUE
    BY DEF WalkFollowsTheRules
  <2>1. Mappings(vpn) = IF walk(tables, Root, vpn) = Fault THEN {} ELSE {walk(tables, Root, vpn)}
    BY WalkIsTheMapping
  <2>2. \A x : (CHOOSE w \in {x} : TRUE) = x
    OBVIOUS
  <2> QED
    BY <2>1, <2>2
<1> QED
  BY <1>1, TablesCorrect, PTL

\* A store to a page-table entry changes the translation of no page whose path
\* does not read that entry.
THEOREM StoresAreLocal == WalkSpec => StoreIsLocal
<1> DEFINE Local == \A vpn \in VPN : walk(tables', Root, vpn) # walk(tables, Root, vpn) =>
                       \E level \in 0 .. 2 : \E t \in Paths(vpn, level) :
                          tables'[t[level]][Digit(vpn, level)] # tables[t[level]][Digit(vpn, level)]
<1>1. TablesOK /\ TablesOK' => Local
  <2> SUFFICES ASSUME TablesOK, TablesOK', NEW vpn \in VPN,
                      \A level \in 0 .. 2 : \A t \in Paths(vpn, level) :
                         tables'[t[level]][Digit(vpn, level)] = tables[t[level]][Digit(vpn, level)]
               PROVE  walk(tables', Root, vpn) = walk(tables, Root, vpn)
    OBVIOUS
  <2>1. e2(tables', vpn) = e2(tables, vpn)
    BY PathToRoot DEF e2
  <2>2. ASSUME Leads(e2(tables, vpn)) PROVE e1(tables', vpn) = e1(tables, vpn)
    <3>1. PICK t \in Paths(vpn, 1) : t[1] = e2(tables, vpn).ppn
      BY <2>2, PathToLevel1 DEF e2, Leads
    <3> QED
      BY <2>1, <3>1 DEF e1
  <2>3. ASSUME Leads(e2(tables, vpn)), Leads(e1(tables, vpn)) PROVE e0(tables', vpn) = e0(tables, vpn)
    <3>1. PICK t \in Paths(vpn, 0) : t[0] = e1(tables, vpn).ppn
      BY <2>3, PathToLevel0 DEF e2, e1, Leads
    <3> QED
      BY <2>2, <2>3, <3>1 DEF e0
  <2> QED
    BY <2>1, <2>2, <2>3, WalkByLevels DEF TablesOK
<1>2. TablesOK /\ [WalkNext]_tables => [Local]_tables
  BY <1>1, TablesStep
<1> QED
  BY <1>2, TablesCorrect, PTL DEF WalkSpec, StoreIsLocal

=============================================================================
