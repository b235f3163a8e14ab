---------------------------------- MODULE Mem ----------------------------------
(***************************************************************************)
(* Memory as a hart sees it: Cpu::fetch, read and write translate the      *)
(* address of the first byte and hand the access to the bus, which gives   *)
(* it to the RAM or to the stack, whichever holds all of it.  The stack    *)
(* begins where the program, padded to a page, ends; the RAM itself is     *)
(* padded by Xv6Emulator only.  The harts take turns, and each has a       *)
(* translation of its own, so the pages in force change between any two    *)
(* instructions (the walk and the TLB are module Mmu).                     *)
(***************************************************************************)
EXTENDS Ranges, Ram, FiniteSets

CONSTANTS
    Program,   \* the image: a sequence of bytes
    Address,   \* its load address
    Sizes,     \* 1, 2, 4 and 8
    Maps,      \* translations: virtual page -> frame, or Unmapped
    Values     \* what the guest stores

Unmapped == -1
Err      == -1

Parcel == 2    \* the bytes of a compressed instruction

\* A kernel is linked at a page, the stack is a whole number of them, and both end
\* below the top of the address space: RangeManager::add_range checks the end.
ASSUME AddressAssumption ==
    /\ AddrSpace \in Nat /\ PageSize \in Nat \ {0} /\ STACK_SIZE \in Nat /\ Address \in Nat
    /\ Address % PageSize = 0 /\ STACK_SIZE % PageSize = 0
    /\ Address + page_up(Len(Program)) + STACK_SIZE < AddrSpace

\* The bits that tell a compressed instruction are in its first byte.
ASSUME ByteAssumption ==
    /\ BYTE \in Nat \ {0} /\ BYTE % 4 = 0
    /\ Program \in Seq(0 .. (BYTE - 1))
    /\ Sizes \subseteq Nat \ {0} /\ Values \subseteq Nat
    /\ \A m \in Maps : /\ IsFiniteSet(DOMAIN m)
                     /\ m \in [0 .. (Cardinality(DOMAIN m) - 1) -> Nat \cup {Unmapped}]

VARIABLES ram, stack, map

mem_vars == <<ram, stack, map>>

ram_range   == [start |-> Address, size |-> Cardinality(DOMAIN ram)]
stack_range == [start |-> page_up(Len(Program)) + Address, size |-> STACK_SIZE]

MemInit == /\ \/ ram = with_content(Len(Program), Program)           \* Emulator::new
              \/ ram = with_content(page_up(Len(Program)), Program)  \* Xv6Emulator::new_smp
           /\ stack = with_content(STACK_SIZE, <<>>)
           /\ map \in Maps

-----------------------------------------------------------------------------
(* Bus::read and Bus::write, for memory. *)

bus_read(pa, size) ==
    IF contains(ram_range, pa, size) THEN ram_read(ram, pa - ram_range.start, size)
    ELSE IF contains(stack_range, pa, size) THEN ram_read(stack, pa - stack_range.start, size)
    ELSE Err

bus_write_ok(pa, size) == contains(ram_range, pa, size) \/ contains(stack_range, pa, size)

\* What a store that the bus accepts leaves in the RAM and in the stack.
bus_write(pa, size, value) ==
    IF contains(ram_range, pa, size)
    THEN <<ram_write(ram, pa - ram_range.start, size, value), stack>>
    ELSE <<ram, ram_write(stack, pa - stack_range.start, size, value)>>

-----------------------------------------------------------------------------
(* Cpu::read, write and fetch. *)

Virtual == 0 .. (PageSize * Cardinality(DOMAIN map) - 1)

translate(va) == IF map[va \div PageSize] = Unmapped THEN Err
                 ELSE map[va \div PageSize] * PageSize + (va % PageSize)

cpu_read(va, size) == IF translate(va) = Err THEN Err ELSE bus_read(translate(va), size)

cpu_write_ok(va, size) == translate(va) # Err /\ bus_write_ok(translate(va), size)

\* A mutant, for the checks of the properties: the instruction keeps what lies behind it.
cpu_fetch_untruncated(pc) == cpu_read(pc, 2 * Parcel)

\* Two parcels are read whatever is there; a compressed instruction, whose low two
\* bits are not 11, is the first of them.
cpu_fetch(pc) ==
    LET word == cpu_read(pc, 2 * Parcel)
    IN  IF word = Err \/ word % 4 = 3 THEN word ELSE word % power(BYTE, Parcel)

-----------------------------------------------------------------------------

Store(va, size, value) ==
    /\ cpu_write_ok(va, size)
    /\ ram'   = bus_write(translate(va), size, value)[1]
    /\ stack' = bus_write(translate(va), size, value)[2]
    /\ UNCHANGED map

\* The next hart's turn, a write of satp, or new page tables and SFENCE.VMA.
Remap == map' \in Maps \ {map} /\ UNCHANGED <<ram, stack>>

MemNext == \/ \E va \in Virtual, size \in Sizes, value \in Values : Store(va, size, value)
           \/ Remap

MemSpec == MemInit /\ [][MemNext]_mem_vars

-----------------------------------------------------------------------------

\* Where each byte of an access lies when every byte is translated by itself.
Bytes(va, size) == [i \in 0 .. (size - 1) |->
                       IF va + i \in Virtual THEN translate(va + i) ELSE Err]

\* The pages of an access that crosses a page boundary follow one another.
Contiguous(va, size) == LET b == Bytes(va, size)
                        IN  b[0] # Err /\ \A i \in DOMAIN b : b[i] = b[0] + i

Physical == Address .. (end(stack_range) - 1)

\* A load of whose bytes each one lies where its own translation puts it (all
\* within one page, or the pages happen to follow one another) is served
\* exactly when one memory holds all of these bytes, and gives them lowest
\* first: no load within a page is lost between the RAM, its padding and the
\* stack.  Cpu::read translates the first byte only.
LoadsAreBytewise ==
    \A va \in Virtual, size \in Sizes :
        Contiguous(va, size) =>
            LET b   == Bytes(va, size)
                got == cpu_read(va, size)
            IN  /\ got # Err <=> \E r \in {ram_range, stack_range} :
                                    \A i \in DOMAIN b : contains(r, b[i], 1)
                /\ got # Err => \A i \in DOMAIN b : byte(got, i) = bus_read(b[i], 1)
                /\ size <= PageSize - (va % PageSize) /\ got = Err
                   => \E i \in DOMAIN b : bus_read(b[i], 1) = Err

\* A store changes as many bytes as it is wide, from its first byte's
\* translation on, whether it crosses a page or not and whatever the upper
\* bits of the register hold: no other byte of either memory.
StoresAreBytewise ==
    \A va \in Virtual, size \in Sizes, value \in Values :
        cpu_write_ok(va, size) =>
            LET after == bus_write(translate(va), size, value)
                was(pa) == bus_read(pa, 1)
                is(pa)  == IF contains(ram_range, pa, 1) THEN after[1][pa - ram_range.start]
                           ELSE IF contains(stack_range, pa, 1)
                           THEN after[2][pa - stack_range.start] ELSE Err
            IN  \A pa \in Physical :
                   is(pa) = IF pa \in translate(va) .. (translate(va) + size - 1)
                            THEN byte(value, pa - translate(va)) ELSE was(pa)

\* Both: memory behaves as bytes, however wide and wherever the accesses are.
AccessesAreBytewise == LoadsAreBytewise /\ StoresAreBytewise

\* An instruction is what lies at pc: a compressed one is its own parcel and
\* nothing of the next, and the only one not to be had although its parcel
\* exists begins less than two parcels before the end of a memory, where the
\* four-byte read fails.
FetchIsExact ==
    \A pc \in {a \in Virtual : a % Parcel = 0} :
        LET parcel == cpu_read(pc, Parcel)
            got    == cpu_fetch(pc)
        IN  /\ parcel # Err /\ parcel % 4 # 3 =>
                  \/ got = parcel
                  \/ got = Err /\ \E r \in {ram_range, stack_range} :
                        /\ contains(r, translate(pc), Parcel)
                        /\ translate(pc) > end(r) - 2 * Parcel
            /\ parcel # Err /\ parcel % 4 = 3 /\ Contiguous(pc, 2 * Parcel) =>
                  got = cpu_read(pc, 2 * Parcel)
            /\ got # Err => got % power(BYTE, Parcel) = parcel

=============================================================================
