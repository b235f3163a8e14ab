---------------------------------- MODULE Bus ----------------------------------
(***************************************************************************)
(* The bus of bus.rs: seven address windows, validated by a RangeManager   *)
(* when the emulator is built and dispatched by a chain of range checks    *)
(* ever after.  The two constructors of emulator.rs run one set_* call at  *)
(* a time, from any load address and program length a command line gives;  *)
(* the first call that fails ends the construction.                        *)
(***************************************************************************)
EXTENDS Ranges, FiniteSets, Sequences

CONSTANTS
    Fixed,       \* the fixed windows of the xv6 machine: device -> Range
    Addresses,   \* load addresses
    Lengths,     \* program lengths
    AccessSizes, \* 1, 2, 4 and 8
    Ncpus,       \* numbers of harts
    MAX_CONTEXTS \* 64: the contexts of the PLIC

FixedDevices == {"bootloader", "clint", "uart", "plic", "virtio"}

Devices == {"ram", "stack"} \cup FixedDevices

\* The fixed windows are apart, and as the pages and the address space they
\* begin at a multiple of every access size.
ASSUME MapAssumption ==
    /\ AddrSpace \in Nat \ {0} /\ PageSize \in Nat \ {0} /\ STACK_SIZE \in Nat
    /\ Addresses \subseteq 0 .. (AddrSpace - 1) /\ Lengths \subseteq Nat
    /\ \A d \in FixedDevices : Fixed[d] \in Window
    /\ \A d, e \in FixedDevices : d # e => ~Overlap(Fixed[d], Fixed[e])
    /\ \A s \in AccessSizes : /\ s \in Nat \ {0} /\ PageSize % s = 0 /\ AddrSpace % s = 0
                              /\ \A d \in FixedDevices : Fixed[d].start % s = 0
ASSUME HartsAssumption == Ncpus \subseteq Nat /\ MAX_CONTEXTS \in Nat

VARIABLES
    ncpu,           \* the harts asked for; Emulator::new always makes one
    range_manager,  \* the ranges in order of their starts
    range,          \* each device's window, NONE until it is set
    calls,          \* the set_* calls still to make: <<device, range>>
    result          \* "building", "ok" or "err"

vars == <<ncpu, range_manager, range, calls, result>>

-----------------------------------------------------------------------------
(* RangeManager *)

partition_point(rm, P(_)) == Cardinality({i \in 1 .. Len(rm) : P(rm[i].start)})

\* A mutant, for the checks of the properties: touching ranges do not fit.
fits_with_a_gap(rm, r) ==
    LET position == partition_point(rm, LAMBDA s : s < r.start)
    IN  IF position = Len(rm)
        THEN position > 0 => end(rm[position]) < r.start
        ELSE end(r) < rm[position + 1].start

\* An insertion past the last range is checked against the one before it, an
\* insertion in the middle against the one after it.
fits(rm, r) ==
    LET position == partition_point(rm, LAMBDA s : s < r.start)
    IN  IF position = Len(rm)
        THEN position > 0 => end(rm[position]) <= r.start
        ELSE rm[position + 1].start # r.start /\ end(r) <= rm[position + 1].start

add_ok(rm, r) == r.size # 0 /\ ~overflows(r.start, r.size) /\ fits(rm, r)

insert(rm, position, r) == SubSeq(rm, 1, position) \o <<r>> \o SubSeq(rm, position + 1, Len(rm))

add_range(rm, r) == insert(rm, partition_point(rm, LAMBDA s : s < r.start), r)

\* The range covering an access, or NONE for an error.
get_range(rm, address, size) ==
    LET position == partition_point(rm, LAMBDA s : s <= address)
    IN  IF overflows(address, size) \/ position = 0 \/ address + size > end(rm[position])
        THEN NONE ELSE rm[position]

-----------------------------------------------------------------------------
(* Bus::read and Bus::write, with read_mmio and write_mmio: the first window *)
(* of the chain that contains the access gets it.                            *)

Chain == <<"ram", "stack", "bootloader", "clint", "uart", "plic", "virtio">>

dispatch(address, size) ==
    LET hits == {i \in 1 .. 7 : contains(range[Chain[i]], address, size)}
    IN  IF hits = {} THEN "err" ELSE Chain[CHOOSE i \in hits : \A j \in hits : i <= j]

-----------------------------------------------------------------------------
(* The constructors. *)

call(d, start, size) == <<d, [start |-> start, size |-> size]>>

\* Emulator::new: the RAM is the program, the stack starts at the next page.
generic_calls(address, len) ==
    << call("ram", address, len),
       call("stack", (page_up(len) + address) % AddrSpace, STACK_SIZE) >>

\* Xv6Emulator::new_smp: the RAM is padded up to the stack.
xv6_calls(address, len) ==
    << call("ram", address, page_up(len)),
       call("stack", (page_up(len) + address) % AddrSpace, STACK_SIZE) >>
    \o [i \in 1 .. 5 |-> <<(<<"clint", "uart", "virtio", "plic", "bootloader">>)[i],
                           Fixed[(<<"clint", "uart", "virtio", "plic", "bootloader">>)[i]]>>]

Init == /\ range_manager = <<>>
        /\ range = [d \in Devices |-> NONE]
        /\ \E address \in Addresses, len \in Lengths :
              \/ ncpu = 1 /\ calls = generic_calls(address, len)
              \/ ncpu \in Ncpus /\ calls = xv6_calls(address, len)
        /\ result = "building"

\* A mutant, for the checks of the properties: one hart too many.
max_ncpu_inclusive == (MAX_CONTEXTS \div 2) + 1

max_ncpu == MAX_CONTEXTS \div 2

ncpu_ok == ncpu # 0 /\ ncpu <= max_ncpu

RefuseHarts == /\ result = "building" /\ ~ncpu_ok
               /\ result' = "err"
               /\ UNCHANGED <<ncpu, range_manager, range, calls>>

\* One set_* call: reserve, then the assignment; an error leaves the constructor.
SetDevice ==
    /\ result = "building" /\ ncpu_ok /\ calls # <<>>
    /\ UNCHANGED ncpu
    /\ LET d == Head(calls)[1]
           r == Head(calls)[2]
       IN  IF add_ok(range_manager, r)
           THEN /\ range_manager' = add_range(range_manager, r)
                /\ range' = [range EXCEPT ![d] = r]
                /\ calls' = Tail(calls)
                /\ UNCHANGED result
           ELSE /\ result' = "err"
                /\ UNCHANGED <<range_manager, range, calls>>

Built == /\ result = "building" /\ calls = <<>>
         /\ result' = "ok"
         /\ UNCHANGED <<ncpu, range_manager, range, calls>>

Next == RefuseHarts \/ SetDevice \/ Built

Spec == Init /\ [][Next]_vars

-----------------------------------------------------------------------------

\* add_range never turns away a range that is free: neither where two windows
\* touch, as the PLIC and the UART do, nor at the ends of the address space.
DisjointIsAccepted ==
    \A start \in 0 .. (AddrSpace - 1), size \in 1 .. STACK_SIZE :
        LET r == [start |-> start, size |-> size]
        IN  /\ ~overflows(start, size)
            /\ \A d \in Devices : ~Overlap(r, range[d])
            => add_ok(range_manager, r)

\* The chain of checks that replaced the binary search gives every access to
\* the device the binary search would give it to.  Only where RAM or stack lies
\* over a device do they differ, and then memory wins.
DispatchAgreesWithRangeManager ==
    \A address \in 0 .. (AddrSpace - 1), size \in AccessSizes :
        LET d == dispatch(address, size)
            r == get_range(range_manager, address, size)
        IN  IF d = "err" THEN r = NONE
            ELSE r # range[d] => /\ d \in {"ram", "stack"}
                                 /\ \E e \in Devices \ {d} : Overlap(range[e], range[d])

\* No aligned access falls between two windows: if each of its bytes belongs to
\* a window, so does the access, also where the RAM meets the stack.  (The load
\* address is a multiple of the largest access size.)
AlignedAccessIsServed ==
    \A address \in 0 .. (AddrSpace - 1), size \in AccessSizes :
        /\ address % size = 0
        /\ \A s \in AccessSizes : range["ram"].start % s = 0
        /\ \A b \in address .. (address + size - 1) : b < AddrSpace /\ dispatch(b, 1) # "err"
        => dispatch(address, size) # "err"

\* The number of harts is refused exactly when one of them would be left
\* without an S-mode context in the PLIC's arrays (2 * hart + 1 in xv6), where
\* its stores to enable and threshold would be dropped without an error.
HartsHaveContexts ==
    LET contexts == {2 * h + 1 : h \in 0 .. (ncpu - 1)}
    IN  /\ result = "ok" => contexts \subseteq 0 .. (MAX_CONTEXTS - 1)
        /\ result = "err" /\ range_manager = <<>> /\ add_ok(<<>>, Head(calls)[2])
              => contexts = {} \/ ~(contexts \subseteq 0 .. (MAX_CONTEXTS - 1))

\* The contract add_range documents: no range overlaps a neighbour.
NoOverlap == \A i \in 1 .. (Len(range_manager) - 1) :
                end(range_manager[i]) <= range_manager[i + 1].start

=============================================================================
