--------------------------------- MODULE Ranges --------------------------------
(* The address windows of bus.rs. *)
EXTENDS Integers

CONSTANTS
    AddrSpace,  \* 2^64: addresses are u64
    PageSize,   \* 0x1000
    STACK_SIZE  \* 0x8000000

NONE == [start |-> 0, size |-> 0]

Window == [start : Nat, size : Nat]

end(r) == r.start + r.size

Overlap(r, s) == r.size > 0 /\ s.size > 0 /\ r.start < end(s) /\ s.start < end(r)

\* checked_add: the exclusive end must itself be a u64.
overflows(address, size) == address + size >= AddrSpace

\* A mutant, for the checks of the properties: only the first byte is checked.
contains_first_byte(r, address, size) == address >= r.start /\ address < end(r)

contains(r, address, size) ==
    ~overflows(address, size) /\ address >= r.start /\ address + size <= end(r)

\* A mutant, for the checks of the properties: no padding.
page_up_none(len) == len

\* (len + 0xfff) & !0xfff
page_up(len) == ((len + PageSize - 1) \div PageSize) * PageSize

=============================================================================
