--------------------------------- MODULE Clint ---------------------------------
(* The timer of clint.rs: one mtime for the machine, one mtimecmp per hart.   *)
EXTENDS Integers

CONSTANT TimeSpace  \* 2^64: mtime and mtimecmp are u64

ASSUME ClintAssumption == TimeSpace \in Nat \ {0}

\* mtimecmp starts at u64::MAX, "effectively never".
new_clint(harts) == [mtime |-> 0, mtimecmp |-> [h \in harts |-> TimeSpace - 1]]

\* wrapping_add(1)
tick(c) == [c EXCEPT !.mtime = (@ + 1) % TimeSpace]

\* A mutant, for the checks of the properties: only at the deadline itself.
pending_exactly(c, h) == c.mtime = c.mtimecmp[h]

pending(c, h) == c.mtime >= c.mtimecmp[h]

MTIME_OFFSET    == 49144  \* 0xbff8
MTIMECMP_OFFSET == 16384  \* 0x4000

\* The compare register an address falls into.
slot_of(address) == (address - MTIMECMP_OFFSET) \div 8

\* Device::read and Device::write, eight bytes at a time.  The address need not
\* be a multiple of eight.
clint_read(c, address) ==
    IF address = MTIME_OFFSET THEN c.mtime
    ELSE IF slot_of(address) \in DOMAIN c.mtimecmp THEN c.mtimecmp[slot_of(address)]
    ELSE 0

clint_write(c, address, value) ==
    IF address = MTIME_OFFSET THEN [c EXCEPT !.mtime = value]
    ELSE IF slot_of(address) \in DOMAIN c.mtimecmp THEN [c EXCEPT !.mtimecmp[slot_of(address)] = value]
    ELSE c

=============================================================================
