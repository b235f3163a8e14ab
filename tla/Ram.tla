---------------------------------- MODULE Ram ----------------------------------
(* The byte array of ram.rs, addressed from 0, and its little-endian accesses. *)
EXTENDS Numbers, Sequences

CONSTANT BYTE  \* 256: the values of a byte

\* Ram::with_content: the content, padded with zeros up to the size.
with_content(size, content) ==
    LET len == IF size > Len(content) THEN size ELSE Len(content)
    IN  [a \in 0 .. (len - 1) |-> IF a < Len(content) THEN content[a + 1] ELSE 0]

\* The bytes of a value, the lowest first; what does not fit is cut off.
byte(value, i) == digit(value, BYTE, i)

ram_read(data, address, size) ==
    number([i \in 0 .. (size - 1) |-> data[address + i]], BYTE, size)

\* A mutant, for the checks of the properties: the whole register is written.
ram_write_long(data, address, size, value) ==
    [a \in DOMAIN data |-> IF a >= address THEN byte(value, a - address) ELSE data[a]]

ram_write(data, address, size, value) ==
    [a \in DOMAIN data |->
        IF a \in address .. (address + size - 1) THEN byte(value, a - address) ELSE data[a]]

=============================================================================
