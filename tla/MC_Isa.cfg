CONSTANTS
    XLEN = 8
    WLEN = 4
SPECIFICATION IsaSpec
INVARIANTS
    CompressedIsExpansion
    ArithmeticLaws
