-------------------------------- MODULE Numbers --------------------------------
(* Numbers as digits: the bits of a register, the bytes of a value. *)
EXTENDS Integers

power(b, n) == LET p[i \in 0 .. n] == IF i = 0 THEN 1 ELSE b * p[i - 1] IN p[n]

\* (value >> i) & 1 for b = 2, value.to_le_bytes()[i] for b = 256
digit(value, b, i) == (value \div power(b, i)) % b

\* The number whose n digits are d[0], the lowest, to d[n - 1].
number(d, b, n) ==
    LET sum[i \in 0 .. n] == IF i = 0 THEN 0 ELSE sum[i - 1] + d[i - 1] * power(b, i - 1)
    IN  sum[n]

=============================================================================
