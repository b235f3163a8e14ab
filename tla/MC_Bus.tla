-------------------------------- MODULE MC_Bus --------------------------------
(* The map of the xv6 machine on a small scale, in the same order and with    *)
(* the PLIC ending where the UART begins.                                     *)
EXTENDS Bus

window(start, size) == [start |-> start, size |-> size]

MC_Fixed == [ bootloader |-> window(4, 2), clint |-> window(12, 4),
              plic |-> window(20, 4), uart |-> window(24, 2), virtio |-> window(28, 4) ]

MC_Addresses == 0 .. 47
MC_Lengths   == {0, 1, 4, 7, 12}

=============================================================================
