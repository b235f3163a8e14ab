---------------------------------- MODULE Uart ---------------------------------
(* The 16550 of uart.rs and its registers.  Register values are bytes.        *)
EXTENDS Integers, Sequences

RBR == 0  \* THR and DLL at the same address
IER == 1  \* DLM at the same address
FCR == 2
LCR == 3
LSR == 5
MSR == 6

IER_RX_ENABLE  == 1
IER_TX_ENABLE  == 2
LCR_BAUD_LATCH == 128

new_uart == [ dlab |-> FALSE, rx_enabled |-> FALSE, tx_enabled |-> FALSE,
              nbits |-> 0, dll |-> 0, dlm |-> 0, rx_queue |-> <<>> ]

data_available(u) == u.rx_queue # <<>>

\* The level-triggered line to the PLIC.
interrupt_status(u) == data_available(u) /\ u.rx_enabled

\* A mutant, for the checks of the properties: what is unread is overwritten.
poll_input_overwrites(u, bytes) == [u EXCEPT !.rx_queue = bytes]

\* poll_input with what the input source had ready.
poll_input(u, bytes) == [u EXCEPT !.rx_queue = @ \o bytes]

bit(on, value) == IF on THEN value ELSE 0

\* Device::read: the value, and the state it leaves (only RBR has an effect).
uart_value(u, reg) ==
    CASE reg = RBR -> IF u.dlab THEN u.dll ELSE IF data_available(u) THEN Head(u.rx_queue) ELSE 0
      [] reg = IER -> IF u.dlab THEN u.dlm
                      ELSE bit(u.rx_enabled, IER_RX_ENABLE) + bit(u.tx_enabled, IER_TX_ENABLE)
      [] reg = LCR -> bit(u.dlab, LCR_BAUD_LATCH) + u.nbits
      [] reg = LSR -> bit(data_available(u), 1) + 32
      [] OTHER -> 0

\* A mutant, for the checks of the properties: a load of DLL takes a byte too.
uart_read_through_latch(u, reg) ==
    IF reg = RBR /\ data_available(u) THEN [u EXCEPT !.rx_queue = Tail(@)] ELSE u

\* A mutant, for the checks of the properties: the byte stays in the queue.
uart_read_peeks(u, reg) == u

uart_read(u, reg) ==
    IF reg = RBR /\ ~u.dlab /\ data_available(u) THEN [u EXCEPT !.rx_queue = Tail(@)] ELSE u

\* Device::write: what it sends to the host, the writes it refuses, and the state
\* it leaves.
uart_sends(u, reg, value) == IF reg = RBR /\ ~u.dlab THEN <<value>> ELSE <<>>

uart_write_ok(u, reg, value) ==
    /\ reg \notin {LSR, MSR}
    /\ reg = IER /\ ~u.dlab => value <= IER_RX_ENABLE + IER_TX_ENABLE

\* A mutant, for the checks of the properties: the divisor latch, once open, stays open.
uart_write_latch_sticks(u, reg, value) ==
    CASE reg = IER /\ u.dlab -> [u EXCEPT !.dlm = value]
      [] reg = IER /\ ~u.dlab -> [u EXCEPT !.rx_enabled = value % 2 = 1]
      [] reg = LCR -> [u EXCEPT !.dlab = @ \/ value >= LCR_BAUD_LATCH]
      [] OTHER -> u

uart_write(u, reg, value) ==
    CASE reg = RBR /\ u.dlab -> [u EXCEPT !.dll = value]
      [] reg = IER /\ u.dlab -> [u EXCEPT !.dlm = value]
      [] reg = IER /\ ~u.dlab -> [u EXCEPT !.rx_enabled = value % 2 = 1,
                                           !.tx_enabled = (value \div 2) % 2 = 1]
      [] reg = LCR -> [u EXCEPT !.dlab = value >= LCR_BAUD_LATCH, !.nbits = value % 4]
      [] OTHER -> u

=============================================================================
