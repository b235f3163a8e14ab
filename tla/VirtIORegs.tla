------------------------------- MODULE VirtIORegs ------------------------------
(* The registers of virtio.rs, apart from what a store to QUEUE_NOTIFY does   *)
(* (module VirtIOBlk).  The addresses of the rings and the interrupt status   *)
(* are sets of bit positions, the other registers numbers.  A store carries   *)
(* the whole 64-bit source register whatever its size.                        *)
EXTENDS Integers

CONSTANT W  \* 32, the width of a register

MAGIC_VALUE      == 0
VERSION          == 4
DEVICE_ID        == 8
VENDOR_ID        == 12
DRIVER_FEATURES  == 32
QUEUE_SEL        == 48
QUEUE_NUM_MAX    == 52
QUEUE_NUM        == 56
QUEUE_READY      == 68
INTERRUPT_STATUS == 96
INTERRUPT_ACK    == 100
STATUS           == 112
QUEUE_DESC_LOW   == 128  \* each HIGH half is the next word
DRIVER_DESC_LOW  == 144
DEVICE_DESC_LOW  == 160

\* last_avail_idx.clear()
NoRecord == [q \in {} |-> 0]

new_regs == [ driver_features |-> 0, queue_sel |-> 0, queue_num |-> 0, queue_ready |-> 0,
              desc_addr |-> {}, avail_addr |-> {}, used_addr |-> {},
              status |-> 0, interrupt_status |-> {}, last_avail_idx |-> NoRecord ]

\* The numbers that identify a block device, and what a driver may read back.
regs_read(d, address) ==
    CASE address = MAGIC_VALUE -> 1953655158   \* 'virt'
      [] address = VERSION -> 2
      [] address = DEVICE_ID -> 2
      [] address = VENDOR_ID -> 1431127377     \* 'QEMU'
      [] address = QUEUE_NUM_MAX -> 2^15
      [] address = QUEUE_READY -> d.queue_ready
      [] address = INTERRUPT_STATUS -> IF d.interrupt_status = {} THEN 0 ELSE 1
      [] address = STATUS -> d.status
      [] OTHER -> 0

\* (addr & !0xffff_ffff) | value
set_low(addr, value) == {b \in addr : b >= W} \cup value

\* A mutant, for the checks of the properties: what LOW left above is kept.
set_high_unmasked(addr, value) == addr \cup {b + W : b \in {v \in value : v < W}}

\* (addr & 0xffff_ffff) | (value << 32)
set_high(addr, value) == {b \in addr : b < W} \cup {b + W : b \in {v \in value : v < W}}

\* A store of 0 to STATUS: interrupt_status and the disk survive it.
reset(d) == [d EXCEPT !.status = 0, !.queue_ready = 0, !.queue_num = 0,
                      !.desc_addr = {}, !.avail_addr = {}, !.used_addr = {},
                      !.last_avail_idx = NoRecord]

\* Stores of numbers: no feature is checked and QUEUE_SEL selects nothing.
regs_write(d, address, v32) ==
    CASE address = DRIVER_FEATURES -> [d EXCEPT !.driver_features = v32]
      [] address = QUEUE_SEL -> [d EXCEPT !.queue_sel = v32]
      [] address = QUEUE_NUM -> [d EXCEPT !.queue_num = v32]
      [] address = QUEUE_READY -> [d EXCEPT !.queue_ready = v32]
      [] address = STATUS -> IF v32 = 0 THEN reset(d) ELSE [d EXCEPT !.status = v32]
      [] OTHER -> d

\* Stores of bits.
regs_write_bits(d, address, value) ==
    CASE address = QUEUE_DESC_LOW -> [d EXCEPT !.desc_addr = set_low(@, value)]
      [] address = QUEUE_DESC_LOW + 4 -> [d EXCEPT !.desc_addr = set_high(@, value)]
      [] address = DRIVER_DESC_LOW -> [d EXCEPT !.avail_addr = set_low(@, value)]
      [] address = DRIVER_DESC_LOW + 4 -> [d EXCEPT !.avail_addr = set_high(@, value)]
      [] address = DEVICE_DESC_LOW -> [d EXCEPT !.used_addr = set_low(@, value)]
      [] address = DEVICE_DESC_LOW + 4 -> [d EXCEPT !.used_addr = set_high(@, value)]
      [] address = INTERRUPT_ACK -> [d EXCEPT !.interrupt_status = @ \ value]
      [] OTHER -> d

=============================================================================
