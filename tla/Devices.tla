-------------------------------- MODULE Devices --------------------------------
(***************************************************************************)
(* The registers of the CLINT, the PLIC, the UART and the block device     *)
(* under a guest that loads and stores whatever it likes, wherever it      *)
(* likes in a window, while time passes, bytes arrive and lines change.    *)
(* The devices share no state, so a behaviour is about one of them.        *)
(***************************************************************************)
EXTENDS Clint, Plic, Uart, VirtIORegs

CONSTANTS
    NHART,     \* the harts the CLINT was made for
    Offsets,   \* per device: the offsets the guest uses
    Values,    \* per device: the values it stores
    AddrBits,  \* the bits it stores to the halves of ring addresses
    MaxBytes   \* bound: bytes received, and bytes sent

Targets == {"clint", "plic", "uart", "virtio"}

\* Offsets and values are unsigned, and so are the positions of bits.
ASSUME TrafficAssumption == /\ \A t \in Targets : Offsets[t] \subseteq Nat /\ Values[t] \subseteq Nat
                            /\ W \in Nat /\ AddrBits \subseteq SUBSET Nat

\* Every register has an address of its own: the priorities and the enable bits
\* end before what follows them, and the compare registers before mtime.
ASSUME AddressMapAssumption ==
    /\ 4 * MAX_IRQ <= PRIORITY_END
    /\ ENABLE_BASE + ENABLE_STRIDE * MAX_CONTEXTS <= ENABLE_END
    /\ NHART \in Nat /\ MTIMECMP_OFFSET + 8 * NHART <= MTIME_OFFSET

VARIABLES
    target,          \* the device this behaviour is about
    clint, plic, uart, regs,
    lines,           \* the interrupt lines into the PLIC
    out,             \* what the UART has sent to the host
    running,         \* FALSE once an access has returned Err
    arrived, taken,  \* the bytes received, and those the guest has read
    pair             \* per ring: the LOW half and the HIGH half stored after it

vars == <<target, clint, plic, uart, regs, lines, out, running, arrived, taken, pair>>

Rings == {QUEUE_DESC_LOW, DRIVER_DESC_LOW, DEVICE_DESC_LOW}

NoHalf == [low |-> {}, high |-> {}, complete |-> FALSE]

\* The size of access a device insists on.
width(t) == CASE t = "clint" -> 8 [] t = "uart" -> 1 [] OTHER -> 4

Init == /\ target \in Targets
        /\ clint = new_clint(0 .. (NHART - 1)) /\ plic = new_plic
        /\ uart = new_uart /\ regs = new_regs
        /\ lines = {} /\ out = <<>> /\ running = TRUE
        /\ arrived = <<>> /\ taken = <<>>
        /\ pair = [r \in Rings |-> NoHalf]

\* An access of another size, or a store the UART refuses, is an error.
Refused == /\ running
           /\ \/ \E size \in {1, 2, 4, 8} : size # width(target)
              \/ /\ target = "uart"
                 /\ \E a \in Offsets[target], v \in Values[target] : ~uart_write_ok(uart, a, v)
           /\ running' = FALSE
           /\ UNCHANGED <<target, clint, plic, uart, regs, lines, out, arrived, taken, pair>>

StoreClint(a, v) == /\ target = "clint"
                    /\ clint' = clint_write(clint, a, v)
                    /\ UNCHANGED <<plic, uart, regs, out, pair>>

StorePlic(a, v) == /\ target = "plic"
                   /\ plic' = plic_write(plic, a, v)
                   /\ UNCHANGED <<clint, uart, regs, out, pair>>

StoreUart(a, v) == /\ target = "uart" /\ uart_write_ok(uart, a, v)
                   /\ Len(out) + Len(uart_sends(uart, a, v)) <= MaxBytes
                   /\ uart' = uart_write(uart, a, v)
                   /\ out' = out \o uart_sends(uart, a, v)
                   /\ UNCHANGED <<clint, plic, regs, pair>>

StoreVirtIO(a, v) == /\ target = "virtio"
                     /\ regs' = regs_write(regs, a, v)
                     /\ pair' = IF a = STATUS /\ v = 0 THEN [r \in Rings |-> NoHalf] ELSE pair
                     /\ UNCHANGED <<clint, plic, uart, out>>

Store == /\ running
         /\ \E a \in Offsets[target], v \in Values[target] :
               StoreClint(a, v) \/ StorePlic(a, v) \/ StoreUart(a, v) \/ StoreVirtIO(a, v)
         /\ UNCHANGED <<target, lines, running, arrived, taken>>

StoreHalf(r, high, value) ==
    /\ running /\ target = "virtio"
    /\ regs' = regs_write_bits(regs, IF high THEN r + 4 ELSE r, value)
    /\ pair' = [pair EXCEPT ![r] = IF high THEN [@ EXCEPT !.high = value, !.complete = TRUE]
                                   ELSE [low |-> value, high |-> {}, complete |-> FALSE]]
    /\ UNCHANGED <<target, clint, plic, uart, lines, out, running, arrived, taken>>

\* Of all loads only that of RBR has an effect.
LoadUart(a) == /\ running /\ target = "uart"
               /\ uart' = uart_read(uart, a)
               /\ taken' = IF a = RBR /\ uart_value(uart, LCR) < LCR_BAUD_LATCH
                                      /\ uart_value(uart, LSR) % 2 = 1
                           THEN Append(taken, uart_value(uart, RBR)) ELSE taken
               /\ UNCHANGED <<target, clint, plic, regs, lines, out, running, arrived, pair>>

\* What happens without the guest.
Tick == /\ running /\ target = "clint"
        /\ clint' = tick(clint)
        /\ UNCHANGED <<target, plic, uart, regs, lines, out, running, arrived, taken, pair>>

Arrive(b) == /\ running /\ target = "uart" /\ Len(arrived) < MaxBytes
             /\ uart' = poll_input(uart, <<b>>)
             /\ arrived' = Append(arrived, b)
             /\ UNCHANGED <<target, clint, plic, regs, lines, out, running, taken, pair>>

LinesChange == /\ running /\ target = "plic"
               /\ lines' \in SUBSET (IRQ \ {0})
               /\ UNCHANGED <<target, clint, plic, uart, regs, out, running, arrived, taken, pair>>

Next == \/ Refused \/ Store \/ Tick \/ LinesChange
        \/ \E a \in Offsets["uart"] : LoadUart(a)
        \/ \E b \in Values["uart"] : Arrive(b)
        \/ \E r \in Rings, high \in BOOLEAN, value \in AddrBits : StoreHalf(r, high, value)

Spec == Init /\ [][Next]_vars

-----------------------------------------------------------------------------

\* Whatever the priorities, enables and thresholds, a claim gives the IRQ that
\* the PLIC specification names: of the enabled lines above the threshold the
\* one of highest priority, of these the lowest number, and 0 if there is none.
ClaimIsBest ==
    target = "plic" =>
    \A c \in Context :
        LET eligible == {i \in lines \cap plic.enable[c] : plic.priority[i] > plic.threshold[c]}
            beats(i, j) == \/ plic.priority[i] > plic.priority[j]
                           \/ plic.priority[i] = plic.priority[j] /\ i <= j
            claimed == plic_read(plic, lines, CONTEXT_BASE + CONTEXT_STRIDE * c + 4)
        IN  IF eligible = {} THEN claimed = 0
            ELSE claimed \in eligible /\ \A j \in eligible : beats(claimed, j)

PlicRegisters == {4 * i : i \in IRQ} \cup {ENABLE_BASE + ENABLE_STRIDE * c : c \in Context}
                    \cup {CONTEXT_BASE + CONTEXT_STRIDE * c : c \in Context}

ClintRegisters == {MTIME_OFFSET} \cup {MTIMECMP_OFFSET + 8 * h : h \in 0 .. (NHART - 1)}

\* The registers of PLIC and CLINT are independent cells, u32 and u64: a store
\* is read back from where it went, cut to that width whatever the upper half
\* of the source register held, and moves no register of another IRQ, context
\* or hart.
RegistersAreCells ==
    /\ target = "plic" =>
          \A a \in PlicRegisters, v \in Values["plic"] :
              LET p == plic_write(plic, a, v)
              IN  \A r \in PlicRegisters :
                     plic_read(p, lines, r) = IF r = a THEN as_u32(v) ELSE plic_read(plic, lines, r)
    /\ target = "clint" =>
          \A a \in ClintRegisters, v \in Values["clint"] :
              LET c == clint_write(clint, a, v)
              IN  \A r \in ClintRegisters :
                     clint_read(c, r) = IF r = a THEN v ELSE clint_read(clint, r)

\* No traffic on the UART's registers loses or invents input: with the divisor
\* latch open, which puts DLL where RBR was, a load must leave the queue alone.
InputSurvivesTraffic == taken \o uart.rx_queue = arrived

\* A ring's address is the one the driver stored, LOW first and HIGH after it as
\* virtio_disk_init does, whatever the upper half of the source registers held
\* and whatever an earlier set-up left.
RingAddressIsAssembled ==
    \A r \in Rings :
        LET addr == CASE r = QUEUE_DESC_LOW -> regs.desc_addr
                      [] r = DRIVER_DESC_LOW -> regs.avail_addr
                      [] OTHER -> regs.used_addr
        IN  pair[r].complete =>
               addr = {b \in pair[r].low : b < W} \cup {b + W : b \in {v \in pair[r].high : v < W}}

=============================================================================
