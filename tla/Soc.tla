---------------------------------- MODULE Soc ----------------------------------
(***************************************************************************)
(* The xv6 machine of emulator.rs: harts stepped round-robin by one thread *)
(* over a shared CLINT, PLIC, UART and disk, and a second host thread that *)
(* feeds the UART from stdin through a channel.                            *)
(*                                                                         *)
(* The harts run the interrupt paths of the xv6 kernel in tests/ (its      *)
(* disassembly is kernel64gc.asm): main() brings up the UART and the PLIC  *)
(* while the other harts wait, the scheduler turns interrupts on and off,  *)
(* timervec relays the timer to the supervisor, and devintr serves it, the *)
(* UART and the disk.  The guest is the load; what is checked is the       *)
(* emulator.  (What the disk does to a request is module VirtIOBlk.)       *)
(***************************************************************************)
EXTENDS Hart, Clint, Plic, Uart, VirtIORegs, FiniteSets

CONSTANTS
    Loads,               \* what the machine is given to do: see load
    UART_POLL_INTERVAL,  \* 4096
    BUF,                 \* 256: the buffer of poll_input
    Interval             \* the guest's timer interval

\* new_smp refuses more harts than the PLIC has contexts for.  What is typed is
\* bytes; the guest's console drops a NUL, so none is among them.
ASSUME LoadAssumption ==
    \A l \in Loads : /\ l.ncpu \in Nat \ {0} /\ 2 * l.ncpu <= MAX_CONTEXTS
                      /\ l.input \in Seq(1 .. 255)

\* The guest's code, which ends at SCHEDULER + 12, fits into the address space.
ASSUME GuestAssumption == AddrSpace >= 124 /\ BUF \in Nat

UART0_IRQ == 2  \* 10 in the code, where VIRTIO0_IRQ is 1
VIRTIO0_IRQ == 1

VARIABLES
    load,       \* ncpu of the command line, the input typed, a bound on disk requests
    cpu,        \* per hart
    countdown,  \* per hart: uart_poll_countdown
    turn,       \* the hart being stepped
    phase,      \* of its step: "fetch" or "execute"
    clint, plic, uart, virtio,
    stdin,      \* bytes the reader thread has not read
    channel,    \* bytes sent and not yet received
    started,    \* the guest's flag that releases the other harts
    saved_sip,  \* per hart: the guest register that devintr holds sip in
    irq,        \* per hart: the guest variable that holds the claimed IRQ
    char,       \* per hart: the byte uartgetc returned, 0 when it is dealt with
    got,        \* the console's buffer
    used,       \* the length of the disk's used ring
    used_idx    \* how much of it the driver has seen

vars == <<load, cpu, countdown, turn, phase, clint, plic, uart, virtio, stdin, channel,
          started, saved_sip, irq, char, got, used, used_idx>>

Harts == 0 .. (load.ncpu - 1)

devices == <<clint, plic, uart, virtio, used>>
host    == <<stdin, channel>>
guest   == <<started, saved_sip, irq, char, got, used_idx>>

-----------------------------------------------------------------------------
(* Where the guest's code is. *)

TIMERVEC  == 0    \* advance mtimecmp; 4: raise SSIP; 8: MRET
KERNELVEC == 12   \* look at scause
ACK       == 16   \* read sip; 20: write it back without SSIP
CLAIM     == 24
GETC      == 28   \* look at LSR; 32: read RHR; 36: consoleintr
DISK      == 40   \* acknowledge; 44: look at the used ring
COMPLETE  == 48
RETURN    == 52   \* SRET
MAIN      == 56   \* hart 0: seven UART stores, two PLIC priorities
WAIT      == 92   \* the others: while(started == 0)
HARTINIT  == 96   \* PLIC enable; 100: threshold; 104: started = 1
SCHEDULER == 108  \* intr_on; 112: run; 116: intr_off; 120: jump back

\* The addresses the guest computes (memlayout.h), as offsets into the windows.
CLINT_MTIMECMP(h) == 16384 + 8 * h
PLIC_SENABLE(h)   == 8320 + 256 * h      \* 0x2080 + hart * 0x100
PLIC_SPRIORITY(h) == 2101248 + 8192 * h  \* 0x201000 + hart * 0x2000
PLIC_SCLAIM(h)    == PLIC_SPRIORITY(h) + 4

UartStores == << <<IER, 0>>, <<LCR, 128>>, <<RBR, 3>>, <<IER, 0>>, <<LCR, 3>>,
                 <<FCR, 7>>, <<IER, 3>> >>

\* What start() left: everything delegated, the timer enabled, S entered.
Booted(h) == [new_cpu(IF h = 0 THEN MAIN ELSE WAIT) EXCEPT
                 !.mode = PRIV_S, !.mideleg = 0 .. 15, !.medeleg = 0 .. 15,
                 !.mtvec = TIMERVEC, !.stvec = KERNELVEC,
                 !.mie = {1, 5, 7, 9}, !.mstatus = {33, 35, MSTATUS_MPIE}]

Init == /\ load \in Loads
        /\ cpu = [h \in Harts |-> Booted(h)]
        /\ countdown = [h \in Harts |-> 0]
        /\ turn = 0 /\ phase = "fetch"
        /\ clint = [new_clint(Harts) EXCEPT !.mtimecmp = [h \in Harts |-> Interval]]
        /\ plic = new_plic /\ uart = new_uart /\ virtio = new_regs
        /\ stdin = load.input /\ channel = <<>>
        /\ started = FALSE
        /\ saved_sip = [h \in Harts |-> {}] /\ irq = [h \in Harts |-> 0]
        /\ char = [h \in Harts |-> 0] /\ got = <<>>
        /\ used = 0 /\ used_idx = 0

-----------------------------------------------------------------------------
(* The host's reader thread: spawn_stdin_reader. *)

ReadStdin == /\ stdin # <<>>
             /\ channel' = Append(channel, Head(stdin))
             /\ stdin' = Tail(stdin)
             /\ UNCHANGED <<load, cpu, countdown, turn, phase, devices, guest>>

-----------------------------------------------------------------------------
(* Cpu::fetch: tick, poll, check_interrupt. *)

\* A mutant, for the checks of the properties: the disk's line is not connected.
lines_uart(u, d) == IF interrupt_status(u) THEN {UART0_IRQ} ELSE {}

\* pending_mask: the closures registered by new_smp.
lines(u, d) == (IF interrupt_status(u) THEN {UART0_IRQ} ELSE {})
                  \cup IF 0 \in d.interrupt_status THEN {VIRTIO0_IRQ} ELSE {}

context(h) == 2 * h + 1

\* StdinChannel::read takes what is in the channel, up to the buffer's size.
Received == SubSeq(channel, 1, IF Len(channel) < BUF THEN Len(channel) ELSE BUF)

Poll(h) ==
    IF countdown[h] - 1 <= 0
    THEN /\ uart' = poll_input(uart, Received)
         /\ channel' = SubSeq(channel, Len(Received) + 1, Len(channel))
         /\ countdown' = [countdown EXCEPT ![h] = UART_POLL_INTERVAL]
    ELSE /\ countdown' = [countdown EXCEPT ![h] = @ - 1]
         /\ UNCHANGED <<uart, channel>>

Fetch(h) ==
    /\ phase = "fetch" /\ turn = h
    /\ clint' = tick(clint)
    /\ Poll(h)
    /\ cpu' = [cpu EXCEPT ![h] =
                  deliver(sample(@, pending(clint', h),
                                 claimable(plic, lines(uart', virtio), context(h))))]
    /\ phase' = "execute"
    /\ UNCHANGED <<load, turn, plic, virtio, used, stdin, guest>>

-----------------------------------------------------------------------------
(* The second half of Cpu::step, and the next hart's turn. *)

\* A mutant, for the checks of the properties: a hart runs until it fails.
Execute_to_completion(h, c) == /\ phase = "execute" /\ turn = h
                               /\ cpu' = [cpu EXCEPT ![h] = c]
                               /\ phase' = "fetch"
                               /\ UNCHANGED <<load, turn, countdown, host>>

Execute(h, c) == /\ phase = "execute" /\ turn = h
                 /\ cpu' = [cpu EXCEPT ![h] = c]
                 /\ phase' = "fetch"
                 /\ turn' = (h + 1) % load.ncpu
                 /\ UNCHANGED <<load, countdown, host>>

At(h, pc) == cpu[h].pc = pc

Goto(h, pc) == Execute(h, [cpu[h] EXCEPT !.pc = pc])

Skip(h) == Goto(h, default_next(cpu[h].pc))

\* timervec
TimerAdvance(h) ==
    /\ At(h, TIMERVEC)
    /\ Skip(h)
    /\ clint' = clint_write(clint, CLINT_MTIMECMP(h),
                          (clint_read(clint, CLINT_MTIMECMP(h)) + Interval) % TimeSpace)
    /\ UNCHANGED <<plic, uart, virtio, used, guest>>

TimerRelay(h) == /\ At(h, TIMERVEC + 4)
                 /\ Execute(h, execute_csr(cpu[h], "rw", "sip", {1}))
                 /\ UNCHANGED <<devices, guest>>

TimerReturn(h) == /\ At(h, TIMERVEC + 8)
                  /\ Execute(h, mret(cpu[h]))
                  /\ UNCHANGED <<devices, guest>>

\* kernelvec and devintr
DevIntr(h) == /\ At(h, KERNELVEC)
              /\ Goto(h, CASE cpu[h].scause.code = 9 -> CLAIM
                           [] cpu[h].scause.code = 1 -> ACK
                           [] OTHER -> RETURN)
              /\ UNCHANGED <<devices, guest>>

AckRead(h) == /\ At(h, ACK)
              /\ Skip(h)
              /\ saved_sip' = [saved_sip EXCEPT ![h] = csr_read(cpu[h], "sip") \ {1}]
              /\ UNCHANGED <<devices, started, irq, char, got, used_idx>>

AckWrite(h) == /\ At(h, ACK + 4)
               /\ Execute(h, [csr_write(cpu[h], "sip", saved_sip[h]) EXCEPT !.pc = RETURN])
               /\ UNCHANGED <<devices, guest>>

Claim(h) == LET i == plic_read(plic, lines(uart, virtio), PLIC_SCLAIM(h))
            IN  /\ At(h, CLAIM)
                /\ Goto(h, CASE i = UART0_IRQ -> GETC [] i = VIRTIO0_IRQ -> DISK
                             [] OTHER -> RETURN)
                /\ irq' = [irq EXCEPT ![h] = i]
                /\ UNCHANGED <<devices, started, saved_sip, char, got, used_idx>>

GetcLook(h) == /\ At(h, GETC)
               /\ IF uart_value(uart, LSR) % 2 = 1 THEN Skip(h) ELSE Goto(h, COMPLETE)
               /\ UNCHANGED <<devices, guest>>

GetcRead(h) == /\ At(h, GETC + 4)
               /\ Skip(h)
               /\ char' = [char EXCEPT ![h] = uart_value(uart, RBR)]
               /\ uart' = uart_read(uart, RBR)
               /\ UNCHANGED <<clint, plic, virtio, used, started, saved_sip, irq, got, used_idx>>

\* Under cons.lock; a NUL is not kept.
ConsoleIntr(h) == /\ At(h, GETC + 8)
                  /\ Goto(h, GETC)
                  /\ got' = IF char[h] = 0 THEN got ELSE Append(got, char[h])
                  /\ char' = [char EXCEPT ![h] = 0]
                  /\ UNCHANGED <<devices, started, saved_sip, irq, used_idx>>

\* virtio_disk_intr, under vdisk_lock: the status is read and acknowledged before
\* the used ring is looked at.
DiskAck(h) == /\ At(h, DISK)
              /\ Skip(h)
              /\ virtio' = regs_write_bits(virtio, INTERRUPT_ACK, virtio.interrupt_status)
              /\ UNCHANGED <<clint, plic, uart, used, guest>>

DiskReap(h) == /\ At(h, DISK + 4)
               /\ IF used_idx = used
                  THEN Goto(h, COMPLETE) /\ UNCHANGED used_idx
                  ELSE Goto(h, DISK + 4) /\ used_idx' = used_idx + 1
               /\ UNCHANGED <<devices, started, saved_sip, irq, char, got>>

Complete(h) == /\ At(h, COMPLETE)
               /\ Skip(h)
               /\ plic' = plic_write(plic, PLIC_SCLAIM(h), irq[h])
               /\ irq' = [irq EXCEPT ![h] = 0]
               /\ UNCHANGED <<clint, uart, virtio, used, started, saved_sip, char, got, used_idx>>

TrapReturn(h) == /\ At(h, RETURN)
                 /\ Execute(h, sret(cpu[h]))
                 /\ UNCHANGED <<devices, guest>>

\* main, uartinit, plicinit, plicinithart
UartInit(h) == \E i \in 1 .. 7 :
    /\ At(h, MAIN + 4 * (i - 1))
    /\ uart_write_ok(uart, UartStores[i][1], UartStores[i][2])
    /\ Skip(h)
    /\ uart' = uart_write(uart, UartStores[i][1], UartStores[i][2])
    /\ UNCHANGED <<clint, plic, virtio, used, guest>>

PlicInit(h) == /\ \/ /\ At(h, MAIN + 28)
                     /\ Skip(h)
                     /\ plic' = plic_write(plic, 4 * UART0_IRQ, 1)
                  \/ /\ At(h, MAIN + 32)
                     /\ Goto(h, HARTINIT)
                     /\ plic' = plic_write(plic, 4 * VIRTIO0_IRQ, 1)
               /\ UNCHANGED <<clint, uart, virtio, used, guest>>

WaitStarted(h) == /\ At(h, WAIT)
                  /\ IF started THEN Skip(h) ELSE Goto(h, WAIT)
                  /\ UNCHANGED <<devices, guest>>

PlicInitHart(h) ==
    /\ \/ /\ At(h, HARTINIT)
          /\ plic' = plic_write(plic, PLIC_SENABLE(h), 2^UART0_IRQ + 2^VIRTIO0_IRQ)
       \/ /\ At(h, HARTINIT + 4)
          /\ plic' = plic_write(plic, PLIC_SPRIORITY(h), 0)
    /\ Skip(h)
    /\ UNCHANGED <<clint, uart, virtio, used, guest>>

Started(h) == /\ At(h, HARTINIT + 8)
              /\ Skip(h)
              /\ started' = TRUE
              /\ UNCHANGED <<devices, saved_sip, irq, char, got, used_idx>>

\* The scheduler: a critical section ends, running may go on for ever.
Scheduler(h) == /\ \/ /\ At(h, SCHEDULER)
                      /\ Execute(h, execute_csr(cpu[h], "rs", "sstatus", {MSTATUS_SIE}))
                   \/ /\ At(h, SCHEDULER + 4)
                      /\ Skip(h) \/ Goto(h, SCHEDULER + 4)
                   \/ /\ At(h, SCHEDULER + 8)
                      /\ Execute(h, execute_csr(cpu[h], "rc", "sstatus", {MSTATUS_SIE}))
                   \/ /\ At(h, SCHEDULER + 12)
                      /\ Goto(h, SCHEDULER)
                /\ UNCHANGED <<devices, guest>>

\* A process asks for a block: virtio_disk_rw stores QUEUE_NOTIFY with interrupts
\* off and sleeps; the device has served the request when the store is done.
DiskRequest(h) == /\ At(h, SCHEDULER + 12)
                  /\ used < load.requests
                  /\ Goto(h, SCHEDULER)
                  /\ used' = used + 1
                  /\ virtio' = [virtio EXCEPT !.interrupt_status = @ \cup {0}]
                  /\ UNCHANGED <<clint, plic, uart, guest>>

Step(h) == \/ Fetch(h) \/ TimerAdvance(h) \/ TimerRelay(h) \/ TimerReturn(h)
           \/ DevIntr(h) \/ AckRead(h) \/ AckWrite(h)
           \/ Claim(h) \/ GetcLook(h) \/ GetcRead(h) \/ ConsoleIntr(h)
           \/ DiskAck(h) \/ DiskReap(h) \/ Complete(h) \/ TrapReturn(h)
           \/ UartInit(h) \/ PlicInit(h) \/ WaitStarted(h) \/ PlicInitHart(h)
           \/ Started(h) \/ Scheduler(h) \/ DiskRequest(h)

\* The loop of run_xv6_boot, and of Xv6Emulator::run.
Run == \E h \in Harts : Step(h)

Next == Run \/ ReadStdin

\* The run loop never pauses (a step is always possible, so this is weak fairness
\* of Run), and the host schedules the reader thread.
Spec == Init /\ [][Next]_vars /\ []<><<Run>>_vars /\ WF_vars(ReadStdin)

-----------------------------------------------------------------------------

\* Nothing typed is lost, duplicated or reordered between stdin and the
\* console of a single hart, from the first byte that arrives before the UART
\* is even set up, whatever interrupts whatever on the way.
ConsoleIsFifo ==
    load.ncpu = 1 =>
        got \o (IF char[0] = 0 THEN <<>> ELSE <<char[0]>>)
            \o uart.rx_queue \o channel \o stdin = load.input

Count(b, seq) == Cardinality({i \in DOMAIN seq : seq[i] = b})

\* With several harts in uartintr at once, which a claim that consumes nothing
\* allows, still no byte is lost, and none comes twice: a load of RBR that
\* another hart has emptied gives a NUL.
InputIsConserved ==
    \A b \in {load.input[i] : i \in DOMAIN load.input} :
        Count(b, got) + Count(b, uart.rx_queue \o channel \o stdin)
           + Cardinality({h \in Harts : char[h] = b}) = Count(b, load.input)

\* An external interrupt is never spurious on a single hart: the level of the
\* UART or of the disk holds until devintr comes to claim it, though a timer
\* trap may come first.
ClaimFindsWork ==
    load.ncpu = 1 /\ phase = "execute" /\ At(0, CLAIM) =>
        claim_irq(plic, lines(uart, virtio), context(0)) # 0

\* Every byte typed reaches the console: neither the poll interval, the size of
\* the poll buffer, the critical sections, the timer, the disk, which wins
\* every tie in the PLIC, nor another hart can hold it back.
EveryByteArrives == <>(Len(got) = Len(load.input))

\* A request the disk has served wakes its process: the level of the interrupt
\* survives the critical section, the timer and the console's handler.
EveryRequestWakes == used > used_idx ~> used = used_idx

AllHarts == UNION {0 .. (l.ncpu - 1) : l \in Loads}

\* The timer of every hart keeps firing: round-robin stepping, the shared mtime
\* and its wrap-around never leave a hart without its tick.
TimerKeepsFiring == \A h \in AllHarts : []<>(h \in Harts => At(h, TIMERVEC))

\* A tick on its way to the supervisor: SSIP.
Ticked(h) == 1 \in cpu[h].mip

\* When timervec returns SSIP is up; only timervec raises it, and nothing but the
\* acknowledge of devintr takes it down again: no sampling of the lines, write of a
\* CSR or trap, and no step of another hart.
TickWaits ==
    [][\A h \in Harts :
          /\ At(h, TIMERVEC + 8) => Ticked(h)
          /\ Ticked(h)' # Ticked(h) => At(h, IF Ticked(h) THEN ACK + 4 ELSE TIMERVEC + 4)]_vars

\* What a timer trap raises stays until devintr, in S, acknowledges it, and it does.
\* Ticks are not counted: one that comes while SSIP is still up, be it between the
\* two instructions of the acknowledge, is answered together with the one before.
TickReachesSupervisor ==
    /\ TickWaits
    /\ \A h \in AllHarts : (h \in Harts /\ Ticked(h)) ~> (h \in Harts /\ ~Ticked(h))

\* The handlers leave room for the kernel: no hart is caught for ever between
\* timervec and devintr, and none is left waiting for hart 0.
SchedulerKeepsRunning == \A h \in AllHarts : []<>(h \in Harts => At(h, SCHEDULER + 4))

=============================================================================
