------------------------------ MODULE MC_Devices -----------------------------
(* Every documented register, the words beside it, and the first past an array. *)
EXTENDS Devices

MC_Offsets ==
    [t \in Targets |->
        CASE t = "clint"  -> ClintRegisters \cup {MTIMECMP_OFFSET - 8, MTIMECMP_OFFSET + 4,
                                                  MTIMECMP_OFFSET + 8 * NHART}
          [] t = "plic"   -> PlicRegisters \cup {4 * MAX_IRQ, ENABLE_BASE + 4, ENABLE_END,
                                                 ENABLE_BASE + ENABLE_STRIDE * MAX_CONTEXTS,
                                                 CONTEXT_BASE + 4,
                                                 CONTEXT_BASE + CONTEXT_STRIDE * MAX_CONTEXTS}
          [] t = "uart"   -> 0 .. 7
          [] t = "virtio" -> {QUEUE_NUM, QUEUE_READY, STATUS, MAGIC_VALUE}]

MC_Values ==
    [t \in Targets |->
        CASE t = "clint"  -> 0 .. (TimeSpace - 1)
          [] t = "plic"   -> {0, 2, 6, 10}
          [] t = "uart"   -> {0, 1, 3, 128}
          [] t = "virtio" -> {0, 1}]

=============================================================================
