------------------------------- MODULE VirtIOBlk -------------------------------
(***************************************************************************)
(* The block device of virtio.rs and a driver in the guest.  The driver    *)
(* puts chains of descriptors on the avail ring and notifies the device,   *)
(* which serves everything it finds there before the store returns, puts   *)
(* the heads on the used ring and raises its interrupt.  The driver's      *)
(* handler acknowledges first and reaps after, as xv6's does; unlike xv6's *)
(* it may batch requests, notify when there is nothing to do, and have its *)
(* other actions fall between the steps of the handler.                    *)
(*                                                                         *)
(* A request moves one block.  What the device and the rings promise a     *)
(* driver is DiskAbs.                                                      *)
(***************************************************************************)
EXTENDS VirtIORegs, FiniteSets, Sequences

CONSTANTS
    IDX,          \* 2^16: ring indices are u16
    NUM,          \* queue_num, the size of the rings
    Heads,        \* the heads of the driver's descriptor chains
    Queues,       \* the queue indices the driver notifies
    Sectors,      \* 0 .. n: the sectors it asks for
    DiskSize,     \* VIRTIO_DISK_SIZE_DEFAULT or the image's, in sectors
    Values,
    Requests,     \* the requests it makes
    Start,        \* where an earlier boot left the indices of the rings
    MaxRequests,  \* bound: requests
    MaxResets     \* bound: resets

\* Indices wrap inside the ring, so the ring's size divides 2^16.
ASSUME RingAssumption == /\ NUM \in Nat \ {0} /\ IDX \in Nat /\ IDX % NUM = 0
                         /\ IsFiniteSet(Heads) /\ Cardinality(Heads) <= NUM /\ NUM < IDX
                         /\ Start \in 0 .. (IDX - 1) /\ 0 \in Queues

END == 3   \* VIRTQ_DESC_F_NEXT is clear
OK  == 0   \* VIRTIO_BLK_S_OK

\* A request in guest memory: what its header says, its block of data, its
\* status byte, where each of its descriptors leads, and which of its addresses
\* the bus does not serve ("none", or the first that faults).
Request == [type : {"in", "out", "other"}, sector : Sectors, data : Values,
            status : {OK, 255}, next : [0 .. 2 -> 0 .. END],
            unmapped : {"none", "data", "status"}]

\* The driver sets the status byte to 0xff before it submits; a disk grows with
\* zeros.
ASSUME RequestAssumption == /\ Requests \subseteq {r \in Request : r.status = 255}
                            /\ 0 \in Values /\ DiskSize \in Nat
                            /\ Sectors \subseteq Nat /\ Sectors # {}

None == IDX   \* no index

VARIABLES
    dev,        \* the registers of VirtIOBlk
    disk,       \* from 0 to the last sector it has grown to
    avail, used, \* the rings, in guest memory: idx and ring
    req,        \* the requests, in guest memory, by head
    drv,        \* the driver: free heads, its used_idx, its handler
    notified,   \* FALSE while it has still to notify the device of what it submitted
    queue,      \* the queue index process_queue was called with
    last,       \* process_queue's position in the avail ring, None outside it
    running,    \* FALSE once a step has returned Err
    resets, requests  \* how many there have been

vars == <<dev, disk, avail, used, req, drv, notified, queue, last, running, resets, requests>>

\* One thread runs the harts and the device: while process_queue is at work the
\* guest stands still.
Idle == running /\ last = None

-----------------------------------------------------------------------------
(* process_descriptor_chain *)

\* The indices the loop collects: it stops at a descriptor without NEXT and
\* where it has been before.
chain(next) ==
    LET path[n \in 0 .. 2] ==
            IF n = 0 THEN <<0>>
            ELSE LET p == path[n - 1]
                     i == next[p[Len(p)]]
                 IN  IF i = END \/ \E k \in 1 .. Len(p) : p[k] = i THEN p ELSE Append(p, i)
    IN  path[2]

well_formed(r) == Len(chain(r.next)) >= 3

\* The address of the data is not read for a type the device does not know.
faults(r) == /\ well_formed(r)
             /\ r.unmapped = "status" \/ (r.unmapped = "data" /\ r.type \in {"in", "out"})

\* disk.resize(end, 0) before a block past the end is read or written.
resized(d, sector) == [i \in DOMAIN d \cup 0 .. sector |-> IF i \in DOMAIN d THEN d[i] ELSE 0]

\* A mutant, for the checks of the properties: resize truncates as well as grows.
disk_after_truncated(d, r) ==
    IF ~well_formed(r) THEN d
    ELSE CASE r.type = "in" /\ r.unmapped # "data" -> [i \in 0 .. r.sector |-> resized(d, r.sector)[i]]
           [] r.type = "out" /\ r.unmapped # "data" -> [resized(d, r.sector) EXCEPT ![r.sector] = r.data]
           [] OTHER -> d

\* A read grows the disk before it touches the data, a write after it has read
\* all of the data; neither looks at the status address before it is done.
disk_after(d, r) ==
    IF ~well_formed(r) THEN d
    ELSE CASE r.type = "in" -> resized(d, r.sector)
           [] r.type = "out" /\ r.unmapped # "data" -> [resized(d, r.sector) EXCEPT ![r.sector] = r.data]
           [] OTHER -> d

answer(d, r) ==
    IF ~well_formed(r) THEN r
    ELSE [r EXCEPT !.status = IF faults(r) THEN @ ELSE OK,
                   !.data = IF r.type = "in" /\ r.unmapped # "data" THEN resized(d, r.sector)[r.sector] ELSE @]

-----------------------------------------------------------------------------
(* process_queue *)

\* A mutant, for the checks of the properties: the slot is the next one.
push_next_slot(u, head) ==
    [idx |-> (u.idx + 1) % IDX, ring |-> [u.ring EXCEPT ![(u.idx + 1) % dev.queue_num] = head]]

push(u, head) == [idx |-> (u.idx + 1) % IDX, ring |-> [u.ring EXCEPT ![u.idx % dev.queue_num] = head]]

\* unwrap_or(used_idx_initial).  The record is kept per queue index, the rings
\* are the same whatever the index.
first(q) == IF q \in DOMAIN dev.last_avail_idx THEN dev.last_avail_idx[q] ELSE used.idx

\* The store to QUEUE_NOTIFY: an early return, or the loop begins.
Notify(q) ==
          /\ Idle
          /\ dev.queue_ready # 0 /\ dev.queue_num # 0
          /\ queue' = q /\ last' = first(q)
          /\ notified' = TRUE
          /\ UNCHANGED <<dev, disk, avail, used, req, drv, running, resets, requests>>

\* One turn of the loop.  A bus error ends the run loop: last_avail_idx, the used
\* ring and the interrupt stay as they were, but what the request had done to the
\* disk and to its buffer before the fault is done.
ServeOne ==
    LET head == avail.ring[last % dev.queue_num]
        r    == req[head]
    IN  /\ running /\ last \notin {None, avail.idx}
        /\ disk' = disk_after(disk, r)
        /\ req' = [req EXCEPT ![head] = answer(disk, r)]
        /\ running' = ~faults(r)
        /\ IF faults(r)
           THEN UNCHANGED <<used, last>>
           ELSE /\ used' = push(used, head)
                /\ last' = (last + 1) % IDX
        /\ UNCHANGED <<dev, avail, drv, notified, queue, resets, requests>>

\* HashMap::insert
insert(map, key, value) == [k \in DOMAIN map \cup {key} |-> IF k = key THEN value ELSE map[k]]

\* A mutant, for the checks of the properties: the interrupt is not raised.
Served_silently == /\ running /\ last = avail.idx
                   /\ dev' = [dev EXCEPT !.last_avail_idx = insert(@, queue, last)]
                   /\ last' = None
                   /\ UNCHANGED <<disk, avail, used, req, drv, notified, queue, running, resets, requests>>

\* The end of the loop: the interrupt is raised also when nothing was served.
Served == /\ running /\ last = avail.idx
          /\ dev' = [dev EXCEPT !.last_avail_idx = insert(@, queue, last),
                             !.interrupt_status = @ \cup {0}]
          /\ last' = None
          /\ UNCHANGED <<disk, avail, used, req, drv, notified, queue, running, resets, requests>>

-----------------------------------------------------------------------------
(* The driver, over the registers and the rings. *)

Ring(idx) == [idx |-> idx, ring |-> [i \in 0 .. (NUM - 1) |-> 0]]

Blank == [type |-> "other", sector |-> CHOOSE s \in Sectors : TRUE,
          data |-> CHOOSE v \in Values : TRUE, status |-> OK,
          next |-> [i \in 0 .. 2 |-> END], unmapped |-> "none"]

Init == /\ dev = new_regs
        /\ disk = [s \in 0 .. (DiskSize - 1) |-> CHOOSE v \in Values : TRUE]
        /\ avail = Ring(Start) /\ used = Ring(Start)
        /\ req = [h \in Heads |-> Blank]
        /\ drv = [free |-> Heads, used_idx |-> Start, handler |-> "idle"] /\ notified = TRUE
        /\ queue \in Queues /\ last = None /\ running = TRUE /\ resets = 0 /\ requests = 0

\* virtio_disk_init after the reset: the rings are cleared, or kept by a driver
\* that resumes where it was, then QUEUE_NUM and QUEUE_READY are set.
SetUp(clear) ==
    /\ Idle /\ dev.queue_ready = 0
    /\ avail' = IF clear THEN Ring(0) ELSE avail
    /\ used' = IF clear THEN Ring(0) ELSE used
    /\ drv' = [drv EXCEPT !.used_idx = IF clear THEN 0 ELSE @]
    /\ dev' = regs_write(regs_write(dev, QUEUE_NUM, NUM), QUEUE_READY, 1)
    /\ UNCHANGED <<disk, req, notified, queue, last, running, resets, requests>>

Reset == /\ Idle /\ dev.queue_ready = 1 /\ resets < MaxResets
         /\ drv.free = Heads /\ drv.handler = "idle"
         /\ dev' = regs_write(dev, STATUS, 0)
         /\ resets' = resets + 1
         /\ UNCHANGED <<disk, avail, used, req, drv, notified, queue, last, running, requests>>

\* virtio_disk_rw up to the store that moves avail->idx.
Submit(h, r) ==
    /\ Idle /\ dev.queue_ready = 1
    /\ h \in drv.free /\ \A g \in drv.free : h <= g   \* alloc_desc takes the first
    /\ requests < MaxRequests
    /\ req' = [req EXCEPT ![h] = r]
    /\ avail' = [idx |-> (avail.idx + 1) % IDX, ring |-> [avail.ring EXCEPT ![avail.idx % NUM] = h]]
    /\ drv' = [drv EXCEPT !.free = @ \ {h}]
    /\ notified' = FALSE
    /\ requests' = requests + 1
    /\ UNCHANGED <<dev, disk, used, queue, last, running, resets>>

\* virtio_disk_intr: acknowledge, then reap until the indices meet.
HandlerEnter == /\ Idle /\ drv.handler = "idle" /\ regs_read(dev, INTERRUPT_STATUS) = 1
                /\ dev' = regs_write_bits(dev, INTERRUPT_ACK, {0})
                /\ drv' = [drv EXCEPT !.handler = "reap"]
                /\ UNCHANGED <<disk, avail, used, req, notified, queue, last, running, resets, requests>>

Reap == /\ Idle /\ drv.handler = "reap"
        /\ drv' = IF drv.used_idx = used.idx
                  THEN [drv EXCEPT !.handler = "idle"]
                  ELSE [drv EXCEPT !.used_idx = (@ + 1) % IDX,
                                   !.free = @ \cup {used.ring[drv.used_idx % NUM]}]
        /\ UNCHANGED <<dev, disk, avail, used, req, notified, queue, last, running, resets, requests>>

Next == \/ \E q \in Queues : Notify(q)
        \/ ServeOne \/ Served \/ Reset \/ HandlerEnter \/ Reap
        \/ \E clear \in BOOLEAN : SetUp(clear)
        \/ \E h \in Heads, r \in Requests : Submit(h, r)

\* The driver notifies once after it has submitted; it may notify more often, but
\* it need not, so a completion that is lost has no later notification to wait for.  The hart that runs its handler gets its
\* turn again and again between the steps in which others notify: SF.
Spec == /\ Init /\ [][Next]_vars
        /\ WF_vars(~notified /\ \E q \in Queues : Notify(q))
        /\ WF_vars(ServeOne) /\ WF_vars(Served)
        /\ SF_vars(HandlerEnter) /\ SF_vars(Reap)

-----------------------------------------------------------------------------

\* No completion goes unnoticed: while the driver has something to reap its
\* interrupt is up, or its handler is still looking.
NoLostCompletion == Idle /\ used.idx # drv.used_idx =>
                       dev.interrupt_status # {} \/ drv.handler = "reap"

\* Every submitted request comes back to the driver, unless a bus error has
\* stopped the machine.
EveryRequestReturns == \A h \in Heads : h \notin drv.free ~> (h \in drv.free \/ ~running)

-----------------------------------------------------------------------------
(* The rings and the device as two queues around a block store. *)

\* What a guest can read from a disk: past its end there are zeros.
blocks(d) == [s \in Sectors |-> IF s \in DOMAIN d THEN d[s] ELSE 0]

\* Where the device will look next.
position == IF last # None THEN last ELSE first(0)

\* What a request asks for.
operation(r) ==
    IF ~well_formed(r) THEN [op |-> "malformed"]
    ELSE CASE r.type = "in"  -> [op |-> "read", sector |-> r.sector]
           [] r.type = "out" -> [op |-> "write", sector |-> r.sector, data |-> r.data]
           [] OTHER -> [op |-> "none"]

\* The entries of a ring between two indices.
Between(ring, from, to) ==
    [k \in 1 .. ((to - from) % IDX) |-> ring[((from + k - 1) % IDX) % NUM]]

TodoHeads == Between(avail.ring, position, avail.idx)
DoneHeads == Between(used.ring, drv.used_idx, used.idx)

Todo == LET heads == TodoHeads
        IN  [k \in DOMAIN heads |-> [head |-> heads[k], operation |-> operation(req[heads[k]])]]

Done == LET heads == DoneHeads
            read(r) == well_formed(r) /\ r.type = "in"
        IN  [k \in DOMAIN heads |->
                [head   |-> heads[k], status |-> req[heads[k]].status,
                 data   |-> IF read(req[heads[k]]) THEN req[heads[k]].data ELSE 0]]

\* Every chain is in one place: free, on its way to the device or on its way
\* back, and nowhere twice, also after a batch was cut short by a fault.
HeadsAreConserved ==
    LET h == TodoHeads \o DoneHeads
        inflight == {h[k] : k \in DOMAIN h}
    IN  /\ \A j, k \in DOMAIN h : h[j] = h[k] => j = k
        /\ drv.free = Heads \ inflight

Abs == INSTANCE DiskAbs WITH store <- blocks(disk), todo <- Todo, done <- Done, alive <- running

\* The rings implement a first-in first-out disk: requests are carried out one
\* at a time, each completely and once, and the driver takes the answers in that
\* order.  Slots are reused, indices wrap and the queue is set up again
\* underneath, and none of it shows.
ImplementsDisk == Abs!Spec

=============================================================================
