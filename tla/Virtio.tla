-------------------------------- MODULE Virtio --------------------------------
(***************************************************************************)
(* A virtio-mmio device: the transport the guest driver programs           *)
(* (devices/mod.rs), the worker that owns the queues from DRIVER_OK on     *)
(* (block.rs, net.rs, balloon.rs), the interrupt line they share, the      *)
(* token buckets that hold requests back (ratelimit.rs), and the assembly  *)
(* of the machine around it, at boot and from a snapshot (machine.rs).     *)
(*                                                                         *)
(* A behaviour is about one device, of a kind chosen at the start.  A      *)
(* descriptor chain is its head; a frame is its number; time is in ticks.  *)
(***************************************************************************)
EXTENDS Naturals, Sequences, FiniteSets, SequencesExt, FiniteSetsExt

CONSTANTS
    Kinds,              \* the kinds of device to look at
    Limited,            \* those with a rate limit
    Heads,              \* descriptor chains
    Size,               \* chains each queue has room for
    MaxFrames,          \* bound: frames that arrive at the TAP
    BacklogMax,         \* RX_BACKLOG_MAX
    MaxPages,           \* bound: pages ballooned out
    MaxBad,             \* bound: malformed requests of the driver
    MaxRestores,        \* bound: snapshots restored
    Unacked,            \* a snapshot may find an interrupt unacknowledged
    Early,              \* frames may arrive while a snapshot is being restored
    Capacity, Refill,   \* RateLimit, per dimension; the refill is per millisecond
    Bytes,              \* payload of a request
    TicksPerMs, MaxWait,\* ticks in a millisecond, and in wait_admit's max_wait
    SinceMax,           \* bound: ticks worth telling apart since the last refill
    None

Dims      == {"ops", "bytes"}
QueuesOf  == [block |-> {"req"}, net |-> {"rx", "tx"}, balloon |-> {"inflate", "deflate"}]
AllQueues == UNION {QueuesOf[k] : k \in DOMAIN QueuesOf}
Least(a, b) == IF a <= b THEN a ELSE b

ASSUME VirtioAssumption ==
    /\ Kinds \subseteq {"block", "net", "balloon"} /\ Limited \subseteq {"block", "net"}
    /\ IsFiniteSet(Heads) /\ None \notin Heads /\ Size \in [AllQueues -> 1..Cardinality(Heads)]
    /\ MaxFrames \in Nat /\ BacklogMax \in Nat \ {0} /\ MaxPages \in Nat
    /\ MaxBad \in Nat /\ MaxRestores \in Nat /\ Unacked \in BOOLEAN /\ Early \in BOOLEAN
    /\ Capacity \in [Dims -> Nat] /\ Refill \in [Dims -> Nat] /\ Bytes \in Nat
    /\ TicksPerMs \in Nat \ {0} /\ MaxWait \in Nat /\ SinceMax \in Nat
    /\ \A d \in Dims : Refill[d] > 0 => (SinceMax \div TicksPerMs) * Refill[d] >= Capacity[d]

VARIABLES
    vm, saved,          \* how far the machine is assembled; its image's irqchip
    kind,               \* the device
    status, activated,  \* MmioTransport::status and activated
    moved,              \* its queues are with the device
    ready,              \* QUEUE_READY of each queue
    avail, hand, used,  \* chains published, taken by the worker, returned
    bad,                \* chains that are malformed
    evt,                \* the notify eventfds
    isr, irq,           \* Interrupt::status; an injected, undelivered interrupt
    work,               \* the worker threads
    driver, kick,       \* the interrupt handler; queues still to be notified
    tap, backlog, got,  \* frames at the TAP, in rx_backlog, in the guest
    arrived,            \* frames so far
    actual, owned,      \* Balloon::actual; pages the guest has given up
    tokens, since,      \* the buckets; ticks since they were refilled
    nap, waited,        \* of wait_admit: rest of the sleep, ticks so far
    ideal,              \* buckets refilled at every tick, in token-ticks, with room
                        \* for a millisecond's refill more
    restores            \* snapshots restored so far

machine   == <<vm, saved, restores>>
transport == <<kind, status, activated, moved, ready>>
rings     == <<avail, hand, used, bad>>
line      == <<isr, irq>>
guest     == <<driver, kick>>
frames    == <<tap, backlog, got, arrived>>
pages     == <<actual, owned>>
limiter   == <<tokens, since, nap, waited, ideal>>
vars == <<machine, transport, rings, evt, line, work, guest, frames, pages, limiter>>

Threads   == {"req", "net", "inflate", "deflate"}
Queues    == QueuesOf[kind]
Thread(q) == IF q \in QueuesOf["net"] THEN "net" ELSE q

Pcs == {"none", "poll", "drain", "admit", "serve", "add", "load", "cas", "publish", "flag",
        "irq", "rxdrain", "rxread"}
Idle == [pc |-> "none", q |-> "req", signalled |-> FALSE, seen |-> 0]

TypeOK ==
    /\ vm \in {"new", "attached", "irqchip", "run"} /\ saved \in BOOLEAN
    /\ kind \in Kinds
    /\ status \in {"reset", "probe", "ok", "failed"} /\ activated \in BOOLEAN /\ moved \in BOOLEAN
    /\ ready \in [AllQueues -> BOOLEAN] /\ evt \in [AllQueues -> BOOLEAN]
    /\ avail \in [AllQueues -> Seq(Heads)] /\ used \in [AllQueues -> Seq(Heads)]
    /\ hand \in [AllQueues -> Heads \union {None}] /\ bad \in [AllQueues -> SUBSET Heads]
    /\ isr \in BOOLEAN /\ irq \in BOOLEAN
    /\ work \in [Threads -> [pc : Pcs, q : AllQueues, signalled : BOOLEAN, seen : 0..MaxPages]]
    /\ driver \in {"run", "ack", "reap"} /\ kick \subseteq AllQueues
    /\ tap \in Seq(1..MaxFrames) /\ backlog \in Seq(1..MaxFrames) /\ got \in Seq(1..MaxFrames)
    /\ Len(backlog) <= BacklogMax /\ arrived \in 0..MaxFrames
    /\ actual \in 0..MaxPages /\ owned \in 0..MaxPages
    /\ tokens \in [Dims -> Nat] /\ \A d \in Dims : tokens[d] <= Capacity[d]
    /\ since \in 0..SinceMax /\ nap \in 0..TicksPerMs /\ waited \in 0..MaxWait
    /\ ideal \in [Dims -> Nat] /\ restores \in 0..MaxRestores

Full      == [d \in Dims |-> Capacity[d]]
FullIdeal == [d \in Dims |-> (Capacity[d] + Refill[d]) * TicksPerMs]

Init ==
    /\ vm = "new" /\ saved = FALSE
    /\ kind \in Kinds
    /\ status = "reset" /\ activated = FALSE /\ moved = FALSE
    /\ ready = [q \in AllQueues |-> FALSE] /\ evt = [q \in AllQueues |-> FALSE]
    /\ avail = [q \in AllQueues |-> <<>>] /\ used = [q \in AllQueues |-> <<>>]
    /\ hand = [q \in AllQueues |-> None] /\ bad = [q \in AllQueues |-> {}]
    /\ isr = FALSE /\ irq = FALSE
    /\ work = [t \in Threads |-> Idle]
    /\ driver = "run" /\ kick = {}
    /\ tap = <<>> /\ backlog = <<>> /\ got = <<>> /\ arrived = 0
    /\ actual = 0 /\ owned = 0
    /\ tokens = Full /\ since = 0 /\ nap = 0 /\ waited = 0 /\ ideal = FullIdeal
    /\ restores = 0

-------------------------------------------------------------------------------
(* The driver's register writes (MmioTransport::write). *)

(* QUEUE_NUM, the ring addresses and QUEUE_READY; once the queues have moved *)
(* there is none to select and the writes are dropped.                       *)
SetReady(q) ==
    /\ vm = "run" /\ driver = "run" /\ status \in {"reset", "probe"} /\ ~ready[q] /\ ~moved
    /\ ready' = [ready EXCEPT ![q] = TRUE]
    /\ UNCHANGED <<kind, status, activated, moved, rings, evt, line, work, guest, frames, pages,
                   limiter, machine>>

(* set_status with ACKNOWLEDGE, DRIVER or FEATURES_OK. *)
Probe ==
    /\ vm = "run" /\ driver = "run" /\ status = "reset"
    /\ status' = "probe"
    /\ UNCHANGED <<kind, activated, moved, ready, rings, evt, line, work, guest, frames, pages,
                   limiter, machine>>

(* MmioTransport::activate: the queues move; a device that has had its       *)
(* queues, and its file or TAP, fails.                                       *)
Activate ==
    IF moved
    THEN /\ status' = "failed"
         /\ UNCHANGED <<activated, moved, work>>
    ELSE /\ status' = "ok" /\ activated' = TRUE /\ moved' = TRUE
         /\ work' = [t \in Threads |->
                IF \E q \in Queues : Thread(q) = t THEN [Idle EXCEPT !.pc = "poll"] ELSE work[t]]

(* set_status with DRIVER_OK: the device is activated, once. *)
DriverOk ==
    /\ vm = "run" /\ driver = "run" /\ status \in {"probe", "ok"} /\ \A q \in Queues : ready[q]
    /\ IF activated THEN status' = "ok" /\ UNCHANGED <<activated, moved, work>> ELSE Activate
    /\ UNCHANGED <<kind, ready, rings, evt, line, guest, frames, pages, limiter, machine>>

(* set_status with 0: the transport forgets, the worker goes on.  The driver *)
(* resets a device when its requests have been answered.                     *)
Reset ==
    /\ vm = "run" /\ driver = "run" /\ status # "reset" /\ kick = {}
    /\ \A q \in Queues \ {"rx"} : avail[q] = <<>> /\ hand[q] = None /\ used[q] = <<>>
    /\ status' = "reset" /\ activated' = FALSE
    /\ UNCHANGED <<kind, moved, ready, rings, evt, line, work, guest, frames, pages, limiter,
                   machine>>

-------------------------------------------------------------------------------
(* The driver's requests.  It gives back only pages it has given up, and     *)
(* notifies after it has published.  Malformed chains (MaxBad of them) are   *)
(* modelled on the queues whose requests the worker parses; on rx, inflate   *)
(* and deflate they are not: there the worker's ? ends the drain (net.rs:    *)
(* 221-223 and 285 with the frame, and the signal of frames delivered before *)
(* it, lost; balloon.rs:170-171 with nothing counted).                       *)

Places(q) == ToSet(avail[q]) \union ToSet(used[q]) \union {hand[q]} \union bad[q]
Deflating == Len(avail["deflate"]) + Len(used["deflate"])
             + IF hand["deflate"] = None THEN 0 ELSE 1
Inflating == Len(avail["inflate"]) + IF hand["inflate"] = None THEN 0 ELSE 1

Post(q) ==
    /\ vm = "run" /\ driver = "run" /\ status = "ok" /\ activated /\ ready[q]
    /\ Cardinality(Places(q) \ {None}) < Size[q]
    /\ q = "inflate" => owned + Inflating + Len(used["inflate"]) < MaxPages
    /\ q = "deflate" => owned > Deflating
    /\ \E b \in BOOLEAN : LET h == CHOOSE x \in Heads : x \notin Places(q) IN
          /\ b => q \notin {"rx", "inflate", "deflate"}
                  /\ Cardinality(UNION {bad[r] : r \in AllQueues}) < MaxBad
          /\ avail' = [avail EXCEPT ![q] = Append(@, h)]
          /\ bad' = [bad EXCEPT ![q] = IF b THEN @ \union {h} ELSE @]
    /\ kick' = kick \union {q}
    /\ UNCHANGED <<transport, hand, used, evt, line, work, driver, frames, pages, limiter, machine>>

(* QUEUE_NOTIFY. *)
Notify(q) ==
    /\ vm = "run" /\ q \in kick
    /\ kick' = kick \ {q}
    /\ evt' = [evt EXCEPT ![q] = TRUE]
    /\ UNCHANGED <<transport, rings, line, work, driver, frames, pages, limiter, machine>>

(* The guest's handler: an interrupt whose status reads zero is not ours;    *)
(* otherwise it is acknowledged and every queue is looked at.                *)
IsrEnter ==
    /\ vm = "run" /\ irq /\ driver = "run"
    /\ irq' = FALSE
    /\ driver' = IF isr THEN "ack" ELSE "run"
    /\ UNCHANGED <<transport, rings, evt, isr, work, kick, frames, pages, limiter, machine>>

\* Interrupt::ack.
IsrAck ==
    /\ vm = "run" /\ driver = "ack"
    /\ driver' = "reap"
    /\ isr' = FALSE
    /\ UNCHANGED <<transport, rings, evt, irq, work, kick, frames, pages, limiter, machine>>

IsrReap ==
    /\ vm = "run" /\ driver = "reap"
    /\ driver' = "run"
    /\ used' = [q \in AllQueues |-> <<>>]
    /\ owned' = owned + Len(used["inflate"]) - Len(used["deflate"])
    /\ UNCHANGED <<transport, avail, hand, bad, evt, line, work, kick, frames, actual, limiter,
                   machine>>

-------------------------------------------------------------------------------
(* The worker threads.  A chain of the request or transmit queue is parsed,  *)
(* admitted by the limiter and carried out, in the order of the code; one of *)
(* the balloon's is counted.                                                 *)

Goto(t, pc) == work' = [work EXCEPT ![t].pc = pc]

After(q, pc) ==
    CASE q = "req" /\ pc = "drain"     -> IF kind \in Limited THEN "admit" ELSE "serve"
      [] q = "req" /\ pc = "admit"     -> "serve"
      [] q = "tx" /\ pc = "drain"      -> "serve"
      [] q = "tx" /\ pc = "serve"      -> IF kind \in Limited THEN "admit" ELSE "publish"
      [] q = "inflate" /\ pc = "drain" -> "add"
      [] q = "deflate" /\ pc = "drain" -> "load"
      [] OTHER                         -> "publish"

(* The notify eventfd is read; the net worker's epoll also watches the TAP. *)
Poll(t, q) ==
    /\ work[t].pc = "poll" /\ q \in Queues /\ Thread(q) = t
    /\ evt[q] \/ (q = "rx" /\ tap # <<>>)
    /\ evt' \in {[evt EXCEPT ![q] = FALSE]} \union (IF q = "rx" /\ tap # <<>> THEN {evt} ELSE {})
    /\ work' = [work EXCEPT ![t] = [pc |-> IF q = "rx" THEN "rxdrain" ELSE "drain", q |-> q,
                                    signalled |-> FALSE, seen |-> 0]]
    /\ UNCHANGED <<transport, rings, line, guest, frames, pages, limiter, machine>>

\* Variant: the drain stops after one chain.
PopOne(t) ==
    LET q == work[t].q IN
    /\ work[t].pc = "drain"
    /\ IF avail[q] # <<>> /\ ~work[t].signalled
       THEN /\ avail' = [avail EXCEPT ![q] = Tail(@)]
            /\ hand' = [hand EXCEPT ![q] = Head(avail[q])]
            /\ Goto(t, After(q, "drain"))
       ELSE /\ Goto(t, IF work[t].signalled THEN "flag" ELSE "poll")
            /\ UNCHANGED <<avail, hand>>
    /\ waited' = 0 /\ nap' = 0
    /\ UNCHANGED <<transport, used, bad, evt, line, guest, frames, pages, tokens, since, ideal,
                   machine>>

(* pop_descriptor_chain; with nothing left the drain ends, in an interrupt  *)
(* if it has returned a chain.                                              *)
Pop(t) ==
    LET q == work[t].q IN
    /\ work[t].pc = "drain"
    /\ IF avail[q] # <<>>
       THEN /\ avail' = [avail EXCEPT ![q] = Tail(@)]
            /\ hand' = [hand EXCEPT ![q] = Head(avail[q])]
            /\ Goto(t, After(q, "drain"))
       ELSE /\ Goto(t, IF work[t].signalled THEN "flag" ELSE "poll")
            /\ UNCHANGED <<avail, hand>>
    /\ waited' = 0 /\ nap' = 0
    /\ UNCHANGED <<transport, used, bad, evt, line, guest, frames, pages, tokens, since, ideal,
                   machine>>

(* service_request, or process_tx's reading of the frame.  A malformed chain *)
(* ends the drain: it is not returned, and nothing is signalled.             *)
Serve(t) ==
    LET q == work[t].q IN
    /\ work[t].pc = "serve"
    /\ IF hand[q] \in bad[q]
       THEN Goto(t, "poll") /\ hand' = [hand EXCEPT ![q] = None]
       ELSE Goto(t, After(q, "serve")) /\ UNCHANGED hand
    /\ UNCHANGED <<transport, avail, used, bad, evt, line, guest, frames, pages, limiter, machine>>

(* add_used. *)
Publish(t) ==
    LET q == work[t].q IN
    /\ work[t].pc = "publish"
    /\ used' = [used EXCEPT ![q] = Append(@, hand[q])]
    /\ hand' = [hand EXCEPT ![q] = None]
    /\ work' = [work EXCEPT ![t].pc = "drain", ![t].signalled = TRUE]
    /\ UNCHANGED <<transport, avail, bad, evt, line, guest, frames, pages, limiter, machine>>

(* Interrupt::signal_used_queue: the status bit, then the irqfd. *)
Flag(t) ==
    /\ work[t].pc = "flag"
    /\ isr' = TRUE
    /\ Goto(t, "irq")
    /\ UNCHANGED <<transport, rings, evt, irq, guest, frames, pages, limiter, machine>>

RaiseIrq(t) ==
    /\ work[t].pc = "irq"
    /\ irq' = TRUE
    /\ Goto(t, "poll")
    /\ UNCHANGED <<transport, rings, evt, isr, guest, frames, pages, limiter, machine>>

-------------------------------------------------------------------------------
(* The balloon's count: two threads, one atomic word. *)

Inflate(t) ==
    /\ work[t].pc = "add"
    /\ actual' = actual + 1
    /\ Goto(t, "publish")
    /\ UNCHANGED <<transport, rings, evt, line, guest, frames, owned, limiter, machine>>

Load(t) ==
    /\ work[t].pc = "load"
    /\ work' = [work EXCEPT ![t].pc = "cas", ![t].seen = actual]
    /\ UNCHANGED <<transport, rings, evt, line, guest, frames, pages, limiter, machine>>

\* Variant: a store of the decremented value.
StoreDecrement(t) ==
    /\ work[t].pc = "cas"
    /\ actual' = IF work[t].seen = 0 THEN 0 ELSE work[t].seen - 1
    /\ Goto(t, "publish")
    /\ UNCHANGED <<transport, rings, evt, line, guest, frames, owned, limiter, machine>>

(* The compare-and-exchange, with a saturating decrement. *)
CompareExchange(t) ==
    /\ work[t].pc = "cas"
    /\ IF actual = work[t].seen
       THEN /\ actual' = IF actual = 0 THEN 0 ELSE actual - 1
            /\ Goto(t, "publish")
       ELSE /\ work' = [work EXCEPT ![t].seen = actual]
            /\ UNCHANGED actual
    /\ UNCHANGED <<transport, rings, evt, line, guest, frames, owned, limiter, machine>>

-------------------------------------------------------------------------------
(* DeviceRateLimiter. *)

Need == [d \in Dims |-> Least(IF d = "ops" THEN 1 ELSE Bytes, Capacity[d])]

(* TokenBucket::refill by the whole milliseconds since the last one. *)
Refilled == [d \in Dims |-> Least(tokens[d] + (since \div TicksPerMs) * Refill[d], Capacity[d])]

\* Variant: `last` is never moved.
SinceKept == since

(* `last` moves only when there is a whole millisecond to account for. *)
SinceAfter == IF since \div TicksPerMs > 0 THEN 0 ELSE since

Spend(n) ==
    /\ tokens' = [d \in Dims |-> Refilled[d] - n[d]]
    /\ ideal' = [d \in Dims |-> IF ideal[d] >= n[d] * TicksPerMs
                                THEN ideal[d] - n[d] * TicksPerMs ELSE 0]

(* One turn of wait_admit's loop: try_admit, and when that fails give up at *)
(* the deadline, charging what there is, or sleep.                          *)
TryAdmit(t) ==
    LET fits == \A d \in Dims : Refilled[d] >= Need[d]
        rest == [d \in Dims |-> Least(Need[d], Refilled[d])]
        none == [d \in Dims |-> 0]
        done == fits \/ waited >= MaxWait IN
    /\ work[t].pc = "admit" /\ nap = 0
    /\ Spend(IF done THEN rest ELSE none)
    /\ since' = SinceAfter
    /\ nap' = IF done THEN 0 ELSE TicksPerMs
    /\ Goto(t, IF done THEN After(work[t].q, "admit") ELSE "admit")
    /\ UNCHANGED <<transport, rings, evt, line, guest, frames, pages, waited, machine>>

Admitting == \E t \in Threads : work[t].pc = "admit"

Tick ==
    /\ kind \in Limited /\ (since < SinceMax \/ nap > 0 \/ (Admitting /\ waited < MaxWait))
    /\ since' = Least(since + 1, SinceMax)
    /\ nap' = IF nap > 0 THEN nap - 1 ELSE 0
    /\ waited' = IF Admitting THEN Least(waited + 1, MaxWait) ELSE waited
    /\ ideal' = [d \in Dims |-> Least(ideal[d] + Refill[d], FullIdeal[d])]
    /\ UNCHANGED <<transport, rings, evt, line, work, guest, frames, pages, tokens, machine>>

-------------------------------------------------------------------------------
(* Receiving: NetWorker::process_rx. *)

FrameArrives ==
    /\ kind = "net" /\ arrived < MaxFrames /\ (vm = "run" \/ Early)
    /\ arrived' = arrived + 1
    /\ tap' = Append(tap, arrived + 1)
    /\ UNCHANGED <<transport, rings, evt, line, work, guest, backlog, got, pages, limiter, machine>>

(* deliver_to_guest: the frame fills the next receive chain. *)
Deliver(n) ==
    /\ avail' = [avail EXCEPT !["rx"] = Tail(@)]
    /\ used' = [used EXCEPT !["rx"] = Append(@, Head(avail["rx"]))]
    /\ got' = Append(got, n)

\* Variant: the backlog has no limit.
EnqueueAll(n) == backlog' = Append(backlog, n)

(* enqueue_backlog: a full backlog loses its oldest frame. *)
Enqueue(n) == backlog' = Append(IF Len(backlog) >= BacklogMax THEN Tail(backlog) ELSE backlog, n)

(* drain_backlog, a frame at a time. *)
RxDrain(t) ==
    /\ work[t].pc = "rxdrain"
    /\ IF backlog # <<>> /\ avail["rx"] # <<>>
       THEN /\ Deliver(Head(backlog))
            /\ backlog' = Tail(backlog)
            /\ work' = [work EXCEPT ![t].signalled = TRUE]
       ELSE Goto(t, "rxread") /\ UNCHANGED <<avail, used, got, backlog>>
    /\ UNCHANGED <<transport, hand, bad, evt, line, guest, tap, arrived, pages, limiter, machine>>

\* Variant: whenever there is a buffer.
DirectIfBuffer == avail["rx"] # <<>>

(* A frame may go straight to the guest. *)
Direct == backlog = <<>> /\ avail["rx"] # <<>>

(* One turn of the loop over the TAP. *)
RxRead(t) ==
    /\ work[t].pc = "rxread"
    /\ IF tap = <<>>
       THEN /\ Goto(t, IF work[t].signalled THEN "flag" ELSE "poll")
            /\ UNCHANGED <<avail, used, got, backlog, tap>>
       ELSE /\ tap' = Tail(tap)
            /\ IF Direct
               THEN /\ Deliver(Head(tap))
                    /\ work' = [work EXCEPT ![t].signalled = TRUE]
                    /\ UNCHANGED backlog
               ELSE Enqueue(Head(tap)) /\ UNCHANGED <<avail, used, got, work>>
    /\ UNCHANGED <<transport, hand, bad, evt, line, guest, arrived, pages, limiter, machine>>

-------------------------------------------------------------------------------
(* The machine: assembled, frozen into a snapshot, assembled again. *)

(* snapshot, with every queue drained, and a new machine for its image: the  *)
(* rings are in it, and so is a pending interrupt if it was raised before    *)
(* the vCPUs' state was saved; the interrupt status, the eventfds, the       *)
(* backlog and the buckets are not.                                          *)
Snapshot ==
    /\ vm = "run" /\ kind # "balloon" /\ status = "ok" /\ activated /\ restores < MaxRestores
    /\ \A q \in Queues : work[Thread(q)].pc = "poll" /\ (q = "rx" \/ avail[q] = <<>>)
    /\ Unacked \/ (~isr /\ ~irq /\ driver = "run")
    /\ vm' = "new" /\ saved' \in {FALSE, irq} /\ restores' = restores + 1
    /\ status' = "reset" /\ activated' = FALSE /\ moved' = FALSE
    /\ work' = [t \in Threads |-> Idle]
    /\ isr' = FALSE /\ irq' = FALSE /\ evt' = [q \in AllQueues |-> FALSE]
    /\ backlog' = <<>> /\ tap' = <<>>
    /\ tokens' = Full /\ since' = 0 /\ nap' = 0 /\ waited' = 0 /\ ideal' = FullIdeal
    /\ UNCHANGED <<kind, ready, rings, guest, got, arrived, pages>>

(* attach_virtio: the transport gets its window on the bus and its line. *)
attach_virtio == vm = "new" /\ vm' = "attached"

(* restore_activate: the queues are rebuilt from the saved cursors and the   *)
(* device is live at once; the driver, which is past its handshake, will not *)
(* activate it.                                                              *)
restore_activate ==
    IF activated THEN UNCHANGED <<status, activated, moved, work>> ELSE Activate

(* The devices of start: they wait for DRIVER_OK. *)
AttachBooted ==
    /\ restores = 0 /\ attach_virtio
    /\ UNCHANGED <<saved, restores, transport, rings, evt, line, work, guest, frames, pages, limiter>>

(* The devices of resume_from_state: their workers run from here on. *)
AttachRestored ==
    /\ restores > 0 /\ attach_virtio /\ restore_activate
    /\ UNCHANGED <<saved, restores, kind, ready, rings, evt, line, guest, frames, pages, limiter>>

(* resume_from_state, 3b: restore_irqchip overwrites the irqchip with the    *)
(* image's.                                                                  *)
RestoreIrqchip ==
    /\ vm = "attached" /\ restores > 0 /\ vm' = "irqchip"
    /\ irq' = saved
    /\ UNCHANGED <<saved, restores, transport, rings, evt, isr, work, guest, frames, pages, limiter>>

(* The vCPU threads of start. *)
StartVcpus ==
    /\ vm = "attached" /\ restores = 0 /\ vm' = "run"
    /\ UNCHANGED <<saved, restores, transport, rings, evt, line, work, guest, frames, pages, limiter>>

(* The vCPU threads of resume_from_state, each with its saved state. *)
ResumeVcpus ==
    /\ vm = "irqchip" /\ vm' = "run"
    /\ UNCHANGED <<saved, restores, transport, rings, evt, line, work, guest, frames, pages, limiter>>

-------------------------------------------------------------------------------
Step(t) ==
    \/ \E q \in AllQueues : Poll(t, q)
    \/ Pop(t) \/ Serve(t) \/ Publish(t) \/ Flag(t) \/ RaiseIrq(t)
    \/ Inflate(t) \/ Load(t) \/ CompareExchange(t)
    \/ TryAdmit(t)
    \/ RxDrain(t) \/ RxRead(t)

Handler == IsrEnter \/ IsrAck \/ IsrReap

Next ==
    \/ \E q \in Queues : SetReady(q) \/ Post(q) \/ Notify(q)
    \/ Probe \/ DriverOk \/ Reset
    \/ Handler
    \/ \E t \in Threads : Step(t)
    \/ Tick \/ FrameArrives
    \/ AttachBooted \/ StartVcpus
    \/ Snapshot \/ AttachRestored \/ RestoreIrqchip \/ ResumeVcpus

Spec == Init /\ [][Next]_vars

-------------------------------------------------------------------------------
(* Properties. *)

(* Frames reach the guest in the order the TAP gave them: none in the        *)
(* backlog has been overtaken, though a full backlog and a snapshot may drop *)
(* some (process_rx, drain_backlog).                                         *)
RxInOrder ==
    LET all == got \o backlog \o tap IN
    \A i \in 1..Len(all) - 1 : all[i] < all[i + 1]

(* The limiter, which refills by whole milliseconds and only when it is      *)
(* asked, never gets ahead of a bucket that is refilled continuously by more *)
(* than a millisecond's refill: no time is counted twice, whatever the       *)
(* sleeps and the give-ups (try_admit, wait_admit).                          *)
BudgetKept == \A d \in Dims : tokens[d] * TicksPerMs <= ideal[d]

(* When no request is outstanding the balloon's `actual` is the number of    *)
(* pages the guest has given up, though both workers update it               *)
(* (balloon.rs process_queue).                                               *)
BalloonExact ==
    (\A q \in QueuesOf["balloon"] : avail[q] = <<>> /\ hand[q] = None /\ used[q] = <<>>)
        => actual = owned

(* Neither the workers, the guest's handler nor a notification it owes has  *)
(* anything left to do.                                                      *)
Quiet ==
    /\ vm = "run" /\ kick = {} /\ driver = "run" /\ ~irq
    /\ \A t \in Threads : work[t].pc \in {"none", "poll"}
    /\ \A q \in Queues : ~evt[q]
    /\ tap = <<>>

(* No wakeup is lost: when everything rests, every chain published has been  *)
(* returned and seen by the guest's handler, and no frame waits that has a   *)
(* buffer to go to; unless the driver has reset the device or published a    *)
(* malformed chain (notify, process_queue, signal_used_queue, process_rx).   *)
NoLostWakeup ==
    Quiet /\ status = "ok" /\ (\A q \in Queues : bad[q] = {}) =>
        /\ \A q \in Queues : used[q] = <<>> /\ (q = "rx" \/ avail[q] = <<>>)
        /\ backlog = <<>> \/ avail["rx"] = <<>>
===============================================================================
