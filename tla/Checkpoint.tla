------------------------------ MODULE Checkpoint ------------------------------
(***************************************************************************)
(* The capture-and-continue barrier of mm-vmm (checkpoint.rs) together     *)
(* with everybody who takes part in it: the orchestrator, the thread that  *)
(* holds the Machine mutex and runs quiesce_at_barrier / release_barrier / *)
(* the freeze-only pause / shutdown (machine.rs); the vCPU threads         *)
(* (vcpu.rs); and the virtio device workers (devices/block.rs, net.rs,     *)
(* vsock.rs).                                                              *)
(*                                                                         *)
(* Each load or store of an atomic that another thread can observe is a    *)
(* step of its own.  Captured states are abstracted to whether they still  *)
(* describe their owner ("fresh") or the owner ran since ("stale"); a      *)
(* virtqueue is abstracted to whether the guest has made a chain available *)
(* that the worker has not consumed.                                       *)
(***************************************************************************)
EXTENDS Naturals, FiniteSets

CONSTANTS
    Vcpus,          \* the vCPU threads
    Devices,        \* the device workers that own a pause handle
    Draining,       \* those that drain their queues on pause (block, net;
                    \* vsock only captures its cursors)
    Tapped,         \* those that also poll a TAP device (net)
    NoDevice,       \* "this vCPU is about to notify nobody"
    MaxOps          \* bound: operations the orchestrator performs

Participants == Vcpus \union Devices

ASSUME ParticipantsAssumption ==
    /\ IsFiniteSet(Vcpus) /\ Vcpus # {}
    /\ IsFiniteSet(Devices)
    /\ Vcpus \intersect Devices = {}
    /\ Tapped \subseteq Draining /\ Draining \subseteq Devices
    /\ NoDevice \notin Devices

ASSUME BoundAssumption == MaxOps \in Nat

VARIABLES
    requested, released, parked,    \* the atomics of Checkpoint
    pause, stop,                    \* Machine::vcpu_pause, Machine::vcpu_stop
    pc,                             \* program counter of each participant
    slot,                           \* capture slot of each participant
    evt,                            \* pause eventfd of each device
    notify, pending,                \* notify eventfd; unconsumed avail entries
    about,                          \* device the vCPU is about to notify
    orch, op, ops,                  \* orchestrator: where, in what, how many
    todo, cur,                      \* pause_devices: devices left, the awaited
    image,                          \* what the operation took from the slots
    (* History: no step of the code reads these.                              *)
    missed,                         \* whom a deadline of some round overtook
    spoilt                          \* whose capture may outlive its round

barrier  == <<requested, released, parked>>
flags    == <<pause, stop>>
rings    == <<notify, pending, about>>
orchVars == <<orch, op, ops, todo, cur, image>>
history  == <<missed, spoilt>>
vars     == <<barrier, flags, pc, slot, evt, rings, orchVars, history>>

Captures == {"none", "fresh", "stale"}

VcpuPcs   == {"loop", "guest", "capture", "parking", "parked", "leaving", "exited", "error"}
DevicePcs == {"inactive", "serve", "busy", "busyPause", "pause", "draining", "filled",
              "trailing", "parking", "parked", "leaving", "exited"}
OrchPcs   == {"idle", "request", "wake", "waitParked", "quiesced", "release",
              "released", "waitResumed", "join", "freezeNext", "freezeWait",
              "frozen", "failed", "down"}
InPlace   == {"vcpus", "full"}
OpKinds   == InPlace \union {"freeze", "shutdown"}

TypeOK ==
    /\ requested \in BOOLEAN /\ released \in BOOLEAN /\ parked \in Nat
    /\ pause \in BOOLEAN /\ stop \in BOOLEAN
    /\ pc \in [Participants -> VcpuPcs \union DevicePcs]
    /\ \A v \in Vcpus : pc[v] \in VcpuPcs
    /\ \A d \in Devices : pc[d] \in DevicePcs
    /\ slot \in [Participants -> Captures]
    /\ evt \in [Devices -> BOOLEAN]
    /\ notify \in [Devices -> BOOLEAN] /\ pending \in [Devices -> BOOLEAN]
    /\ about \in [Vcpus -> Devices \union {NoDevice}]
    /\ orch \in OrchPcs /\ op \in OpKinds \union {"none"} /\ ops \in 0..MaxOps
    /\ todo \subseteq Devices /\ cur \in Devices \union {NoDevice}
    /\ image \in [Participants -> Captures]
    /\ missed \subseteq Participants /\ spoilt \subseteq Participants

(* A booted guest has yet to find its devices; a restored one resumes with    *)
(* their workers running (restore_activate).                                  *)
Init ==
    /\ requested = FALSE /\ released = FALSE /\ parked = 0
    /\ pause = FALSE /\ stop = FALSE
    /\ \E started \in {"inactive", "serve"} :
           pc = [p \in Participants |-> IF p \in Vcpus THEN "loop" ELSE started]
    /\ slot = [p \in Participants |-> "none"]
    /\ evt = [d \in Devices |-> FALSE]
    /\ notify = [d \in Devices |-> FALSE]
    /\ pending = [d \in Devices |-> FALSE]
    /\ about = [v \in Vcpus |-> NoDevice]
    /\ orch = "idle" /\ op = "none" /\ ops = 0
    /\ todo = {} /\ cur = NoDevice
    /\ image = [p \in Participants |-> "none"]
    /\ missed = {} /\ spoilt = {}

(* The participant moves; its capture, if it had one, no longer describes it. *)
Goto(p, to)  == pc' = [pc EXCEPT ![p] = to]
Outdate(p)   == slot' = [slot EXCEPT ![p] = IF @ = "fresh" THEN "stale" ELSE @]
Fill(p)      == slot' = [slot EXCEPT ![p] = "fresh"]

-------------------------------------------------------------------------------
(* Checkpoint::park, shared by vCPU threads and device workers. *)

\* Variant: the thread parks without counting itself.
ParkEnterUncounted(p) ==
    /\ pc[p] = "parking"
    /\ Goto(p, "parked")
    /\ UNCHANGED <<barrier, flags, slot, evt, rings, orchVars, history>>

ParkEnter(p) ==
    /\ pc[p] = "parking"
    /\ parked' = parked + 1
    /\ Goto(p, "parked")
    /\ UNCHANGED <<requested, released, flags, slot, evt, rings, orchVars, history>>

ParkSeeReleased(p) ==
    /\ pc[p] = "parked"
    /\ released
    /\ Goto(p, "leaving")
    /\ UNCHANGED <<barrier, flags, slot, evt, rings, orchVars, history>>

ParkLeave(p) ==
    /\ pc[p] = "leaving"
    /\ parked' = parked - 1
    /\ Goto(p, IF p \in Vcpus THEN "loop" ELSE "serve")
    /\ UNCHANGED <<requested, released, flags, slot, evt, rings, orchVars, history>>

Park(p) == ParkEnter(p) \/ ParkSeeReleased(p) \/ ParkLeave(p)

-------------------------------------------------------------------------------
(* vCPU thread: Vcpu::run, do_pause, checkpoint. *)

(* Top of the loop: stop, then pause (capture and exit), then checkpoint. *)
VcpuStop(v) ==
    /\ pc[v] = "loop" /\ stop
    /\ Goto(v, "exited")
    /\ UNCHANGED <<barrier, flags, slot, evt, rings, orchVars, history>>

VcpuDoPause(v) ==
    /\ pc[v] = "loop" /\ ~stop /\ pause
    /\ Fill(v)
    /\ Goto(v, "exited")
    /\ UNCHANGED <<barrier, flags, evt, rings, orchVars, history>>

VcpuObserve(v) ==
    /\ pc[v] = "loop" /\ ~stop /\ ~pause /\ requested
    /\ Goto(v, "capture")
    /\ UNCHANGED <<barrier, flags, slot, evt, rings, orchVars, history>>

VcpuCapture(v) ==
    /\ pc[v] = "capture"
    /\ Fill(v)
    /\ Goto(v, "parking")
    /\ UNCHANGED <<barrier, flags, evt, rings, orchVars, history>>

(* capture_state failed: run returns the error and the thread ends with it. *)
VcpuCaptureFails(v) ==
    /\ \/ pc[v] = "capture"
       \/ pc[v] = "loop" /\ ~stop /\ pause
    /\ Goto(v, "error")
    /\ UNCHANGED <<barrier, flags, slot, evt, rings, orchVars, history>>

(* All three flags read FALSE: enter KVM_RUN and execute guest code. *)
VcpuEnter(v) ==
    /\ pc[v] = "loop" /\ ~stop /\ ~pause /\ ~requested
    /\ Outdate(v)
    /\ Goto(v, "guest")
    /\ UNCHANGED <<barrier, flags, evt, rings, orchVars, history>>

(* EINTR (the kick) or an exit that touches no modelled device. *)
VcpuExit(v) ==
    /\ pc[v] = "guest"
    /\ Goto(v, "loop")
    /\ UNCHANGED <<barrier, flags, slot, evt, rings, orchVars, history>>

(* The driver writes DRIVER_OK: the transport activates the device, whose    *)
(* worker starts with whatever its pause event holds by then.                *)
GuestActivate(v, d) ==
    /\ pc[v] = "guest" /\ about[v] = NoDevice
    /\ pc[d] = "inactive"
    /\ pc' = [pc EXCEPT ![v] = "loop", ![d] = "serve"]
    /\ UNCHANGED <<barrier, flags, slot, evt, rings, orchVars, history>>

(* The driver publishes a chain in d's avail ring; the notify comes after. *)
GuestSubmit(v, d) ==
    /\ pc[v] = "guest" /\ about[v] = NoDevice
    /\ pc[d] # "inactive"
    /\ pending' = [pending EXCEPT ![d] = TRUE]
    /\ about' = [about EXCEPT ![v] = d]
    /\ UNCHANGED <<barrier, flags, pc, slot, evt, notify, orchVars, history>>

(* The QueueNotify write exits to the VMM, which signals the worker. *)
GuestNotify(v) ==
    /\ pc[v] = "guest" /\ about[v] # NoDevice
    /\ notify' = [notify EXCEPT ![about[v]] = TRUE]
    /\ about' = [about EXCEPT ![v] = NoDevice]
    /\ Goto(v, "loop")
    /\ UNCHANGED <<barrier, flags, slot, evt, pending, orchVars, history>>

(* HLT or triple fault: the loop ends; a failed KVM_RUN or an unexpected     *)
(* exit: it ends with an error.                                             *)
GuestPowerOff(v) ==
    /\ pc[v] = "guest"
    /\ Goto(v, "exited") \/ Goto(v, "error")
    /\ UNCHANGED <<barrier, flags, slot, evt, rings, orchVars, history>>

VcpuStep(v) ==
    \/ VcpuStop(v) \/ VcpuDoPause(v) \/ VcpuObserve(v) \/ VcpuCapture(v)
    \/ VcpuEnter(v) \/ GuestNotify(v) \/ Park(v)

GuestChoice(v) ==
    \/ VcpuExit(v) \/ VcpuCaptureFails(v) \/ GuestPowerOff(v)
    \/ \E d \in Devices : GuestActivate(v, d) \/ GuestSubmit(v, d)

-------------------------------------------------------------------------------
(* Device worker: block_worker, NetWorker::process, VsockWorker::run. *)

(* poll() returns with the set of descriptors that are readable now; the    *)
(* notify is handled before the pause event of the same return.             *)
DevicePoll(d) ==
    /\ pc[d] = "serve"
    /\ notify[d] \/ evt[d]
    /\ Goto(d, CASE notify[d] /\ evt[d] -> "busyPause"
                 [] notify[d] /\ ~evt[d] -> "busy"
                 [] ~notify[d] -> "pause")
    /\ UNCHANGED <<barrier, flags, slot, evt, rings, orchVars, history>>

(* Read the notify eventfd and drain every available chain. *)
DeviceServe(d) ==
    /\ pc[d] \in {"busy", "busyPause"}
    /\ notify' = [notify EXCEPT ![d] = FALSE]
    /\ pending' = [pending EXCEPT ![d] = FALSE]
    /\ Outdate(d)
    /\ Goto(d, IF pc[d] = "busy" THEN "serve" ELSE "pause")
    /\ UNCHANGED <<barrier, flags, evt, about, orchVars, history>>

\* Variant: the worker clears both of its event counters.
DeviceReadPauseBoth(d) ==
    /\ pc[d] = "pause"
    /\ evt' = [evt EXCEPT ![d] = FALSE]
    /\ notify' = [notify EXCEPT ![d] = FALSE]
    /\ Goto(d, "draining")
    /\ UNCHANGED <<barrier, flags, slot, pending, about, orchVars, history>>

DeviceReadPause(d) ==
    /\ pc[d] = "pause"
    /\ evt' = [evt EXCEPT ![d] = FALSE]
    /\ Goto(d, "draining")
    /\ UNCHANGED <<barrier, flags, slot, rings, orchVars, history>>

(* Final drain (not in vsock), then the cursors go into the slot. *)
DeviceCapture(d) ==
    /\ pc[d] = "draining"
    /\ pending' = [pending EXCEPT ![d] = @ /\ d \notin Draining]
    /\ Fill(d)
    /\ Goto(d, "filled")
    /\ UNCHANGED <<barrier, flags, evt, notify, about, orchVars, history>>

(* A checkpoint is requested: park.  Otherwise this is a freeze: exit; but   *)
(* the net worker looks at pause_done only after the batch of events that    *)
(* held the pause, and a readable TAP may come after it in that batch.       *)
DeviceParkOrExit(d) ==
    /\ pc[d] = "filled"
    /\ \/ requested /\ Goto(d, "parking")
       \/ ~requested /\ Goto(d, "exited")
       \/ ~requested /\ d \in Tapped /\ Goto(d, "trailing")
    /\ UNCHANGED <<barrier, flags, slot, evt, rings, orchVars, history>>

(* process_rx after the capture: the cursors of the rx queue move on. *)
DeviceTrail(d) ==
    /\ pc[d] = "trailing"
    /\ Outdate(d)
    /\ image' = [image EXCEPT ![d] = IF @ = "fresh" THEN "stale" ELSE @]
    /\ spoilt' = spoilt \union {d}
    /\ Goto(d, "exited")
    /\ UNCHANGED <<barrier, flags, evt, rings, orch, op, ops, todo, cur, missed>>

DeviceStep(d) ==
    \/ DevicePoll(d) \/ DeviceServe(d) \/ DeviceReadPause(d) \/ DeviceCapture(d)
    \/ DeviceParkOrExit(d) \/ DeviceTrail(d) \/ Park(d)

-------------------------------------------------------------------------------
(* Orchestrator, in-place operations: checkpoint_in_place ("vcpus");       *)
(* checkpoint_full_in_place, snapshot_in_place and each barrier of branch  *)
(* ("full").                                                               *)

Included == IF op = "full" THEN Participants ELSE Vcpus
Total    == Cardinality(Included)
Inside   == {p \in Participants : pc[p] \in {"parked", "leaving"}}
At(from, to) == orch = from /\ orch' = to

\* Variant: request() does not clear the previous release.
BeginInPlaceStaleRelease(kind) ==
    /\ ops < MaxOps
    /\ At("idle", "request")
    /\ op' = kind /\ ops' = ops + 1
    /\ UNCHANGED <<barrier, flags, pc, slot, evt, rings, todo, cur, image, history>>

BeginInPlace(kind) ==
    /\ ops < MaxOps
    /\ At("idle", "request")
    /\ op' = kind /\ ops' = ops + 1
    /\ released' = FALSE
    /\ UNCHANGED <<requested, parked, flags, pc, slot, evt, rings, todo, cur, image, history>>

RequestStore ==
    /\ At("request", "wake")
    /\ requested' = TRUE
    /\ UNCHANGED <<released, parked, flags, pc, slot, evt, rings,
                   op, ops, todo, cur, image, history>>

\* Variant: the devices are woken even when the operation excludes them.
WakeDevicesAlways ==
    /\ At("wake", "waitParked")
    /\ evt' = [d \in Devices |-> TRUE]
    /\ UNCHANGED <<barrier, flags, pc, slot, rings, op, ops, todo, cur, image, history>>

WakeDevices ==
    /\ At("wake", "waitParked")
    /\ evt' = [d \in Devices |-> evt[d] \/ op = "full"]
    /\ UNCHANGED <<barrier, flags, pc, slot, rings, op, ops, todo, cur, image, history>>

AllParked ==
    /\ At("waitParked", "quiesced")
    /\ parked >= Total
    /\ UNCHANGED <<barrier, flags, pc, slot, evt, rings, op, ops, todo, cur, image, history>>

\* Variant: the timeout returns without releasing the barrier.
ParkDeadlineNoRelease ==
    /\ At("waitParked", "idle")
    /\ parked < Total
    /\ op' = "none"
    /\ UNCHANGED <<barrier, flags, pc, slot, evt, rings, ops, todo, cur, image, history>>

(* The 10 s deadline passed with the barrier incomplete: give up.  It has    *)
(* overtaken whoever could still have come; a thread that ended could not.   *)
ParkDeadline ==
    /\ At("waitParked", "release")
    /\ parked < Total
    /\ image' = [p \in Participants |-> "none"]
    /\ missed' = missed \union
                    {p \in Included : pc[p] \notin {"parked", "exited", "error"}}
    /\ spoilt' = spoilt \union Included
    /\ UNCHANGED <<barrier, flags, pc, slot, evt, rings, op, ops, todo, cur>>

\* Variant: the states are cloned out of the slots, not taken.
CollectClones ==
    /\ At("quiesced", "release")
    /\ LET filled == {p \in Included : slot[p] # "none"}
       IN \/ /\ filled = Included
             /\ image' = [p \in Participants |->
                            IF p \in Included THEN slot[p] ELSE "none"]
             /\ spoilt' = spoilt \ Included
          \/ /\ filled # Included
             /\ image' = [p \in Participants |-> "none"]
             /\ spoilt' = spoilt \union Included
    /\ UNCHANGED <<barrier, flags, pc, slot, evt, rings, op, ops, todo, cur, missed>>

(* collect_vcpu_states / collect_device_states take the slots in order and  *)
(* stop at the first empty one: then the operation fails, some slots taken. *)
Collect ==
    /\ At("quiesced", "release")
    /\ LET filled == {p \in Included : slot[p] # "none"}
       IN \/ /\ filled = Included
             /\ image' = [p \in Participants |->
                            IF p \in Included THEN slot[p] ELSE "none"]
             /\ slot' = [p \in Participants |->
                            IF p \in Included THEN "none" ELSE slot[p]]
             /\ spoilt' = spoilt \ Included
          \/ /\ filled # Included
             /\ image' = [p \in Participants |-> "none"]
             /\ spoilt' = spoilt \union Included
             /\ \E taken \in SUBSET filled :
                    slot' = [p \in Participants |->
                                IF p \in taken THEN "none" ELSE slot[p]]
    /\ UNCHANGED <<barrier, flags, pc, evt, rings, op, ops, todo, cur, missed>>

(* The first barrier of branch, and those of its two error paths, end with    *)
(* nothing taken from the slots: they stay filled for the next to look.      *)
LeaveSlots ==
    /\ At("quiesced", "release")
    /\ op = "full"
    /\ image' = [p \in Participants |-> "none"]
    /\ spoilt' = spoilt \union Included
    /\ UNCHANGED <<barrier, flags, pc, slot, evt, rings, op, ops, todo, cur, missed>>

ReleaseRequest ==
    /\ At("release", "released")
    /\ requested' = FALSE
    /\ UNCHANGED <<released, parked, flags, pc, slot, evt, rings,
                   op, ops, todo, cur, image, history>>

ReleaseStore ==
    /\ At("released", "waitResumed")
    /\ released' = TRUE
    /\ UNCHANGED <<requested, parked, flags, pc, slot, evt, rings,
                   op, ops, todo, cur, image, history>>

(* wait_until_resumed: parked reached zero, or its deadline passed with       *)
(* somebody still inside.                                                    *)
Resumed ==
    /\ At("waitResumed", "idle")
    /\ op' = "none"
    /\ missed' = missed \union Inside
    /\ UNCHANGED <<barrier, flags, pc, slot, evt, rings, ops, todo, cur, image, spoilt>>

-------------------------------------------------------------------------------
(* Orchestrator, terminal operations: the freeze-only snapshot             *)
(* (pause_and_capture_vcpus, then pause_devices) and shutdown.             *)

BeginFreeze ==
    /\ ops < MaxOps
    /\ At("idle", "join")
    /\ op' = "freeze" /\ ops' = ops + 1
    /\ pause' = TRUE
    /\ UNCHANGED <<barrier, stop, pc, slot, evt, rings, todo, cur, image, history>>

BeginShutdown ==
    /\ ops < MaxOps
    /\ At("idle", "join")
    /\ op' = "shutdown" /\ ops' = ops + 1
    /\ stop' = TRUE
    /\ UNCHANGED <<barrier, pause, pc, slot, evt, rings, todo, cur, image, history>>

(* Every vCPU thread joined.  A freeze fails on a thread that returned an   *)
(* error and on an empty slot; otherwise it takes the slots.                *)
Joined ==
    /\ orch = "join" /\ \A v \in Vcpus : pc[v] \in {"exited", "error"}
    /\ \/ /\ op = "shutdown" /\ orch' = "down"
          /\ UNCHANGED <<slot, image, todo>>
       \/ /\ op = "freeze" /\ \E v \in Vcpus : pc[v] = "error" \/ slot[v] = "none"
          /\ orch' = "failed"
          /\ UNCHANGED <<slot, image, todo>>
       \/ /\ op = "freeze" /\ \A v \in Vcpus : pc[v] = "exited" /\ slot[v] # "none"
          /\ orch' = "freezeNext"
          /\ image' = [p \in Participants |->
                         IF p \in Vcpus THEN slot[p] ELSE "none"]
          /\ slot' = [p \in Participants |->
                         IF p \in Vcpus THEN "none" ELSE slot[p]]
          /\ todo' = Devices
    /\ UNCHANGED <<barrier, flags, pc, evt, rings, op, ops, cur, history>>

FreezeNext ==
    /\ orch = "freezeNext"
    /\ \/ /\ todo = {} /\ orch' = "frozen"
          /\ UNCHANGED <<evt, todo, cur>>
       \/ \E d \in todo :
             /\ orch' = "freezeWait" /\ cur' = d /\ todo' = todo \ {d}
             /\ evt' = [evt EXCEPT ![d] = TRUE]
    /\ UNCHANGED <<barrier, flags, pc, slot, rings, op, ops, image, history>>

(* wait_for_capture takes whatever the slot holds as soon as it is filled. *)
FreezeTake ==
    /\ At("freezeWait", "freezeNext")
    /\ slot[cur] # "none"
    /\ image' = [image EXCEPT ![cur] = slot[cur]]
    /\ slot' = [slot EXCEPT ![cur] = "none"]
    /\ UNCHANGED <<barrier, flags, pc, evt, rings, op, ops, todo, cur, history>>

FreezeDeadline ==
    /\ At("freezeWait", "failed")
    /\ slot[cur] = "none"
    /\ UNCHANGED <<barrier, flags, pc, slot, evt, rings, op, ops, todo, cur, image, history>>

BeginOp == (\E kind \in InPlace : BeginInPlace(kind)) \/ BeginFreeze \/ BeginShutdown

OrchStep ==
    \/ RequestStore \/ WakeDevices \/ AllParked \/ ParkDeadline \/ Collect
    \/ LeaveSlots \/ ReleaseRequest \/ ReleaseStore \/ Resumed
    \/ Joined \/ FreezeNext \/ FreezeTake \/ FreezeDeadline

Next ==
    \/ BeginOp \/ OrchStep
    \/ \E v \in Vcpus : VcpuStep(v) \/ GuestChoice(v)
    \/ \E d \in Devices : DeviceStep(d)

Spec == Init /\ [][Next]_vars

(* The scheduler runs every thread; the orchestrator's loops kick a vCPU    *)
(* out of KVM_RUN for as long as it wants something of it.                  *)
Kicked(v) == (orch = "waitParked" \/ orch = "join") /\ VcpuExit(v)

Fairness ==
    /\ WF_vars(OrchStep)
    /\ \A v \in Vcpus : WF_vars(VcpuStep(v)) /\ WF_vars(Kicked(v))
    /\ \A d \in Devices : WF_vars(DeviceStep(d))

FairSpec == Spec /\ Fairness

-------------------------------------------------------------------------------
(* quiesce_at_barrier, machine.rs:875-879: when the orchestrator believes    *)
(* that all participants are parked, each of them really is and its slot     *)
(* holds the state it is parked in, as long as no round was cut short: after *)
(* one, a late thread of that round can be counted for one of this round.    *)
BarrierQuiescent ==
    orch = "quiesced" /\ missed = {} =>
        \A p \in Included : pc[p] = "parked" /\ slot[p] = "fresh"

(* devices/mod.rs:93-98: a device worker exits because the guest is being    *)
(* frozen; a checkpoint parks it and lets it serve again, unless a deadline  *)
(* of a checkpoint overtook that very worker, running or yet to be started.  *)
(* Whatever happens to the others in their rounds does not end it.           *)
WorkersSurvive == \A d \in Devices : pc[d] = "exited" => pause \/ d \in missed

(* What that comment says, with no exception: "the worker parks at the       *)
(* barrier after capturing, then resumes serving when released".             *)
WorkersAlwaysSurvive == \A d \in Devices : pc[d] = "exited" => pause

(* A chain that the worker did not consume is in the ring of the captured    *)
(* memory; the restored worker sees it only if a restored vCPU still has the *)
(* notify ahead of it (restore_activate kicks no queue).                     *)
RingCovered(d) == pending[d] => \E v \in Vcpus : about[v] = d

(* The frozen image has p's final state, and strands no request of p's.      *)
FrozenWhole(p) == image[p] = "fresh" /\ (p \in Devices => RingCovered(p))

(* pause_devices after pause_and_capture_vcpus: when no round was cut short, *)
(* a freeze that succeeds has a whole capture of everybody but those whose   *)
(* last round was released without collecting (machine.rs:1016-1037) and     *)
(* those who ran on past their capture (net.rs:139-141).                     *)
FrozenImageComplete ==
    orch = "frozen" /\ missed = {} => \A p \in Participants \ spoilt : FrozenWhole(p)

(* machine.rs:1228-1231, of the frozen guest: "each device's worker drains   *)
(* to a stable point before capturing": every device's capture is whole.     *)
FreezeDrainsAll == orch = "frozen" /\ missed = {} => \A d \in Devices : FrozenWhole(d)

(* devices/mod.rs:100-101: "Either way capture happens while the guest's     *)
(* vCPUs are paused, so the queues are stable": the same of an in-place      *)
(* capture.                                                                  *)
CapturedRingsStable ==
    orch = "quiesced" /\ op = "full" => \A d \in Devices : RingCovered(d)

(* machine.rs:775-780: the barrier is released on every exit path, so nobody *)
(* who goes to park stays there, whatever deadlines pass.                    *)
NoneStranded ==
    \A p \in Participants :
        pc[p] = "parking" ~> pc[p] \in {"loop", "serve"}

(* Every operation ends: the barrier fills or its deadline passes, and       *)
(* release_barrier and the joins return.                                     *)
OpsComplete == op # "none" ~> orch \in {"idle", "frozen", "failed", "down"}

(* machine.rs:775-780, 919-934: whatever deadlines pass, a round of the      *)
(* barrier ends for the orchestrator and for everybody who went to park.     *)
RoundsEnd == NoneStranded /\ OpsComplete

(* devices/block.rs:164-196, vsock.rs:435-455: a request the guest announced *)
(* while its worker was pausing or parked is not lost: the worker finds it   *)
(* after the release.                                                        *)
NotifiedServed == \A d \in Devices : notify[d] ~> ~pending[d] \/ pc[d] = "exited"
===============================================================================
