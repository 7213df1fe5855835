# micro_machines: TLA+ models and proofs

micro_machines boots microVMs on KVM. `mm-vmm` is the virtual machine monitor
(vCPU threads, virtio device workers, snapshots and live branches); `mm-host`
wraps it in a jailed worker process; `mm` is the single-host CLI; and
`mm-controller` with one `mm-agent` per host makes a cluster. This directory
models the parts of it in which several threads, processes or machines have to
agree, checks them with TLC and proves the central safety properties with TLAPS.

Paths below are relative to the repository (`crates/`, `services/`, `apps/`).

## Contents

| module | models | proofs |
|---|---|---|
| `Checkpoint` | the checkpoint barrier with its participants and its orchestrator | `CheckpointProofs` |
| `GuestSnapshot` | what a snapshot promises (abstract) | |
| `LiveBranch` | `branch` and `snapshot_in_place` over guest memory; implements `GuestSnapshot` | `LiveBranchProofs` |
| `Worker` | the worker process: reaper, control socket, machine lock | `ClusterSnapshotProofs` |
| `ControlPlane` | store, reconcile loop, scheduler, agents, workers | `ControlPlaneProofs` |
| `Exec` | cluster exec from the REST handler to the agent's task and back | `ExecProofs` |
| `ClusterSnapshot` | cluster snapshot from the REST handler to the worker and back; extends `Worker` | `ClusterSnapshotProofs` |
| `Virtio` | one virtio device: driver, transport, workers, limiter, balloon, restore | `VirtioProofs` |
| `GuestExec` | exec over vsock: host client, vsock device, exec agent, child, PID 1 | `GuestExecProofs` |
| `Host` | concurrent `mm` commands on one host: registry, network, jails, images, snapshots | `HostProofs` |

`MC<module>` and `<module>_<run>.cfg` instantiate a module for TLC. `PROJECT.json`
maps every definition to source lines and lists runs, mutants, hazards and theorems.
Configurations that no run uses reproduce deviations (see there).

    tlc -config Checkpoint_safe.cfg MCCheckpoint
    tlapm CheckpointProofs.tla

The models stack up. `Checkpoint` has every load and store of the barrier's
atomics. `LiveBranch` takes the barrier as one flag, which the theorem
`BarrierIsQuiescent` justifies until a round is cut short, and has a separate
action for a barrier after one that was (`QuiesceMiscounted`). `Worker` takes a whole
operation as one or two barriers and a manifest, which `ParentResumes` and
`BranchIsSnapshot` justify. `ControlPlane` takes a worker as something that boots,
runs and dies. `ClusterSnapshot` is `Worker` with the cluster's path to it around it:
a request is one of the worker's clients, and the theorem `ClusterImplementsWorker`
carries what is proved of the worker over. `Exec` is the cluster's path to the command
that `GuestExec` then runs in the guest. `Virtio` takes apart what `GuestExec` and
`Checkpoint` take as one step: publishing, notifying, interrupting. `Host` takes a
worker as something that is spawned, answers a snapshot request and dies.

## Inventory

| component | state | operations | hard about it |
|---|---|---|---|
| checkpoint barrier (`mm-vmm/src/checkpoint.rs`, `machine.rs`) | `requested`, `released`, `parked` | request, park, release, wait, time out | orderings of atomics, late participants |
| vCPU threads (`vcpu.rs`) | run flags, capture slot | enter and leave KVM_RUN, capture, park, stop | may be in the guest when asked to stop |
| device workers (`devices/{block,net,vsock}.rs`) | queues, notify and pause eventfds, capture slot | serve, drain, capture, park or exit | notify racing pause; freeze and checkpoint share one event |
| live branch, in-place snapshot (`machine.rs`, `snapshot/engine.rs`) | dirty logs, image, metadata | two barriers, logging, copy, recopy, write | writers during the copy, failures at each step |
| balloon (`devices/balloon.rs`) | reclaimed pages | reclaim, mark | no pause handle |
| worker process (`mm-host/src/worker.rs`, `control.rs`) | machine mutex, control socket | serve a request, reap | two threads on one lock, poisoning |
| reconcile loop, scheduler (`mm-controller/src/loop.rs`, `reconcile.rs`, `scheduler.rs`) | none of its own between passes | load, decide, place, send | works on rows that change meanwhile; crashes |
| controller store (`store.rs`) | machine and host rows | CRUD, retry counter, heartbeat | partial updates between queries |
| REST API (`api/*.rs`) | none | create, start, stop, delete, exec, snapshot | handlers dropped on disconnect |
| gRPC and dispatchers (`grpc.rs`) | open streams, pending requests | connect, send, route, finish | half-open connections, bounded channels |
| agent (`mm-agent/src/*.rs`) | redb records, sessions | boot, stop, report, exec, snapshot | crash between boot and record, lost reports |
| CLI and its store (`apps/mm`) | records, addresses, clone slots | run, stop, rm, branch, restore, snapshot, gc | two commands at once; a command killed anywhere |
| launch, networking (`mm-host/src/launch.rs`, `mm-net`) | jails, TAPs, namespaces, veths, routes, rules | make each in turn, undo | failures half-way |
| images (`mm-image/src/rootfs.rs`) | cache of base images, scratch trees | unpack, pack, publish | killed builds |
| snapshot store (`snapshot/store.rs`) | directories | new, list, remove, gc | gc against a snapshot being written or restored |
| vsock connections (`devices/vsock.rs`, `vsock_proto.rs`) | connection table, credit, backlog | open, data, credit, reset | credit wrap, full queues, half-closed connections |
| exec client and agent (`mm-sandbox/src/exec`, `mm-init`) | frames, child, owned pids | dial, retry, spawn, stream, time out, reap | three processes and PID 1 around one child |
| virtio transport and workers (`devices/*.rs`) | status, queues, interrupt status | register writes, activation, drain, signal | wakeups in both directions |
| rate limiter (`ratelimit.rs`) | tokens, time | admit, wait, give up | rounding of time |
| restore (`machine.rs`) | machine under assembly | attach, restore the irqchip, start vCPUs | the order of the three |
| boot, sandbox, auth, types | | set-up and pure functions | mostly I/O |

They interact through: the machine mutex (worker threads), atomics and eventfds
(orchestrator, vCPUs, devices), one Unix socket per worker (CLI or agent to
worker), files (snapshots), PostgreSQL rows (API and loop), and server streams that
the agent opens and the controller pushes into (assignments, exec, snapshots).

What makes each component correct, in one line each: a filled barrier is a quiet
machine and nobody is left behind; an image is one instant of its parent; a client
of the control socket is told the truth; a machine runs on at most one host and
desired state is reached; output is not lost, reordered or leaked; a recorded snapshot
exists; no wakeup between guest and device is lost; no side of a stream sends beyond
its credit and an exit code is the command's own; commands of one host do not tread
on each other's addresses, slots, images and jails.

## The modules and the code

### Checkpoint

A step per load or store another thread can see. `requested`, `released` and
`parked` are the fields of `Checkpoint`; `pause` and `stop` those of `Machine`; `pc`
the place of each participant; `slot` its capture slot, abstracted to whether the
state in it still describes its owner (`fresh`) or the owner ran since (`stale`).
A queue is two bits per device: a chain nobody consumed (`pending`), an unread
notify (`notify`); `about[v]` says that a vCPU has published a chain and not yet
notified. The orchestrator performs in-place checkpoints of the vCPUs alone or of
everything (`quiesce_at_barrier`, collect, `release_barrier`), the freeze-only
pause (`pause_and_capture_vcpus`, `pause_devices`), and `shutdown`; after a freeze,
a failed freeze or a shutdown it stops, as the machine is then done for. A full
barrier ends with the captures collected (`Collect`) or, as the first barrier of
`branch` and those of its two error paths, with nothing taken (`LeaveSlots`).

A booted guest starts with its devices `inactive`: a worker exists from the write of
`DRIVER_OK` on (`GuestActivate`), and the pause handle from the start, so a checkpoint can
come first. A restored guest starts with its workers running.

`Draining` are the workers that drain their queues on a pause (block, net); vsock
only captures its cursors. The net worker uses epoll and does not fix the order of
its events, but drains on pause, so the notify-before-pause order of `DevicePoll`
matters for the others. `Tapped` are those with a TAP (net): on a freeze such a worker
looks at `pause_done` only after the batch of events that held the pause, and may run
`process_rx` once more after its capture (`DeviceTrail`). After an in-place capture the
park comes at once, and what follows it follows the release.

Any deadline may pass at any time. Two history variables record what that leaves
behind; no step of the code reads them. `missed` are the participants that some deadline of a
checkpoint overtook, alive and not parked, or parked still when `release_barrier` gave
up; `spoilt` those whose slot may hold a capture of an earlier round, or that ran on
after their capture. The properties say with them exactly whom the code gives up.

Left out: malformed requests, errors of eventfd writes, the contents of captures.

### LiveBranch and GuestSnapshot

Memory is a function on words, dirtiness a set of pages, and copies move a word at
a time, so that a page can be torn. A guest write goes to KVM's log at once; a
device writes first and marks the `AtomicBitmap` later (`DmaWrite`, `DmaMark`); the
balloon worker discards a page and marks it later (`BalloonReclaim`,
`BalloonMark`), barrier or no barrier. `phase` follows `branch` and
`snapshot_in_place` with every early return; `Kill` ends the process anywhere.
`GuestSnapshot` says what the result is for: memory and registers are taken
together at one instant, and what becomes visible is such an instant. The
refinement mapping shows the image as `taken` once the last page is copied, and the
newest complete directory as `visible`.

`set_dirty_logging(false)` ignores its errors in the code and is modelled as
working.

### Worker

`Lock` … `Reply` are the steps of `serve_control` for one connection; `ReaperSeesOff`
… `ReaperPanics` those of the main thread. `OperationFails` is any error of the
operation, `Panic` a panic under the lock, `Killed` the kill that `mm stop` sends.
`Quiesce` succeeds only with every vCPU thread alive, as the barrier counts them.
`HeldUp` is the reaper in `wait_for_vcpus` with a vCPU that still runs: `powered_off` says
only that one has ended.

### ControlPlane

One pass of `reconcile_once` is cut at each query: rows are loaded
(`LoadMachines`), then hosts, then each row is decided, placed, saved and sent on
its own, while users edit and agents report. A machine takes one slot. An agent
handles one assignment at a time, in the steps of `handle_assignment`: boot or kill,
record in redb, report, advertise. `Faults` selects the failures of an instance:
controller restarts, failing queries, broken sessions, lost reports, a heartbeat
task that ends, failing boots, failing local writes, agent restarts, dying workers,
lost hosts. `orphans` is history: the workers whose agent died, or whose redb file
failed, between their boot and their `put`; it names them until they end.

### Exec

`caller` is the REST handler and then the task it spawns; `pending` and `inbox` the
dispatcher's table and the channels in it; `queue` the `WatchExec` stream; `task`,
`up` and `hand` the agent's task, its report channel and the chunk that
`report_exec_result` is routing. A chunk carries its number in the output, which is
what the order property talks about. A connection that breaks is `half` until the
controller notices: tasks dispatched in between are lost.

### ClusterSnapshot

`caller` and `told` are `api/snapshots.rs::create`, `pending` and `inbox` the
`SnapshotDispatcher`, `stream` and `queue` the `WatchSnapshots` stream, `task` and `result`
`snapshot.rs::run_and_report` in the agent, `pid` the agent's record of the machine, and
`rows` the table. Everything else is the state of `Worker`, whose clients are the
requests and local `mm` commands; `AskWorker` is the agent's `control::request`.
`DropHandler` is a client that disconnects, `BreakStream` a connection that breaks or
an agent that dies with its tasks, `ControllerRestarts` the loss of handlers, entries
and channels but not of the table. `RecordRowFails` leaves open whether the query took
effect. The report goes over a channel that reconnects by itself, so it may arrive
after a break. One machine, whose row says running; its placement is
`ControlPlane`'s subject.

### Virtio

One behaviour is about one device, of a kind chosen at the start. The driver writes
the status register, publishes chains and then notifies, acknowledges interrupts,
resets, and may publish a malformed chain. The transport moves the queues to the
device at `DRIVER_OK`. A worker polls, takes chains one by one, returns them and
signals; block and net ask the limiter first. Network frames go straight into a
buffer or into `rx_backlog`. The balloon has two workers and one counter. `Snapshot`
takes the queues and the interrupt controller of a paused machine; `AttachRestored`,
`RestoreIrqchip`, `StartVcpus` are `resume_from_state` in its order, `AttachBooted` is
that of `start`.

Malformed chains are modelled on the queues whose requests are parsed (block, tx). On rx,
inflate and deflate they are not: there an error ends the drain, and a frame with the signal
of those delivered before it (`net.rs:221-223`, `285`), or a count (`balloon.rs:170-171`),
is lost.

A descriptor chain is its head and is not reused while in flight; sector and frame
contents, feature and configuration registers are left out. Time is in ticks, two to
a millisecond, and `ideal` is a reference bucket that is refilled at every tick, with
room for one millisecond's refill more than the code's.

### GuestExec

The client's steps are those of `connect_exec_ready`, `vsock_connect` and
`run_exec_streaming`; the device's those of one round of `VsockWorker::run`
(`accept_uds`, `process_tx`, `pump_to_guest`, `flush_to_uds`, `drain_rx_backlog`); the guest's
sockets are external and do what virtio-vsock asks of a peer; the agent's are those of
`handle_exec`, with its reader as a thread of its own and the child as a process that
writes, exits or is killed; `reaper` is PID 1's peek and wait over `owned_children`. Credit
counts units modulo `Modulus` in place of 2^32. `Scenes` are the situations looked at;
a *calm* one has no timer running out and no failure.

Abstractions: ports and pids are not reused, an output or exit frame is one unit, a
child's two pipes are one, the split of large payloads is left out.

### Host

Every invocation of `mm` is a process that opens the registry (redb lets one process
at a time; a second open is an error), takes its steps and may fail or be killed
before any of them. `base` and `scratch` are the image cache and the build trees; `tap`,
`netns`, `veth`, `masq` and `route` what the `ip` and `iptables` commands leave; `jail` the files of a
jail and whose control socket is in it; `snaps` the files of each snapshot; `worker` the
worker a process spawned. `branch` closes the registry between choosing a slot and
writing the record; any number of branches may be in that gap, and the history variable
`crossed` names those that were there together with another. `wire_clone_net` is cut at the veth
pair, the host's rule and the host's route, with the commands inside the namespace as one
step (half of them is as good as none, and they go with the namespace);
`teardown_clone_net` is cut at each of its four commands, so a kill can leave any prefix of either.
The host starts with one machine running. An image is what its tree was when it was packed;
addresses and slots are small numbers.

Two limits. An address is the one allocated and recorded; a restored guest itself resumes
with the one captured in its RAM (`launch.rs:217-219`), which the model does not have, so
`BridgeAddressesDistinct` is about what the registry hands out. And the builds are those of
`mm`, which the registry serialises; the agent builds images without that lock, and
its builds are not modelled.

## Runs

Twelve, each a question of its own. The configurations in which TLC refutes what a comment
or document of the repository says are under Deviations.

| run | instance | shows |
|---|---|---|
| `checkpoint_safe` | 1 vCPU, a net and a vsock worker, booted or restored, 2 operations, any deadline may pass | `BarrierQuiescent`, `WorkersSurvive`, `FrozenImageComplete`, types |
| `checkpoint_late` | 1 vCPU, 1 device, 3 operations, any deadline may pass, fairness | `RoundsEnd` (`NoneStranded` and `OpsComplete`), `NotifiedServed` |
| `branch_coherent` | 3 words on 2 pages, 2 values, 1 operation, no balloon | `ImplementsSnapshot`, `ImageIsParent`, `NoLoggingLeft` |
| `branch_late` | 1 word, 2 operations, balloon, timeouts, failures, fairness | `ParentResumes`; types (an image taken as complete has no hole) |
| `worker_served` | 2 vCPUs, 3 clients, panics, kills, fairness | `ToldTheTruth`, `NoSnapshotCut`, `Served`, types |
| `cluster_safe` | 1 machine, 2 hosts, any 2 failures of all kinds, 2 edits | `OneHost`, `WorkersRecorded`, types (the retry budget) |
| `cluster_converge` | 1 machine, 1 host, 2 failures of five kinds, 2 edits, fairness | `Converges` (`StartConverges`, `StopConverges` and `PassEnds`) |
| `exec_routes` | 2 requests, 1 output chunk, every channel of capacity 1, fairness | `OutputInOrder`, `NoLeak`, `ExecEnds` (`CallerEnds` and `TasksEnd`), types |
| `cluster_snapshot` | 1 request, 1 local client, 1 vCPU, every failure, fairness | `RowsTrue`, `EntriesOwned`, `SnapshotsEnd` |
| `virtio_served` | a block, a net and a balloon device, 2 chains, 3 frames, 1 snapshot | `NoLostWakeup`, `RxInOrder`, `BudgetKept`, `BalloonExact`, types (the backlog) |
| `guest_exec` | four scenes: 2 clients; output of 2 chunks; a backlog of 1; everything failing; fairness | `ExitIsTrue`, `CreditKept`, `ExecAnswered`, types |
| `host_commands` | 3 invocations out of 12 commands on 3 names and 2 images | `CloneReachable`, `BridgeAddressesDistinct`, `CachedImagesWhole`, `FreshJailIsAsked`, types |

### Bounds

- Two operations are what one round needs to meet leftovers of another, three what
  a late participant needs to miss one round, disturb the next and be released in a
  third. A vCPU and two devices are three participants of three kinds: one late, one
  counted in its place, one not there. The proofs remove the bound.
- Two vCPUs are what it takes for one to end and another to run on under the reaper.
- Two words on one page and one on another give torn pages and pages that are
  written and not copied; two values tell stale from current.
- One machine on two hosts is what `OneHost` needs; two failures are what it takes
  for one to hide the other. Two slots in a stream let a stale assignment sit before
  a current one.
- Capacity 1 makes every channel of exec full at the first chunk; two requests make
  them compete for the stream. The proofs remove the bound.
- Three clients: one served, one waiting, one that comes late.
- One cluster snapshot with one local client competing for the worker; two requests
  exceed what TLC can do, and `RecordedSnapshotsExist` and `PendingEntriesOwned` are
  proved for any number.
- Two chains per queue and two ticks per millisecond: one chain is being served while
  another is published, and time is lost to rounding. Three frames against a backlog
  of one: one delivered, one waiting, one dropped. One snapshot is enough for
  whatever a restore leaves behind.
- Credit modulo 3 with buffers of 1 and 2 wraps within one exec. `Clients` and
  `Streams` of two give a retry, and two streams that share the queues.
- Three invocations: one that left something behind, one under way, one in between.
  Two clone slots and addresses up to 4 fill up.

Symmetry is used in safety runs only (`cluster_safe`, `host_commands`).

### Fairness

- *Checkpoint*: every thread is scheduled; the orchestrator's wait and join loops
  kick vCPUs out of `KVM_RUN` (`Kicked`), so a vCPU leaves the guest while it is
  wanted. Nothing is assumed of the guest or of who calls the operations.
- *LiveBranch*: the orchestrator runs; a device marks what it wrote; and the barrier
  fills if it can again and again (strong fairness, since a worker may start another
  DMA before it sees the pause event, but not for ever).
- *Worker*: both threads run; a client that connected sends its line, as
  `control::request` does at once, or gives up. No vCPU has to end. The client's
  read timeout is not needed for `Served`.
- *ControlPlane*: the loop ticks and agents serve, report and reconnect. Users and
  failures are free.
- *Exec*: handlers and tasks are scheduled, timers fire, a client reads its body or
  hangs up, a command ends within its timeout, a dead connection is noticed.
- *ClusterSnapshot*: handlers and tasks are scheduled, timers fire, a query returns, a
  broken connection is noticed, and of the worker what `Worker` assumes.
- *GuestExec*: weak fairness of the steps of the client, the device's worker, the guest
  kernel, the agent and the child together; whatever has something to do, something
  is done. Timers, failures and the end of the machine are not made to happen, and
  `ExecAnswered` is about scenes without them: it holds by credit and wakeups alone.

`CHECK_DEADLOCK FALSE` is set where the system may stop: a frozen, shut down or dead
machine, a worker that ended, requests and invocations that are all done, a device that
has nothing to do.

## Deviations

Where the code does other than a comment or document of it says, or than one would
expect. The first thirteen have a configuration that shows them: TLC reports the named
property as violated and prints the behaviour, e.g.

    tlc -config Worker_smp.cfg MCWorker

1. `Checkpoint_exit.cfg` (`WorkersAlwaysSurvive`): `devices/mod.rs:96-98` says that on a checkpoint
   "the worker **parks** at the barrier after capturing, then resumes serving when
   released". When the barrier runs into its deadline, `requested` is cleared and the
   pause events stay readable (`machine.rs:919`): a worker still draining, or one that
   `DRIVER_OK` starts only later, takes the pause for a freeze and exits while the guest
   runs on. `WorkersSurvive` says that this ends no other worker.
2. `Checkpoint_leftover.cfg` (`FreezeDrainsAll`): `machine.rs:1228-1231` says "each device's worker
   drains to a stable point before capturing". `branch` releases its first barrier and
   those of its error paths with the slots filled (`machine.rs:1016-1037`), and
   `wait_for_capture` takes what it finds: a freeze after a failed branch has an old capture of
   each device, and does not wait for the drain. (A branch that succeeds collects at
   its second barrier.) `FrozenImageComplete` is about everybody else.
3. `Checkpoint_rings.cfg` (`CapturedRingsStable`): `devices/mod.rs:100-101` says "Either way
   capture happens while the guest's vCPUs are paused, so the queues are stable."
   `quiesce_at_barrier` (`machine.rs:895`) wakes the devices before any vCPU has parked: a
   worker captures its cursors, a vCPU submits and notifies and then parks. The image
   has a chain in the ring and no notify to come; `restore_activate` kicks no queue.
4. `LiveBranch_balloon.cfg` (`ImageIsParent`): the balloon worker has no pause handle
   (`machine.rs:497`) and reclaims a page between the collection of the dirty log and the
   end of the recopy. `machine.rs:834-836` says "nothing mutates guest state while parked",
   `balloon.rs:227-231` that the mark makes a branch re-copy the page "at its final
   barrier".
5. `Worker_smp.cfg` (`Reaped`): the first vCPU thread to end sets `powered_off`
   (`machine.rs:565-567`, "so a holder of a shared Machine stops waiting on a dead guest");
   the reaper then joins all of them with the lock held, and nothing stops the others.
   `Served` says that nothing else keeps a client or the reaper waiting for good.
6. `ControlPlane_orphan.cfg` (`WorkersAlwaysRecorded`): `local_store.rs:3-5` says an agent persists what it
   owns "so a restart can re-discover its running microVMs". One that dies between boot
   and record (`mm-agent/src/main.rs:327-330`) leaves a worker that nobody knows.
   `WorkersRecorded` says that no other failure does.
7. `ControlPlane_lost.cfg` (`StartConverges`): reports are best-effort
   (`mm-agent/src/main.rs:366-368`) and an assignment for a machine already running returns
   without one (`main.rs:311`). One lost report and the row never says `running`; the loop
   (`loop.rs:1-2`) should be "converging within seconds".
8. `Host_gap.cfg` (`ClonesAlwaysReachable`): two branches between their two uses of the registry
   get the same slot and address; the wiring of the second fails and tears down the
   first one's. `branch.rs:41-43`: "a unique veth slot + host-routable clone_ip so it never
   collides". A run in that gap can take the address, or have its record
   overwritten. `CloneReachable` is about branches that crossed no other.
9. `Virtio_restored.cfg` (`NoLostWakeup`): the interrupt status register is not part of a
   snapshot. One taken between an interrupt and its acknowledgement restores to a guest
   whose handler reads no cause, while
   `docs/plans/2026-05-31-m3-sandbox-snapshot-fork.md:531` promises "an identical, resumable
   VM".
10. `Exec_entry.cfg` (`EntryAlwaysReleased`): `api/machines.rs:232-233` says "then always release
    the pending entry". A handler dropped between the dispatch and the spawn, at the
    audit query, leaves it. `NoLeak` excepts exactly this.
11. `GuestExec_reaped.cfg` (`ChildAlwaysClaimed`): `exec_agent.rs:220-222` says the child is claimed
    "so PID 1's orphan reaper does not race us for it"; it is claimed after its spawn, and
    one that ends in between may be reaped by PID 1 and is reported as -1.
    `ExitIsTrue` allows it.
12. `Virtio_early.cfg` (`NoLostWakeup`): on a restore the device workers run before
    `restore_irqchip` (`machine.rs:1633-1680`); an interrupt of a frame that arrives in
    between is overwritten.
13. `GuestExec_leak.cfg` (`GuestLearns`): when a client hangs up, the device sends a SHUTDOWN
    whose flags are 0 (`vsock.rs:666-668`, "tell the guest, then tear down"); a SHUTDOWN that
    shuts neither direction means nothing to the guest's socket, so the agent's thread
    and socket for that exec stay.

In the VMM:

- A participant of a timed-out round is counted in the next one
  (`machine.rs:907`); hence `BarrierQuiescent` is claimed until a round is cut short.
  `LiveBranch` takes this into account as `QuiesceMiscounted`.
- The net worker of a machine being frozen can deliver a frame after its cursors were
  captured (`net.rs:139-141`); `FrozenImageComplete` excepts it.
- A device reset does not stop its worker, and a second activation fails for good;
  `devices/mod.rs:350-353` says "not exercised in M1's one-shot boot, but kept correct".
  `NoLostWakeup` excepts a reset device.
- A malformed chain ends the drain without a signal for the chains served before it.
- `wait_admit` lets a request through when it gives up, charged with what is left.
- `start` attaches a balloon; `resume_from_state` has none, although it attaches "in the
  same order as `start`". `build_vm_config` never adds one today.
- vCPU 0 runs before vCPU 1 is restored: what it sends to vCPU 1 is overwritten.
- A RW packet for an unknown port is not answered with a RST; the RST on the error path
  of `flush_to_uds` asks for no interrupt; a guest SHUTDOWN drops what is still in
  `to_uds`; a full receive backlog drops the oldest packet, of a stream.

In the guest:

- A grandchild that keeps the output open blocks the joins after a timeout: no exit
  frame is sent. A failing `try_clone` sends none either. 124 is reported also for a child
  that exited by itself between the last `try_wait` and the kill.

On one host:

- A failure after a clone's network is wired leaks its namespace and veth, and every later
  branch of that name fails; `launch.rs:264-265` says "so a failed branch leaks no
  namespace/veth/rules".
- `link_or_copy` takes any existing file for the right one, so a restore into a jail of an
  earlier, half-done restore mixes two snapshots; a copy killed midway stays as it is.
  `FreshJailIsAsked` is claimed for fresh jails.
- `mm run` in the foreground keeps the registry open, and other commands fail meanwhile.
- `mm rm --force` leaves the worker running. `mm stop` signals the recorded pid, whoever has
  it by then. A branch of a clone takes the clone's outer address for its inner one.
- The agent and the CLI use the same state root by default and not the same lock: each
  may wipe the scratch directory of an image the other is building (`rootfs.rs:146-148`).

In the cluster:

- Deleting a running machine removes the row and leaves the worker
  (`api/machines.rs:84-105`; `loop.rs:96-97` says the delete path tears it down).
- A placed machine is never moved from a host that is gone (`loop.rs:57-59`;
  `grpc.rs:45-46` mentions a fallback); `StartConverges` excepts it.
- Machines placed in one pass see the same free capacity (`loop.rs:41`).
- A heartbeat task ends at its first error and the session goes on
  (`main.rs:153-172`): the host goes stale and nothing new is placed on it.
- The `Ok(None)` arm of the forwarding loop
  (`api/machines.rs:255`) cannot be reached: the pending table keeps a sender alive.
- A snapshot's caller waits the full 180 s for an agent that died: the arm "agent
  disconnected before the snapshot completed" (`api/snapshots.rs:73-77`) cannot be
  reached, since the pending table keeps the sender. A lost report, a timeout or a
  restart of the controller leaves a complete snapshot without a row; a handler
  dropped while it waits leaves its entry until a result comes, if one does.
- Snapshot ids are unique per machine; `store.rs:359` says "ids are unique per namespace" and
  deletes by namespace and id, which can remove two rows. Deleting leaves the files.
- `worker.rs:231-235` says the reaper polls without the lock; it takes it for each
  poll. A panic under the lock makes it end the worker of a live guest. A snapshot
  may be complete and its `OK` lost if the process ends between unlock and reply:
  the client reads an end of stream, never a wrong answer.

## Proofs

Each holds for every value of the constants that satisfies the `ASSUME`s, which TLC
evaluates in the runs. Some have a hypothesis more, which excludes a case that the code does
not survive. In brackets: a configuration in which TLC shows the
property violated without the hypothesis.

| hypothesis | theorems |
|---|---|
| `InTime`: the barriers of a branch end in time | `BranchStopsLogging`, `ImageIsTheParent`, `BranchIsSnapshot` (`LiveBranch_late`, with the invariant) |
| no balloon | `ImageIsTheParent`, `BranchIsSnapshot` (`LiveBranch_balloon`) |
| snapshots find interrupts acknowledged; no frame before the restored vCPUs run | `NoWakeupLost` (`Virtio_restored`, `Virtio_early`) |

- **CheckpointProofs**: `CheckpointTyped`, `BarrierIsQuiescent`, `WorkersSurviveCheckpoints`,
  `FrozenImageIsComplete`, with no hypothesis: deadlines pass at any time, workers start
  at any time, and branches leave slots filled.
  `BarrierQuiescent` says nothing of how the count came about, so it is not inductive. The invariant adds: `parked`
  is the cardinality of the set of threads inside `park` (`CountInv`); which flags are
  set at which place of the orchestrator (`ControlInv`); where a vCPU can be then, until a
  round is cut short (`VcpuInv`), with nobody leaving before the release; and where a device
  can be that no deadline overtook, whatever became of the others (`DeviceInv`), each pause
  event being consumed before its owner parks. "All parked" then is a counting argument:
  a subset of a finite set with as many elements is that set (`FullCount`).
  For the freeze, `SlotInv`: the slot of a participant that is not spoilt holds a state
  only between its capture and its collection, or its final one. `FreezeInv`:
  `pause_devices` works on a guest at rest, each device being before, in or after its
  turn; and `RingInv`: a chain that was not consumed is announced or about to be.
- **LiveBranchProofs**: `BranchTyped` with no assumption; `BranchStopsLogging` with
  barriers in time; `ImageIsTheParent` and `BranchIsSnapshot` with no balloon either.
  The heart is `CopyInv`: during the live copy, a word not yet copied is in `todo`, and
  a word that was copied and differs from memory is on a page in KVM's log, the device
  bitmap, or in the hands of a device that has yet to mark it; parking empties the
  last. The refinement is proved by showing that each action maps to a step of
  `GuestSnapshot` or a stutter.
- **ControlPlaneProofs**: `ClusterTyped`, with the retry budget,
  `NeverOnTwoHosts` and `EveryWorkerRecorded`. A machine has a *trace* on a host if it
  runs there, is being handled there, is in the stream to it or is being sent to it.
  `TraceInv`: all traces are on one host, which is the one in the row, if there is a row, and the one in
  every copy of the row that a pass still holds. `RecordInv`: a worker is on record as
  running and not just killed, or was booted by the assignment in hand, or is an orphan;
  the second case is the window in which a dying agent or a failing `put` loses it, and
  the only way into the third.
- **ExecProofs**: `ExecTyped`, `OutputIsInOrder`, `NothingLeaks`. What the client
  has, what is in its channel, the chunk in hand and what is in the report channel are
  adjacent intervals of chunk numbers that end at what was produced (`Adjacent`);
  a terminal chunk is numbered right after all output (`Contents`). A task is in the
  stream once and before it runs (`QueueInv`), so that no request is produced twice.
- **ClusterSnapshotProofs**: of the worker, `WorkerTyped`, `ClientsToldTheTruth`,
  `PowerOffCutsNothing`. The invariant ties the mutex to the program counters (`LockInv`),
  places each client in exactly one of idle, backlog, in hand, over (`QueueInv`), and says
  what the pending answer says of the directory in hand (`AnswerInv`).
  Of the composition, `ClusterImplementsWorker`: every step of it is a step of `Worker` or
  leaves it alone, so that invariant holds in it; `ClusterSnapshotTyped`,
  `RecordedSnapshotsExist`, `PendingEntriesOwned`. The invariant follows
  the one positive answer: a result that says ok, in the task, in the one-shot channel
  or in a handler about to record, belongs to a connection the worker answered ok,
  whose directory `ClientsToldTheTruth` says is complete; and a request that was not
  dispatched has no task and no connection.
- **GuestExecProofs**: `GuestExecTyped`, `CreditIsKept`, `ExitTrue`, with no hypothesis: for any
  number of clients and streams, any buffers and a backlog that drops packets, with
  timeouts, hang-ups, stops and PID 1's reaper. None of the three is inductive. The
  invariant is a conjunction per stream, of its connection, its Unix socket, its socket in
  the guest and its job, with the rx queue and the backlog read as one queue.
  - Credit. A counter is looked at by how far it is *behind* the sender's, modulo
    `Modulus`. Every header of the stream in a queue carries a count between the one its
    reader has and the one its writer has, none behind an earlier one (`Counts`), so a
    header that arrives late, after others were dropped, only understates what is free.
    What was sent and not consumed is exactly what is in the queues and the buffer in the
    direction of the host, and at least that in the direction of the guest, where
    `enqueue_backlog` may lose packets (`HostCredit`, `GuestCredit`).
  - One command per stream. The client writes `ExecLen` units once; in the socket, in
    flight, in the receive buffer and spent by the agent there are never more (`Counted`).
    So a job is executed at most once.
  - The answer. Frames are numbered, the exit frame last (`Nth`). What the client has,
    what is in its socket, in the connection's buffer and in the tx queue are adjacent
    intervals that end at the last frame sent (`Commanding`, `InTx`); the thread, the reader
    and the child go together so that an exit frame is sent only behind all output
    (`ThreadInv`), and a code says what became of the child (`ChildInv`, `ReaperInv`). While a
    client waits for its command and the machine runs, its stream is established and
    nobody resets it. After a stop, what is in its socket is still such an interval.
  - The sums over the packets in a queue are handled without an induction over sequences:
    that running totals exist (`RunningExists`) and that `Total` is the last of them
    (`TotalIs`) is shown with a least counterexample (`LeastOf`), and removing or appending
    a packet gives the new totals explicitly (`TotalWithout`, `TotalAppend`).
  - Each action has a lemma of its own (`...Keeps`); they rest on three that say what a step
    of the worker, of the guest or of a client may change at all (`WorkerKeeps`, `GuestKeeps`,
    `ClientKeeps`), so that only the stream of the step has to be looked at.
- **VirtioProofs**: `VirtioTyped`, `FramesInOrder`, `LimiterKeepsBudget`,
  `BalloonCountsExactly`, `NoWakeupLost`. Each worker is at a queue of its own and holds a
  chain exactly while it handles one (`WorkInv`, `HandInv`). Frames rise from what the
  guest has through the backlog to the TAP (`OrderInv`). The balloon's books balance at
  every point of an inflation or deflation (`CountInv`), with one worker adding between
  the other's load and its compare-and-swap. What a bucket holds *and is owed* for the time
  since its last refill never exceeds the ideal one (`BudgetInv`); tokens alone are not
  inductive, since a refill counts whole milliseconds. For the wakeups, every state of a
  published chain (`AvailInv`), of a returned one (`UsedInv`) and of a frame in the
  backlog (`BacklogInv`) names who will look at it: a notification, a worker that has not
  finished its drain, one that owes an interrupt, or the handler; and before the vCPUs
  run there is nothing to look at (`RestInv`).
- **HostProofs**: `HostTyped`, `CachedImages`, `BridgeAddresses`, `FreshJails`,
  `ClonesReachable`. The registry is open in one process at a time, which makes that
  process the owner of everything until it closes it (`LockInv`); which command can be where and
  what it has chosen by then are `WhereInv` and `LocalInv`. An image is published whole
  because its build directory belongs to the owner (`BuildInv`); an address chosen is
  nobody else's until it is recorded (`AddressInv`); a jail new to its process has been
  given what was asked up to the place the process is at (`FreshInv`). A branch gives the
  registry up in the middle: `SlotInv` says that one which crossed no other has chosen what
  no recorded clone and no other branch has, and that this stays so for its clone
  (`Sole`), whatever slots the crossed ones share; `NetInv` how much of its network stands, `OwnerInv` that a record of a running machine
  names a process with a worker, so that no `rm` removes what a clone stands on.

The assumptions name what the proofs need of the constants: the values for "nothing"
are no records (`NoTask`, `None`), and a queue has room for no more chains than there are
descriptor heads.

### Only model-checked

Everything temporal: `RoundsEnd`, `NotifiedServed`, `ParentResumes`, `Served`, `Converges`,
`ExecEnds`, `SnapshotsEnd`, `ExecAnswered`. They need fairness, which TLAPS does not handle.
Every invariant of the runs is proved, some under the hypotheses above.

## Not modelled

`PROJECT.json` lists every component with its reason. In short: boot, KVM ioctls and
register contents, the jailer and seccomp (set-up code whose properties are the
kernel's); the serial console and configuration parsing (byte I/O); authentication,
authorisation, conversions and metrics (stateless predicates and counters); namespace,
credential and audit rows (independent CRUD); unpacking of image layers and guest
mounts (file I/O). Loss of power is not modelled: no file of a snapshot is synced.

## Plan

1. `Checkpoint` as an implementation of the barrier that `LiveBranch` takes as one flag.
2. Several machines in `ClusterSnapshot`, with the placement of `ControlPlane`.
