--------------------------------- MODULE Host ---------------------------------
(***************************************************************************)
(* One host's `mm` commands.  Every invocation is a process of its own     *)
(* that opens the registry (redb: one process at a time, a second open is  *)
(* an error), launches or ends machines and leaves its traces on the host: *)
(* images, TAPs, clone namespaces, jails, snapshots, workers.  A process   *)
(* may fail or be killed before any step; what it built stays.             *)
(*                                                                         *)
(* A worker is named by the process that spawned it.  The host starts with *)
(* machine Seed, run detached by process First.                            *)
(***************************************************************************)
EXTENDS Naturals, FiniteSets, FiniteSetsExt

CONSTANTS
    Procs, First,       \* invocations of mm; the one that ran Seed
    Names, Seed,        \* machine names
    Images, SeedImage,  \* OCI images, by digest and payload tag
    Commands,           \* what an invocation may be asked to do
    LastHost,           \* the last host octet of the guest /24 (254)
    MaxSlots,           \* clone slots in the veth /16 (16384)
    MaxSnap,            \* bound: snapshot ids of a machine
    Keep,               \* --keep of branch and of snapshot gc
    None

Gateway == 1
Ips     == 1..LastHost
Slots   == 0..(MaxSlots - 1)
Ids     == 1..MaxSnap
Files   == {"manifest", "state", "memory"}
Ops     == {"run", "restore", "branch", "stop", "rm", "snapshot", "snaprm", "gc"}
Jobs    == [op : Ops, m : Names, src : Names, img : Images, id : Ids, flag : BOOLEAN]
Wholeness == {"none", "short", "whole"}
Source  == [m : Names, id : Ids]

\* A record names a worker exactly as long as it says running.
Record == [running : {TRUE}, ip : Ips, slot : Slots \union {None}, pid : Procs]
            \union [running : {FALSE}, ip : Ips, slot : Slots \union {None}, pid : {None}]
Locals == [ip : Ips \union {None}, slot : Nat \union {None}, id : Ids \union {None},
           fresh : BOOLEAN, todo : SUBSET Ids]
Jail   == [rootfs : Images \union {None}, restore : [Files -> Source \union {None}],
           control : Procs \union {None}]

ASSUME HostAssumption ==
    /\ First \in Procs /\ Seed \in Names /\ SeedImage \in Images
    /\ Commands \subseteq Jobs
    /\ LastHost \in Nat \ {0, 1} /\ MaxSlots \in Nat \ {0}
    /\ MaxSnap \in Nat \ {0} /\ Keep \in Nat
    /\ None \notin Procs \union Names \union Nat \union Images \union Source \union {"idle"}
    /\ None \notin Record /\ None \notin Jail

VARIABLES
    store,              \* the process that has the registry open, or None
    registry,           \* machine records
    pc, job, my,        \* processes: where, what for, and their locals
    worker,             \* the VMM worker a process spawned
    base, scratch,      \* mm-image: the cache and the build directories
    tap,                \* bridge TAPs, and the worker that has each open
    netns, veth,        \* clone namespaces; slot -> the namespace of its far end
    masq, route,        \* MASQUERADE rules per slot; clone address -> slot
    crossed,            \* history: branches that were in the gap of another
    jail,               \* jails/<name>
    snaps, made         \* files of each snapshot of a machine; ids given out

procs == <<pc, job, my>>
image == <<base, scratch>>
clone == <<netns, veth, masq, route, crossed>>
files == <<jail, snaps, made>>
vars  == <<store, registry, procs, worker, image, tap, clone, files>>

Pcs    == {"idle", "open", "begin", "wipe", "unpack", "mkfs", "seal", "publish", "net",
           "netns", "tun", "veth", "nat", "masq", "route", "jail", "bind", "spawn",
           "unmasq", "unroute", "unveth", "unnetns",
           "put", "wait", "ask", "send", "find", "reopen", "delete", "signal", "keep", "remove",
           "done"} \union Files

TypeOK ==
    /\ store \in Procs \union {None}
    /\ registry \in [Names -> Record \union {None}]
    /\ pc \in [Procs -> Pcs] /\ job \in [Procs -> Jobs] /\ my \in [Procs -> Locals]
    /\ worker \in [Procs -> {"none", "alive", "term", "dead"}]
    /\ base \in [Images -> Wholeness]
    /\ scratch \in [Images -> [tree : Wholeness, img : Wholeness]]
    /\ tap \in [Names -> Procs \union {None, "idle"}]
    /\ netns \in [Names -> {"none", "bare", "tap", "nat"}]
    /\ veth \in [Slots -> Names \union {None}]
    /\ masq \in [Slots -> Nat]
    /\ route \in [Ips -> Slots \union {None}] /\ crossed \subseteq Procs
    /\ jail \in [Names -> Jail \union {None}]
    /\ snaps \in [Names -> [Ids -> SUBSET Files]] /\ made \in [Names -> 0..MaxSnap]

NoScratch == [tree |-> "none", img |-> "none"]
NoRestore == [f \in Files |-> None]
Nothing   == [ip |-> None, slot |-> None, id |-> None, fresh |-> FALSE, todo |-> {}]

Init ==
    /\ store = None
    /\ registry = [n \in Names |->
          IF n = Seed THEN [running |-> TRUE, ip |-> Gateway + 1, slot |-> None, pid |-> First]
          ELSE None]
    /\ pc = [p \in Procs |-> IF p = First THEN "done" ELSE "idle"]
    /\ job = [p \in Procs |-> [op |-> "run", m |-> Seed, src |-> Seed, img |-> SeedImage,
                               id |-> 1, flag |-> TRUE]]
    /\ my = [p \in Procs |-> IF p = First THEN [Nothing EXCEPT !.ip = Gateway + 1, !.fresh = TRUE]
                             ELSE Nothing]
    /\ worker = [p \in Procs |-> IF p = First THEN "alive" ELSE "none"]
    /\ base = [i \in Images |-> IF i = SeedImage THEN "whole" ELSE "none"]
    /\ scratch = [i \in Images |-> NoScratch]
    /\ tap = [n \in Names |-> IF n = Seed THEN First ELSE None]
    /\ netns = [n \in Names |-> "none"] /\ veth = [s \in Slots |-> None]
    /\ masq = [s \in Slots |-> 0] /\ route = [i \in Ips |-> None]
    /\ crossed = {}
    /\ jail = [n \in Names |->
          IF n = Seed THEN [rootfs |-> SeedImage, restore |-> NoRestore, control |-> First]
          ELSE None]
    /\ snaps = [n \in Names |-> [i \in Ids |-> {}]] /\ made = [n \in Names |-> 0]

-------------------------------------------------------------------------------
(* Helpers. *)

Goto(p, from, to) == pc[p] = from /\ pc' = [pc EXCEPT ![p] = to]
Op(p)             == job[p].op
Mine(p)           == job[p].m
Alive(p)          == worker[p] \in {"alive", "term"}

\* The process ends; the kernel closes its registry.
Leave(p) ==
    /\ pc' = [pc EXCEPT ![p] = "done"]
    /\ store' = IF store = p THEN None ELSE store

\* Variant: the slots of running clones are passed over.
UsedSlotsStopped ==
    {registry[n].slot : n \in {m \in Names : registry[m] # None /\ ~registry[m].running}} \ {None}

Recorded  == {n \in Names : registry[n] # None}
UsedIps   == {registry[n].ip : n \in Recorded}
UsedSlots == {registry[n].slot : n \in Recorded} \ {None}

\* Ipam::allocate over a pool seeded with the registry: the lowest free octet.
Allocate ==
    LET free == Ips \ (UsedIps \union {Gateway})
    IN  IF free = {} THEN None ELSE Min(free)

\* SnapshotStore::list: a directory counts once its manifest is there.
Listed(n) == {i \in Ids : "manifest" \in snaps[n][i]}

\* SnapshotStore::gc: all but the Keep newest.
Victims(n) == {i \in Listed(n) : Cardinality({j \in Listed(n) : j > i}) >= Keep}

-------------------------------------------------------------------------------
(* Opening and leaving. *)

Begin(p) ==
    /\ pc[p] = "idle"
    /\ \E j \in Commands :
          /\ job' = [job EXCEPT ![p] = j]
          /\ pc' = [pc EXCEPT ![p] =
                CASE j.op = "snapshot" -> "ask"
                  [] j.op = "snaprm"   -> "remove"
                  [] j.op = "gc"       -> "keep"
                  [] OTHER             -> "open"]
          /\ my' = [my EXCEPT ![p].todo = IF j.op = "snaprm" THEN {j.id} ELSE {}]
    /\ UNCHANGED <<store, registry, worker, image, tap, clone, files>>

Open(p) ==
    /\ store = None
    /\ \/ Goto(p, "open", "begin")
       \/ Goto(p, "reopen", "netns")
    /\ store' = p
    /\ UNCHANGED <<registry, job, my, worker, image, tap, clone, files>>

\* Any error that undoes nothing ("Database already open" among them), or a kill.
Abort(p) ==
    /\ pc[p] \notin {"idle", "done"}
    /\ Leave(p)
    /\ UNCHANGED <<registry, job, my, worker, image, tap, clone, files>>

-------------------------------------------------------------------------------
(* mm run and mm restore: the name is checked with the registry open, and    *)
(* it stays open to the end.                                                 *)

\* Variant: the registry is closed before the launch, as in branch.
BeginRunUnlocked(p) ==
    /\ Op(p) = "run" /\ registry[Mine(p)] = None
    /\ Goto(p, "begin", "wipe")
    /\ store' = None
    /\ UNCHANGED <<registry, job, my, worker, image, tap, clone, files>>

BeginRun(p) ==
    /\ Op(p) = "run" /\ registry[Mine(p)] = None
    /\ Goto(p, "begin", "wipe")
    /\ UNCHANGED <<store, registry, job, my, worker, image, tap, clone, files>>

BeginRestore(p) ==
    /\ Op(p) = "restore" /\ registry[Mine(p)] = None
    /\ job[p].id \in Listed(job[p].src)
    /\ jail[job[p].src] # None /\ jail[job[p].src].rootfs # None
    /\ Goto(p, "begin", "net")
    /\ my' = [my EXCEPT ![p].id = job[p].id]
    /\ UNCHANGED <<store, registry, job, worker, image, tap, clone, files>>

(* ImageStore::build_base_rootfs: a cached image is used as it is; otherwise *)
(* the scratch directory is wiped, filled, packed and the result renamed.    *)
Wipe(p) ==
    LET i == job[p].img
    IN  IF base[i] # "none"
        THEN /\ Goto(p, "wipe", "net")
             /\ UNCHANGED <<store, registry, job, my, worker, image, tap, clone, files>>
        ELSE /\ Goto(p, "wipe", "unpack")
             /\ scratch' = [scratch EXCEPT ![i] = [tree |-> "short", img |-> "none"]]
             /\ UNCHANGED <<store, registry, job, my, worker, base, tap, clone, files>>

Unpack(p) ==
    /\ Goto(p, "unpack", "mkfs")
    /\ scratch' = [scratch EXCEPT ![job[p].img].tree = "whole"]
    /\ UNCHANGED <<store, registry, job, my, worker, base, tap, clone, files>>

\* Variant: the image is packed straight into the cache.
MkfsInPlace(p) ==
    /\ Goto(p, "mkfs", "seal")
    /\ scratch' = [scratch EXCEPT ![job[p].img].img = "short"]
    /\ base' = [base EXCEPT ![job[p].img] = "short"]
    /\ UNCHANGED <<store, registry, job, my, worker, tap, clone, files>>

Mkfs(p) ==
    /\ Goto(p, "mkfs", "seal")
    /\ scratch' = [scratch EXCEPT ![job[p].img].img = "short"]
    /\ UNCHANGED <<store, registry, job, my, worker, base, tap, clone, files>>

Seal(p) ==
    /\ Goto(p, "seal", "publish")
    /\ scratch' = [scratch EXCEPT ![job[p].img].img = scratch[job[p].img].tree]
    /\ UNCHANGED <<store, registry, job, my, worker, base, tap, clone, files>>

Publish(p) ==
    LET i == job[p].img
    IN  /\ Goto(p, "publish", "net")
        /\ scratch[i].img # "none"
        /\ base' = [base EXCEPT ![i] = scratch[i].img]
        /\ scratch' = [scratch EXCEPT ![i] = NoScratch]
        /\ UNCHANGED <<store, registry, job, my, worker, tap, clone, files>>

(* launch and restore_launch on the shared bridge: an address, then a        *)
(* persistent TAP; one a live worker has open cannot be opened again.  The   *)
(* address is the one that is recorded: a restored guest itself goes on with *)
(* the one captured in its RAM (launch.rs:217-219), which is not modelled.   *)
CreateTap(n) == tap[n] \notin Procs /\ tap' = [tap EXCEPT ![n] = "idle"]

TeardownTap(n) == tap' = [tap EXCEPT ![n] = None]

Net(p) ==
    /\ Goto(p, "net", "jail")
    /\ Allocate # None /\ CreateTap(Mine(p))
    /\ my' = [my EXCEPT ![p].ip = Allocate]
    /\ UNCHANGED <<store, registry, job, worker, image, clone, files>>

-------------------------------------------------------------------------------
(* mm branch: the slot and the address are chosen, the registry is closed,   *)
(* the source is branched, and the registry opened again.                    *)

InGap == {p \in Procs : Op(p) = "branch" /\ pc[p] \in {"ask", "send", "find", "reopen"}}

BeginBranch(p) ==
    /\ Op(p) = "branch" /\ registry[Mine(p)] = None /\ registry[job[p].src] # None
    /\ Allocate # None
    /\ Goto(p, "begin", "ask")
    /\ my' = [my EXCEPT ![p].slot = Min((0..Cardinality(UsedSlots)) \ UsedSlots),
                        ![p].ip = Allocate]
    /\ store' = None
    /\ crossed' = IF InGap = {} THEN crossed ELSE crossed \union InGap \union {p}
    /\ UNCHANGED <<registry, job, worker, image, tap, netns, veth, masq, route, files>>

(* request_snapshot, also mm snapshot create: the registry is opened, the    *)
(* record read and the registry closed again.                                *)
Asked(p) == IF Op(p) = "branch" THEN job[p].src ELSE Mine(p)

Ask(p) ==
    LET n == Asked(p)
    IN  /\ Goto(p, "ask", "send")
        /\ store = None
        /\ registry[n] # None /\ registry[n].pid # None
        /\ jail[n] # None /\ jail[n].control # None
        /\ UNCHANGED <<store, registry, job, my, worker, image, tap, clone, files>>

(* The worker behind the control socket writes a snapshot under a new id; an *)
(* error and the end of the 180 s wait are aborts, with or without it.       *)
Send(p) ==
    LET n == Asked(p) IN
    /\ pc[p] = "send"
    /\ jail[n].control # None /\ Alive(jail[n].control)
    /\ made[n] < MaxSnap
    /\ made' = [made EXCEPT ![n] = @ + 1]
    /\ snaps' = [snaps EXCEPT ![n][made[n] + 1] = Files]
    /\ my' = [my EXCEPT ![p].id = made[n] + 1]
    /\ \/ pc' = [pc EXCEPT ![p] = IF Op(p) = "branch" THEN "find" ELSE "keep"] /\ UNCHANGED store
       \/ Leave(p)
    /\ UNCHANGED <<registry, job, worker, image, tap, clone, jail>>

Find(p) ==
    /\ Goto(p, "find", "reopen")
    /\ my[p].id \in Listed(job[p].src)
    /\ jail[job[p].src].rootfs # None
    /\ UNCHANGED <<store, registry, job, my, worker, image, tap, clone, files>>

(* A slot beyond the /16 is refused; create_netns fails when the name's       *)
(* namespace exists.                                                         *)
Netns(p) ==
    /\ Goto(p, "netns", "tun")
    /\ my[p].slot \in Slots /\ netns[Mine(p)] = "none"
    /\ netns' = [netns EXCEPT ![Mine(p)] = "bare"]
    /\ UNCHANGED <<store, registry, job, my, worker, image, tap, veth, masq, route, crossed, files>>

OpenTun(p) ==
    /\ Goto(p, "tun", "veth")
    /\ netns[Mine(p)] # "none"
    /\ netns' = [netns EXCEPT ![Mine(p)] = "tap"]
    /\ UNCHANGED <<store, registry, job, my, worker, image, tap, veth, masq, route, crossed, files>>

(* wire_clone_net: the pair with the host's end (three commands, of which    *)
(* the first shows); all that is done inside the namespace up to its SNAT    *)
(* and DNAT rules, one step, since half of it is as good as none and goes    *)
(* with the namespace; the host's rule; the host's route.  A veth of that    *)
(* name, or a route to that address, exists once.                            *)
Veth(p) ==
    /\ Goto(p, "veth", "nat")
    /\ veth[my[p].slot] = None /\ netns[Mine(p)] # "none"
    /\ veth' = [veth EXCEPT ![my[p].slot] = Mine(p)]
    /\ UNCHANGED <<store, registry, job, my, worker, image, tap, netns, masq, route, crossed, files>>

Wire(p) ==
    /\ Goto(p, "nat", "masq")
    /\ netns[Mine(p)] = "tap" /\ veth[my[p].slot] = Mine(p)
    /\ netns' = [netns EXCEPT ![Mine(p)] = "nat"]
    /\ UNCHANGED <<store, registry, job, my, worker, image, tap, veth, masq, route, crossed, files>>

Masquerade(p) ==
    /\ Goto(p, "masq", "route")
    /\ masq' = [masq EXCEPT ![my[p].slot] = @ + 1]
    /\ UNCHANGED <<store, registry, job, my, worker, image, tap, netns, veth, route, crossed, files>>

Route(p) ==
    /\ Goto(p, "route", "jail")
    /\ route[my[p].ip] = None /\ veth[my[p].slot] # None
    /\ route' = [route EXCEPT ![my[p].ip] = my[p].slot]
    /\ UNCHANGED <<store, registry, job, my, worker, image, tap, netns, veth, masq, crossed, files>>

\* An error of the last five: what the plan names is torn down.
WireFails(p) ==
    /\ pc[p] \in {"tun", "veth", "nat", "masq", "route"}
    /\ pc' = [pc EXCEPT ![p] = "unmasq"]
    /\ UNCHANGED <<store, registry, job, my, worker, image, tap, clone, files>>

(* teardown_clone_net, for a branch that failed and for mm rm of a clone:    *)
(* four commands, each tried whatever became of the one before and whoever   *)
(* built what it removes.                                                    *)
Plan(p) == IF Op(p) = "rm" THEN registry[Mine(p)] ELSE my[p]

DropMasq(p) ==
    /\ Goto(p, "unmasq", "unroute")
    /\ masq' = [masq EXCEPT ![Plan(p).slot] = IF @ = 0 THEN 0 ELSE @ - 1]
    /\ UNCHANGED <<store, registry, job, my, worker, image, tap, netns, veth, route, crossed, files>>

DropRoute(p) ==
    /\ Goto(p, "unroute", "unveth")
    /\ route' = [route EXCEPT ![Plan(p).ip] = None]
    /\ UNCHANGED <<store, registry, job, my, worker, image, tap, netns, veth, masq, crossed, files>>

\* A veth end takes its peer and the routes over it along.
LinksGone(lost) ==
    /\ veth' = [s \in Slots |-> IF s \in lost THEN None ELSE veth[s]]
    /\ route' = [i \in Ips |-> IF route[i] \in lost THEN None ELSE route[i]]

DropVeth(p) ==
    /\ Goto(p, "unveth", "unnetns")
    /\ LinksGone({Plan(p).slot})
    /\ UNCHANGED <<store, registry, job, my, worker, image, tap, netns, masq, crossed, files>>

\* The namespace takes the far ends in it along.
DropNetns(p) ==
    /\ pc[p] = "unnetns"
    /\ netns' = [netns EXCEPT ![Mine(p)] = "none"]
    /\ LinksGone({s \in Slots : veth[s] = Mine(p)})
    /\ IF Op(p) = "rm" THEN Goto(p, "unnetns", "delete") /\ UNCHANGED store ELSE Leave(p)
    /\ UNCHANGED <<registry, job, my, worker, image, tap, masq, crossed, files>>

-------------------------------------------------------------------------------
(* The jail, the worker, the record. *)

\* link_or_copy: what is there already stays.
LinkOrCopy(there, from) == IF there # None THEN there ELSE from

Empty == [rootfs |-> None, restore |-> NoRestore, control |-> None]

Jailed(p) == IF jail[Mine(p)] = None THEN Empty ELSE jail[Mine(p)]

MakeJail(p) ==
    /\ Op(p) = "run" /\ Goto(p, "jail", "bind")
    /\ my' = [my EXCEPT ![p].fresh = jail[Mine(p)] = None]
    /\ jail' = [jail EXCEPT ![Mine(p)] =
                    [Jailed(p) EXCEPT !.rootfs = LinkOrCopy(@, job[p].img)]]
    /\ UNCHANGED <<store, registry, job, worker, image, tap, clone, snaps, made>>

(* A restored machine or a clone gets the source's rootfs and the three      *)
(* files of the snapshot, one by one.                                        *)
RestoreJail(p) ==
    /\ Op(p) # "run" /\ Goto(p, "jail", "manifest")
    /\ my' = [my EXCEPT ![p].fresh = jail[Mine(p)] = None]
    /\ jail' = [jail EXCEPT ![Mine(p)] =
                    [Jailed(p) EXCEPT !.rootfs = LinkOrCopy(@, jail[job[p].src].rootfs)]]
    /\ UNCHANGED <<store, registry, job, worker, image, tap, clone, snaps, made>>

Wanted(p)   == [m |-> job[p].src, id |-> my[p].id]
AfterFile   == [manifest |-> "state", state |-> "memory", memory |-> "bind"]
Links(p, f) == jail' = [jail EXCEPT ![Mine(p)].restore[f] = LinkOrCopy(@, Wanted(p))]

\* Variant: a file that is gone is passed over.
LinkFileSkips(p) ==
    \E f \in Files :
       /\ Goto(p, f, AfterFile[f])
       /\ IF f \in snaps[job[p].src][my[p].id] THEN Links(p, f) ELSE UNCHANGED jail
       /\ UNCHANGED <<store, registry, job, my, worker, image, tap, clone, snaps, made>>

(* link_snapshot_dir: a file that is gone is an error, unless the jail has   *)
(* one already.                                                              *)
LinkFile(p) ==
    \E f \in Files :
       /\ Goto(p, f, AfterFile[f])
       /\ jail[Mine(p)].restore[f] # None \/ f \in snaps[job[p].src][my[p].id]
       /\ Links(p, f)
       /\ UNCHANGED <<store, registry, job, my, worker, image, tap, clone, snaps, made>>

(* The sockets are bound, a stale one is replaced: nobody answers on the     *)
(* control socket until the worker runs.                                     *)
Bind(p) ==
    /\ Goto(p, "bind", "spawn")
    /\ jail' = [jail EXCEPT ![Mine(p)].control = p]
    /\ UNCHANGED <<store, registry, job, my, worker, image, tap, clone, snaps, made>>

SpawnWorker(p) ==
    /\ Goto(p, "spawn", "put")
    /\ worker' = [worker EXCEPT ![p] = "alive"]
    /\ tap' = IF Op(p) = "branch" THEN tap ELSE [tap EXCEPT ![Mine(p)] = p]
    /\ UNCHANGED <<store, registry, job, my, image, clone, files>>

Put(p) ==
    /\ pc[p] = "put"
    /\ registry' = [registry EXCEPT ![Mine(p)] =
          [running |-> TRUE, ip |-> my[p].ip, slot |-> my[p].slot, pid |-> p]]
    /\ CASE Op(p) = "branch" -> pc' = [pc EXCEPT ![p] = "keep"] /\ UNCHANGED store
         [] Op(p) = "run" /\ ~job[p].flag -> pc' = [pc EXCEPT ![p] = "wait"] /\ UNCHANGED store
         [] OTHER -> Leave(p)
    /\ UNCHANGED <<job, my, worker, image, tap, clone, files>>

\* Variant: the record goes to stopped with the pid of the worker that ended.
WaitedKeepsPid(p) ==
    /\ pc[p] = "wait" /\ ~Alive(p)
    /\ registry' = [registry EXCEPT ![Mine(p)] =
          [running |-> FALSE, ip |-> my[p].ip, slot |-> None, pid |-> p]]
    /\ Leave(p)
    /\ UNCHANGED <<job, my, worker, image, tap, clone, files>>

(* In the foreground the registry stays open until the worker has ended. *)
Waited(p) ==
    /\ pc[p] = "wait" /\ ~Alive(p)
    /\ registry' = [registry EXCEPT ![Mine(p)] =
          [running |-> FALSE, ip |-> my[p].ip, slot |-> None, pid |-> None]]
    /\ Leave(p)
    /\ UNCHANGED <<job, my, worker, image, tap, clone, files>>

(* The guest powers off, or the worker dies of a signal: its TAP is let go.  *)
WorkerEnds(p) ==
    /\ Alive(p)
    /\ worker' = [worker EXCEPT ![p] = "dead"]
    /\ tap' = [n \in Names |-> IF tap[n] = p THEN "idle" ELSE tap[n]]
    /\ UNCHANGED <<store, registry, procs, image, clone, files>>

-------------------------------------------------------------------------------
(* mm stop and mm rm. *)

BeginStop(p) ==
    /\ Op(p) = "stop" /\ registry[Mine(p)] # None
    /\ pc[p] = "begin"
    /\ IF registry[Mine(p)].running
       THEN /\ pc' = [pc EXCEPT ![p] = "signal"] /\ UNCHANGED store
            /\ worker' = [q \in Procs |-> IF q = registry[Mine(p)].pid /\ worker[q] = "alive"
                                          THEN "term" ELSE worker[q]]
       ELSE Leave(p) /\ UNCHANGED worker
    /\ UNCHANGED <<registry, job, my, image, tap, clone, files>>

PutStopped(p) ==
    /\ pc[p] = "signal"
    /\ registry' = [registry EXCEPT ![Mine(p)].running = FALSE, ![Mine(p)].pid = None]
    /\ Leave(p)
    /\ UNCHANGED <<job, my, worker, image, tap, clone, files>>

BeginRm(p) ==
    /\ Op(p) = "rm" /\ registry[Mine(p)] # None
    /\ ~registry[Mine(p)].running \/ job[p].flag
    /\ IF registry[Mine(p)].slot # None
       THEN Goto(p, "begin", "unmasq") /\ UNCHANGED tap
       ELSE Goto(p, "begin", "delete") /\ TeardownTap(Mine(p))
    /\ UNCHANGED <<store, registry, job, my, worker, image, clone, files>>

Delete(p) ==
    /\ pc[p] = "delete"
    /\ registry' = [registry EXCEPT ![Mine(p)] = None]
    /\ Leave(p)
    /\ UNCHANGED <<job, my, worker, image, tap, clone, files>>

-------------------------------------------------------------------------------
(* Retention: mm snapshot gc and rm, and the --keep of branch and create.    *)
(* Nobody locks the snapshots; a directory goes file by file.                *)

Gc(p) ==
    /\ Goto(p, "keep", "remove")
    /\ my' = [my EXCEPT ![p].todo = Victims(Asked(p))]
    /\ UNCHANGED <<store, registry, job, worker, image, tap, clone, files>>

RemoveFile(p) ==
    /\ pc[p] = "remove"
    /\ \E i \in my[p].todo, f \in Files :
          /\ f \in snaps[Asked(p)][i]
          /\ snaps' = [snaps EXCEPT ![Asked(p)][i] = @ \ {f}]
    /\ UNCHANGED <<store, registry, procs, worker, image, tap, clone, jail, made>>

Removed(p) ==
    /\ pc[p] = "remove"
    /\ \A i \in my[p].todo : snaps[Asked(p)][i] = {}
    /\ Leave(p)
    /\ UNCHANGED <<registry, job, my, worker, image, tap, clone, files>>

-------------------------------------------------------------------------------
Next ==
    \E p \in Procs :
       \/ Begin(p) \/ Open(p) \/ Abort(p)
       \/ BeginRun(p) \/ BeginRestore(p) \/ BeginBranch(p)
       \/ Wipe(p) \/ Unpack(p) \/ Mkfs(p) \/ Seal(p) \/ Publish(p) \/ Net(p)
       \/ Ask(p) \/ Send(p) \/ Find(p)
       \/ Netns(p) \/ OpenTun(p) \/ Veth(p) \/ Wire(p) \/ Masquerade(p) \/ Route(p)
       \/ WireFails(p) \/ DropMasq(p) \/ DropRoute(p) \/ DropVeth(p) \/ DropNetns(p)
       \/ MakeJail(p) \/ RestoreJail(p) \/ LinkFile(p) \/ Bind(p) \/ SpawnWorker(p) \/ Put(p) \/ Waited(p)
       \/ WorkerEnds(p)
       \/ BeginStop(p) \/ PutStopped(p) \/ BeginRm(p) \/ Delete(p)
       \/ Gc(p) \/ RemoveFile(p) \/ Removed(p)

Spec == Init /\ [][Next]_vars

-------------------------------------------------------------------------------
(* Properties. *)

(* build_base_rootfs with kills and failures at every step of every mm run,  *)
(* which builds with the registry open: an image in the cache, which every   *)
(* later run of it boots without looking, was packed from a tree that was    *)
(* whole.  The agent, which builds without the registry, is not in here.     *)
CachedImagesWhole == \A i \in Images : base[i] # "short"

(* run and restore keep the registry open from reading the addresses to      *)
(* writing the record: no two machines on the shared bridge are ever         *)
(* recorded with the same address.  It says nothing of clones: a run may be  *)
(* given the address of a branch that is in its gap.                         *)
BridgeAddressesDistinct ==
    \A m, n \in Recorded :
       m # n /\ registry[m].slot = None /\ registry[n].slot = None
          => registry[m].ip # registry[n].ip

ForcedOut(n) == \E p \in Procs : Op(p) = "rm" /\ Mine(p) = n /\ job[p].flag

Reachable(n) ==
    LET r == registry[n]
    IN  netns[n] = "nat" /\ veth[r.slot] = n /\ masq[r.slot] > 0 /\ route[r.ip] = r.slot

LiveClone(n) ==
    LET r == registry[n]
    IN  r.running /\ r.slot # None /\ worker[r.pid] = "alive" /\ ~ForcedOut(n)

(* branch: a clone recorded as running that runs, and whose branch had no    *)
(* other in its gap (branch.rs:44-98), can be reached: its namespace is      *)
(* wired, its slot's veth ends there, its rule is in place and the host      *)
(* routes its address over its slot, whatever other branches, crossed ones   *)
(* included, failed wirings, removals and kills between two network          *)
(* commands did meanwhile.                                                   *)
CloneReachable ==
    \A n \in Recorded : LiveClone(n) /\ registry[n].pid \notin crossed => Reachable(n)

(* branch.rs:41-43, "allocate this clone a unique veth slot + host-routable  *)
(* clone_ip", and branch.rs:10-11, "the clone is reachable at clone_ip":     *)
(* every clone recorded as running that runs can be reached.                 *)
ClonesAlwaysReachable == \A n \in Recorded : LiveClone(n) => Reachable(n)

(* launch and restore_launch: a worker that got a jail nobody had used runs  *)
(* what it was asked to run, and a restored one has the manifest, the state  *)
(* and the memory of one snapshot, though snapshots are removed meanwhile.   *)
(* (In a jail that was left behind, link_or_copy keeps what it finds.)       *)
FreshJailIsAsked ==
    \A p \in Procs :
       Alive(p) /\ my[p].fresh
         => IF Op(p) = "run" THEN jail[Mine(p)].rootfs = job[p].img
            ELSE \A f \in Files :
                    jail[Mine(p)].restore[f] = [m |-> job[p].src, id |-> my[p].id]
===============================================================================
