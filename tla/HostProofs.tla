------------------------------ MODULE HostProofs ------------------------------
(***************************************************************************)
(* Proofs about Host, for any number of invocations, machines, images,     *)
(* addresses and snapshots, any interleaving and any kills.                *)
(***************************************************************************)
EXTENDS Host, FiniteSetTheorems, WellFoundedInduction, TLAPS

(* Where an invocation has the registry open. *)
Launching == {"jail", "manifest", "state", "memory", "bind", "spawn", "put"}
Building  == {"wipe", "unpack", "mkfs", "seal", "publish"}
Wiring    == {"netns", "tun", "veth", "nat", "masq", "route"}
Tearing   == {"unmasq", "unroute", "unveth", "unnetns"}
Locked    == {"begin", "net", "wait", "signal", "delete"}
             \union Building \union Wiring \union Tearing \union Launching

(* The registry is open in one process at a time: in every step between      *)
(* Open, or the reopening of branch, and the end of a launch.                *)
LockInv == \A p \in Procs : pc[p] \in Locked => store = p

(* Which command is where. *)
WhereInv ==
    \A p \in Procs :
        /\ pc[p] \in Building \union {"wait"} => Op(p) = "run"
        /\ pc[p] = "net" => Op(p) \in {"run", "restore"}
        /\ pc[p] \in Wiring \union {"find", "reopen"} => Op(p) = "branch"
        /\ pc[p] \in Launching => Op(p) \in {"run", "restore", "branch"}
        /\ pc[p] \in Tearing => Op(p) \in {"rm", "branch"}
        /\ pc[p] \in Files => Op(p) # "run"

(* What the locals of a command hold by the time they are used. *)
LocalInv ==
    \A p \in Procs :
        /\ Op(p) # "branch" \/ pc[p] = "idle" => my[p].slot = None
        /\ pc[p] \in Launching \union {"wait"} => my[p].ip \in Ips
        /\ Op(p) = "branch" /\ pc[p] \in Launching \union Tearing \union (Wiring \ {"netns"})
              => my[p].slot \in Slots
        /\ Op(p) = "branch" /\ pc[p] \in Wiring \union Tearing \union {"ask", "send", "find", "reopen"}
              => my[p].ip \in Ips
        /\ Op(p) = "rm" /\ pc[p] \in Tearing
              => /\ registry[Mine(p)] # None /\ registry[Mine(p)].slot # None
                 /\ ~registry[Mine(p)].running \/ job[p].flag
        /\ Op(p) \in {"restore", "branch"} /\ pc[p] \in Launching \union Wiring \union {"net", "find", "reopen"}
              => my[p].id \in Ids
        /\ Op(p) \in {"restore", "branch"} /\ pc[p] \in Launching \union Wiring \union {"net", "find", "reopen"}
              => jail[job[p].src] # None
        /\ Op(p) = "branch" /\ pc[p] = "send" => jail[job[p].src] # None
        /\ pc[p] \in Launching \ {"jail"} => jail[Mine(p)] # None
        /\ pc[p] = "signal" => registry[Mine(p)] # None

TypedInv == TypeOK /\ LockInv /\ WhereInv /\ LocalInv

(* The build directory of an image belongs to the process that has the       *)
(* registry open, and is whole when it is packed and when it is published.   *)
BuildInv ==
    \A p \in Procs :
        /\ pc[p] \in {"mkfs", "seal"} => scratch[job[p].img].tree = "whole"
        /\ pc[p] = "publish" => scratch[job[p].img].img = "whole"

(* The address a launch has chosen is nobody else's on the bridge. *)
AddressInv ==
    \A p \in Procs :
        Op(p) # "branch" /\ pc[p] \in Launching \union {"wait"} =>
            \A n \in Recorded \ {Mine(p)} : registry[n].slot = None => registry[n].ip # my[p].ip

(* A process that may have a worker. *)
Spawned == {"put", "wait", "keep", "remove", "done"}

LinkedBefore == [manifest |-> {}, state |-> {"manifest"}, memory |-> {"manifest", "state"}]

(* What a jail that was new to its process has been given so far. *)
FreshInv ==
    \A p \in Procs :
        /\ worker[p] # "none" => pc[p] \in Spawned
        /\ my[p].fresh => pc[p] \in (Launching \ {"jail"}) \union Spawned /\ jail[Mine(p)] # None
        /\ my[p].fresh /\ Op(p) = "run" => jail[Mine(p)].rootfs = job[p].img
        /\ my[p].fresh /\ Op(p) # "run" => my[p].id \in Ids /\ \A f \in Files :
              /\ pc[p] \in Files => jail[Mine(p)].restore[f] =
                    IF f \in LinkedBefore[pc[p]] THEN Wanted(p) ELSE None
              /\ pc[p] \in {"bind", "spawn"} \/ worker[p] # "none" => jail[Mine(p)].restore[f] = Wanted(p)

(* A branch between choosing its slot and address and recording its clone. *)
Branching(p) ==
    /\ Op(p) = "branch"
    /\ pc[p] \in {"ask", "send", "find", "reopen"} \union Wiring \union Tearing \union Launching

IsClone(n) == registry[n] # None /\ registry[n].slot # None

(* A clone that runs, and whose branch had no other in its gap. *)
Sole(n) == IsClone(n) /\ registry[n].running /\ registry[n].pid \notin crossed

(* A branch that crossed no other is the only one under way; what it has     *)
(* chosen no recorded clone has, and nobody else ever has it.                *)
SlotInv ==
    /\ \A p, q \in Procs : Branching(p) /\ Branching(q) /\ p \notin crossed => p = q
    /\ \A p \in Procs, n \in Names :
          Branching(p) /\ IsClone(n) /\ (p \notin crossed \/ Sole(n)) =>
             n # Mine(p) /\ registry[n].slot # my[p].slot /\ registry[n].ip # my[p].ip
    /\ \A m, n \in Names : IsClone(m) /\ Sole(n) /\ m # n =>
          registry[m].slot # registry[n].slot /\ registry[m].ip # registry[n].ip

(* How far the network of a clone being launched is. *)
Wired(n, slot, ip) ==
    netns[n] = "nat" /\ veth[slot] = n /\ masq[slot] > 0 /\ route[ip] = slot

NetInv ==
    \A p \in Procs : Op(p) = "branch" =>
        /\ pc[p] = "nat" => veth[my[p].slot] = Mine(p)
        /\ pc[p] = "masq" => netns[Mine(p)] = "nat" /\ veth[my[p].slot] = Mine(p)
        /\ pc[p] = "route" => netns[Mine(p)] = "nat" /\ veth[my[p].slot] = Mine(p) /\ masq[my[p].slot] > 0
        /\ pc[p] \in Launching => Wired(Mine(p), my[p].slot, my[p].ip)

(* A record of a running machine names its worker; an invocation that has    *)
(* not begun removes nothing.                                                *)
OwnerInv ==
    /\ \A n \in Names : registry[n] # None /\ registry[n].running => registry[n].pid \in Procs
    /\ \A p \in Procs : pc[p] = "idle" => Op(p) = "run"
    /\ \A n \in Names, p \in Procs : registry[n] # None /\ registry[n].pid = p => pc[p] \in Spawned \ {"put"}

IInv == TypedInv /\ BuildInv /\ CachedImagesWhole /\ AddressInv /\ BridgeAddressesDistinct /\ FreshInv


(* The fields of a process's job and of its locals. *)
LEMMA JobType ==
    ASSUME TypeOK, NEW p \in Procs
    PROVE  /\ job[p].op \in Ops /\ job[p].m \in Names /\ job[p].src \in Names
           /\ job[p].img \in Images /\ job[p].id \in Ids /\ job[p].flag \in BOOLEAN
           /\ my[p].ip \in Ips \union {None} /\ my[p].slot \in Nat \union {None}
           /\ my[p].id \in Ids \union {None} /\ my[p].fresh \in BOOLEAN /\ my[p].todo \in SUBSET Ids
BY DEF TypeOK, Jobs, Locals

(* The fields of a record. *)
LEMMA RecordType ==
    ASSUME TypeOK, NEW n \in Names, registry[n] # None
    PROVE  /\ registry[n].ip \in Ips /\ registry[n].slot \in Slots \union {None}
           /\ registry[n].running \in BOOLEAN
           /\ registry[n].running => registry[n].pid \in Procs
           /\ ~registry[n].running => registry[n].pid = None
<1>1. registry[n] \in Record
  BY DEF TypeOK
<1>2. QED
  BY <1>1 DEF Record

(* A set of numbers that is not empty has a least element. *)
LEMMA MinMember == ASSUME NEW S \in SUBSET Nat, S # {} PROVE Min(S) \in S
<1> DEFINE R == OpToRel(<, Nat)
<1>1. \A x, y \in Nat : y < x => <<y, x>> \in R
  BY DEF OpToRel
<1>2. IsWellFoundedOn(R, Nat)
  BY NatLessThanWellFounded
<1> HIDE DEF R
<1>3. PICK x \in S : \A y \in S : ~(<<y, x>> \in R)
  BY <1>2, WFMin
<1>4. ASSUME NEW y \in S PROVE x <= y
  <2>1. x \in Nat /\ y \in Nat
    OBVIOUS
  <2>2. ~(y < x)
    BY <1>1, <1>3, <2>1
  <2>3. QED
    BY <2>1, <2>2
<1>5. QED
  BY <1>4 DEF Min

(* Ipam::allocate gives an address that no record has, or none. *)
LEMMA AllocateFree ==
    ASSUME Allocate # None
    PROVE  Allocate \in Ips /\ Allocate \notin UsedIps /\ Allocate # Gateway
<1> DEFINE free == Ips \ (UsedIps \union {Gateway})
<1>1. free # {} /\ Allocate = Min(free)
  BY DEF Allocate
<1>2. free \in SUBSET Nat
  BY HostAssumption DEF Ips
<1>3. Min(free) \in free
  BY <1>1, <1>2, MinMember
<1>4. QED
  BY <1>1, <1>3

(* There is always a number no recorded clone has for a slot. *)
LEMMA SlotFree ==
    ASSUME TypeOK
    PROVE  LET s == Min((0..Cardinality(UsedSlots)) \ UsedSlots) IN s \in Nat /\ s \notin UsedSlots
<1> DEFINE C == Cardinality(UsedSlots)
           free == (0..C) \ UsedSlots
<1>1. UsedSlots \subseteq Slots
  BY RecordType DEF UsedSlots, Recorded
<1>2. IsFiniteSet(Slots)
  BY FS_Interval, HostAssumption DEF Slots
<1>3. IsFiniteSet(UsedSlots) /\ C \in Nat
  BY <1>1, <1>2, FS_Subset, FS_CardinalityType
<1>4. IsFiniteSet(0..C) /\ Cardinality(0..C) = C + 1
  BY <1>3, FS_Interval
<1>5. ~(0..C \subseteq UsedSlots)
  <2>1. SUFFICES ASSUME 0..C \subseteq UsedSlots PROVE FALSE
    OBVIOUS
  <2>2. Cardinality(0..C) <= C
    BY <2>1, <1>3, FS_Subset
  <2>3. QED
    BY <2>2, <1>3, <1>4
<1>6. free \in SUBSET Nat /\ free # {}
  BY <1>3, <1>5
<1>7. Min(free) \in free
  BY <1>6, MinMember
<1>8. QED
  BY <1>6, <1>7

(* Changing a local, a record or a jail leaves one. *)
LEMMA LocalsType ==
    ASSUME NEW l \in Locals
    PROVE  /\ \A v \in Ips : [l EXCEPT !.ip = v] \in Locals
           /\ \A v \in Nat, w \in Ips : [l EXCEPT !.slot = v, !.ip = w] \in Locals
           /\ \A v \in Ids : [l EXCEPT !.id = v] \in Locals
           /\ \A v \in BOOLEAN : [l EXCEPT !.fresh = v] \in Locals
           /\ \A v \in SUBSET Ids : [l EXCEPT !.todo = v] \in Locals
BY DEF Locals

LEMMA JailedType ==
    ASSUME TypeOK, NEW p \in Procs
    PROVE  /\ Jailed(p) \in Jail
           /\ \A v \in Images \union {None} : [Jailed(p) EXCEPT !.rootfs = LinkOrCopy(@, v)] \in Jail
<1>1. Jailed(p) \in Jail
  BY JobType, HostAssumption DEF TypeOK, Jailed, Empty, NoRestore, Jail, Mine, Files
<1>2. QED
  BY <1>1 DEF LinkOrCopy, Jail

(* What is torn down is in place, and what is left is typed. *)
LEMMA PlanType ==
    ASSUME TypeOK, WhereInv, LocalInv, NEW p \in Procs, pc[p] \in Tearing
    PROVE  Plan(p).slot \in Slots /\ Plan(p).ip \in Ips /\ Mine(p) \in Names
<1>1. Mine(p) \in Names
  BY JobType DEF Mine
<1>2. CASE Op(p) = "rm"
  <2>1. registry[Mine(p)] \in Record /\ registry[Mine(p)].slot # None
    BY <1>1, <1>2 DEF LocalInv, TypeOK
  <2>2. QED
    BY <1>1, <1>2, <2>1 DEF Plan, Record
<1>3. CASE Op(p) = "branch"
  BY <1>1, <1>3 DEF Plan, LocalInv
<1>4. QED
  BY <1>2, <1>3 DEF WhereInv

LEMMA LinksGoneType ==
    ASSUME TypeOK, NEW lost, LinksGone(lost)
    PROVE  veth' \in [Slots -> Names \union {None}] /\ route' \in [Ips -> Slots \union {None}]
BY DEF LinksGone, TypeOK

(* Every step keeps the types, the lock and the locals. *)
LEMMA TypedStep == TypedInv /\ [Next]_vars => TypedInv'
<1> SUFFICES ASSUME TypedInv, [Next]_vars PROVE TypedInv'
  OBVIOUS
<1>t. TypeOK
  BY DEF TypedInv
<1> USE HostAssumption
    DEF TypedInv, Op, Mine, procs, image, clone, files, Goto, Launching, Building, Wiring, Tearing, Files
<1>1. ASSUME NEW p \in Procs, Begin(p) PROVE TypedInv'
  <2> PICK j \in Commands :
        /\ job' = [job EXCEPT ![p] = j]
        /\ pc' = [pc EXCEPT ![p] = CASE j.op = "snapshot" -> "ask"
                                     [] j.op = "snaprm"   -> "remove"
                                     [] j.op = "gc"       -> "keep"
                                     [] OTHER             -> "open"]
        /\ my' = [my EXCEPT ![p].todo = IF j.op = "snaprm" THEN {j.id} ELSE {}]
    BY <1>1 DEF Begin
  <2>j. j \in Jobs /\ j.id \in Ids
    BY DEF Jobs
  <2>m. [my[p] EXCEPT !.todo = IF j.op = "snaprm" THEN {j.id} ELSE {}] \in Locals
    BY <1>t, <2>j, LocalsType DEF TypeOK
  <2>c. pc'[p] \in {"ask", "remove", "keep", "open"} /\ pc[p] = "idle"
    BY <1>1, <1>t DEF Begin, TypeOK
  <2>1. TypeOK'
    BY <1>1, <1>t, <2>j, <2>m, <2>c DEF Begin, TypeOK, Pcs
  <2>2. LockInv'
    BY <1>1, <1>t, JobType DEF Begin, TypeOK, LockInv, Locked
  <2>3. WhereInv'
    BY <1>1, <1>t, JobType DEF Begin, TypeOK, WhereInv
  <2>4. LocalInv'
    <3>1. my'[p].slot = None
      BY <1>t, <2>c DEF TypeOK, LocalInv, Locals
    <3>2. QED
      BY <1>1, <1>t, <2>j, <2>c, <3>1 DEF Begin, TypeOK, LocalInv
  <2>5. QED
    BY <2>1, <2>2, <2>3, <2>4
<1>2. ASSUME NEW p \in Procs, Open(p) PROVE TypedInv'
  <2>1. TypeOK'
    <3>1. pc' \in [Procs -> Pcs] /\ store' \in Procs
      BY <1>2, <1>t DEF Open, TypeOK, Pcs
    <3>2. UNCHANGED <<registry, job, my, worker, image, tap, clone, files>>
      BY <1>2 DEF Open
    <3>3. QED
      BY <1>t, <3>1, <3>2 DEF TypeOK
  <2>2. LockInv'
    BY <1>2, <1>t, JobType DEF Open, TypeOK, LockInv, Locked
  <2>3. WhereInv'
    BY <1>2, <1>t, JobType DEF Open, TypeOK, WhereInv
  <2>4. LocalInv'
    BY <1>2, <1>t, JobType DEF Open, TypeOK, LocalInv, LockInv, WhereInv, Locked
  <2>5. QED
    BY <2>1, <2>2, <2>3, <2>4
<1>3. ASSUME NEW p \in Procs, Abort(p) PROVE TypedInv'
  <2>1. TypeOK'
    BY <1>3, <1>t, JobType DEF Abort, Leave, TypeOK, LocalInv, WhereInv, Record, Jail, Pcs,
       Source, Wholeness
  <2>2. LockInv'
    BY <1>3, <1>t, JobType DEF Abort, Leave, TypeOK, LockInv, Locked
  <2>3. WhereInv'
    BY <1>3, <1>t, JobType DEF Abort, Leave, TypeOK, WhereInv
  <2>4. LocalInv'
    BY <1>3, <1>t, JobType DEF Abort, Leave, TypeOK, LocalInv, LockInv, WhereInv, Locked
  <2>5. QED
    BY <2>1, <2>2, <2>3, <2>4
<1>4. ASSUME NEW p \in Procs, BeginRun(p) PROVE TypedInv'
  <2>1. TypeOK'
    BY <1>4, <1>t, JobType DEF BeginRun, TypeOK, LocalInv, WhereInv, Record, Jail, Pcs,
       Source, Wholeness
  <2>2. LockInv'
    BY <1>4, <1>t, JobType DEF BeginRun, TypeOK, LockInv, Locked
  <2>3. WhereInv'
    BY <1>4, <1>t, JobType DEF BeginRun, TypeOK, WhereInv
  <2>4. LocalInv'
    BY <1>4, <1>t, JobType DEF BeginRun, TypeOK, LocalInv, LockInv, WhereInv, Locked
  <2>5. QED
    BY <2>1, <2>2, <2>3, <2>4
<1>5. ASSUME NEW p \in Procs, BeginRestore(p) PROVE TypedInv'
  <2>1. TypeOK'
    <3>1. [my[p] EXCEPT !.id = job[p].id] \in Locals
      BY <1>t, JobType, LocalsType DEF TypeOK
    <3>2. QED
      BY <1>5, <1>t, <3>1 DEF BeginRestore, TypeOK, Pcs
  <2>2. LockInv'
    BY <1>5, <1>t, JobType DEF BeginRestore, Listed, TypeOK, LockInv, Locked
  <2>3. WhereInv'
    BY <1>5, <1>t, JobType DEF BeginRestore, Listed, TypeOK, WhereInv
  <2>4. LocalInv'
    BY <1>5, <1>t, JobType DEF BeginRestore, Listed, TypeOK, LocalInv, LockInv, WhereInv, Locked
  <2>5. QED
    BY <2>1, <2>2, <2>3, <2>4
<1>6. ASSUME NEW p \in Procs, BeginBranch(p) PROVE TypedInv'
  <2> DEFINE s == Min((0..Cardinality(UsedSlots)) \ UsedSlots)
  <2>s. s \in Nat
    BY <1>t, SlotFree
  <2>a. Allocate \in Ips
    BY <1>6, AllocateFree DEF BeginBranch
  <2> HIDE DEF s
  <2>m. my' = [my EXCEPT ![p] = [my[p] EXCEPT !.slot = s, !.ip = Allocate]]
    BY <1>6 DEF BeginBranch, s
  <2>1. TypeOK'
    <3>1. [my[p] EXCEPT !.slot = s, !.ip = Allocate] \in Locals
      BY <1>t, <2>s, <2>a, LocalsType DEF TypeOK
    <3>2. my' \in [Procs -> Locals]
      BY <1>t, <2>m, <3>1 DEF TypeOK
    <3>3. UNCHANGED <<registry, job, worker, image, tap, netns, veth, masq, route, files>>
          /\ store' = None /\ pc' = [pc EXCEPT ![p] = "ask"] /\ crossed' \subseteq Procs
      BY <1>6, <1>t DEF BeginBranch, InGap, TypeOK
    <3>4. QED
      BY <1>t, <3>2, <3>3 DEF TypeOK, Pcs
  <2>2. LockInv'
    BY <1>6, <1>t, JobType DEF BeginBranch, TypeOK, LockInv, Locked
  <2>3. WhereInv'
    BY <1>6, <1>t, JobType DEF BeginBranch, TypeOK, WhereInv
  <2>4. LocalInv'
    <3>1. my'[p].ip \in Ips
      BY <1>t, <2>a, <2>m DEF TypeOK, Locals
    <3>2. QED
      BY <1>6, <1>t, <2>m, <3>1, JobType DEF BeginBranch, TypeOK, LocalInv, LockInv, WhereInv,
         Locked
  <2>5. QED
    BY <2>1, <2>2, <2>3, <2>4
<1>7. ASSUME NEW p \in Procs, Wipe(p) PROVE TypedInv'
  <2>1. TypeOK'
    <3>1. [tree |-> "short", img |-> "none"] \in [tree : Wholeness, img : Wholeness]
      BY DEF Wholeness
    <3>2. scratch' \in [Images -> [tree : Wholeness, img : Wholeness]]
      BY <1>7, <1>t, <3>1, ZenonT(40) DEF Wipe, TypeOK
    <3>3. pc' \in [Procs -> Pcs] /\ UNCHANGED <<store, registry, job, my, worker, base, tap, clone, files>>
      BY <1>7, <1>t, ZenonT(40) DEF Wipe, TypeOK, Pcs
    <3>4. QED
      BY <1>t, <3>2, <3>3 DEF TypeOK
  <2>2. LockInv'
    BY <1>7, <1>t, JobType DEF Wipe, TypeOK, LockInv, Locked
  <2>3. WhereInv'
    BY <1>7, <1>t, JobType DEF Wipe, TypeOK, WhereInv
  <2>4. LocalInv'
    BY <1>7, <1>t, JobType DEF Wipe, TypeOK, LocalInv, LockInv, WhereInv, Locked
  <2>5. QED
    BY <2>1, <2>2, <2>3, <2>4
<1>8. ASSUME NEW p \in Procs, Unpack(p) PROVE TypedInv'
  <2>1. TypeOK'
    <3>1. "whole" \in Wholeness
      BY DEF Wholeness
    <3>2. scratch' \in [Images -> [tree : Wholeness, img : Wholeness]]
      BY <1>8, <1>t, <3>1, JobType, ZenonT(40) DEF Unpack, TypeOK
    <3>3. QED
      BY <1>8, <1>t, <3>2 DEF Unpack, TypeOK, Pcs
  <2>2. LockInv'
    BY <1>8, <1>t, JobType DEF Unpack, TypeOK, LockInv, Locked
  <2>3. WhereInv'
    BY <1>8, <1>t, JobType DEF Unpack, TypeOK, WhereInv
  <2>4. LocalInv'
    BY <1>8, <1>t, JobType DEF Unpack, TypeOK, LocalInv, LockInv, WhereInv, Locked
  <2>5. QED
    BY <2>1, <2>2, <2>3, <2>4
<1>9. ASSUME NEW p \in Procs, Mkfs(p) PROVE TypedInv'
  <2>1. TypeOK'
    <3>1. "short" \in Wholeness
      BY DEF Wholeness
    <3>2. scratch' \in [Images -> [tree : Wholeness, img : Wholeness]]
      BY <1>9, <1>t, <3>1, JobType, ZenonT(40) DEF Mkfs, TypeOK
    <3>3. QED
      BY <1>9, <1>t, <3>2 DEF Mkfs, TypeOK, Pcs
  <2>2. LockInv'
    BY <1>9, <1>t, JobType DEF Mkfs, TypeOK, LockInv, Locked
  <2>3. WhereInv'
    BY <1>9, <1>t, JobType DEF Mkfs, TypeOK, WhereInv
  <2>4. LocalInv'
    BY <1>9, <1>t, JobType DEF Mkfs, TypeOK, LocalInv, LockInv, WhereInv, Locked
  <2>5. QED
    BY <2>1, <2>2, <2>3, <2>4
<1>10. ASSUME NEW p \in Procs, Seal(p) PROVE TypedInv'
  <2>1. TypeOK'
    <3>1. scratch' \in [Images -> [tree : Wholeness, img : Wholeness]]
      BY <1>10, <1>t, JobType, ZenonT(40) DEF Seal, TypeOK
    <3>2. QED
      BY <1>10, <1>t, <3>1 DEF Seal, TypeOK, Pcs
  <2>2. LockInv'
    BY <1>10, <1>t, JobType DEF Seal, TypeOK, LockInv, Locked
  <2>3. WhereInv'
    BY <1>10, <1>t, JobType DEF Seal, TypeOK, WhereInv
  <2>4. LocalInv'
    BY <1>10, <1>t, JobType DEF Seal, TypeOK, LocalInv, LockInv, WhereInv, Locked
  <2>5. QED
    BY <2>1, <2>2, <2>3, <2>4
<1>11. ASSUME NEW p \in Procs, Publish(p) PROVE TypedInv'
  <2>1. TypeOK'
    BY <1>11, <1>t, JobType DEF Publish, NoScratch, TypeOK, LocalInv, WhereInv, Record, Jail,
       Pcs, Source, Wholeness
  <2>2. LockInv'
    BY <1>11, <1>t, JobType DEF Publish, NoScratch, TypeOK, LockInv, Locked
  <2>3. WhereInv'
    BY <1>11, <1>t, JobType DEF Publish, NoScratch, TypeOK, WhereInv
  <2>4. LocalInv'
    BY <1>11, <1>t, JobType DEF Publish, NoScratch, TypeOK, LocalInv, LockInv, WhereInv, Locked
  <2>5. QED
    BY <2>1, <2>2, <2>3, <2>4
<1>12. ASSUME NEW p \in Procs, Net(p) PROVE TypedInv'
  <2>a. Allocate \in Ips
    BY <1>12, AllocateFree DEF Net
  <2>1. TypeOK'
    <3>1. [my[p] EXCEPT !.ip = Allocate] \in Locals
      BY <1>t, <2>a, LocalsType DEF TypeOK
    <3>2. QED
      BY <1>12, <1>t, <3>1, JobType DEF Net, CreateTap, TypeOK, Pcs
  <2>2. LockInv'
    BY <1>12, <1>t, JobType DEF Net, CreateTap, TypeOK, LockInv, Locked
  <2>3. WhereInv'
    BY <1>12, <1>t, JobType DEF Net, CreateTap, TypeOK, WhereInv
  <2>4. LocalInv'
    <3>1. my'[p].ip \in Ips /\ my'[p].slot = my[p].slot /\ my'[p].id = my[p].id
      BY <1>12, <1>t, <2>a DEF Net, TypeOK, Locals
    <3>2. QED
      BY <1>12, <1>t, <3>1, JobType DEF Net, TypeOK, LocalInv, WhereInv
  <2>5. QED
    BY <2>1, <2>2, <2>3, <2>4
<1>13. ASSUME NEW p \in Procs, Ask(p) PROVE TypedInv'
  <2>1. TypeOK'
    BY <1>13, <1>t, JobType DEF Ask, Asked, TypeOK, LocalInv, WhereInv, Record, Jail, Pcs,
       Source, Wholeness
  <2>2. LockInv'
    BY <1>13, <1>t, JobType DEF Ask, Asked, TypeOK, LockInv, Locked
  <2>3. WhereInv'
    BY <1>13, <1>t, JobType DEF Ask, Asked, TypeOK, WhereInv
  <2>4. LocalInv'
    <3>1. Op(p) = "branch" => jail[job[p].src] # None
      BY <1>13 DEF Ask, Asked
    <3>2. pc' = [pc EXCEPT ![p] = "send"] /\ pc[p] = "ask" /\ UNCHANGED <<jail, job, my, registry>>
      BY <1>13 DEF Ask
    <3>3. QED
      BY <1>t, <3>1, <3>2 DEF TypeOK, LocalInv
  <2>5. QED
    BY <2>1, <2>2, <2>3, <2>4
<1>14. ASSUME NEW p \in Procs, Send(p) PROVE TypedInv'
  <2> DEFINE n == Asked(p)
  <2>n. n \in Names
    BY <1>t, JobType DEF Asked
  <2>i. made[n] + 1 \in Ids /\ made[n] + 1 \in 0..MaxSnap
    BY <1>14, <1>t, <2>n DEF Send, TypeOK, Ids
  <2>m. my' = [my EXCEPT ![p] = [my[p] EXCEPT !.id = made[n] + 1]]
    BY <1>14 DEF Send
  <2>c. /\ \/ pc' = [pc EXCEPT ![p] = IF Op(p) = "branch" THEN "find" ELSE "keep"] /\ UNCHANGED store
           \/ Leave(p)
        /\ pc[p] = "send"
    BY <1>14 DEF Send
  <2> HIDE DEF n
  <2>1. TypeOK'
    <3>1. [my[p] EXCEPT !.id = made[n] + 1] \in Locals
      BY <1>t, <2>i, LocalsType DEF TypeOK
    <3>2. snaps' \in [Names -> [Ids -> SUBSET Files]]
      BY <1>14, <1>t, <2>n, <2>i DEF Send, n, TypeOK
    <3>3. pc' \in [Procs -> Pcs] /\ store' \in Procs \union {None}
      BY <2>c, <1>t, ZenonT(40) DEF Leave, TypeOK, Pcs
    <3>4. made' \in [Names -> 0..MaxSnap]
      BY <1>14, <1>t, <2>n, <2>i DEF Send, n, TypeOK
    <3>5. my' \in [Procs -> Locals]
      BY <1>t, <2>m, <3>1 DEF TypeOK
    <3>6. UNCHANGED <<registry, job, worker, image, tap, clone, jail>>
      BY <1>14 DEF Send
    <3>7. QED
      BY <1>t, <3>2, <3>3, <3>4, <3>5, <3>6 DEF TypeOK
  <2>2. LockInv'
    BY <1>t, <2>c DEF Leave, TypeOK, LockInv, Locked
  <2>3. WhereInv'
    BY <1>14, <1>t, JobType DEF Send, Asked, Leave, TypeOK, WhereInv
  <2>4. LocalInv'
    <3>1. my'[p].id \in Ids /\ my'[p].slot = my[p].slot /\ my'[p].ip = my[p].ip
      BY <1>t, <2>i, <2>m DEF TypeOK, Locals
    <3>2. UNCHANGED <<jail, job, registry>>
      BY <1>14 DEF Send
    <3>3. pc'[p] \in {"find", "keep", "done"} /\ pc[p] = "send" /\ (pc'[p] = "find" => Op(p) = "branch")
      BY <1>t, <2>c DEF TypeOK, Leave
    <3>4. \A q \in Procs \ {p} : my'[q] = my[q] /\ pc'[q] = pc[q]
      BY <1>t, <2>c, <2>m DEF TypeOK, Leave
    <3>5. QED
      BY <1>t, <3>1, <3>2, <3>3, <3>4 DEF LocalInv
  <2>5. QED
    BY <2>1, <2>2, <2>3, <2>4
<1>15. ASSUME NEW p \in Procs, Find(p) PROVE TypedInv'
  <2>1. TypeOK'
    BY <1>15, <1>t, JobType DEF Find, TypeOK, LocalInv, WhereInv, Record, Jail, Pcs, Source,
       Wholeness
  <2>2. LockInv'
    BY <1>15, <1>t, JobType DEF Find, TypeOK, LockInv, Locked
  <2>3. WhereInv'
    BY <1>15, <1>t, JobType DEF Find, TypeOK, WhereInv
  <2>4. LocalInv'
    BY <1>15, <1>t, JobType DEF Find, TypeOK, LocalInv, LockInv, WhereInv, Locked
  <2>5. QED
    BY <2>1, <2>2, <2>3, <2>4
<1>16. ASSUME NEW p \in Procs, Netns(p) PROVE TypedInv'
  <2>1. TypeOK'
    BY <1>16, <1>t, JobType DEF Netns, TypeOK, LocalInv, WhereInv, Record, Jail, Pcs, Source,
       Wholeness
  <2>2. LockInv'
    BY <1>16, <1>t, JobType DEF Netns, TypeOK, LockInv, Locked
  <2>3. WhereInv'
    BY <1>16, <1>t, JobType DEF Netns, TypeOK, WhereInv
  <2>4. LocalInv'
    BY <1>16, <1>t, JobType DEF Netns, TypeOK, LocalInv, LockInv, WhereInv, Locked
  <2>5. QED
    BY <2>1, <2>2, <2>3, <2>4
<1>17. ASSUME NEW p \in Procs, OpenTun(p) PROVE TypedInv'
  <2>1. TypeOK'
    BY <1>17, <1>t, JobType DEF OpenTun, TypeOK, LocalInv, WhereInv, Record, Jail, Pcs,
       Source, Wholeness
  <2>2. LockInv'
    BY <1>17, <1>t, JobType DEF OpenTun, TypeOK, LockInv, Locked
  <2>3. WhereInv'
    BY <1>17, <1>t, JobType DEF OpenTun, TypeOK, WhereInv
  <2>4. LocalInv'
    BY <1>17, <1>t, JobType DEF OpenTun, TypeOK, LocalInv, LockInv, WhereInv, Locked
  <2>5. QED
    BY <2>1, <2>2, <2>3, <2>4
<1>18. ASSUME NEW p \in Procs, Veth(p) PROVE TypedInv'
  <2>1. TypeOK'
    BY <1>18, <1>t, JobType DEF Veth, TypeOK, LocalInv, WhereInv, Record, Jail, Pcs, Source,
       Wholeness
  <2>2. LockInv'
    BY <1>18, <1>t, JobType DEF Veth, TypeOK, LockInv, Locked
  <2>3. WhereInv'
    BY <1>18, <1>t, JobType DEF Veth, TypeOK, WhereInv
  <2>4. LocalInv'
    BY <1>18, <1>t, JobType DEF Veth, TypeOK, LocalInv, LockInv, WhereInv, Locked
  <2>5. QED
    BY <2>1, <2>2, <2>3, <2>4
<1>19. ASSUME NEW p \in Procs, Wire(p) PROVE TypedInv'
  <2>1. TypeOK'
    BY <1>19, <1>t, JobType DEF Wire, TypeOK, LocalInv, WhereInv, Record, Jail, Pcs, Source,
       Wholeness
  <2>2. LockInv'
    BY <1>19, <1>t, JobType DEF Wire, TypeOK, LockInv, Locked
  <2>3. WhereInv'
    BY <1>19, <1>t, JobType DEF Wire, TypeOK, WhereInv
  <2>4. LocalInv'
    BY <1>19, <1>t, JobType DEF Wire, TypeOK, LocalInv, LockInv, WhereInv, Locked
  <2>5. QED
    BY <2>1, <2>2, <2>3, <2>4
<1>20. ASSUME NEW p \in Procs, Route(p) PROVE TypedInv'
  <2>1. TypeOK'
    BY <1>20, <1>t, JobType DEF Route, TypeOK, LocalInv, WhereInv, Record, Jail, Pcs, Source,
       Wholeness
  <2>2. LockInv'
    BY <1>20, <1>t, JobType DEF Route, TypeOK, LockInv, Locked
  <2>3. WhereInv'
    BY <1>20, <1>t, JobType DEF Route, TypeOK, WhereInv
  <2>4. LocalInv'
    BY <1>20, <1>t, JobType DEF Route, TypeOK, LocalInv, LockInv, WhereInv, Locked
  <2>5. QED
    BY <2>1, <2>2, <2>3, <2>4
<1>21. ASSUME NEW p \in Procs, WireFails(p) PROVE TypedInv'
  <2>1. TypeOK'
    BY <1>21, <1>t, JobType DEF WireFails, TypeOK, LocalInv, WhereInv, Record, Jail, Pcs,
       Source, Wholeness
  <2>2. LockInv'
    BY <1>21, <1>t, JobType DEF WireFails, TypeOK, LockInv, Locked
  <2>3. WhereInv'
    BY <1>21, <1>t, JobType DEF WireFails, TypeOK, WhereInv
  <2>4. LocalInv'
    BY <1>21, <1>t, JobType DEF WireFails, TypeOK, LocalInv, LockInv, WhereInv, Locked
  <2>5. QED
    BY <2>1, <2>2, <2>3, <2>4
<1>22. ASSUME NEW p \in Procs, MakeJail(p) PROVE TypedInv'
  <2>j. [Jailed(p) EXCEPT !.rootfs = LinkOrCopy(@, job[p].img)] \in Jail
    BY <1>t, JailedType, JobType
  <2>a. /\ jail' \in [Names -> Jail \union {None}] /\ jail'[Mine(p)] # None
        /\ \A n \in Names : jail[n] # None => jail'[n] # None
    BY <1>22, <1>t, <2>j, JobType DEF MakeJail, TypeOK
  <2>l. [my[p] EXCEPT !.fresh = (jail[Mine(p)] = None)] \in Locals
    BY <1>t, LocalsType DEF TypeOK
  <2>m. my' \in [Procs -> Locals] /\ my'[p].ip = my[p].ip /\ my'[p].slot = my[p].slot /\ my'[p].id = my[p].id
    BY <1>22, <1>t, <2>l DEF MakeJail, TypeOK
  <2>1. TypeOK'
    BY <1>22, <1>t, <2>a, <2>m DEF MakeJail, TypeOK, Pcs
  <2>2. LockInv'
    BY <1>22, <1>t, JobType DEF MakeJail, LinkOrCopy, TypeOK, LockInv, Locked
  <2>3. WhereInv'
    BY <1>22, <1>t, JobType DEF MakeJail, LinkOrCopy, TypeOK, WhereInv
  <2>4. LocalInv'
    <3>1. pc' = [pc EXCEPT ![p] = "bind"] /\ pc[p] = "jail" /\ Op(p) = "run" /\ UNCHANGED <<job, registry>>
      BY <1>22 DEF MakeJail
    <3>2. \A q \in Procs \ {p} : my'[q] = my[q]
      BY <1>22, <1>t DEF MakeJail, TypeOK
    <3>3. QED
      BY <1>t, <2>a, <2>m, <3>1, <3>2, JobType DEF TypeOK, LocalInv
  <2>5. QED
    BY <2>1, <2>2, <2>3, <2>4
<1>23. ASSUME NEW p \in Procs, RestoreJail(p) PROVE TypedInv'
  <2>r. jail[job[p].src].rootfs \in Images \union {None} /\ Op(p) \in {"restore", "branch"}
    BY <1>23, <1>t, JobType DEF RestoreJail, LocalInv, WhereInv, TypeOK, Jail
  <2>j. [Jailed(p) EXCEPT !.rootfs = LinkOrCopy(@, jail[job[p].src].rootfs)] \in Jail
    BY <1>t, <2>r, JailedType
  <2>a. /\ jail' \in [Names -> Jail \union {None}] /\ jail'[Mine(p)] # None
        /\ \A n \in Names : jail[n] # None => jail'[n] # None
    BY <1>23, <1>t, <2>j, JobType DEF RestoreJail, TypeOK
  <2>l. [my[p] EXCEPT !.fresh = (jail[Mine(p)] = None)] \in Locals
    BY <1>t, LocalsType DEF TypeOK
  <2>m. my' \in [Procs -> Locals] /\ my'[p].ip = my[p].ip /\ my'[p].slot = my[p].slot /\ my'[p].id = my[p].id
    BY <1>23, <1>t, <2>l DEF RestoreJail, TypeOK
  <2>1. TypeOK'
    BY <1>23, <1>t, <2>a, <2>m DEF RestoreJail, TypeOK, Pcs
  <2>2. LockInv'
    BY <1>23, <1>t, JobType DEF RestoreJail, LinkOrCopy, TypeOK, LockInv, Locked
  <2>3. WhereInv'
    BY <1>23, <1>t, JobType DEF RestoreJail, LinkOrCopy, TypeOK, WhereInv
  <2>4. LocalInv'
    <3>1. pc' = [pc EXCEPT ![p] = "manifest"] /\ pc[p] = "jail" /\ UNCHANGED <<job, registry>>
      BY <1>23 DEF RestoreJail
    <3>2. \A q \in Procs \ {p} : my'[q] = my[q]
      BY <1>23, <1>t DEF RestoreJail, TypeOK
    <3>3. QED
      BY <1>t, <2>a, <2>m, <3>1, <3>2, JobType DEF TypeOK, LocalInv
  <2>5. QED
    BY <2>1, <2>2, <2>3, <2>4
<1>24. ASSUME NEW p \in Procs, LinkFile(p) PROVE TypedInv'
  <2> PICK f \in Files : Goto(p, f, AfterFile[f]) /\ Links(p, f)
    BY <1>24 DEF LinkFile
  <2>c. pc[p] = f /\ pc' = [pc EXCEPT ![p] = AfterFile[f]] /\ AfterFile[f] \in {"state", "memory", "bind"}
    BY DEF AfterFile
  <2>u. UNCHANGED <<store, registry, job, my, worker, image, tap, clone, snaps, made>>
    BY <1>24 DEF LinkFile
  <2>w. Wanted(p) \in Source /\ jail[Mine(p)] \in Jail
    BY <1>t, <2>c, JobType DEF LocalInv, WhereInv, TypeOK, Wanted, Source
  <2>j. [jail[Mine(p)] EXCEPT !.restore[f] = LinkOrCopy(@, Wanted(p))] \in Jail
    BY <2>w DEF LinkOrCopy, Jail
  <2>a. /\ jail' \in [Names -> Jail \union {None}]
        /\ \A n \in Names : jail[n] # None => jail'[n] # None
    BY <1>t, <2>j, JobType DEF Links, TypeOK
  <2>1. TypeOK'
    BY <1>t, <2>a, <2>c, <2>u DEF TypeOK, Pcs
  <2>2. LockInv'
    BY <1>t, <2>c, <2>u DEF TypeOK, LockInv, Locked
  <2>3. WhereInv'
    BY <1>t, <2>c, <2>u DEF TypeOK, WhereInv
  <2>4. LocalInv'
    BY <1>t, <2>a, <2>c, <2>u, JobType DEF TypeOK, LocalInv
  <2>5. QED
    BY <2>1, <2>2, <2>3, <2>4
<1>25. ASSUME NEW p \in Procs, Bind(p) PROVE TypedInv'
  <2>w. jail[Mine(p)] \in Jail
    BY <1>25, <1>t, JobType DEF Bind, LocalInv, TypeOK
  <2>j. [jail[Mine(p)] EXCEPT !.control = p] \in Jail
    BY <2>w DEF Jail
  <2>a. /\ jail' \in [Names -> Jail \union {None}]
        /\ \A n \in Names : jail[n] # None => jail'[n] # None
    BY <1>25, <1>t, <2>j, JobType DEF Bind, TypeOK
  <2>1. TypeOK'
    BY <1>25, <1>t, <2>a DEF Bind, TypeOK, Pcs
  <2>2. LockInv'
    BY <1>25, <1>t, JobType DEF Bind, TypeOK, LockInv, Locked
  <2>3. WhereInv'
    BY <1>25, <1>t, JobType DEF Bind, TypeOK, WhereInv
  <2>4. LocalInv'
    BY <1>25, <1>t, <2>a, JobType DEF Bind, TypeOK, LocalInv
  <2>5. QED
    BY <2>1, <2>2, <2>3, <2>4
<1>26. ASSUME NEW p \in Procs, SpawnWorker(p) PROVE TypedInv'
  <2>1. TypeOK'
    BY <1>26, <1>t, JobType DEF SpawnWorker, TypeOK, LocalInv, WhereInv, Record, Jail, Pcs,
       Source, Wholeness
  <2>2. LockInv'
    BY <1>26, <1>t, JobType DEF SpawnWorker, TypeOK, LockInv, Locked
  <2>3. WhereInv'
    BY <1>26, <1>t, JobType DEF SpawnWorker, TypeOK, WhereInv
  <2>4. LocalInv'
    BY <1>26, <1>t, JobType DEF SpawnWorker, TypeOK, LocalInv, LockInv, WhereInv, Locked
  <2>5. QED
    BY <2>1, <2>2, <2>3, <2>4
<1>27. ASSUME NEW p \in Procs, Put(p) PROVE TypedInv'
  <2>1. TypeOK'
    <3>1. my[p].ip \in Ips /\ my[p].slot \in Slots \union {None}
      BY <1>27 DEF Put, LocalInv
    <3>2. registry' \in [Names -> Record \union {None}]
      BY <1>27, <1>t, <3>1, JobType DEF Put, TypeOK, Record
    <3>3. pc' \in [Procs -> Pcs] /\ store' \in Procs \union {None}
      BY <1>27, <1>t, ZenonT(40) DEF Put, Leave, TypeOK, Pcs
    <3>4. UNCHANGED <<job, my, worker, image, tap, clone, files>>
      BY <1>27 DEF Put
    <3>5. QED
      BY <1>t, <3>2, <3>3, <3>4 DEF TypeOK
  <2>2. LockInv'
    BY <1>27, <1>t, JobType DEF Put, Leave, TypeOK, LockInv, Locked
  <2>3. WhereInv'
    BY <1>27, <1>t, JobType DEF Put, Leave, TypeOK, WhereInv
  <2>4. LocalInv'
    BY <1>27, <1>t, JobType DEF Put, Leave, TypeOK, LocalInv, LockInv, WhereInv, Locked
  <2>5. QED
    BY <2>1, <2>2, <2>3, <2>4
<1>28. ASSUME NEW p \in Procs, Waited(p) PROVE TypedInv'
  <2>1. TypeOK'
    BY <1>28, <1>t, JobType DEF Waited, Leave, TypeOK, LocalInv, WhereInv, Record, Jail, Pcs,
       Source, Wholeness
  <2>2. LockInv'
    BY <1>28, <1>t, JobType DEF Waited, Leave, TypeOK, LockInv, Locked
  <2>3. WhereInv'
    BY <1>28, <1>t, JobType DEF Waited, Leave, TypeOK, WhereInv
  <2>4. LocalInv'
    BY <1>28, <1>t, JobType DEF Waited, Leave, TypeOK, LocalInv, LockInv, WhereInv, Locked
  <2>5. QED
    BY <2>1, <2>2, <2>3, <2>4
<1>29. ASSUME NEW p \in Procs, WorkerEnds(p) PROVE TypedInv'
  <2>1. TypeOK'
    BY <1>29, <1>t, JobType DEF WorkerEnds, Alive, TypeOK, LocalInv, WhereInv, Record, Jail,
       Pcs, Source, Wholeness
  <2>2. LockInv'
    BY <1>29, <1>t, JobType DEF WorkerEnds, Alive, TypeOK, LockInv, Locked
  <2>3. WhereInv'
    BY <1>29, <1>t, JobType DEF WorkerEnds, Alive, TypeOK, WhereInv
  <2>4. LocalInv'
    BY <1>29, <1>t, JobType DEF WorkerEnds, Alive, TypeOK, LocalInv, LockInv, WhereInv, Locked
  <2>5. QED
    BY <2>1, <2>2, <2>3, <2>4
<1>30. ASSUME NEW p \in Procs, BeginStop(p) PROVE TypedInv'
  <2>1. TypeOK'
    <3>1. pc' \in [Procs -> Pcs] /\ store' \in Procs \union {None}
      BY <1>30, <1>t, ZenonT(40) DEF BeginStop, Leave, TypeOK, Pcs
    <3>2. worker' \in [Procs -> {"none", "alive", "term", "dead"}]
      BY <1>30, <1>t DEF BeginStop, TypeOK
    <3>3. UNCHANGED <<registry, job, my, image, tap, clone, files>>
      BY <1>30 DEF BeginStop
    <3>4. QED
      BY <1>t, <3>1, <3>2, <3>3 DEF TypeOK
  <2>2. LockInv'
    <3>1. \/ pc' = [pc EXCEPT ![p] = "signal"] /\ UNCHANGED store
          \/ Leave(p)
      BY <1>30 DEF BeginStop
    <3>2. pc[p] = "begin"
      BY <1>30 DEF BeginStop
    <3>3. QED
      <4>1. \A q \in Procs \ {p} : pc'[q] = pc[q] /\ pc[q] \notin Locked
        BY <1>t, <3>1, <3>2 DEF Leave, TypeOK, LockInv, Locked
      <4>2. pc'[p] \in Locked => store' = p
        BY <1>t, <3>1, <3>2 DEF Leave, TypeOK, LockInv, Locked
      <4>3. QED
        BY <4>1, <4>2 DEF LockInv
  <2>3. WhereInv'
    BY <1>30, <1>t, JobType DEF BeginStop, Leave, TypeOK, WhereInv
  <2>4. LocalInv'
    BY <1>30, <1>t, JobType DEF BeginStop, Leave, TypeOK, LocalInv, LockInv, WhereInv, Locked
  <2>5. QED
    BY <2>1, <2>2, <2>3, <2>4
<1>31. ASSUME NEW p \in Procs, PutStopped(p) PROVE TypedInv'
  <2>1. TypeOK'
    <3>1. registry[Mine(p)] \in Record
      BY <1>31, <1>t, JobType DEF PutStopped, LocalInv, TypeOK
    <3>2. [registry[Mine(p)] EXCEPT !.running = FALSE, !.pid = None] \in Record
      BY <3>1 DEF Record
    <3>3. registry' = [registry EXCEPT ![Mine(p)] = [registry[Mine(p)] EXCEPT !.running = FALSE, !.pid = None]]
      BY <1>31, <1>t, JobType DEF PutStopped, TypeOK
    <3>4. registry' \in [Names -> Record \union {None}]
      BY <1>t, <3>2, <3>3 DEF TypeOK
    <3>5. pc' \in [Procs -> Pcs] /\ store' \in Procs \union {None}
      BY <1>31, <1>t DEF PutStopped, Leave, TypeOK, Pcs
    <3>6. UNCHANGED <<job, my, worker, image, tap, clone, files>>
      BY <1>31 DEF PutStopped
    <3>7. QED
      BY <1>t, <3>4, <3>5, <3>6 DEF TypeOK
  <2>2. LockInv'
    BY <1>31, <1>t, JobType DEF PutStopped, Leave, TypeOK, LockInv, Locked
  <2>3. WhereInv'
    BY <1>31, <1>t, JobType DEF PutStopped, Leave, TypeOK, WhereInv
  <2>4. LocalInv'
    BY <1>31, <1>t, JobType DEF PutStopped, Leave, TypeOK, LocalInv, LockInv, WhereInv, Locked
  <2>5. QED
    BY <2>1, <2>2, <2>3, <2>4
<1>32. ASSUME NEW p \in Procs, BeginRm(p) PROVE TypedInv'
  <2>1. TypeOK'
    <3>1. pc' \in [Procs -> Pcs] /\ tap' \in [Names -> Procs \union {None, "idle"}]
      BY <1>32, <1>t, JobType DEF BeginRm, TeardownTap, TypeOK, Pcs
    <3>2. QED
      BY <1>32, <1>t, <3>1 DEF BeginRm, TypeOK
  <2>2. pc'[p] \in {"unmasq", "delete"} /\ \A q \in Procs \ {p} : pc'[q] = pc[q]
    BY <1>32, <1>t DEF BeginRm, TypeOK
  <2>3. /\ UNCHANGED <<store, registry, job, my, jail>> /\ pc[p] = "begin" /\ Op(p) = "rm"
        /\ registry[Mine(p)] # None /\ (~registry[Mine(p)].running \/ job[p].flag)
        /\ pc'[p] = "unmasq" => registry[Mine(p)].slot # None
    BY <1>32, <1>t DEF BeginRm, TypeOK
  <2>4. LockInv'
    BY <1>t, <2>2, <2>3 DEF LockInv, Locked
  <2>5. WhereInv'
    BY <1>t, <2>2, <2>3 DEF WhereInv
  <2>6. LocalInv'
    BY <1>t, <2>2, <2>3 DEF LocalInv
  <2>7. QED
    BY <2>1, <2>4, <2>5, <2>6
<1>33. ASSUME NEW p \in Procs, Delete(p) PROVE TypedInv'
  <2>1. TypeOK'
    BY <1>33, <1>t, JobType DEF Delete, Leave, TypeOK, LocalInv, WhereInv, Record, Jail, Pcs,
       Source, Wholeness
  <2>2. LockInv'
    BY <1>33, <1>t, JobType DEF Delete, Leave, TypeOK, LockInv, Locked
  <2>3. WhereInv'
    BY <1>33, <1>t, JobType DEF Delete, Leave, TypeOK, WhereInv
  <2>4. LocalInv'
    BY <1>33, <1>t, JobType DEF Delete, Leave, TypeOK, LocalInv, LockInv, WhereInv, Locked
  <2>5. QED
    BY <2>1, <2>2, <2>3, <2>4
<1>34. ASSUME NEW p \in Procs, Gc(p) PROVE TypedInv'
  <2>1. TypeOK'
    <3>1. Victims(Asked(p)) \in SUBSET Ids
      BY DEF Victims, Listed
    <3>2. my' \in [Procs -> Locals]
      BY <1>34, <1>t, <3>1, LocalsType DEF Gc, TypeOK
    <3>3. QED
      BY <1>34, <1>t, <3>2 DEF Gc, TypeOK, Pcs
  <2>2. LockInv'
    BY <1>34, <1>t, JobType DEF Gc, Asked, TypeOK, LockInv, Locked
  <2>3. WhereInv'
    BY <1>34, <1>t, JobType DEF Gc, Asked, TypeOK, WhereInv
  <2>4. LocalInv'
    BY <1>34, <1>t, JobType DEF Gc, Asked, TypeOK, LocalInv, LockInv, WhereInv, Locked
  <2>5. QED
    BY <2>1, <2>2, <2>3, <2>4
<1>35. ASSUME NEW p \in Procs, RemoveFile(p) PROVE TypedInv'
  <2>1. TypeOK'
    <3>1. UNCHANGED <<store, registry, procs, worker, image, tap, clone, jail, made>>
      BY <1>35 DEF RemoveFile
    <3>2. Asked(p) \in Names
      BY <1>t, JobType DEF Asked
    <3>3. PICK i \in my[p].todo, f \in Files : snaps' = [snaps EXCEPT ![Asked(p)][i] = @ \ {f}]
      BY <1>35 DEF RemoveFile
    <3>4. i \in Ids
      BY <1>t, JobType
    <3>5. snaps' \in [Names -> [Ids -> SUBSET Files]]
      BY <1>t, <3>2, <3>3, <3>4 DEF TypeOK
    <3>6. QED
      BY <1>t, <3>1, <3>5 DEF TypeOK
  <2>2. LockInv'
    BY <1>35, <1>t, JobType DEF RemoveFile, Asked, TypeOK, LockInv, Locked
  <2>3. WhereInv'
    BY <1>35, <1>t, JobType DEF RemoveFile, Asked, TypeOK, WhereInv
  <2>4. LocalInv'
    BY <1>35, <1>t, JobType DEF RemoveFile, Asked, TypeOK, LocalInv, LockInv, WhereInv, Locked
  <2>5. QED
    BY <2>1, <2>2, <2>3, <2>4
<1>36. ASSUME NEW p \in Procs, Removed(p) PROVE TypedInv'
  <2>1. TypeOK'
    BY <1>36, <1>t, JobType DEF Removed, Leave, Asked, TypeOK, LocalInv, WhereInv, Record,
       Jail, Pcs, Source, Wholeness
  <2>2. LockInv'
    BY <1>36, <1>t, JobType DEF Removed, Leave, Asked, TypeOK, LockInv, Locked
  <2>3. WhereInv'
    BY <1>36, <1>t, JobType DEF Removed, Leave, Asked, TypeOK, WhereInv
  <2>4. LocalInv'
    BY <1>36, <1>t, JobType DEF Removed, Leave, Asked, TypeOK, LocalInv, LockInv, WhereInv, Locked
  <2>5. QED
    BY <2>1, <2>2, <2>3, <2>4
<1>40. ASSUME NEW p \in Procs, Masquerade(p) PROVE TypedInv'
  <2>1. TypeOK'
    <3>1. my[p].slot \in Slots
      BY <1>40, <1>t DEF Masquerade, WhereInv, LocalInv
    <3>2. masq' \in [Slots -> Nat]
      <4>1. masq \in [Slots -> Nat] /\ masq' = [masq EXCEPT ![my[p].slot] = @ + 1]
        BY <1>40, <1>t DEF Masquerade, TypeOK
      <4>2. QED
        BY <3>1, <4>1
    <3>3. pc' \in [Procs -> Pcs]
      BY <1>40, <1>t DEF Masquerade, TypeOK, Pcs
    <3>4. QED
      BY <1>40, <1>t, <3>2, <3>3 DEF Masquerade, TypeOK
  <2>2. LockInv'
    BY <1>40, <1>t, JobType DEF Masquerade, TypeOK, LockInv, Locked
  <2>3. WhereInv'
    BY <1>40, <1>t, JobType DEF Masquerade, TypeOK, WhereInv
  <2>4. LocalInv'
    BY <1>40, <1>t, JobType DEF Masquerade, TypeOK, LocalInv, LockInv, WhereInv, Locked
  <2>5. QED
    BY <2>1, <2>2, <2>3, <2>4
<1>41. ASSUME NEW p \in Procs, DropMasq(p) PROVE TypedInv'
  <2>1. TypeOK'
    <3>1. pc[p] \in Tearing
      BY <1>41 DEF DropMasq
    <3>2. Plan(p).slot \in Slots
      BY <1>t, <3>1, PlanType
    <3>3. masq' \in [Slots -> Nat]
      <4>1. /\ masq \in [Slots -> Nat]
            /\ masq' = [masq EXCEPT ![Plan(p).slot] = IF @ = 0 THEN 0 ELSE @ - 1]
        BY <1>41, <1>t DEF DropMasq, TypeOK
      <4>2. QED
        BY <3>2, <4>1
    <3>4. pc' \in [Procs -> Pcs]
      BY <1>41, <1>t DEF DropMasq, TypeOK, Pcs
    <3>5. QED
      BY <1>41, <1>t, <3>3, <3>4 DEF DropMasq, TypeOK
  <2>2. LockInv'
    BY <1>41, <1>t, JobType DEF DropMasq, TypeOK, LockInv, Locked
  <2>3. WhereInv'
    BY <1>41, <1>t, JobType DEF DropMasq, TypeOK, WhereInv
  <2>4. LocalInv'
    BY <1>41, <1>t, JobType DEF DropMasq, TypeOK, LocalInv, LockInv, WhereInv, Locked
  <2>5. QED
    BY <2>1, <2>2, <2>3, <2>4
<1>42. ASSUME NEW p \in Procs, DropRoute(p) PROVE TypedInv'
  <2>1. TypeOK'
    <3>1. pc[p] \in Tearing
      BY <1>42 DEF DropRoute
    <3>2. Plan(p).slot \in Slots /\ Plan(p).ip \in Ips /\ Mine(p) \in Names
      BY <1>t, <3>1, PlanType
    <3>3. route' \in [Ips -> Slots \union {None}] /\ pc' \in [Procs -> Pcs]
      BY <1>42, <1>t, <3>2 DEF DropRoute, TypeOK, Pcs
    <3>4. QED
      BY <1>42, <1>t, <3>3 DEF DropRoute, TypeOK
  <2>2. LockInv'
    BY <1>42, <1>t, JobType DEF DropRoute, TypeOK, LockInv, Locked
  <2>3. WhereInv'
    BY <1>42, <1>t, JobType DEF DropRoute, TypeOK, WhereInv
  <2>4. LocalInv'
    BY <1>42, <1>t, JobType DEF DropRoute, TypeOK, LocalInv, LockInv, WhereInv, Locked
  <2>5. QED
    BY <2>1, <2>2, <2>3, <2>4
<1>43. ASSUME NEW p \in Procs, DropVeth(p) PROVE TypedInv'
  <2>1. TypeOK'
    <3>1. pc[p] \in Tearing
      BY <1>43 DEF DropVeth
    <3>2. Plan(p).slot \in Slots /\ Plan(p).ip \in Ips /\ Mine(p) \in Names
      BY <1>t, <3>1, PlanType
    <3>3. veth' \in [Slots -> Names \union {None}] /\ route' \in [Ips -> Slots \union {None}]
          /\ pc' \in [Procs -> Pcs]
      BY <1>43, <1>t, <3>2, LinksGoneType DEF DropVeth, TypeOK, Pcs
    <3>4. QED
      BY <1>43, <1>t, <3>3 DEF DropVeth, TypeOK
  <2>2. LockInv'
    BY <1>43, <1>t, JobType DEF DropVeth, TypeOK, LockInv, Locked
  <2>3. WhereInv'
    BY <1>43, <1>t, JobType DEF DropVeth, TypeOK, WhereInv
  <2>4. LocalInv'
    BY <1>43, <1>t, JobType DEF DropVeth, TypeOK, LocalInv, LockInv, WhereInv, Locked
  <2>5. QED
    BY <2>1, <2>2, <2>3, <2>4
<1>44. ASSUME NEW p \in Procs, DropNetns(p) PROVE TypedInv'
  <2>1. TypeOK'
    <3>1. pc[p] \in Tearing /\ LinksGone({s \in Slots : veth[s] = Mine(p)})
      BY <1>44 DEF DropNetns
    <3>2. Mine(p) \in Names
      BY <1>t, <3>1, PlanType
    <3>3. veth' \in [Slots -> Names \union {None}] /\ route' \in [Ips -> Slots \union {None}]
      BY <1>t, <3>1, LinksGoneType
    <3>4. /\ pc' \in [Procs -> Pcs] /\ store' \in Procs \union {None}
          /\ netns' \in [Names -> {"none", "bare", "tap", "nat"}]
      BY <1>44, <1>t, <3>2 DEF DropNetns, Leave, TypeOK, Pcs
    <3>5. QED
      BY <1>44, <1>t, <3>3, <3>4 DEF DropNetns, TypeOK
  <2>2. LockInv'
    BY <1>44, <1>t, JobType DEF DropNetns, Leave, TypeOK, LockInv, Locked
  <2>3. WhereInv'
    BY <1>44, <1>t, JobType DEF DropNetns, Leave, TypeOK, WhereInv
  <2>4. LocalInv'
    BY <1>44, <1>t, JobType DEF DropNetns, Leave, TypeOK, LocalInv, LockInv, WhereInv, Locked
  <2>5. QED
    BY <2>1, <2>2, <2>3, <2>4
<1>37. CASE UNCHANGED vars
  BY <1>37 DEF vars, TypeOK, LocalInv, LockInv, WhereInv
<1>38. QED
  BY <1>1, <1>2, <1>3, <1>4, <1>5, <1>6, <1>7, <1>8, <1>9, <1>10, <1>11, <1>12, <1>13, <1>14,
     <1>15, <1>16, <1>17, <1>18, <1>19, <1>20, <1>21, <1>22, <1>23, <1>24, <1>25, <1>26,
     <1>27, <1>28, <1>29, <1>30, <1>31, <1>32, <1>33, <1>34, <1>35, <1>36, <1>40,
     <1>41, <1>42, <1>43, <1>44, <1>37 DEF Next

(* One file is linked, in the order manifest, state, memory. *)
LEMMA LinkStep ==
    ASSUME NEW p \in Procs, LinkFile(p)
    PROVE  \E f \in Files :
              /\ pc[p] = f /\ pc' = [pc EXCEPT ![p] = AfterFile[f]]
              /\ AfterFile[f] \in {"state", "memory", "bind"}
              /\ Links(p, f)
              /\ UNCHANGED <<store, registry, job, my, worker, image, tap, clone, snaps, made>>
BY DEF LinkFile, Goto, AfterFile, Files

(* The build directory and the cache change hands with the registry. *)
LEMMA BuildStep == TypedInv /\ BuildInv /\ CachedImagesWhole /\ [Next]_vars => (BuildInv /\ CachedImagesWhole)'
<1> SUFFICES ASSUME TypedInv /\ BuildInv /\ CachedImagesWhole, [Next]_vars PROVE (BuildInv /\ CachedImagesWhole)'
  OBVIOUS
<1>t. TypeOK /\ LockInv /\ WhereInv /\ LocalInv
  BY DEF TypedInv
<1> USE HostAssumption DEF Op, Mine, procs, image, clone, files, Goto
<1>1. ASSUME NEW p \in Procs, Begin(p) PROVE (BuildInv /\ CachedImagesWhole)'
  BY <1>1, <1>t, JobType DEF Begin, TypeOK, LockInv, Locked, Building, BuildInv, CachedImagesWhole
<1>2. ASSUME NEW p \in Procs, Open(p) PROVE (BuildInv /\ CachedImagesWhole)'
  BY <1>2, <1>t, JobType DEF Open, TypeOK, LockInv, Locked, Building, BuildInv, CachedImagesWhole
<1>3. ASSUME NEW p \in Procs, Abort(p) PROVE (BuildInv /\ CachedImagesWhole)'
  BY <1>3, <1>t, JobType DEF Abort, Leave, TypeOK, LockInv, Locked, Building, BuildInv,
     CachedImagesWhole
<1>4. ASSUME NEW p \in Procs, BeginRun(p) PROVE (BuildInv /\ CachedImagesWhole)'
  BY <1>4, <1>t, JobType DEF BeginRun, TypeOK, LockInv, Locked, Building, BuildInv,
     CachedImagesWhole
<1>5. ASSUME NEW p \in Procs, BeginRestore(p) PROVE (BuildInv /\ CachedImagesWhole)'
  BY <1>5, <1>t, JobType DEF BeginRestore, TypeOK, LockInv, Locked, Building, BuildInv,
     CachedImagesWhole
<1>6. ASSUME NEW p \in Procs, BeginBranch(p) PROVE (BuildInv /\ CachedImagesWhole)'
  BY <1>6, <1>t, JobType DEF BeginBranch, TypeOK, LockInv, Locked, Building, BuildInv,
     CachedImagesWhole
<1>7. ASSUME NEW p \in Procs, Wipe(p) PROVE (BuildInv /\ CachedImagesWhole)'
  BY <1>7, <1>t, JobType DEF Wipe, TypeOK, LockInv, Locked, Building, BuildInv, CachedImagesWhole
<1>8. ASSUME NEW p \in Procs, Unpack(p) PROVE (BuildInv /\ CachedImagesWhole)'
  BY <1>8, <1>t, JobType DEF Unpack, TypeOK, LockInv, Locked, Building, BuildInv, CachedImagesWhole
<1>9. ASSUME NEW p \in Procs, Mkfs(p) PROVE (BuildInv /\ CachedImagesWhole)'
  BY <1>9, <1>t, JobType DEF Mkfs, TypeOK, LockInv, Locked, Building, BuildInv, CachedImagesWhole
<1>10. ASSUME NEW p \in Procs, Seal(p) PROVE (BuildInv /\ CachedImagesWhole)'
  BY <1>10, <1>t, JobType DEF Seal, TypeOK, LockInv, Locked, Building, BuildInv, CachedImagesWhole
<1>11. ASSUME NEW p \in Procs, Publish(p) PROVE (BuildInv /\ CachedImagesWhole)'
  BY <1>11, <1>t, JobType DEF Publish, NoScratch, TypeOK, LockInv, Locked, Building, BuildInv,
     CachedImagesWhole
<1>12. ASSUME NEW p \in Procs, Net(p) PROVE (BuildInv /\ CachedImagesWhole)'
  BY <1>12, <1>t, JobType DEF Net, CreateTap, TypeOK, LockInv, Locked, Building, BuildInv,
     CachedImagesWhole
<1>13. ASSUME NEW p \in Procs, Ask(p) PROVE (BuildInv /\ CachedImagesWhole)'
  BY <1>13, <1>t, JobType DEF Ask, Asked, TypeOK, LockInv, Locked, Building, BuildInv,
     CachedImagesWhole
<1>14. ASSUME NEW p \in Procs, Send(p) PROVE (BuildInv /\ CachedImagesWhole)'
  BY <1>14, <1>t, JobType DEF Send, Asked, Leave, TypeOK, LockInv, Locked, Building, BuildInv,
     CachedImagesWhole
<1>15. ASSUME NEW p \in Procs, Find(p) PROVE (BuildInv /\ CachedImagesWhole)'
  BY <1>15, <1>t, JobType DEF Find, TypeOK, LockInv, Locked, Building, BuildInv, CachedImagesWhole
<1>16. ASSUME NEW p \in Procs, Netns(p) PROVE (BuildInv /\ CachedImagesWhole)'
  BY <1>16, <1>t, JobType DEF Netns, TypeOK, LockInv, Locked, Building, BuildInv, CachedImagesWhole
<1>17. ASSUME NEW p \in Procs, OpenTun(p) PROVE (BuildInv /\ CachedImagesWhole)'
  BY <1>17, <1>t, JobType DEF OpenTun, TypeOK, LockInv, Locked, Building, BuildInv,
     CachedImagesWhole
<1>18. ASSUME NEW p \in Procs, Veth(p) PROVE (BuildInv /\ CachedImagesWhole)'
  BY <1>18, <1>t, JobType DEF Veth, TypeOK, LockInv, Locked, Building, BuildInv, CachedImagesWhole
<1>19. ASSUME NEW p \in Procs, Wire(p) PROVE (BuildInv /\ CachedImagesWhole)'
  BY <1>19, <1>t, JobType DEF Wire, TypeOK, LockInv, Locked, Building, BuildInv, CachedImagesWhole
<1>20. ASSUME NEW p \in Procs, Route(p) PROVE (BuildInv /\ CachedImagesWhole)'
  BY <1>20, <1>t, JobType DEF Route, TypeOK, LockInv, Locked, Building, BuildInv, CachedImagesWhole
<1>21. ASSUME NEW p \in Procs, WireFails(p) PROVE (BuildInv /\ CachedImagesWhole)'
  BY <1>21, <1>t, JobType DEF WireFails, TypeOK, LockInv, Locked, Building, BuildInv,
     CachedImagesWhole
<1>22. ASSUME NEW p \in Procs, MakeJail(p) PROVE (BuildInv /\ CachedImagesWhole)'
  BY <1>22, <1>t, JobType DEF MakeJail, TypeOK, LockInv, Locked, Building, BuildInv,
     CachedImagesWhole
<1>23. ASSUME NEW p \in Procs, RestoreJail(p) PROVE (BuildInv /\ CachedImagesWhole)'
  BY <1>23, <1>t, JobType DEF RestoreJail, TypeOK, LockInv, Locked, Building, BuildInv,
     CachedImagesWhole
<1>24. ASSUME NEW p \in Procs, LinkFile(p) PROVE (BuildInv /\ CachedImagesWhole)'
  <2>1. \E f \in Files : pc' = [pc EXCEPT ![p] = AfterFile[f]] /\ AfterFile[f] \in {"state", "memory", "bind"}
    BY <1>24, LinkStep
  <2>2. UNCHANGED <<job, image>>
    BY <1>24 DEF LinkFile
  <2>3. QED
    BY <1>t, <2>1, <2>2 DEF TypeOK, BuildInv, CachedImagesWhole
<1>25. ASSUME NEW p \in Procs, Bind(p) PROVE (BuildInv /\ CachedImagesWhole)'
  BY <1>25, <1>t, JobType DEF Bind, TypeOK, LockInv, Locked, Building, BuildInv, CachedImagesWhole
<1>26. ASSUME NEW p \in Procs, SpawnWorker(p) PROVE (BuildInv /\ CachedImagesWhole)'
  BY <1>26, <1>t, JobType DEF SpawnWorker, TypeOK, LockInv, Locked, Building, BuildInv,
     CachedImagesWhole
<1>27. ASSUME NEW p \in Procs, Put(p) PROVE (BuildInv /\ CachedImagesWhole)'
  BY <1>27, <1>t, JobType DEF Put, Leave, TypeOK, LockInv, Locked, Building, BuildInv,
     CachedImagesWhole
<1>28. ASSUME NEW p \in Procs, Waited(p) PROVE (BuildInv /\ CachedImagesWhole)'
  BY <1>28, <1>t, JobType DEF Waited, Leave, TypeOK, LockInv, Locked, Building, BuildInv,
     CachedImagesWhole
<1>29. ASSUME NEW p \in Procs, WorkerEnds(p) PROVE (BuildInv /\ CachedImagesWhole)'
  BY <1>29, <1>t, JobType DEF WorkerEnds, Alive, TypeOK, LockInv, Locked, Building, BuildInv,
     CachedImagesWhole
<1>30. ASSUME NEW p \in Procs, BeginStop(p) PROVE (BuildInv /\ CachedImagesWhole)'
  BY <1>30, <1>t, JobType DEF BeginStop, Leave, TypeOK, LockInv, Locked, Building, BuildInv,
     CachedImagesWhole
<1>31. ASSUME NEW p \in Procs, PutStopped(p) PROVE (BuildInv /\ CachedImagesWhole)'
  BY <1>31, <1>t, JobType DEF PutStopped, Leave, TypeOK, LockInv, Locked, Building, BuildInv,
     CachedImagesWhole
<1>32. ASSUME NEW p \in Procs, BeginRm(p) PROVE (BuildInv /\ CachedImagesWhole)'
  BY <1>32, <1>t, JobType DEF BeginRm, TypeOK, LockInv, Locked, Building, BuildInv,
     CachedImagesWhole
<1>33. ASSUME NEW p \in Procs, Delete(p) PROVE (BuildInv /\ CachedImagesWhole)'
  BY <1>33, <1>t, JobType DEF Delete, Leave, TypeOK, LockInv, Locked, Building, BuildInv,
     CachedImagesWhole
<1>34. ASSUME NEW p \in Procs, Gc(p) PROVE (BuildInv /\ CachedImagesWhole)'
  BY <1>34, <1>t, JobType DEF Gc, Asked, TypeOK, LockInv, Locked, Building, BuildInv,
     CachedImagesWhole
<1>35. ASSUME NEW p \in Procs, RemoveFile(p) PROVE (BuildInv /\ CachedImagesWhole)'
  BY <1>35, <1>t, JobType DEF RemoveFile, Asked, TypeOK, LockInv, Locked, Building, BuildInv,
     CachedImagesWhole
<1>36. ASSUME NEW p \in Procs, Removed(p) PROVE (BuildInv /\ CachedImagesWhole)'
  BY <1>36, <1>t, JobType DEF Removed, Leave, Asked, TypeOK, LockInv, Locked, Building,
     BuildInv, CachedImagesWhole
<1>40. ASSUME NEW p \in Procs, Masquerade(p) PROVE (BuildInv /\ CachedImagesWhole)'
  BY <1>40, <1>t, JobType DEF Masquerade, TypeOK, LockInv, Locked, Building, BuildInv,
     CachedImagesWhole
<1>41. ASSUME NEW p \in Procs, DropMasq(p) PROVE (BuildInv /\ CachedImagesWhole)'
  BY <1>41, <1>t, JobType DEF DropMasq, TypeOK, LockInv, Locked, Building, BuildInv,
     CachedImagesWhole
<1>42. ASSUME NEW p \in Procs, DropRoute(p) PROVE (BuildInv /\ CachedImagesWhole)'
  BY <1>42, <1>t, JobType DEF DropRoute, TypeOK, LockInv, Locked, Building, BuildInv,
     CachedImagesWhole
<1>43. ASSUME NEW p \in Procs, DropVeth(p) PROVE (BuildInv /\ CachedImagesWhole)'
  BY <1>43, <1>t, JobType DEF DropVeth, TypeOK, LockInv, Locked, Building, BuildInv,
     CachedImagesWhole
<1>44. ASSUME NEW p \in Procs, DropNetns(p) PROVE (BuildInv /\ CachedImagesWhole)'
  BY <1>44, <1>t, JobType DEF DropNetns, Leave, TypeOK, LockInv, Locked, Building, BuildInv,
     CachedImagesWhole
<1>37. CASE UNCHANGED vars
  BY <1>37 DEF vars, TypeOK, LockInv, Locked, Building, BuildInv, CachedImagesWhole
<1>38. QED
  BY <1>1, <1>2, <1>3, <1>4, <1>5, <1>6, <1>7, <1>8, <1>9, <1>10, <1>11, <1>12, <1>13, <1>14,
     <1>15, <1>16, <1>17, <1>18, <1>19, <1>20, <1>21, <1>22, <1>23, <1>24, <1>25, <1>26,
     <1>27, <1>28, <1>29, <1>30, <1>31, <1>32, <1>33, <1>34, <1>35, <1>36, <1>40,
     <1>41, <1>42, <1>43, <1>44, <1>37 DEF Next

(* Addresses are chosen and recorded while the registry is open. *)
LEMMA AddressStep == TypedInv /\ AddressInv /\ BridgeAddressesDistinct /\ [Next]_vars => (AddressInv /\ BridgeAddressesDistinct)'
<1> SUFFICES ASSUME TypedInv /\ AddressInv /\ BridgeAddressesDistinct, [Next]_vars PROVE (AddressInv /\ BridgeAddressesDistinct)'
  OBVIOUS
<1>t. TypeOK /\ LockInv /\ WhereInv /\ LocalInv
  BY DEF TypedInv
<1> USE HostAssumption DEF Op, Mine, procs, image, clone, files, Goto
<1>1. ASSUME NEW p \in Procs, Begin(p) PROVE (AddressInv /\ BridgeAddressesDistinct)'
  BY <1>1, <1>t, JobType DEF Begin, TypeOK, LockInv, Locked, Launching, Files, AddressInv,
     BridgeAddressesDistinct, Recorded
<1>2. ASSUME NEW p \in Procs, Open(p) PROVE (AddressInv /\ BridgeAddressesDistinct)'
  BY <1>2, <1>t, JobType DEF Open, TypeOK, LockInv, Locked, Launching, Files, AddressInv,
     BridgeAddressesDistinct, Recorded
<1>3. ASSUME NEW p \in Procs, Abort(p) PROVE (AddressInv /\ BridgeAddressesDistinct)'
  BY <1>3, <1>t, JobType DEF Abort, Leave, TypeOK, LockInv, Locked, Launching, Files,
     AddressInv, BridgeAddressesDistinct, Recorded
<1>4. ASSUME NEW p \in Procs, BeginRun(p) PROVE (AddressInv /\ BridgeAddressesDistinct)'
  BY <1>4, <1>t, JobType DEF BeginRun, TypeOK, LockInv, Locked, Launching, Files, AddressInv,
     BridgeAddressesDistinct, Recorded
<1>5. ASSUME NEW p \in Procs, BeginRestore(p) PROVE (AddressInv /\ BridgeAddressesDistinct)'
  BY <1>5, <1>t, JobType DEF BeginRestore, TypeOK, LockInv, Locked, Launching, Files,
     AddressInv, BridgeAddressesDistinct, Recorded
<1>6. ASSUME NEW p \in Procs, BeginBranch(p) PROVE (AddressInv /\ BridgeAddressesDistinct)'
  BY <1>6, <1>t, JobType DEF BeginBranch, TypeOK, LockInv, Locked, Launching, Files,
     AddressInv, BridgeAddressesDistinct, Recorded
<1>7. ASSUME NEW p \in Procs, Wipe(p) PROVE (AddressInv /\ BridgeAddressesDistinct)'
  <2>1. pc' \in {[pc EXCEPT ![p] = "net"], [pc EXCEPT ![p] = "unpack"]} /\ UNCHANGED <<registry, job, my>>
    BY <1>7 DEF Wipe
  <2>2. pc'[p] \in {"net", "unpack"} /\ \A q \in Procs \ {p} : pc'[q] = pc[q]
    BY <1>t, <2>1 DEF TypeOK
  <2>3. QED
    BY <2>1, <2>2 DEF Launching, AddressInv, BridgeAddressesDistinct, Recorded
<1>8. ASSUME NEW p \in Procs, Unpack(p) PROVE (AddressInv /\ BridgeAddressesDistinct)'
  BY <1>8, <1>t, JobType DEF Unpack, TypeOK, LockInv, Locked, Launching, Files, AddressInv,
     BridgeAddressesDistinct, Recorded
<1>9. ASSUME NEW p \in Procs, Mkfs(p) PROVE (AddressInv /\ BridgeAddressesDistinct)'
  BY <1>9, <1>t, JobType DEF Mkfs, TypeOK, LockInv, Locked, Launching, Files, AddressInv,
     BridgeAddressesDistinct, Recorded
<1>10. ASSUME NEW p \in Procs, Seal(p) PROVE (AddressInv /\ BridgeAddressesDistinct)'
  BY <1>10, <1>t, JobType DEF Seal, TypeOK, LockInv, Locked, Launching, Files, AddressInv,
     BridgeAddressesDistinct, Recorded
<1>11. ASSUME NEW p \in Procs, Publish(p) PROVE (AddressInv /\ BridgeAddressesDistinct)'
  BY <1>11, <1>t, JobType DEF Publish, NoScratch, TypeOK, LockInv, Locked, Launching, Files,
     AddressInv, BridgeAddressesDistinct, Recorded
<1>12. ASSUME NEW p \in Procs, Net(p) PROVE (AddressInv /\ BridgeAddressesDistinct)'
  <2>1. Allocate \in Ips /\ Allocate \notin UsedIps
    BY <1>12, AllocateFree DEF Net
  <2>2. my'[p].ip = Allocate /\ UNCHANGED <<registry, job>>
    BY <1>12, <1>t DEF Net, TypeOK, Locals
  <2>3. \A q \in Procs \ {p} : pc'[q] = pc[q] /\ my'[q] = my[q]
    BY <1>12, <1>t DEF Net, TypeOK
  <2>4. QED
    BY <2>1, <2>2, <2>3 DEF AddressInv, BridgeAddressesDistinct, Recorded, UsedIps
<1>13. ASSUME NEW p \in Procs, Ask(p) PROVE (AddressInv /\ BridgeAddressesDistinct)'
  BY <1>13, <1>t, JobType DEF Ask, Asked, TypeOK, LockInv, Locked, Launching, Files,
     AddressInv, BridgeAddressesDistinct, Recorded
<1>14. ASSUME NEW p \in Procs, Send(p) PROVE (AddressInv /\ BridgeAddressesDistinct)'
  BY <1>14, <1>t, JobType DEF Send, Asked, Leave, TypeOK, LockInv, Locked, Launching, Files,
     AddressInv, BridgeAddressesDistinct, Recorded
<1>15. ASSUME NEW p \in Procs, Find(p) PROVE (AddressInv /\ BridgeAddressesDistinct)'
  BY <1>15, <1>t, JobType DEF Find, TypeOK, LockInv, Locked, Launching, Files, AddressInv,
     BridgeAddressesDistinct, Recorded
<1>16. ASSUME NEW p \in Procs, Netns(p) PROVE (AddressInv /\ BridgeAddressesDistinct)'
  BY <1>16, <1>t, JobType DEF Netns, TypeOK, LockInv, Locked, Launching, Files, AddressInv,
     BridgeAddressesDistinct, Recorded
<1>17. ASSUME NEW p \in Procs, OpenTun(p) PROVE (AddressInv /\ BridgeAddressesDistinct)'
  BY <1>17, <1>t, JobType DEF OpenTun, TypeOK, LockInv, Locked, Launching, Files, AddressInv,
     BridgeAddressesDistinct, Recorded
<1>18. ASSUME NEW p \in Procs, Veth(p) PROVE (AddressInv /\ BridgeAddressesDistinct)'
  BY <1>18, <1>t, JobType DEF Veth, TypeOK, LockInv, Locked, Launching, Files, AddressInv,
     BridgeAddressesDistinct, Recorded
<1>19. ASSUME NEW p \in Procs, Wire(p) PROVE (AddressInv /\ BridgeAddressesDistinct)'
  BY <1>19, <1>t, JobType DEF Wire, TypeOK, LockInv, Locked, Launching, Files, AddressInv,
     BridgeAddressesDistinct, Recorded
<1>20. ASSUME NEW p \in Procs, Route(p) PROVE (AddressInv /\ BridgeAddressesDistinct)'
  BY <1>20, <1>t DEF Route, TypeOK, WhereInv, Wiring, AddressInv, BridgeAddressesDistinct, Recorded
<1>21. ASSUME NEW p \in Procs, WireFails(p) PROVE (AddressInv /\ BridgeAddressesDistinct)'
  BY <1>21, <1>t, JobType DEF WireFails, TypeOK, LockInv, Locked, Launching, Files,
     AddressInv, BridgeAddressesDistinct, Recorded
<1>22. ASSUME NEW p \in Procs, MakeJail(p) PROVE (AddressInv /\ BridgeAddressesDistinct)'
  BY <1>22, <1>t, JobType DEF MakeJail, TypeOK, LockInv, Locked, Launching, Files, AddressInv,
     BridgeAddressesDistinct, Recorded
<1>23. ASSUME NEW p \in Procs, RestoreJail(p) PROVE (AddressInv /\ BridgeAddressesDistinct)'
  BY <1>23, <1>t, JobType DEF RestoreJail, TypeOK, LockInv, Locked, Launching, Files,
     AddressInv, BridgeAddressesDistinct, Recorded
<1>24. ASSUME NEW p \in Procs, LinkFile(p) PROVE (AddressInv /\ BridgeAddressesDistinct)'
  BY <1>24, <1>t, JobType DEF LinkFile, Links, AfterFile, TypeOK, LockInv, Locked, Launching,
     Files, AddressInv, BridgeAddressesDistinct, Recorded
<1>25. ASSUME NEW p \in Procs, Bind(p) PROVE (AddressInv /\ BridgeAddressesDistinct)'
  BY <1>25, <1>t, JobType DEF Bind, TypeOK, LockInv, Locked, Launching, Files, AddressInv,
     BridgeAddressesDistinct, Recorded
<1>26. ASSUME NEW p \in Procs, SpawnWorker(p) PROVE (AddressInv /\ BridgeAddressesDistinct)'
  BY <1>26, <1>t, JobType DEF SpawnWorker, TypeOK, LockInv, Locked, Launching, Files,
     AddressInv, BridgeAddressesDistinct, Recorded
<1>27. ASSUME NEW p \in Procs, Put(p) PROVE (AddressInv /\ BridgeAddressesDistinct)'
  <2> DEFINE r == [running |-> TRUE, ip |-> my[p].ip, slot |-> my[p].slot, pid |-> p]
  <2>1. registry' = [registry EXCEPT ![Mine(p)] = r] /\ UNCHANGED <<job, my>> /\ pc[p] = "put"
    BY <1>27 DEF Put
  <2>2. /\ \A n \in Names \ {Mine(p)} : registry'[n] = registry[n]
        /\ registry'[Mine(p)] = r /\ Mine(p) \in Names
    BY <1>t, <2>1, JobType DEF TypeOK
  <2>3. \A q \in Procs \ {p} : pc'[q] = pc[q] /\ pc[q] \notin Locked
    BY <1>27, <1>t DEF Put, Leave, TypeOK, LockInv, Locked, Launching
  <2>4. pc'[p] = "wait" \/ pc'[p] \in {"keep", "done"}
    BY <1>27, <1>t DEF Put, Leave, TypeOK
  <2>5. r.slot = None => Op(p) # "branch"
    BY <1>t, <2>1 DEF LocalInv, Launching, Slots
  <2>6. Op(p) # "branch" => \A n \in Recorded \ {Mine(p)} : registry[n].slot = None => registry[n].ip # my[p].ip
    BY <2>1 DEF AddressInv, Launching
  <2>7. AddressInv'
    BY <2>1, <2>2, <2>3, <2>4, <2>6 DEF AddressInv, Recorded, Locked, Launching
  <2>8. BridgeAddressesDistinct'
    BY <2>2, <2>5, <2>6 DEF BridgeAddressesDistinct, Recorded
  <2>9. QED
    BY <2>7, <2>8
<1>28. ASSUME NEW p \in Procs, Waited(p) PROVE (AddressInv /\ BridgeAddressesDistinct)'
  <2> DEFINE r == [running |-> FALSE, ip |-> my[p].ip, slot |-> None, pid |-> None]
  <2>1. registry' = [registry EXCEPT ![Mine(p)] = r] /\ UNCHANGED <<job, my>> /\ pc[p] = "wait"
    BY <1>28 DEF Waited
  <2>2. /\ \A n \in Names \ {Mine(p)} : registry'[n] = registry[n]
        /\ registry'[Mine(p)] = r /\ Mine(p) \in Names
    BY <1>t, <2>1, JobType DEF TypeOK
  <2>3. \A q \in Procs \ {p} : pc'[q] = pc[q] /\ pc[q] \notin Locked
    BY <1>28, <1>t DEF Waited, Leave, TypeOK, LockInv, Locked
  <2>4. pc'[p] = "done"
    BY <1>28, <1>t DEF Waited, Leave, TypeOK
  <2>5. \A n \in Recorded \ {Mine(p)} : registry[n].slot = None => registry[n].ip # my[p].ip
    BY <1>t, <2>1 DEF AddressInv, WhereInv
  <2>6. AddressInv'
    BY <2>1, <2>3, <2>4 DEF AddressInv, Locked, Launching
  <2>7. BridgeAddressesDistinct'
    BY <2>2, <2>5 DEF BridgeAddressesDistinct, Recorded
  <2>8. QED
    BY <2>6, <2>7
<1>29. ASSUME NEW p \in Procs, WorkerEnds(p) PROVE (AddressInv /\ BridgeAddressesDistinct)'
  BY <1>29, <1>t, JobType DEF WorkerEnds, Alive, TypeOK, LockInv, Locked, Launching, Files,
     AddressInv, BridgeAddressesDistinct, Recorded
<1>30. ASSUME NEW p \in Procs, BeginStop(p) PROVE (AddressInv /\ BridgeAddressesDistinct)'
  <2>1. \A q \in Procs : pc'[q] = pc[q] \/ pc'[q] \in {"signal", "done"}
    BY <1>30, <1>t DEF BeginStop, Leave, TypeOK
  <2>2. UNCHANGED <<registry, job, my>>
    BY <1>30 DEF BeginStop
  <2>3. QED
    BY <2>1, <2>2 DEF Launching, AddressInv, BridgeAddressesDistinct, Recorded
<1>31. ASSUME NEW p \in Procs, PutStopped(p) PROVE (AddressInv /\ BridgeAddressesDistinct)'
  <2>1. UNCHANGED <<job, my>> /\ pc[p] = "signal" /\ pc' = [pc EXCEPT ![p] = "done"]
    BY <1>31 DEF PutStopped, Leave
  <2>2. registry[Mine(p)] \in Record /\ Mine(p) \in Names
    BY <1>t, <2>1, JobType DEF LocalInv, TypeOK
  <2>3. /\ \A n \in Names \ {Mine(p)} : registry'[n] = registry[n]
        /\ registry'[Mine(p)].ip = registry[Mine(p)].ip
        /\ registry'[Mine(p)].slot = registry[Mine(p)].slot
    BY <1>31, <1>t, <2>2 DEF PutStopped, TypeOK, Record
  <2>4. \A q \in Procs : pc'[q] \notin Locked
    BY <1>t, <2>1 DEF TypeOK, LockInv, Locked, Launching, Building, Wiring, Tearing, Files
  <2>5. AddressInv'
    BY <2>4 DEF AddressInv, Locked
  <2>6. BridgeAddressesDistinct'
    BY <2>2, <2>3 DEF BridgeAddressesDistinct, Recorded
  <2>7. QED
    BY <2>5, <2>6
<1>32. ASSUME NEW p \in Procs, BeginRm(p) PROVE (AddressInv /\ BridgeAddressesDistinct)'
  <2>1. UNCHANGED <<registry, job, my>> /\ pc[p] = "begin"
    BY <1>32 DEF BeginRm
  <2>2. pc'[p] \in {"unmasq", "delete"} /\ \A q \in Procs \ {p} : pc'[q] = pc[q]
    BY <1>32, <1>t DEF BeginRm, Leave, TypeOK
  <2>3. QED
    BY <2>1, <2>2 DEF Launching, AddressInv, BridgeAddressesDistinct, Recorded
<1>33. ASSUME NEW p \in Procs, Delete(p) PROVE (AddressInv /\ BridgeAddressesDistinct)'
  BY <1>33, <1>t, JobType DEF Delete, Leave, TypeOK, LockInv, Locked, Launching, Files,
     AddressInv, BridgeAddressesDistinct, Recorded
<1>34. ASSUME NEW p \in Procs, Gc(p) PROVE (AddressInv /\ BridgeAddressesDistinct)'
  BY <1>34, <1>t, JobType DEF Gc, Asked, TypeOK, LockInv, Locked, Launching, Files,
     AddressInv, BridgeAddressesDistinct, Recorded
<1>35. ASSUME NEW p \in Procs, RemoveFile(p) PROVE (AddressInv /\ BridgeAddressesDistinct)'
  BY <1>35, <1>t, JobType DEF RemoveFile, Asked, TypeOK, LockInv, Locked, Launching, Files,
     AddressInv, BridgeAddressesDistinct, Recorded
<1>36. ASSUME NEW p \in Procs, Removed(p) PROVE (AddressInv /\ BridgeAddressesDistinct)'
  BY <1>36, <1>t, JobType DEF Removed, Leave, Asked, TypeOK, LockInv, Locked, Launching,
     Files, AddressInv, BridgeAddressesDistinct, Recorded
<1>40. ASSUME NEW p \in Procs, Masquerade(p) PROVE (AddressInv /\ BridgeAddressesDistinct)'
  BY <1>40, <1>t, JobType DEF Masquerade, TypeOK, LockInv, Locked, Launching, Files,
     AddressInv, BridgeAddressesDistinct, Recorded
<1>41. ASSUME NEW p \in Procs, DropMasq(p) PROVE (AddressInv /\ BridgeAddressesDistinct)'
  BY <1>41, <1>t, JobType DEF DropMasq, TypeOK, LockInv, Locked, Launching, Files, AddressInv,
     BridgeAddressesDistinct, Recorded
<1>42. ASSUME NEW p \in Procs, DropRoute(p) PROVE (AddressInv /\ BridgeAddressesDistinct)'
  BY <1>42, <1>t, JobType DEF DropRoute, TypeOK, LockInv, Locked, Launching, Files,
     AddressInv, BridgeAddressesDistinct, Recorded
<1>43. ASSUME NEW p \in Procs, DropVeth(p) PROVE (AddressInv /\ BridgeAddressesDistinct)'
  BY <1>43, <1>t, JobType DEF DropVeth, TypeOK, LockInv, Locked, Launching, Files, AddressInv,
     BridgeAddressesDistinct, Recorded
<1>44. ASSUME NEW p \in Procs, DropNetns(p) PROVE (AddressInv /\ BridgeAddressesDistinct)'
  <2>1. UNCHANGED <<registry, job, my>> /\ pc[p] = "unnetns"
    BY <1>44 DEF DropNetns
  <2>2. pc'[p] \in {"delete", "done"} /\ \A q \in Procs \ {p} : pc'[q] = pc[q]
    BY <1>44, <1>t DEF DropNetns, Leave, TypeOK
  <2>3. QED
    BY <2>1, <2>2 DEF Launching, AddressInv, BridgeAddressesDistinct, Recorded
<1>37. CASE UNCHANGED vars
  BY <1>37 DEF vars, TypeOK, LockInv, Locked, Launching, Files, AddressInv,
     BridgeAddressesDistinct, Recorded
<1>38. QED
  BY <1>1, <1>2, <1>3, <1>4, <1>5, <1>6, <1>7, <1>8, <1>9, <1>10, <1>11, <1>12, <1>13, <1>14,
     <1>15, <1>16, <1>17, <1>18, <1>19, <1>20, <1>21, <1>22, <1>23, <1>24, <1>25, <1>26,
     <1>27, <1>28, <1>29, <1>30, <1>31, <1>32, <1>33, <1>34, <1>35, <1>36, <1>40,
     <1>41, <1>42, <1>43, <1>44, <1>37 DEF Next

(* A jail that was new gets what was asked for, and keeps it. *)
LEMMA FreshStep == TypedInv /\ FreshInv /\ [Next]_vars => FreshInv'
<1> SUFFICES ASSUME TypedInv /\ FreshInv, [Next]_vars PROVE FreshInv'
  OBVIOUS
<1>t. TypeOK /\ LockInv /\ WhereInv /\ LocalInv
  BY DEF TypedInv
<1> USE HostAssumption DEF Op, Mine, procs, image, clone, files, Goto
<1>1. ASSUME NEW p \in Procs, Begin(p) PROVE FreshInv'
  BY <1>1, <1>t, JobType DEF Begin, TypeOK, LockInv, Locked, Launching, Files, FreshInv,
     Spawned, Wanted
<1>2. ASSUME NEW p \in Procs, Open(p) PROVE FreshInv'
  <2>1. \/ pc[p] = "open" /\ pc' = [pc EXCEPT ![p] = "begin"]
        \/ pc[p] = "reopen" /\ pc' = [pc EXCEPT ![p] = "netns"]
    BY <1>2 DEF Open
  <2>2. UNCHANGED <<job, my, worker, jail>>
    BY <1>2 DEF Open
  <2>3. QED
    BY <1>t, <2>1, <2>2 DEF TypeOK, FreshInv, Spawned, Launching, Files, Wanted
<1>3. ASSUME NEW p \in Procs, Abort(p) PROVE FreshInv'
  BY <1>3, <1>t, JobType DEF Abort, Leave, TypeOK, LockInv, Locked, Launching, Files,
     FreshInv, Spawned, Wanted
<1>4. ASSUME NEW p \in Procs, BeginRun(p) PROVE FreshInv'
  BY <1>4, <1>t, JobType DEF BeginRun, TypeOK, LockInv, Locked, Launching, Files, FreshInv,
     Spawned, Wanted
<1>5. ASSUME NEW p \in Procs, BeginRestore(p) PROVE FreshInv'
  BY <1>5, <1>t, JobType DEF BeginRestore, TypeOK, LockInv, Locked, Launching, Files,
     FreshInv, Spawned, Wanted
<1>6. ASSUME NEW p \in Procs, BeginBranch(p) PROVE FreshInv'
  BY <1>6, <1>t, JobType DEF BeginBranch, TypeOK, LockInv, Locked, Launching, Files, FreshInv,
     Spawned, Wanted
<1>7. ASSUME NEW p \in Procs, Wipe(p) PROVE FreshInv'
  <2>1. pc[p] = "wipe" /\ pc' \in {[pc EXCEPT ![p] = "net"], [pc EXCEPT ![p] = "unpack"]}
    BY <1>7 DEF Wipe
  <2>2. UNCHANGED <<job, my, worker, jail>>
    BY <1>7 DEF Wipe
  <2>3. QED
    BY <1>t, <2>1, <2>2 DEF TypeOK, FreshInv, Spawned, Launching, Files, Wanted
<1>8. ASSUME NEW p \in Procs, Unpack(p) PROVE FreshInv'
  BY <1>8, <1>t, JobType DEF Unpack, TypeOK, LockInv, Locked, Launching, Files, FreshInv,
     Spawned, Wanted
<1>9. ASSUME NEW p \in Procs, Mkfs(p) PROVE FreshInv'
  BY <1>9, <1>t, JobType DEF Mkfs, TypeOK, LockInv, Locked, Launching, Files, FreshInv,
     Spawned, Wanted
<1>10. ASSUME NEW p \in Procs, Seal(p) PROVE FreshInv'
  BY <1>10, <1>t, JobType DEF Seal, TypeOK, LockInv, Locked, Launching, Files, FreshInv,
     Spawned, Wanted
<1>11. ASSUME NEW p \in Procs, Publish(p) PROVE FreshInv'
  BY <1>11, <1>t, JobType DEF Publish, NoScratch, TypeOK, LockInv, Locked, Launching, Files,
     FreshInv, Spawned, Wanted
<1>12. ASSUME NEW p \in Procs, Net(p) PROVE FreshInv'
  BY <1>12, <1>t, JobType DEF Net, CreateTap, TypeOK, LockInv, Locked, Launching, Files,
     FreshInv, Spawned, Wanted
<1>13. ASSUME NEW p \in Procs, Ask(p) PROVE FreshInv'
  BY <1>13, <1>t, JobType DEF Ask, Asked, TypeOK, LockInv, Locked, Launching, Files, FreshInv,
     Spawned, Wanted
<1>14. ASSUME NEW p \in Procs, Send(p) PROVE FreshInv'
  <2>1. pc[p] = "send" /\ worker[p] = "none" /\ ~my[p].fresh
    BY <1>14, <1>t, JobType DEF Send, TypeOK, FreshInv, Spawned, Launching
  <2>2. my'[p].fresh = my[p].fresh /\ UNCHANGED <<job, worker, jail>>
    BY <1>14, <1>t DEF Send, TypeOK, Locals
  <2>3. \A q \in Procs \ {p} : my'[q] = my[q] /\ pc'[q] = pc[q]
    BY <1>14, <1>t DEF Send, Leave, TypeOK
  <2>4. QED
    BY <2>1, <2>2, <2>3 DEF FreshInv, Wanted
<1>15. ASSUME NEW p \in Procs, Find(p) PROVE FreshInv'
  BY <1>15, <1>t, JobType DEF Find, TypeOK, LockInv, Locked, Launching, Files, FreshInv,
     Spawned, Wanted
<1>16. ASSUME NEW p \in Procs, Netns(p) PROVE FreshInv'
  BY <1>16, <1>t, JobType DEF Netns, TypeOK, LockInv, Locked, Launching, Files, FreshInv,
     Spawned, Wanted
<1>17. ASSUME NEW p \in Procs, OpenTun(p) PROVE FreshInv'
  BY <1>17, <1>t, JobType DEF OpenTun, TypeOK, LockInv, Locked, Launching, Files, FreshInv,
     Spawned, Wanted
<1>18. ASSUME NEW p \in Procs, Veth(p) PROVE FreshInv'
  BY <1>18, <1>t, JobType DEF Veth, TypeOK, LockInv, Locked, Launching, Files, FreshInv,
     Spawned, Wanted
<1>19. ASSUME NEW p \in Procs, Wire(p) PROVE FreshInv'
  BY <1>19, <1>t, JobType DEF Wire, TypeOK, LockInv, Locked, Launching, Files, FreshInv,
     Spawned, Wanted
<1>20. ASSUME NEW p \in Procs, Route(p) PROVE FreshInv'
  BY <1>20, <1>t, JobType DEF Route, TypeOK, LockInv, Locked, Launching, Files, FreshInv,
     Spawned, Wanted
<1>21. ASSUME NEW p \in Procs, WireFails(p) PROVE FreshInv'
  BY <1>21, <1>t, JobType DEF WireFails, TypeOK, LockInv, Locked, Launching, Files, FreshInv,
     Spawned, Wanted
<1>22. ASSUME NEW p \in Procs, MakeJail(p) PROVE FreshInv'
  <2>1. pc[p] = "jail" /\ worker[p] = "none" /\ ~my[p].fresh
    BY <1>22, <1>t, JobType DEF MakeJail, TypeOK, FreshInv, Spawned, Launching
  <2>2. my'[p].fresh = (jail[Mine(p)] = None) /\ UNCHANGED <<job, worker>> /\ my'[p].id = my[p].id
    BY <1>22, <1>t DEF MakeJail, TypeOK, Locals
  <2>3. \A q \in Procs \ {p} : my'[q] = my[q] /\ pc'[q] = pc[q]
    BY <1>22, <1>t DEF MakeJail, TypeOK
  <2>4. pc'[p] = "bind" /\ Op(p) = "run"
    BY <1>22, <1>t DEF MakeJail, TypeOK
  <2>5. Jailed(p) \in Jail /\ Mine(p) \in Names
    BY <1>t, JailedType, JobType
  <2>6. /\ jail'[Mine(p)] = [Jailed(p) EXCEPT !.rootfs = LinkOrCopy(@, job[p].img)]
        /\ \A n \in Names \ {Mine(p)} : jail'[n] = jail[n]
    BY <1>22, <1>t, <2>5 DEF MakeJail, TypeOK
  <2>7. /\ jail'[Mine(p)] # None
        /\ jail'[Mine(p)].restore = Jailed(p).restore
        /\ jail'[Mine(p)].rootfs = LinkOrCopy(Jailed(p).rootfs, job[p].img)
    BY <1>t, <2>5, <2>6, JailedType, JobType DEF Jail
  <2>8. QED
    <3>1. SUFFICES ASSUME NEW q \in Procs PROVE FreshInv!(q)'
      BY DEF FreshInv
    <3>2. CASE q = p
      BY <2>1, <2>2, <2>4, <2>7, <3>2 DEF Jailed, Empty, LinkOrCopy, Launching
    <3>3. CASE q # p /\ Mine(q) # Mine(p)
      BY <1>t, <2>2, <2>3, <2>6, <3>3, JobType DEF FreshInv, Wanted
    <3>4. CASE q # p /\ Mine(q) = Mine(p)
      <4>1. my[q].fresh => Jailed(p) = jail[Mine(q)]
        BY <3>4 DEF FreshInv, Jailed
      <4>2. my[q].fresh /\ Op(q) = "run" => jail'[Mine(q)].rootfs = job[q].img
        BY <1>t, <2>7, <3>4, <4>1, JobType DEF FreshInv, LinkOrCopy
      <4>3. QED
        BY <2>2, <2>3, <2>7, <3>4, <4>1, <4>2 DEF FreshInv, Wanted
    <3>5. QED
      BY <3>2, <3>3, <3>4
<1>23. ASSUME NEW p \in Procs, RestoreJail(p) PROVE FreshInv'
  <2>1. pc[p] = "jail" /\ worker[p] = "none" /\ ~my[p].fresh
    BY <1>23, <1>t, JobType DEF RestoreJail, TypeOK, FreshInv, Spawned, Launching
  <2>2. my'[p].fresh = (jail[Mine(p)] = None) /\ UNCHANGED <<job, worker>> /\ my'[p].id = my[p].id
    BY <1>23, <1>t DEF RestoreJail, TypeOK, Locals
  <2>3. \A q \in Procs \ {p} : my'[q] = my[q] /\ pc'[q] = pc[q]
    BY <1>23, <1>t DEF RestoreJail, TypeOK
  <2>4. pc'[p] = "manifest" /\ Op(p) # "run"
    BY <1>23, <1>t DEF RestoreJail, TypeOK
  <2>5. Jailed(p) \in Jail /\ Mine(p) \in Names
    BY <1>t, JailedType, JobType
  <2>6. jail[job[p].src].rootfs \in Images \union {None} /\ my[p].id \in Ids
    BY <1>23, <1>t, <2>1, <2>4, JobType DEF LocalInv, WhereInv, TypeOK, Jail, Launching
  <2>7. /\ jail'[Mine(p)] = [Jailed(p) EXCEPT !.rootfs = LinkOrCopy(@, jail[job[p].src].rootfs)]
        /\ \A n \in Names \ {Mine(p)} : jail'[n] = jail[n]
    BY <1>23, <1>t, <2>5 DEF RestoreJail, TypeOK
  <2>8. /\ jail'[Mine(p)] # None
        /\ jail'[Mine(p)].restore = Jailed(p).restore
        /\ jail'[Mine(p)].rootfs = LinkOrCopy(Jailed(p).rootfs, jail[job[p].src].rootfs)
    BY <1>t, <2>5, <2>6, <2>7, JailedType DEF Jail
  <2>9. QED
    <3>1. SUFFICES ASSUME NEW q \in Procs PROVE FreshInv!(q)'
      BY DEF FreshInv
    <3>2. CASE q = p
      <4>1. my'[p].fresh => \A f \in Files : jail'[Mine(p)].restore[f] = None
        <5>1. my'[p].fresh => Jailed(p) = Empty
          BY <2>2 DEF Jailed
        <5>2. \A f \in Files : Empty.restore[f] = None
          BY DEF Empty, NoRestore
        <5>3. QED
          BY <2>8, <5>1, <5>2
      <4>2. QED
        BY <2>1, <2>2, <2>4, <2>6, <2>8, <3>2, <4>1 DEF LinkedBefore, Launching, Files
    <3>3. CASE q # p /\ Mine(q) # Mine(p)
      BY <1>t, <2>2, <2>3, <2>7, <3>3, JobType DEF FreshInv, Wanted
    <3>4. CASE q # p /\ Mine(q) = Mine(p)
      <4>1. my[q].fresh => Jailed(p) = jail[Mine(q)]
        BY <3>4 DEF FreshInv, Jailed
      <4>2. my[q].fresh /\ Op(q) = "run" => jail'[Mine(q)].rootfs = job[q].img
        BY <1>t, <2>8, <3>4, <4>1, JobType DEF FreshInv, LinkOrCopy
      <4>3. QED
        BY <2>2, <2>3, <2>8, <3>4, <4>1, <4>2 DEF FreshInv, Wanted
    <3>5. QED
      BY <3>2, <3>3, <3>4
<1>24. ASSUME NEW p \in Procs, LinkFile(p) PROVE FreshInv'
  <2>1. PICK f \in Files :
           /\ pc[p] = f /\ pc' = [pc EXCEPT ![p] = AfterFile[f]]
           /\ AfterFile[f] \in {"state", "memory", "bind"}
           /\ Links(p, f)
           /\ UNCHANGED <<job, my, worker>>
    BY <1>24, LinkStep
  <2>2. jail[Mine(p)] \in Jail /\ Mine(p) \in Names /\ Op(p) # "run" /\ my[p].id \in Ids
    BY <1>t, <2>1, JobType DEF LocalInv, WhereInv, TypeOK, Launching, Files
  <2>3. /\ jail'[Mine(p)] = [jail[Mine(p)] EXCEPT !.restore[f] = LinkOrCopy(@, Wanted(p))]
        /\ \A n \in Names \ {Mine(p)} : jail'[n] = jail[n]
    BY <1>t, <2>1, <2>2 DEF Links, TypeOK
  <2>4. /\ jail'[Mine(p)].rootfs = jail[Mine(p)].rootfs
        /\ jail'[Mine(p)].restore[f] = LinkOrCopy(jail[Mine(p)].restore[f], Wanted(p))
        /\ \A g \in Files \ {f} : jail'[Mine(p)].restore[g] = jail[Mine(p)].restore[g]
    BY <2>2, <2>3 DEF Jail
  <2>5. jail'[Mine(p)] # None
    <3>1. Wanted(p) \in Source
      BY <1>t, <2>2, JobType DEF Wanted, Source
    <3>2. QED
      BY <2>2, <2>3, <3>1 DEF Jail, LinkOrCopy
  <2>6. worker[p] = "none"
    BY <1>t, <2>1 DEF FreshInv, Spawned, Files, TypeOK
  <2>7. QED
    <3>1. SUFFICES ASSUME NEW q \in Procs PROVE FreshInv!(q)'
      BY DEF FreshInv
    <3>2. CASE q = p
      <4>1. my[p].fresh => \A g \in Files : jail[Mine(p)].restore[g] = IF g \in LinkedBefore[f] THEN Wanted(p) ELSE None
        BY <2>1, <2>2 DEF FreshInv
      <4>2. my[p].fresh => \A g \in Files : jail'[Mine(p)].restore[g] = IF g \in LinkedBefore[f] \union {f} THEN Wanted(p) ELSE None
        BY <2>4, <4>1 DEF LinkedBefore, Files, LinkOrCopy
      <4>3. pc'[p] = AfterFile[f]
        BY <1>t, <2>1 DEF TypeOK
      <4>4. \/ AfterFile[f] \in Files /\ LinkedBefore[AfterFile[f]] = LinkedBefore[f] \union {f}
            \/ AfterFile[f] = "bind" /\ LinkedBefore[f] \union {f} = Files
        BY DEF AfterFile, LinkedBefore, Files
      <4>5. Wanted(p)' = Wanted(p)
        BY <2>1 DEF Wanted
      <4>6. QED
        BY <2>1, <2>2, <2>5, <2>6, <3>2, <4>2, <4>3, <4>4, <4>5 DEF Launching, Files
    <3>3. CASE q # p /\ Mine(q) # Mine(p)
      BY <1>t, <2>1, <2>3, <3>3, JobType DEF FreshInv, Wanted, TypeOK
    <3>4. CASE q # p /\ Mine(q) = Mine(p)
      <4>1. pc'[q] = pc[q] /\ pc[q] \notin Files \union {"bind", "spawn"}
        BY <1>t, <2>1, <3>4 DEF TypeOK, LockInv, Locked, Launching, Files
      <4>2. my[q].fresh /\ Op(q) # "run" => Wanted(q) \in Source
        BY <1>t, JobType DEF FreshInv, Wanted, Source
      <4>3. my[q].fresh /\ Op(q) # "run" /\ worker[q] # "none" =>
               \A g \in Files : jail[Mine(q)].restore[g] = Wanted(q) /\ jail'[Mine(q)].restore[g] = Wanted(q)
        BY <2>4, <3>4, <4>2 DEF FreshInv, LinkOrCopy
      <4>4. Wanted(q)' = Wanted(q)
        BY <2>1 DEF Wanted
      <4>5. QED
        BY <2>1, <2>4, <2>5, <3>4, <4>1, <4>3, <4>4 DEF FreshInv
    <3>5. QED
      BY <3>2, <3>3, <3>4
<1>25. ASSUME NEW p \in Procs, Bind(p) PROVE FreshInv'
  <2>1. jail[Mine(p)] \in Jail /\ Mine(p) \in Names
    BY <1>25, <1>t, JobType DEF Bind, LocalInv, TypeOK, Launching
  <2>2. /\ jail'[Mine(p)] = [jail[Mine(p)] EXCEPT !.control = p]
        /\ \A n \in Names \ {Mine(p)} : jail'[n] = jail[n]
    BY <1>25, <1>t, <2>1 DEF Bind, TypeOK
  <2>3. jail'[Mine(p)].rootfs = jail[Mine(p)].rootfs /\ jail'[Mine(p)].restore = jail[Mine(p)].restore
        /\ jail'[Mine(p)] # None
    BY <2>1, <2>2 DEF Jail
  <2>4. /\ pc[p] = "bind" /\ pc'[p] = "spawn" /\ UNCHANGED <<job, my, worker>>
        /\ \A q \in Procs \ {p} : pc'[q] = pc[q]
    BY <1>25, <1>t DEF Bind, TypeOK
  <2>5. \A q \in Procs : Wanted(q)' = Wanted(q)
    BY <2>4 DEF Wanted
  <2>6. \A n \in Names : jail[n] # None => /\ jail'[n] # None /\ jail'[n].rootfs = jail[n].rootfs
                                           /\ jail'[n].restore = jail[n].restore
    BY <2>2, <2>3
  <2>7. QED
    BY <1>t, <2>4, <2>5, <2>6, JobType DEF FreshInv, Launching, Files, Spawned
<1>26. ASSUME NEW p \in Procs, SpawnWorker(p) PROVE FreshInv'
  BY <1>26, <1>t, JobType DEF SpawnWorker, TypeOK, LockInv, Locked, Launching, Files,
     FreshInv, Spawned, Wanted
<1>27. ASSUME NEW p \in Procs, Put(p) PROVE FreshInv'
  <2>1. /\ pc[p] = "put" /\ pc'[p] \in Spawned \ {"put"} /\ UNCHANGED <<job, my, worker, jail>>
        /\ \A q \in Procs \ {p} : pc'[q] = pc[q]
    BY <1>27, <1>t DEF Put, Leave, TypeOK, Spawned
  <2>2. QED
    BY <2>1 DEF FreshInv, Wanted, Spawned, Files
<1>28. ASSUME NEW p \in Procs, Waited(p) PROVE FreshInv'
  BY <1>28, <1>t, JobType DEF Waited, Leave, TypeOK, LockInv, Locked, Launching, Files,
     FreshInv, Spawned, Wanted
<1>29. ASSUME NEW p \in Procs, WorkerEnds(p) PROVE FreshInv'
  BY <1>29, <1>t, JobType DEF WorkerEnds, Alive, TypeOK, LockInv, Locked, Launching, Files,
     FreshInv, Spawned, Wanted
<1>30. ASSUME NEW p \in Procs, BeginStop(p) PROVE FreshInv'
  <2>1. pc[p] = "begin" /\ worker[p] = "none" /\ ~my[p].fresh
    BY <1>30, <1>t, JobType DEF BeginStop, TypeOK, FreshInv, Spawned, Launching
  <2>2. \A q \in Procs \ {p} : pc'[q] = pc[q]
    BY <1>30, <1>t DEF BeginStop, Leave, TypeOK
  <2>3. UNCHANGED <<job, my, jail>> /\ \A q \in Procs : worker'[q] # "none" <=> worker[q] # "none"
    BY <1>30, <1>t DEF BeginStop, TypeOK
  <2>4. QED
    BY <2>1, <2>2, <2>3 DEF FreshInv, Wanted
<1>31. ASSUME NEW p \in Procs, PutStopped(p) PROVE FreshInv'
  BY <1>31, <1>t, JobType DEF PutStopped, Leave, TypeOK, LockInv, Locked, Launching, Files,
     FreshInv, Spawned, Wanted
<1>32. ASSUME NEW p \in Procs, BeginRm(p) PROVE FreshInv'
  <2>1. UNCHANGED <<job, my, worker, jail>> /\ pc[p] = "begin"
    BY <1>32 DEF BeginRm
  <2>2. pc'[p] \in {"unmasq", "delete"} /\ \A q \in Procs \ {p} : pc'[q] = pc[q]
    BY <1>32, <1>t DEF BeginRm, Leave, TypeOK
  <2>3. QED
    BY <2>1, <2>2 DEF FreshInv, Wanted, Spawned, Launching, Files
<1>33. ASSUME NEW p \in Procs, Delete(p) PROVE FreshInv'
  BY <1>33, <1>t, JobType DEF Delete, Leave, TypeOK, LockInv, Locked, Launching, Files,
     FreshInv, Spawned, Wanted
<1>34. ASSUME NEW p \in Procs, Gc(p) PROVE FreshInv'
  BY <1>34, <1>t, JobType DEF Gc, Asked, TypeOK, LockInv, Locked, Launching, Files, FreshInv,
     Spawned, Wanted
<1>35. ASSUME NEW p \in Procs, RemoveFile(p) PROVE FreshInv'
  BY <1>35, <1>t, JobType DEF RemoveFile, Asked, TypeOK, LockInv, Locked, Launching, Files,
     FreshInv, Spawned, Wanted
<1>36. ASSUME NEW p \in Procs, Removed(p) PROVE FreshInv'
  BY <1>36, <1>t, JobType DEF Removed, Leave, Asked, TypeOK, LockInv, Locked, Launching,
     Files, FreshInv, Spawned, Wanted
<1>40. ASSUME NEW p \in Procs, Masquerade(p) PROVE FreshInv'
  BY <1>40, <1>t, JobType DEF Masquerade, TypeOK, LockInv, Locked, Launching, Files, FreshInv,
     Spawned, Wanted
<1>41. ASSUME NEW p \in Procs, DropMasq(p) PROVE FreshInv'
  BY <1>41, <1>t, JobType DEF DropMasq, TypeOK, LockInv, Locked, Launching, Files, FreshInv,
     Spawned, Wanted
<1>42. ASSUME NEW p \in Procs, DropRoute(p) PROVE FreshInv'
  BY <1>42, <1>t, JobType DEF DropRoute, TypeOK, LockInv, Locked, Launching, Files, FreshInv,
     Spawned, Wanted
<1>43. ASSUME NEW p \in Procs, DropVeth(p) PROVE FreshInv'
  BY <1>43, <1>t, JobType DEF DropVeth, TypeOK, LockInv, Locked, Launching, Files, FreshInv,
     Spawned, Wanted
<1>44. ASSUME NEW p \in Procs, DropNetns(p) PROVE FreshInv'
  BY <1>44, <1>t, JobType DEF DropNetns, Leave, TypeOK, LockInv, Locked, Launching, Files,
     FreshInv, Spawned, Wanted
<1>37. CASE UNCHANGED vars
  BY <1>37 DEF vars, TypeOK, LockInv, Locked, Launching, Files, FreshInv, Spawned, Wanted
<1>38. QED
  BY <1>1, <1>2, <1>3, <1>4, <1>5, <1>6, <1>7, <1>8, <1>9, <1>10, <1>11, <1>12, <1>13, <1>14,
     <1>15, <1>16, <1>17, <1>18, <1>19, <1>20, <1>21, <1>22, <1>23, <1>24, <1>25, <1>26,
     <1>27, <1>28, <1>29, <1>30, <1>31, <1>32, <1>33, <1>34, <1>35, <1>36, <1>40,
     <1>41, <1>42, <1>43, <1>44, <1>37 DEF Next

(* A record of a running machine names its worker. *)
LEMMA OwnerStep == TypedInv /\ OwnerInv /\ [Next]_vars => OwnerInv'
<1> SUFFICES ASSUME TypedInv /\ OwnerInv, [Next]_vars PROVE OwnerInv'
  OBVIOUS
<1>t. TypeOK /\ LockInv /\ WhereInv /\ LocalInv
  BY DEF TypedInv
<1> USE HostAssumption DEF Op, Mine, procs, image, clone, files, Goto
<1>1. ASSUME NEW p \in Procs, Begin(p) PROVE OwnerInv'
  BY <1>1, <1>t, JobType DEF Begin, TypeOK, Record, OwnerInv, Spawned
<1>2. ASSUME NEW p \in Procs, Open(p) PROVE OwnerInv'
  <2>1. UNCHANGED <<registry, job>> /\ pc[p] \in {"open", "reopen"}
    BY <1>2 DEF Open
  <2>2. pc'[p] \in {"begin", "netns"} /\ \A q \in Procs \ {p} : pc'[q] = pc[q]
    BY <1>2, <1>t DEF Open, TypeOK
  <2>3. QED
    BY <2>1, <2>2 DEF OwnerInv, Spawned
<1>3. ASSUME NEW p \in Procs, Abort(p) PROVE OwnerInv'
  BY <1>3, <1>t, JobType DEF Abort, Leave, TypeOK, Record, OwnerInv, Spawned
<1>4. ASSUME NEW p \in Procs, BeginRun(p) PROVE OwnerInv'
  BY <1>4, <1>t, JobType DEF BeginRun, TypeOK, Record, OwnerInv, Spawned
<1>5. ASSUME NEW p \in Procs, BeginRestore(p) PROVE OwnerInv'
  BY <1>5, <1>t, JobType DEF BeginRestore, TypeOK, Record, OwnerInv, Spawned
<1>6. ASSUME NEW p \in Procs, BeginBranch(p) PROVE OwnerInv'
  BY <1>6, <1>t, JobType DEF BeginBranch, TypeOK, Record, OwnerInv, Spawned
<1>7. ASSUME NEW p \in Procs, Wipe(p) PROVE OwnerInv'
  <2>1. UNCHANGED <<registry, job>> /\ pc[p] = "wipe"
    BY <1>7 DEF Wipe
  <2>2. pc'[p] \in {"net", "unpack"} /\ \A q \in Procs \ {p} : pc'[q] = pc[q]
    BY <1>7, <1>t DEF Wipe, TypeOK
  <2>3. QED
    BY <2>1, <2>2 DEF OwnerInv, Spawned
<1>8. ASSUME NEW p \in Procs, Unpack(p) PROVE OwnerInv'
  BY <1>8, <1>t, JobType DEF Unpack, TypeOK, Record, OwnerInv, Spawned
<1>9. ASSUME NEW p \in Procs, Mkfs(p) PROVE OwnerInv'
  BY <1>9, <1>t, JobType DEF Mkfs, TypeOK, Record, OwnerInv, Spawned
<1>10. ASSUME NEW p \in Procs, Seal(p) PROVE OwnerInv'
  BY <1>10, <1>t, JobType DEF Seal, TypeOK, Record, OwnerInv, Spawned
<1>11. ASSUME NEW p \in Procs, Publish(p) PROVE OwnerInv'
  BY <1>11, <1>t, JobType DEF Publish, NoScratch, TypeOK, Record, OwnerInv, Spawned
<1>12. ASSUME NEW p \in Procs, Net(p) PROVE OwnerInv'
  BY <1>12, <1>t, JobType DEF Net, CreateTap, TypeOK, Record, OwnerInv, Spawned
<1>13. ASSUME NEW p \in Procs, Ask(p) PROVE OwnerInv'
  BY <1>13, <1>t, JobType DEF Ask, Asked, TypeOK, Record, OwnerInv, Spawned
<1>14. ASSUME NEW p \in Procs, Send(p) PROVE OwnerInv'
  <2>1. UNCHANGED <<registry, job>> /\ pc[p] = "send"
    BY <1>14 DEF Send
  <2>2. pc'[p] \in {"find", "keep", "done"} /\ \A q \in Procs \ {p} : pc'[q] = pc[q]
    BY <1>14, <1>t DEF Send, Leave, TypeOK
  <2>3. QED
    BY <2>1, <2>2 DEF OwnerInv, Spawned
<1>15. ASSUME NEW p \in Procs, Find(p) PROVE OwnerInv'
  BY <1>15, <1>t, JobType DEF Find, TypeOK, Record, OwnerInv, Spawned
<1>16. ASSUME NEW p \in Procs, Netns(p) PROVE OwnerInv'
  BY <1>16, <1>t, JobType DEF Netns, TypeOK, Record, OwnerInv, Spawned
<1>17. ASSUME NEW p \in Procs, OpenTun(p) PROVE OwnerInv'
  BY <1>17, <1>t, JobType DEF OpenTun, TypeOK, Record, OwnerInv, Spawned
<1>18. ASSUME NEW p \in Procs, Veth(p) PROVE OwnerInv'
  BY <1>18, <1>t, JobType DEF Veth, TypeOK, Record, OwnerInv, Spawned
<1>19. ASSUME NEW p \in Procs, Wire(p) PROVE OwnerInv'
  BY <1>19, <1>t, JobType DEF Wire, TypeOK, Record, OwnerInv, Spawned
<1>20. ASSUME NEW p \in Procs, Route(p) PROVE OwnerInv'
  BY <1>20, <1>t, JobType DEF Route, TypeOK, Record, OwnerInv, Spawned
<1>21. ASSUME NEW p \in Procs, WireFails(p) PROVE OwnerInv'
  BY <1>21, <1>t, JobType DEF WireFails, TypeOK, Record, OwnerInv, Spawned
<1>22. ASSUME NEW p \in Procs, MakeJail(p) PROVE OwnerInv'
  BY <1>22, <1>t, JobType DEF MakeJail, TypeOK, Record, OwnerInv, Spawned
<1>23. ASSUME NEW p \in Procs, RestoreJail(p) PROVE OwnerInv'
  BY <1>23, <1>t, JobType DEF RestoreJail, TypeOK, Record, OwnerInv, Spawned
<1>24. ASSUME NEW p \in Procs, LinkFile(p) PROVE OwnerInv'
  <2>1. pc[p] \in Files /\ \A q \in Procs \ {p} : pc'[q] = pc[q]
    BY <1>24, <1>t, LinkStep DEF TypeOK
  <2>f. PICK f \in Files : /\ pc' = [pc EXCEPT ![p] = AfterFile[f]]
                           /\ AfterFile[f] \in {"state", "memory", "bind"}
    BY <1>24, LinkStep
  <2>2. pc'[p] \in {"state", "memory", "bind"} /\ UNCHANGED <<registry, job>>
    <3>1. UNCHANGED <<registry, job>>
      BY <1>24, LinkStep
    <3>2. pc'[p] = AfterFile[f]
      BY <1>t, <2>f DEF TypeOK
    <3>3. QED
      BY <2>f, <3>1, <3>2
  <2>3. pc[p] \notin Spawned \ {"put"} /\ pc'[p] # "idle"
    BY <2>1, <2>2 DEF Spawned, Files
  <2>4. QED
    BY <2>1, <2>2, <2>3 DEF OwnerInv
<1>25. ASSUME NEW p \in Procs, Bind(p) PROVE OwnerInv'
  BY <1>25, <1>t, JobType DEF Bind, TypeOK, Record, OwnerInv, Spawned
<1>26. ASSUME NEW p \in Procs, SpawnWorker(p) PROVE OwnerInv'
  BY <1>26, <1>t, JobType DEF SpawnWorker, TypeOK, Record, OwnerInv, Spawned
<1>27. ASSUME NEW p \in Procs, Put(p) PROVE OwnerInv'
  BY <1>27, <1>t, JobType DEF Put, Leave, TypeOK, Record, OwnerInv, Spawned
<1>28. ASSUME NEW p \in Procs, Waited(p) PROVE OwnerInv'
  BY <1>28, <1>t, JobType DEF Waited, Leave, TypeOK, Record, OwnerInv, Spawned
<1>29. ASSUME NEW p \in Procs, WorkerEnds(p) PROVE OwnerInv'
  BY <1>29, <1>t, JobType DEF WorkerEnds, Alive, TypeOK, Record, OwnerInv, Spawned
<1>30. ASSUME NEW p \in Procs, BeginStop(p) PROVE OwnerInv'
  <2>1. UNCHANGED <<registry, job>> /\ pc[p] = "begin"
    BY <1>30 DEF BeginStop
  <2>2. pc'[p] \in {"signal", "done"} /\ \A q \in Procs \ {p} : pc'[q] = pc[q]
    BY <1>30, <1>t DEF BeginStop, Leave, TypeOK
  <2>3. QED
    BY <2>1, <2>2 DEF OwnerInv, Spawned
<1>31. ASSUME NEW p \in Procs, PutStopped(p) PROVE OwnerInv'
  <2>1. UNCHANGED job /\ pc[p] = "signal" /\ pc' = [pc EXCEPT ![p] = "done"]
    BY <1>31 DEF PutStopped, Leave
  <2>2. registry[Mine(p)] \in Record /\ Mine(p) \in Names
    BY <1>t, <2>1, JobType DEF LocalInv, TypeOK
  <2>3. /\ \A n \in Names \ {Mine(p)} : registry'[n] = registry[n]
        /\ registry'[Mine(p)].running = FALSE /\ registry'[Mine(p)].pid = None
    BY <1>31, <1>t, <2>2 DEF PutStopped, TypeOK, Record
  <2>4. \A q \in Procs : pc'[q] = IF q = p THEN "done" ELSE pc[q]
    BY <1>t, <2>1 DEF TypeOK
  <2>5. QED
    BY <2>1, <2>2, <2>3, <2>4 DEF OwnerInv, Spawned
<1>32. ASSUME NEW p \in Procs, BeginRm(p) PROVE OwnerInv'
  <2>1. UNCHANGED <<registry, job, my>> /\ pc[p] = "begin"
    BY <1>32 DEF BeginRm
  <2>2. pc'[p] \in {"unmasq", "delete"} /\ \A q \in Procs \ {p} : pc'[q] = pc[q]
    BY <1>32, <1>t DEF BeginRm, Leave, TypeOK
  <2>3. QED
    BY <2>1, <2>2 DEF OwnerInv, Spawned
<1>33. ASSUME NEW p \in Procs, Delete(p) PROVE OwnerInv'
  BY <1>33, <1>t, JobType DEF Delete, Leave, TypeOK, Record, OwnerInv, Spawned
<1>34. ASSUME NEW p \in Procs, Gc(p) PROVE OwnerInv'
  BY <1>34, <1>t, JobType DEF Gc, Asked, TypeOK, Record, OwnerInv, Spawned
<1>35. ASSUME NEW p \in Procs, RemoveFile(p) PROVE OwnerInv'
  BY <1>35, <1>t, JobType DEF RemoveFile, Asked, TypeOK, Record, OwnerInv, Spawned
<1>36. ASSUME NEW p \in Procs, Removed(p) PROVE OwnerInv'
  BY <1>36, <1>t, JobType DEF Removed, Leave, Asked, TypeOK, Record, OwnerInv, Spawned
<1>40. ASSUME NEW p \in Procs, Masquerade(p) PROVE OwnerInv'
  BY <1>40, <1>t, JobType DEF Masquerade, TypeOK, Record, OwnerInv, Spawned
<1>41. ASSUME NEW p \in Procs, DropMasq(p) PROVE OwnerInv'
  BY <1>41, <1>t, JobType DEF DropMasq, TypeOK, Record, OwnerInv, Spawned
<1>42. ASSUME NEW p \in Procs, DropRoute(p) PROVE OwnerInv'
  BY <1>42, <1>t, JobType DEF DropRoute, TypeOK, Record, OwnerInv, Spawned
<1>43. ASSUME NEW p \in Procs, DropVeth(p) PROVE OwnerInv'
  BY <1>43, <1>t, JobType DEF DropVeth, TypeOK, Record, OwnerInv, Spawned
<1>44. ASSUME NEW p \in Procs, DropNetns(p) PROVE OwnerInv'
  <2>1. UNCHANGED <<registry, job, my>> /\ pc[p] = "unnetns"
    BY <1>44 DEF DropNetns
  <2>2. pc'[p] \in {"delete", "done"} /\ \A q \in Procs \ {p} : pc'[q] = pc[q]
    BY <1>44, <1>t DEF DropNetns, Leave, TypeOK
  <2>3. QED
    BY <2>1, <2>2 DEF OwnerInv, Spawned
<1>37. CASE UNCHANGED vars
  BY <1>37 DEF vars, TypeOK, Record, OwnerInv, Spawned
<1>38. QED
  BY <1>1, <1>2, <1>3, <1>4, <1>5, <1>6, <1>7, <1>8, <1>9, <1>10, <1>11, <1>12, <1>13, <1>14,
     <1>15, <1>16, <1>17, <1>18, <1>19, <1>20, <1>21, <1>22, <1>23, <1>24, <1>25, <1>26,
     <1>27, <1>28, <1>29, <1>30, <1>31, <1>32, <1>33, <1>34, <1>35, <1>36, <1>40,
     <1>41, <1>42, <1>43, <1>44, <1>37 DEF Next

(* Steps that neither record nor choose anything keep the choices. *)
LEMMA SlotKept ==
    ASSUME SlotInv, UNCHANGED <<registry, crossed>>,
           \A q \in Procs : Branching(q)' =>
               Branching(q) /\ my'[q].slot = my[q].slot /\ my'[q].ip = my[q].ip /\ job'[q] = job[q]
    PROVE  SlotInv'
BY DEF SlotInv, IsClone, Sole, Mine

(* Steps that wire nothing keep what is wired. *)
LEMMA NetKept ==
    ASSUME NetInv, UNCHANGED clone,
           \A q \in Procs : Op(q)' = "branch" /\ pc'[q] \in {"nat", "masq", "route"} \union Launching =>
               /\ pc[q] = pc'[q] \/ (pc[q] \in Launching /\ pc'[q] \in Launching)
               /\ my'[q].slot = my[q].slot /\ my'[q].ip = my[q].ip /\ job'[q] = job[q]
    PROVE  NetInv'
<1>1. SUFFICES ASSUME NEW q \in Procs PROVE NetInv!(q)'
  BY DEF NetInv
<1>2. UNCHANGED <<netns, veth, masq, route>>
  BY DEF clone
<1>3. QED
  BY <1>2 DEF NetInv, Wired, Op, Mine, Launching

(* What is torn down is not that of a clone that runs and that crossed no    *)
(* other and is not removed by force.                                        *)
LEMMA TearApart ==
    ASSUME TypeOK, WhereInv, LocalInv, SlotInv, NEW p \in Procs, pc[p] \in Tearing,
           NEW n \in Recorded, LiveClone(n), registry[n].pid \notin crossed
    PROVE  /\ n # Mine(p) /\ registry[n].slot # Plan(p).slot /\ registry[n].ip # Plan(p).ip
           /\ registry[n].slot \in Slots /\ registry[n].ip \in Ips
<1>1. n \in Names /\ registry[n] \in Record /\ Sole(n) /\ Mine(p) \in Names
  BY JobType DEF Recorded, TypeOK, LiveClone, Sole, IsClone, Mine
<1>2. registry[n].slot \in Slots /\ registry[n].ip \in Ips /\ registry[n].running
  BY <1>1 DEF Record, Sole, IsClone
<1>3. CASE Op(p) = "branch"
  BY <1>1, <1>2, <1>3 DEF SlotInv, Branching, Plan, Sole
<1>4. CASE Op(p) = "rm"
  <2>1. IsClone(Mine(p)) /\ (~registry[Mine(p)].running \/ ForcedOut(Mine(p)))
    BY <1>4 DEF LocalInv, IsClone, ForcedOut
  <2>2. n # Mine(p)
    BY <1>2, <2>1 DEF LiveClone
  <2>3. QED
    BY <1>1, <1>2, <1>4, <2>1, <2>2 DEF SlotInv, Plan
<1>5. QED
  BY <1>3, <1>4 DEF WhereInv

(* A branch that crosses no other has a slot and an address of its own. *)
LEMMA SlotStep == TypedInv /\ SlotInv /\ [Next]_vars => SlotInv'
<1> SUFFICES ASSUME TypedInv /\ SlotInv, [Next]_vars PROVE SlotInv'
  OBVIOUS
<1>t. TypeOK /\ LockInv /\ WhereInv /\ LocalInv
  BY DEF TypedInv
<1> USE HostAssumption DEF Op, Mine, procs, image, clone, files, Goto
<1>1. ASSUME NEW p \in Procs, Begin(p) PROVE SlotInv'
  BY <1>1, <1>t, JobType DEF Begin, TypeOK, LockInv, Locked, Wiring, Tearing, Launching,
     Files, SlotInv, Branching, IsClone, Sole
<1>2. ASSUME NEW p \in Procs, Open(p) PROVE SlotInv'
  <2>1. UNCHANGED <<registry, job, my, crossed>>
    BY <1>2 DEF Open
  <2>2. \A q \in Procs : Branching(q)' => Branching(q)
    BY <1>2, <1>t DEF Open, TypeOK, Branching, Wiring, Tearing, Launching
  <2>3. QED
    BY <2>1, <2>2, SlotKept
<1>3. ASSUME NEW p \in Procs, Abort(p) PROVE SlotInv'
  BY <1>3, <1>t, JobType DEF Abort, Leave, TypeOK, LockInv, Locked, Wiring, Tearing,
     Launching, Files, SlotInv, Branching, IsClone, Sole
<1>4. ASSUME NEW p \in Procs, BeginRun(p) PROVE SlotInv'
  BY <1>4, <1>t, JobType DEF BeginRun, TypeOK, LockInv, Locked, Wiring, Tearing, Launching,
     Files, SlotInv, Branching, IsClone, Sole
<1>5. ASSUME NEW p \in Procs, BeginRestore(p) PROVE SlotInv'
  BY <1>5, <1>t, JobType DEF BeginRestore, TypeOK, LockInv, Locked, Wiring, Tearing,
     Launching, Files, SlotInv, Branching, IsClone, Sole
<1>6. ASSUME NEW p \in Procs, BeginBranch(p) PROVE SlotInv'
  <2> DEFINE s == Min((0..Cardinality(UsedSlots)) \ UsedSlots)
  <2>1. s \notin UsedSlots /\ Allocate \notin UsedIps
    BY <1>6, <1>t, SlotFree, AllocateFree DEF BeginBranch
  <2> HIDE DEF s
  <2>2. my' = [my EXCEPT ![p] = [my[p] EXCEPT !.slot = s, !.ip = Allocate]]
    BY <1>6 DEF BeginBranch, s
  <2>3. /\ UNCHANGED <<registry, job>> /\ pc[p] = "begin" /\ registry[Mine(p)] = None
        /\ crossed' = IF InGap = {} THEN crossed ELSE crossed \union InGap \union {p}
        /\ pc' = [pc EXCEPT ![p] = "ask"]
    BY <1>6 DEF BeginBranch
  <2>4. my'[p].slot = s /\ my'[p].ip = Allocate /\ \A q \in Procs \ {p} : my'[q] = my[q] /\ pc'[q] = pc[q]
    BY <1>t, <2>2, <2>3 DEF TypeOK, Locals
  <2>5. \A q \in Procs \ {p} : Branching(q)' => Branching(q) /\ q \in InGap
    BY <1>t, <2>3, <2>4 DEF InGap, Branching, LockInv, Locked
  <2>6. crossed \subseteq crossed' /\ (InGap # {} => p \in crossed' /\ InGap \subseteq crossed')
    BY <2>3
  <2>7. \A n \in Names : IsClone(n) => n # Mine(p) /\ registry[n].slot # s /\ registry[n].ip # Allocate
    BY <2>1, <2>3 DEF IsClone, UsedSlots, UsedIps, Recorded
  <2>8. \A n \in Names : (IsClone(n)' <=> IsClone(n)) /\ (Sole(n)' => Sole(n))
    BY <2>3, <2>6 DEF IsClone, Sole
  <2>9. \A q, r \in Procs : Branching(q)' /\ Branching(r)' /\ q \notin crossed' => q = r
    BY <2>5, <2>6
  <2>10. ASSUME NEW q \in Procs, NEW n \in Names, Branching(q)', IsClone(n)',
                q \notin crossed' \/ Sole(n)'
         PROVE  (n # Mine(q) /\ registry[n].slot # my[q].slot /\ registry[n].ip # my[q].ip)'
    <3>1. CASE q = p
      BY <2>3, <2>4, <2>7, <2>8, <2>10, <3>1
    <3>2. CASE q # p
      BY <2>3, <2>4, <2>5, <2>6, <2>8, <2>10, <3>2 DEF SlotInv
    <3>3. QED
      BY <3>1, <3>2
  <2>11. \A m, n \in Names : IsClone(m)' /\ Sole(n)' /\ m # n =>
            (registry[m].slot # registry[n].slot /\ registry[m].ip # registry[n].ip)'
    BY <2>3, <2>8 DEF SlotInv
  <2>12. QED
    BY <2>9, <2>10, <2>11 DEF SlotInv
<1>7. ASSUME NEW p \in Procs, Wipe(p) PROVE SlotInv'
  <2>1. UNCHANGED <<registry, job, my, crossed>> /\ pc' \in {[pc EXCEPT ![p] = "net"], [pc EXCEPT ![p] = "unpack"]}
    BY <1>7 DEF Wipe
  <2>2. \A q \in Procs : Branching(q)' => Branching(q)
    BY <1>t, <2>1 DEF TypeOK, Branching, Wiring, Tearing, Launching
  <2>3. QED
    BY <2>1, <2>2, SlotKept
<1>8. ASSUME NEW p \in Procs, Unpack(p) PROVE SlotInv'
  BY <1>8, <1>t, JobType DEF Unpack, TypeOK, LockInv, Locked, Wiring, Tearing, Launching,
     Files, SlotInv, Branching, IsClone, Sole
<1>9. ASSUME NEW p \in Procs, Mkfs(p) PROVE SlotInv'
  BY <1>9, <1>t, JobType DEF Mkfs, TypeOK, LockInv, Locked, Wiring, Tearing, Launching, Files,
     SlotInv, Branching, IsClone, Sole
<1>10. ASSUME NEW p \in Procs, Seal(p) PROVE SlotInv'
  BY <1>10, <1>t, JobType DEF Seal, TypeOK, LockInv, Locked, Wiring, Tearing, Launching,
     Files, SlotInv, Branching, IsClone, Sole
<1>11. ASSUME NEW p \in Procs, Publish(p) PROVE SlotInv'
  BY <1>11, <1>t, JobType DEF Publish, NoScratch, TypeOK, LockInv, Locked, Wiring, Tearing,
     Launching, Files, SlotInv, Branching, IsClone, Sole
<1>12. ASSUME NEW p \in Procs, Net(p) PROVE SlotInv'
  <2>1. UNCHANGED <<registry, job, crossed>> /\ \A q \in Procs \ {p} : my'[q] = my[q] /\ pc'[q] = pc[q]
    BY <1>12, <1>t DEF Net, TypeOK
  <2>2. ~Branching(p)'
    BY <1>12, <1>t, <2>1 DEF Net, WhereInv, Branching
  <2>3. \A q \in Procs \ {p} : Branching(q)' => Branching(q)
    BY <2>1 DEF Branching
  <2>4. QED
    BY <2>1, <2>2, <2>3, SlotKept
<1>13. ASSUME NEW p \in Procs, Ask(p) PROVE SlotInv'
  BY <1>13, <1>t, JobType DEF Ask, Asked, TypeOK, LockInv, Locked, Wiring, Tearing, Launching,
     Files, SlotInv, Branching, IsClone, Sole
<1>14. ASSUME NEW p \in Procs, Send(p) PROVE SlotInv'
  <2>1. UNCHANGED <<registry, job, crossed>> /\ pc[p] = "send"
    BY <1>14 DEF Send
  <2>2. \A q \in Procs \ {p} : my'[q] = my[q] /\ pc'[q] = pc[q]
    BY <1>14, <1>t DEF Send, Leave, TypeOK
  <2>3. my'[p].slot = my[p].slot /\ my'[p].ip = my[p].ip
    BY <1>14, <1>t DEF Send, TypeOK, Locals
  <2>4. \A q \in Procs : Branching(q)' => Branching(q)
    BY <2>1, <2>2 DEF Branching
  <2>5. QED
    BY <2>1, <2>2, <2>3, <2>4, SlotKept
<1>15. ASSUME NEW p \in Procs, Find(p) PROVE SlotInv'
  BY <1>15, <1>t, JobType DEF Find, TypeOK, LockInv, Locked, Wiring, Tearing, Launching,
     Files, SlotInv, Branching, IsClone, Sole
<1>16. ASSUME NEW p \in Procs, Netns(p) PROVE SlotInv'
  BY <1>16, <1>t, JobType DEF Netns, TypeOK, LockInv, Locked, Wiring, Tearing, Launching,
     Files, SlotInv, Branching, IsClone, Sole
<1>17. ASSUME NEW p \in Procs, OpenTun(p) PROVE SlotInv'
  BY <1>17, <1>t, JobType DEF OpenTun, TypeOK, LockInv, Locked, Wiring, Tearing, Launching,
     Files, SlotInv, Branching, IsClone, Sole
<1>18. ASSUME NEW p \in Procs, Veth(p) PROVE SlotInv'
  BY <1>18, <1>t, JobType DEF Veth, TypeOK, LockInv, Locked, Wiring, Tearing, Launching,
     Files, SlotInv, Branching, IsClone, Sole
<1>19. ASSUME NEW p \in Procs, Wire(p) PROVE SlotInv'
  BY <1>19, <1>t, JobType DEF Wire, TypeOK, LockInv, Locked, Wiring, Tearing, Launching,
     Files, SlotInv, Branching, IsClone, Sole
<1>20. ASSUME NEW p \in Procs, Route(p) PROVE SlotInv'
  BY <1>20, <1>t, JobType DEF Route, TypeOK, LockInv, Locked, Wiring, Tearing, Launching,
     Files, SlotInv, Branching, IsClone, Sole
<1>21. ASSUME NEW p \in Procs, WireFails(p) PROVE SlotInv'
  BY <1>21, <1>t, JobType DEF WireFails, TypeOK, LockInv, Locked, Wiring, Tearing, Launching,
     Files, SlotInv, Branching, IsClone, Sole
<1>22. ASSUME NEW p \in Procs, MakeJail(p) PROVE SlotInv'
  BY <1>22, <1>t, JobType DEF MakeJail, TypeOK, LockInv, Locked, Wiring, Tearing, Launching,
     Files, SlotInv, Branching, IsClone, Sole
<1>23. ASSUME NEW p \in Procs, RestoreJail(p) PROVE SlotInv'
  BY <1>23, <1>t, JobType DEF RestoreJail, TypeOK, LockInv, Locked, Wiring, Tearing,
     Launching, Files, SlotInv, Branching, IsClone, Sole
<1>24. ASSUME NEW p \in Procs, LinkFile(p) PROVE SlotInv'
  BY <1>24, <1>t, JobType DEF LinkFile, Links, AfterFile, TypeOK, LockInv, Locked, Wiring,
     Tearing, Launching, Files, SlotInv, Branching, IsClone, Sole
<1>25. ASSUME NEW p \in Procs, Bind(p) PROVE SlotInv'
  BY <1>25, <1>t, JobType DEF Bind, TypeOK, LockInv, Locked, Wiring, Tearing, Launching,
     Files, SlotInv, Branching, IsClone, Sole
<1>26. ASSUME NEW p \in Procs, SpawnWorker(p) PROVE SlotInv'
  BY <1>26, <1>t, JobType DEF SpawnWorker, TypeOK, LockInv, Locked, Wiring, Tearing,
     Launching, Files, SlotInv, Branching, IsClone, Sole
<1>27. ASSUME NEW p \in Procs, Put(p) PROVE SlotInv'
  <2> DEFINE r == [running |-> TRUE, ip |-> my[p].ip, slot |-> my[p].slot, pid |-> p]
  <2>1. registry' = [registry EXCEPT ![Mine(p)] = r] /\ UNCHANGED <<job, my, worker, crossed>> /\ pc[p] = "put"
    BY <1>27 DEF Put
  <2>2. /\ \A n \in Names \ {Mine(p)} : registry'[n] = registry[n]
        /\ registry'[Mine(p)] = r /\ Mine(p) \in Names
    BY <1>t, <2>1, JobType DEF TypeOK
  <2>3. pc'[p] \in {"wait", "keep", "done"} /\ \A q \in Procs \ {p} : pc'[q] = pc[q]
    BY <1>27, <1>t DEF Put, Leave, TypeOK
  <2>4. ~Branching(p)' /\ \A q \in Procs \ {p} : Branching(q)' => Branching(q)
    BY <2>1, <2>3 DEF Branching, Wiring, Tearing, Launching
  <2>5. IsClone(Mine(p))' => Op(p) = "branch"
    BY <1>t, <2>1, <2>2 DEF LocalInv, IsClone, Launching
  <2>6. Op(p) = "branch" => Branching(p)
    BY <2>1 DEF Branching, Launching
  <2>7. \A n \in Names \ {Mine(p)} : IsClone(n)' <=> IsClone(n)
    BY <2>2 DEF IsClone
  <2>8. /\ \A n \in Names \ {Mine(p)} : Sole(n)' <=> Sole(n)
        /\ Sole(Mine(p))' => p \notin crossed
    BY <2>1, <2>2, <2>7 DEF Sole
  <2>9. ASSUME NEW q \in Procs, NEW n \in Names, Branching(q)', IsClone(n)',
               q \notin crossed' \/ Sole(n)'
        PROVE  (n # Mine(q) /\ registry[n].slot # my[q].slot /\ registry[n].ip # my[q].ip)'
    <3>1. q # p /\ Branching(q) /\ (q \notin crossed' => q \notin crossed)
      BY <2>1, <2>4, <2>9
    <3>2. n # Mine(p)
      <4>1. SUFFICES ASSUME n = Mine(p) PROVE FALSE
        OBVIOUS
      <4>2. Branching(p) /\ (q \notin crossed \/ p \notin crossed)
        BY <2>1, <2>5, <2>6, <2>8, <2>9, <4>1
      <4>3. QED
        BY <3>1, <4>2 DEF SlotInv
    <3>3. IsClone(n) /\ (q \notin crossed \/ Sole(n)) /\ registry'[n] = registry[n]
      BY <2>1, <2>2, <2>7, <2>8, <2>9, <3>1, <3>2
    <3>4. n # Mine(q) /\ registry[n].slot # my[q].slot /\ registry[n].ip # my[q].ip
      BY <3>1, <3>3 DEF SlotInv
    <3>5. QED
      BY <2>1, <3>3, <3>4
  <2>10. ASSUME NEW m \in Names, NEW n \in Names, IsClone(m)', Sole(n)', m # n
         PROVE  (registry[m].slot # registry[n].slot /\ registry[m].ip # registry[n].ip)'
    <3>1. IsClone(n)'
      BY <2>10 DEF Sole
    <3>2. CASE m = Mine(p)
      <4>0. n \in Names \ {Mine(p)} /\ IsClone(Mine(p))'
        BY <2>1, <2>10, <3>2 DEF IsClone
      <4>1. Branching(p) /\ Sole(n) /\ IsClone(n) /\ registry'[n] = registry[n]
        BY <2>2, <2>5, <2>6, <2>7, <2>8, <2>10, <3>1, <4>0
      <4>2. registry[n].slot # my[p].slot /\ registry[n].ip # my[p].ip
        BY <4>1 DEF SlotInv
      <4>3. QED
        BY <2>2, <3>2, <4>1, <4>2
    <3>3. CASE n = Mine(p)
      <4>0. m \in Names \ {Mine(p)} /\ IsClone(Mine(p))' /\ Sole(Mine(p))'
        BY <2>1, <2>10, <3>1, <3>3 DEF IsClone, Sole
      <4>1. Branching(p) /\ p \notin crossed /\ IsClone(m) /\ registry'[m] = registry[m]
        BY <2>2, <2>5, <2>6, <2>7, <2>8, <2>10, <4>0
      <4>2. registry[m].slot # my[p].slot /\ registry[m].ip # my[p].ip
        BY <4>1 DEF SlotInv
      <4>3. QED
        BY <2>2, <3>3, <4>1, <4>2
    <3>4. CASE m # Mine(p) /\ n # Mine(p)
      BY <2>2, <2>7, <2>8, <2>10, <3>4 DEF SlotInv
    <3>5. QED
      BY <3>2, <3>3, <3>4
  <2>11. \A q, z \in Procs : Branching(q)' /\ Branching(z)' /\ q \notin crossed' => q = z
    BY <2>1, <2>4 DEF SlotInv
  <2>12. QED
    BY <2>9, <2>10, <2>11 DEF SlotInv
<1>28. ASSUME NEW p \in Procs, Waited(p) PROVE SlotInv'
  BY <1>28, <1>t, JobType DEF Waited, Leave, TypeOK, LockInv, Locked, Wiring, Tearing,
     Launching, Files, SlotInv, Branching, IsClone, Sole
<1>29. ASSUME NEW p \in Procs, WorkerEnds(p) PROVE SlotInv'
  BY <1>29, <1>t, JobType DEF WorkerEnds, Alive, TypeOK, LockInv, Locked, Wiring, Tearing,
     Launching, Files, SlotInv, Branching, IsClone, Sole
<1>30. ASSUME NEW p \in Procs, BeginStop(p) PROVE SlotInv'
  <2>1. UNCHANGED <<registry, job, my, crossed>>
    BY <1>30 DEF BeginStop
  <2>2. \A q \in Procs : pc'[q] = pc[q] \/ pc'[q] \in {"signal", "done"}
    BY <1>30, <1>t DEF BeginStop, Leave, TypeOK
  <2>3. \A q \in Procs : Branching(q)' => Branching(q)
    BY <2>1, <2>2 DEF Branching, Wiring, Tearing, Launching
  <2>4. QED
    BY <2>1, <2>3, SlotKept
<1>31. ASSUME NEW p \in Procs, PutStopped(p) PROVE SlotInv'
  <2>1. UNCHANGED <<job, my, crossed>> /\ pc[p] = "signal" /\ pc' = [pc EXCEPT ![p] = "done"]
    BY <1>31 DEF PutStopped, Leave
  <2>2. registry[Mine(p)] \in Record /\ Mine(p) \in Names
    BY <1>t, <2>1, JobType DEF LocalInv, TypeOK
  <2>3. /\ \A n \in Names \ {Mine(p)} : registry'[n] = registry[n]
        /\ registry'[Mine(p)].ip = registry[Mine(p)].ip
        /\ registry'[Mine(p)].slot = registry[Mine(p)].slot
    BY <1>31, <1>t, <2>2 DEF PutStopped, TypeOK, Record
  <2>4. \A q \in Procs : Branching(q)' => Branching(q)
    BY <1>t, <2>1 DEF TypeOK, Branching, Wiring, Tearing, Launching
  <2>5. \A n \in Names : IsClone(n)' => /\ IsClone(n) /\ registry'[n].ip = registry[n].ip
                                       /\ registry'[n].slot = registry[n].slot
    BY <2>2, <2>3 DEF IsClone
  <2>6. \A n \in Names : Sole(n)' => Sole(n)
    BY <1>31, <1>t, <2>1, <2>2, <2>3, <2>5 DEF PutStopped, Sole, TypeOK, Record
  <2>7. \A q, z \in Procs : Branching(q)' /\ Branching(z)' /\ q \notin crossed' => q = z
    BY <2>1, <2>4 DEF SlotInv
  <2>8. ASSUME NEW q \in Procs, NEW n \in Names, Branching(q)', IsClone(n)',
               q \notin crossed' \/ Sole(n)'
        PROVE  (n # Mine(q) /\ registry[n].slot # my[q].slot /\ registry[n].ip # my[q].ip)'
    <3>1. n # Mine(q) /\ registry[n].slot # my[q].slot /\ registry[n].ip # my[q].ip
      BY <2>1, <2>4, <2>5, <2>6, <2>8 DEF SlotInv
    <3>2. QED
      BY <2>1, <2>5, <2>8, <3>1
  <2>9. \A m, n \in Names : IsClone(m)' /\ Sole(n)' /\ m # n =>
           registry'[m].slot # registry'[n].slot /\ registry'[m].ip # registry'[n].ip
    <3>1. \A n \in Names : Sole(n)' => IsClone(n)'
      BY DEF Sole
    <3>2. QED
      BY <2>5, <2>6, <3>1 DEF SlotInv
  <2>10. QED
    BY <2>7, <2>8, <2>9 DEF SlotInv
<1>32. ASSUME NEW p \in Procs, BeginRm(p) PROVE SlotInv'
  <2>1. UNCHANGED <<registry, job, my, crossed>> /\ Op(p) = "rm"
    BY <1>32 DEF BeginRm
  <2>2. \A q \in Procs \ {p} : pc'[q] = pc[q]
    BY <1>32, <1>t DEF BeginRm, TypeOK
  <2>3. \A q \in Procs : Branching(q)' => Branching(q)
    BY <2>1, <2>2 DEF Branching
  <2>4. QED
    BY <2>1, <2>3, SlotKept
<1>33. ASSUME NEW p \in Procs, Delete(p) PROVE SlotInv'
  BY <1>33, <1>t, JobType DEF Delete, Leave, TypeOK, LockInv, Locked, Wiring, Tearing,
     Launching, Files, SlotInv, Branching, IsClone, Sole
<1>34. ASSUME NEW p \in Procs, Gc(p) PROVE SlotInv'
  BY <1>34, <1>t, JobType DEF Gc, Asked, TypeOK, LockInv, Locked, Wiring, Tearing, Launching,
     Files, SlotInv, Branching, IsClone, Sole
<1>35. ASSUME NEW p \in Procs, RemoveFile(p) PROVE SlotInv'
  BY <1>35, <1>t, JobType DEF RemoveFile, Asked, TypeOK, LockInv, Locked, Wiring, Tearing,
     Launching, Files, SlotInv, Branching, IsClone, Sole
<1>36. ASSUME NEW p \in Procs, Removed(p) PROVE SlotInv'
  BY <1>36, <1>t, JobType DEF Removed, Leave, Asked, TypeOK, LockInv, Locked, Wiring, Tearing,
     Launching, Files, SlotInv, Branching, IsClone, Sole
<1>40. ASSUME NEW p \in Procs, Masquerade(p) PROVE SlotInv'
  <2>1. UNCHANGED <<registry, job, my, crossed>>
    BY <1>40 DEF Masquerade
  <2>2. \A q \in Procs : Branching(q)' => Branching(q)
    BY <1>40, <1>t DEF Masquerade, TypeOK, Branching, Wiring, Tearing, Launching
  <2>3. QED
    BY <2>1, <2>2, SlotKept
<1>41. ASSUME NEW p \in Procs, DropMasq(p) PROVE SlotInv'
  <2>1. UNCHANGED <<registry, job, my, crossed>>
    BY <1>41 DEF DropMasq
  <2>2. \A q \in Procs : Branching(q)' => Branching(q)
    BY <1>41, <1>t DEF DropMasq, TypeOK, Branching, Wiring, Tearing, Launching
  <2>3. QED
    BY <2>1, <2>2, SlotKept
<1>42. ASSUME NEW p \in Procs, DropRoute(p) PROVE SlotInv'
  <2>1. UNCHANGED <<registry, job, my, crossed>>
    BY <1>42 DEF DropRoute
  <2>2. \A q \in Procs : Branching(q)' => Branching(q)
    BY <1>42, <1>t DEF DropRoute, TypeOK, Branching, Wiring, Tearing, Launching
  <2>3. QED
    BY <2>1, <2>2, SlotKept
<1>43. ASSUME NEW p \in Procs, DropVeth(p) PROVE SlotInv'
  <2>1. UNCHANGED <<registry, job, my, crossed>>
    BY <1>43 DEF DropVeth
  <2>2. \A q \in Procs : Branching(q)' => Branching(q)
    BY <1>43, <1>t DEF DropVeth, TypeOK, Branching, Wiring, Tearing, Launching
  <2>3. QED
    BY <2>1, <2>2, SlotKept
<1>44. ASSUME NEW p \in Procs, DropNetns(p) PROVE SlotInv'
  <2>1. UNCHANGED <<registry, job, my, crossed>>
    BY <1>44 DEF DropNetns
  <2>2. \A q \in Procs : Branching(q)' => Branching(q)
    BY <1>44, <1>t DEF DropNetns, Leave, TypeOK, Branching, Wiring, Tearing, Launching
  <2>3. QED
    BY <2>1, <2>2, SlotKept
<1>37. CASE UNCHANGED vars
  BY <1>37 DEF vars, TypeOK, LockInv, Locked, Wiring, Tearing, Launching, Files, SlotInv,
     Branching, IsClone, Sole
<1>38. QED
  BY <1>1, <1>2, <1>3, <1>4, <1>5, <1>6, <1>7, <1>8, <1>9, <1>10, <1>11, <1>12, <1>13, <1>14,
     <1>15, <1>16, <1>17, <1>18, <1>19, <1>20, <1>21, <1>22, <1>23, <1>24, <1>25, <1>26,
     <1>27, <1>28, <1>29, <1>30, <1>31, <1>32, <1>33, <1>34, <1>35, <1>36, <1>40,
     <1>41, <1>42, <1>43, <1>44, <1>37 DEF Next

(* The network of a clone being launched stays as it was wired. *)
LEMMA NetStep == TypedInv /\ NetInv /\ [Next]_vars => NetInv'
<1> SUFFICES ASSUME TypedInv /\ NetInv, [Next]_vars PROVE NetInv'
  OBVIOUS
<1>t. TypeOK /\ LockInv /\ WhereInv /\ LocalInv
  BY DEF TypedInv
<1> USE HostAssumption DEF Op, Mine, procs, image, clone, files, Goto
<1>1. ASSUME NEW p \in Procs, Begin(p) PROVE NetInv'
  BY <1>1, <1>t, JobType DEF Begin, TypeOK, LockInv, Locked, Wiring, Tearing, Launching,
     Files, NetInv, Wired
<1>2. ASSUME NEW p \in Procs, Open(p) PROVE NetInv'
  BY <1>2, <1>t, JobType DEF Open, TypeOK, LockInv, Locked, Wiring, Tearing, Launching, Files,
     NetInv, Wired
<1>3. ASSUME NEW p \in Procs, Abort(p) PROVE NetInv'
  BY <1>3, <1>t, JobType DEF Abort, Leave, TypeOK, LockInv, Locked, Wiring, Tearing,
     Launching, Files, NetInv, Wired
<1>4. ASSUME NEW p \in Procs, BeginRun(p) PROVE NetInv'
  BY <1>4, <1>t, JobType DEF BeginRun, TypeOK, LockInv, Locked, Wiring, Tearing, Launching,
     Files, NetInv, Wired
<1>5. ASSUME NEW p \in Procs, BeginRestore(p) PROVE NetInv'
  BY <1>5, <1>t, JobType DEF BeginRestore, TypeOK, LockInv, Locked, Wiring, Tearing,
     Launching, Files, NetInv, Wired
<1>6. ASSUME NEW p \in Procs, BeginBranch(p) PROVE NetInv'
  BY <1>6, <1>t, JobType DEF BeginBranch, TypeOK, LockInv, Locked, Wiring, Tearing, Launching,
     Files, NetInv, Wired
<1>7. ASSUME NEW p \in Procs, Wipe(p) PROVE NetInv'
  <2>1. UNCHANGED <<clone, job, my>> /\ pc' \in {[pc EXCEPT ![p] = "net"], [pc EXCEPT ![p] = "unpack"]}
    BY <1>7 DEF Wipe
  <2>2. \A q \in Procs : pc'[q] = pc[q] \/ pc'[q] \in {"net", "unpack"}
    BY <1>t, <2>1 DEF TypeOK
  <2>3. QED
    BY <2>1, <2>2, NetKept DEF Launching
<1>8. ASSUME NEW p \in Procs, Unpack(p) PROVE NetInv'
  BY <1>8, <1>t, JobType DEF Unpack, TypeOK, LockInv, Locked, Wiring, Tearing, Launching,
     Files, NetInv, Wired
<1>9. ASSUME NEW p \in Procs, Mkfs(p) PROVE NetInv'
  BY <1>9, <1>t, JobType DEF Mkfs, TypeOK, LockInv, Locked, Wiring, Tearing, Launching, Files,
     NetInv, Wired
<1>10. ASSUME NEW p \in Procs, Seal(p) PROVE NetInv'
  BY <1>10, <1>t, JobType DEF Seal, TypeOK, LockInv, Locked, Wiring, Tearing, Launching,
     Files, NetInv, Wired
<1>11. ASSUME NEW p \in Procs, Publish(p) PROVE NetInv'
  BY <1>11, <1>t, JobType DEF Publish, NoScratch, TypeOK, LockInv, Locked, Wiring, Tearing,
     Launching, Files, NetInv, Wired
<1>12. ASSUME NEW p \in Procs, Net(p) PROVE NetInv'
  <2>1. UNCHANGED <<clone, job>> /\ \A q \in Procs \ {p} : my'[q] = my[q] /\ pc'[q] = pc[q]
    BY <1>12, <1>t DEF Net, TypeOK
  <2>2. Op(p) # "branch"
    BY <1>12, <1>t DEF Net, WhereInv
  <2>3. QED
    BY <2>1, <2>2, NetKept
<1>13. ASSUME NEW p \in Procs, Ask(p) PROVE NetInv'
  BY <1>13, <1>t, JobType DEF Ask, Asked, TypeOK, LockInv, Locked, Wiring, Tearing, Launching,
     Files, NetInv, Wired
<1>14. ASSUME NEW p \in Procs, Send(p) PROVE NetInv'
  BY <1>14, <1>t, JobType DEF Send, Asked, Leave, TypeOK, LockInv, Locked, Wiring, Tearing,
     Launching, Files, NetInv, Wired
<1>15. ASSUME NEW p \in Procs, Find(p) PROVE NetInv'
  BY <1>15, <1>t, JobType DEF Find, TypeOK, LockInv, Locked, Wiring, Tearing, Launching,
     Files, NetInv, Wired
<1>16. ASSUME NEW p \in Procs, Netns(p) PROVE NetInv'
  BY <1>16, <1>t, JobType DEF Netns, TypeOK, LockInv, Locked, Wiring, Tearing, Launching,
     Files, NetInv, Wired
<1>17. ASSUME NEW p \in Procs, OpenTun(p) PROVE NetInv'
  BY <1>17, <1>t, JobType DEF OpenTun, TypeOK, LockInv, Locked, Wiring, Tearing, Launching,
     Files, NetInv, Wired
<1>18. ASSUME NEW p \in Procs, Veth(p) PROVE NetInv'
  <2>1. /\ UNCHANGED <<job, my>> /\ pc[p] = "veth" /\ pc'[p] = "nat"
        /\ \A q \in Procs \ {p} : pc'[q] = pc[q] /\ pc[q] \notin Locked
    BY <1>18, <1>t DEF Veth, TypeOK, LockInv, Locked, Wiring
  <2>2. my[p].slot \in Slots /\ my[p].ip \in Ips /\ Mine(p) \in Names /\ Op(p) = "branch"
    BY <1>t, <2>1, JobType DEF WhereInv, LocalInv, Wiring
  <2>3. veth'[my[p].slot] = Mine(p)
    BY <1>18, <1>t, <2>2 DEF Veth, TypeOK
  <2>4. QED
    BY <2>1, <2>2, <2>3 DEF NetInv, Wired, Locked, Wiring, Launching
<1>19. ASSUME NEW p \in Procs, Wire(p) PROVE NetInv'
  <2>1. /\ UNCHANGED <<job, my>> /\ pc[p] = "nat" /\ pc'[p] = "masq"
        /\ \A q \in Procs \ {p} : pc'[q] = pc[q] /\ pc[q] \notin Locked
    BY <1>19, <1>t DEF Wire, TypeOK, LockInv, Locked, Wiring
  <2>2. my[p].slot \in Slots /\ Mine(p) \in Names /\ Op(p) = "branch"
    BY <1>t, <2>1, JobType DEF WhereInv, LocalInv, Wiring
  <2>3. netns'[Mine(p)] = "nat" /\ veth'[my[p].slot] = Mine(p)
    BY <1>19, <1>t, <2>2 DEF Wire, TypeOK
  <2>4. QED
    BY <2>1, <2>2, <2>3 DEF NetInv, Wired, Locked, Wiring, Launching
<1>20. ASSUME NEW p \in Procs, Route(p) PROVE NetInv'
  <2>1. /\ UNCHANGED <<job, my>> /\ pc[p] = "route" /\ pc'[p] = "jail"
        /\ \A q \in Procs \ {p} : pc'[q] = pc[q] /\ pc[q] \notin Locked
    BY <1>20, <1>t DEF Route, TypeOK, LockInv, Locked, Wiring
  <2>2. my[p].slot \in Slots /\ my[p].ip \in Ips /\ Mine(p) \in Names /\ Op(p) = "branch"
    BY <1>t, <2>1, JobType DEF WhereInv, LocalInv, Wiring
  <2>3. Wired(Mine(p), my[p].slot, my[p].ip)'
    BY <1>20, <1>t, <2>1, <2>2 DEF Route, NetInv, Wired, TypeOK
  <2>4. QED
    BY <2>1, <2>2, <2>3 DEF NetInv, Wired, Locked, Wiring, Launching
<1>21. ASSUME NEW p \in Procs, WireFails(p) PROVE NetInv'
  BY <1>21, <1>t, JobType DEF WireFails, TypeOK, LockInv, Locked, Wiring, Tearing, Launching,
     Files, NetInv, Wired
<1>22. ASSUME NEW p \in Procs, MakeJail(p) PROVE NetInv'
  BY <1>22, <1>t, JobType DEF MakeJail, TypeOK, LockInv, Locked, Wiring, Tearing, Launching,
     Files, NetInv, Wired
<1>23. ASSUME NEW p \in Procs, RestoreJail(p) PROVE NetInv'
  BY <1>23, <1>t, JobType DEF RestoreJail, TypeOK, LockInv, Locked, Wiring, Tearing,
     Launching, Files, NetInv, Wired
<1>24. ASSUME NEW p \in Procs, LinkFile(p) PROVE NetInv'
  BY <1>24, <1>t, JobType DEF LinkFile, Links, AfterFile, TypeOK, LockInv, Locked, Wiring,
     Tearing, Launching, Files, NetInv, Wired
<1>25. ASSUME NEW p \in Procs, Bind(p) PROVE NetInv'
  BY <1>25, <1>t, JobType DEF Bind, TypeOK, LockInv, Locked, Wiring, Tearing, Launching,
     Files, NetInv, Wired
<1>26. ASSUME NEW p \in Procs, SpawnWorker(p) PROVE NetInv'
  BY <1>26, <1>t, JobType DEF SpawnWorker, TypeOK, LockInv, Locked, Wiring, Tearing,
     Launching, Files, NetInv, Wired
<1>27. ASSUME NEW p \in Procs, Put(p) PROVE NetInv'
  BY <1>27, <1>t, JobType DEF Put, Leave, TypeOK, LockInv, Locked, Wiring, Tearing, Launching,
     Files, NetInv, Wired
<1>28. ASSUME NEW p \in Procs, Waited(p) PROVE NetInv'
  BY <1>28, <1>t, JobType DEF Waited, Leave, TypeOK, LockInv, Locked, Wiring, Tearing,
     Launching, Files, NetInv, Wired
<1>29. ASSUME NEW p \in Procs, WorkerEnds(p) PROVE NetInv'
  BY <1>29, <1>t, JobType DEF WorkerEnds, Alive, TypeOK, LockInv, Locked, Wiring, Tearing,
     Launching, Files, NetInv, Wired
<1>30. ASSUME NEW p \in Procs, BeginStop(p) PROVE NetInv'
  <2>1. UNCHANGED <<clone, job, my>>
    BY <1>30 DEF BeginStop
  <2>2. \A q \in Procs : pc'[q] = pc[q] \/ pc'[q] \in {"signal", "done"}
    BY <1>30, <1>t DEF BeginStop, Leave, TypeOK
  <2>3. QED
    BY <2>1, <2>2, NetKept DEF Launching
<1>31. ASSUME NEW p \in Procs, PutStopped(p) PROVE NetInv'
  BY <1>31, <1>t, JobType DEF PutStopped, Leave, TypeOK, LockInv, Locked, Wiring, Tearing,
     Launching, Files, NetInv, Wired
<1>32. ASSUME NEW p \in Procs, BeginRm(p) PROVE NetInv'
  BY <1>32, <1>t, JobType DEF BeginRm, TypeOK, LockInv, Locked, Wiring, Tearing, Launching,
     Files, NetInv, Wired
<1>33. ASSUME NEW p \in Procs, Delete(p) PROVE NetInv'
  BY <1>33, <1>t, JobType DEF Delete, Leave, TypeOK, LockInv, Locked, Wiring, Tearing,
     Launching, Files, NetInv, Wired
<1>34. ASSUME NEW p \in Procs, Gc(p) PROVE NetInv'
  BY <1>34, <1>t, JobType DEF Gc, Asked, TypeOK, LockInv, Locked, Wiring, Tearing, Launching,
     Files, NetInv, Wired
<1>35. ASSUME NEW p \in Procs, RemoveFile(p) PROVE NetInv'
  BY <1>35, <1>t, JobType DEF RemoveFile, Asked, TypeOK, LockInv, Locked, Wiring, Tearing,
     Launching, Files, NetInv, Wired
<1>36. ASSUME NEW p \in Procs, Removed(p) PROVE NetInv'
  BY <1>36, <1>t, JobType DEF Removed, Leave, Asked, TypeOK, LockInv, Locked, Wiring, Tearing,
     Launching, Files, NetInv, Wired
<1>40. ASSUME NEW p \in Procs, Masquerade(p) PROVE NetInv'
  <2>1. /\ UNCHANGED <<job, my, netns, veth>> /\ pc[p] = "masq" /\ pc'[p] = "route"
        /\ \A q \in Procs \ {p} : pc'[q] = pc[q] /\ pc[q] \notin Locked
    BY <1>40, <1>t DEF Masquerade, TypeOK, LockInv, Locked, Wiring
  <2>2. my[p].slot \in Slots /\ Mine(p) \in Names /\ Op(p) = "branch"
    BY <1>t, <2>1, JobType DEF WhereInv, LocalInv, Wiring
  <2>3. masq[my[p].slot] \in Nat /\ masq' = [masq EXCEPT ![my[p].slot] = @ + 1] /\ DOMAIN masq = Slots
    BY <1>40, <1>t, <2>2 DEF Masquerade, TypeOK
  <2>4. masq'[my[p].slot] > 0
    BY <2>2, <2>3
  <2>5. QED
    BY <2>1, <2>2, <2>4 DEF NetInv, Wired, Locked, Wiring, Launching
<1>41. ASSUME NEW p \in Procs, DropMasq(p) PROVE NetInv'
  <2>1. /\ pc'[p] \in Tearing \union {"delete", "done"}
        /\ \A q \in Procs \ {p} : pc'[q] = pc[q] /\ pc[q] \notin Locked
    BY <1>41, <1>t DEF DropMasq, TypeOK, LockInv, Locked, Tearing
  <2>2. QED
    BY <2>1 DEF NetInv, Locked, Wiring, Launching, Tearing
<1>42. ASSUME NEW p \in Procs, DropRoute(p) PROVE NetInv'
  <2>1. /\ pc'[p] \in Tearing \union {"delete", "done"}
        /\ \A q \in Procs \ {p} : pc'[q] = pc[q] /\ pc[q] \notin Locked
    BY <1>42, <1>t DEF DropRoute, TypeOK, LockInv, Locked, Tearing
  <2>2. QED
    BY <2>1 DEF NetInv, Locked, Wiring, Launching, Tearing
<1>43. ASSUME NEW p \in Procs, DropVeth(p) PROVE NetInv'
  <2>1. /\ pc'[p] \in Tearing \union {"delete", "done"}
        /\ \A q \in Procs \ {p} : pc'[q] = pc[q] /\ pc[q] \notin Locked
    BY <1>43, <1>t DEF DropVeth, TypeOK, LockInv, Locked, Tearing
  <2>2. QED
    BY <2>1 DEF NetInv, Locked, Wiring, Launching, Tearing
<1>44. ASSUME NEW p \in Procs, DropNetns(p) PROVE NetInv'
  <2>1. /\ pc'[p] \in Tearing \union {"delete", "done"}
        /\ \A q \in Procs \ {p} : pc'[q] = pc[q] /\ pc[q] \notin Locked
    BY <1>44, <1>t DEF DropNetns, Leave, TypeOK, LockInv, Locked, Tearing
  <2>2. QED
    BY <2>1 DEF NetInv, Locked, Wiring, Launching, Tearing
<1>37. CASE UNCHANGED vars
  BY <1>37 DEF vars, TypeOK, LockInv, Locked, Wiring, Tearing, Launching, Files, NetInv, Wired
<1>38. QED
  BY <1>1, <1>2, <1>3, <1>4, <1>5, <1>6, <1>7, <1>8, <1>9, <1>10, <1>11, <1>12, <1>13, <1>14,
     <1>15, <1>16, <1>17, <1>18, <1>19, <1>20, <1>21, <1>22, <1>23, <1>24, <1>25, <1>26,
     <1>27, <1>28, <1>29, <1>30, <1>31, <1>32, <1>33, <1>34, <1>35, <1>36, <1>40,
     <1>41, <1>42, <1>43, <1>44, <1>37 DEF Next

(* So does that of a clone that runs. *)
LEMMA ReachStep == TypedInv /\ OwnerInv /\ SlotInv /\ NetInv /\ CloneReachable /\ [Next]_vars => CloneReachable'
<1> SUFFICES ASSUME TypedInv /\ OwnerInv /\ SlotInv /\ NetInv /\ CloneReachable, [Next]_vars PROVE CloneReachable'
  OBVIOUS
<1>t. TypeOK /\ LockInv /\ WhereInv /\ LocalInv
  BY DEF TypedInv
<1> USE HostAssumption DEF Op, Mine, procs, image, clone, files, Goto
<1>1. ASSUME NEW p \in Procs, Begin(p) PROVE CloneReachable'
  <2>1. UNCHANGED <<registry, worker, clone>> /\ pc[p] = "idle" /\ \A q \in Procs \ {p} : job'[q] = job[q]
    BY <1>1, <1>t DEF Begin, TypeOK
  <2>2. \A n \in Names : ForcedOut(n) => ForcedOut(n)'
    BY <2>1 DEF ForcedOut, OwnerInv
  <2>3. QED
    BY <2>1, <2>2 DEF CloneReachable, LiveClone, Reachable, Recorded
<1>2. ASSUME NEW p \in Procs, Open(p) PROVE CloneReachable'
  BY <1>2, <1>t, JobType DEF Open, TypeOK, OwnerInv, CloneReachable, LiveClone, Reachable,
     Recorded, ForcedOut
<1>3. ASSUME NEW p \in Procs, Abort(p) PROVE CloneReachable'
  BY <1>3, <1>t, JobType DEF Abort, Leave, TypeOK, OwnerInv, CloneReachable, LiveClone,
     Reachable, Recorded, ForcedOut
<1>4. ASSUME NEW p \in Procs, BeginRun(p) PROVE CloneReachable'
  BY <1>4, <1>t, JobType DEF BeginRun, TypeOK, OwnerInv, CloneReachable, LiveClone, Reachable,
     Recorded, ForcedOut
<1>5. ASSUME NEW p \in Procs, BeginRestore(p) PROVE CloneReachable'
  BY <1>5, <1>t, JobType DEF BeginRestore, TypeOK, OwnerInv, CloneReachable, LiveClone,
     Reachable, Recorded, ForcedOut
<1>6. ASSUME NEW p \in Procs, BeginBranch(p) PROVE CloneReachable'
  BY <1>6, <1>t, JobType DEF BeginBranch, TypeOK, OwnerInv, CloneReachable, LiveClone,
     Reachable, Recorded, ForcedOut
<1>7. ASSUME NEW p \in Procs, Wipe(p) PROVE CloneReachable'
  <2>1. UNCHANGED <<registry, worker, clone, job>>
    BY <1>7 DEF Wipe
  <2>2. QED
    BY <2>1 DEF CloneReachable, LiveClone, Reachable, Recorded, ForcedOut
<1>8. ASSUME NEW p \in Procs, Unpack(p) PROVE CloneReachable'
  BY <1>8, <1>t, JobType DEF Unpack, TypeOK, OwnerInv, CloneReachable, LiveClone, Reachable,
     Recorded, ForcedOut
<1>9. ASSUME NEW p \in Procs, Mkfs(p) PROVE CloneReachable'
  BY <1>9, <1>t, JobType DEF Mkfs, TypeOK, OwnerInv, CloneReachable, LiveClone, Reachable,
     Recorded, ForcedOut
<1>10. ASSUME NEW p \in Procs, Seal(p) PROVE CloneReachable'
  BY <1>10, <1>t, JobType DEF Seal, TypeOK, OwnerInv, CloneReachable, LiveClone, Reachable,
     Recorded, ForcedOut
<1>11. ASSUME NEW p \in Procs, Publish(p) PROVE CloneReachable'
  BY <1>11, <1>t, JobType DEF Publish, NoScratch, TypeOK, OwnerInv, CloneReachable, LiveClone,
     Reachable, Recorded, ForcedOut
<1>12. ASSUME NEW p \in Procs, Net(p) PROVE CloneReachable'
  BY <1>12, <1>t, JobType DEF Net, CreateTap, TypeOK, OwnerInv, CloneReachable, LiveClone,
     Reachable, Recorded, ForcedOut
<1>13. ASSUME NEW p \in Procs, Ask(p) PROVE CloneReachable'
  BY <1>13, <1>t, JobType DEF Ask, Asked, TypeOK, OwnerInv, CloneReachable, LiveClone,
     Reachable, Recorded, ForcedOut
<1>14. ASSUME NEW p \in Procs, Send(p) PROVE CloneReachable'
  BY <1>14, <1>t, JobType DEF Send, Asked, Leave, TypeOK, OwnerInv, CloneReachable, LiveClone,
     Reachable, Recorded, ForcedOut
<1>15. ASSUME NEW p \in Procs, Find(p) PROVE CloneReachable'
  BY <1>15, <1>t, JobType DEF Find, TypeOK, OwnerInv, CloneReachable, LiveClone, Reachable,
     Recorded, ForcedOut
<1>16. ASSUME NEW p \in Procs, Netns(p) PROVE CloneReachable'
  BY <1>16, <1>t, JobType DEF Netns, TypeOK, OwnerInv, CloneReachable, LiveClone, Reachable,
     Recorded, ForcedOut
<1>17. ASSUME NEW p \in Procs, OpenTun(p) PROVE CloneReachable'
  <2>1. Op(p) = "branch" /\ pc[p] = "tun" /\ Mine(p) \in Names
    BY <1>17, <1>t, JobType DEF OpenTun, WhereInv, Wiring
  <2>2. ~Sole(Mine(p))
    BY <2>1 DEF SlotInv, Branching, Wiring, Sole
  <2>3. UNCHANGED <<registry, worker, job, veth, masq, route, crossed>> /\ \A n \in Names \ {Mine(p)} : netns'[n] = netns[n]
    BY <1>17, <1>t DEF OpenTun, TypeOK
  <2>4. QED
    BY <2>2, <2>3 DEF CloneReachable, LiveClone, Reachable, Recorded, ForcedOut, IsClone, Sole
<1>18. ASSUME NEW p \in Procs, Veth(p) PROVE CloneReachable'
  BY <1>18, <1>t, JobType DEF Veth, TypeOK, OwnerInv, CloneReachable, LiveClone, Reachable,
     Recorded, ForcedOut
<1>19. ASSUME NEW p \in Procs, Wire(p) PROVE CloneReachable'
  BY <1>19, <1>t, JobType DEF Wire, TypeOK, OwnerInv, CloneReachable, LiveClone, Reachable,
     Recorded, ForcedOut
<1>20. ASSUME NEW p \in Procs, Route(p) PROVE CloneReachable'
  BY <1>20, <1>t, JobType DEF Route, TypeOK, OwnerInv, CloneReachable, LiveClone, Reachable,
     Recorded, ForcedOut
<1>21. ASSUME NEW p \in Procs, WireFails(p) PROVE CloneReachable'
  BY <1>21, <1>t, JobType DEF WireFails, TypeOK, OwnerInv, CloneReachable, LiveClone,
     Reachable, Recorded, ForcedOut
<1>22. ASSUME NEW p \in Procs, MakeJail(p) PROVE CloneReachable'
  BY <1>22, <1>t, JobType DEF MakeJail, TypeOK, OwnerInv, CloneReachable, LiveClone,
     Reachable, Recorded, ForcedOut
<1>23. ASSUME NEW p \in Procs, RestoreJail(p) PROVE CloneReachable'
  BY <1>23, <1>t, JobType DEF RestoreJail, TypeOK, OwnerInv, CloneReachable, LiveClone,
     Reachable, Recorded, ForcedOut
<1>24. ASSUME NEW p \in Procs, LinkFile(p) PROVE CloneReachable'
  BY <1>24, <1>t, JobType DEF LinkFile, Links, AfterFile, TypeOK, OwnerInv, CloneReachable,
     LiveClone, Reachable, Recorded, ForcedOut
<1>25. ASSUME NEW p \in Procs, Bind(p) PROVE CloneReachable'
  BY <1>25, <1>t, JobType DEF Bind, TypeOK, OwnerInv, CloneReachable, LiveClone, Reachable,
     Recorded, ForcedOut
<1>26. ASSUME NEW p \in Procs, SpawnWorker(p) PROVE CloneReachable'
  <2>1. pc[p] = "spawn" /\ UNCHANGED <<registry, job, clone>> /\ \A q \in Procs \ {p} : worker'[q] = worker[q]
    BY <1>26, <1>t DEF SpawnWorker, TypeOK
  <2>2. \A n \in Names : registry[n] # None /\ registry[n].running => registry[n].pid \in Procs \ {p}
    BY <2>1 DEF OwnerInv, Spawned
  <2>3. QED
    BY <2>1, <2>2 DEF CloneReachable, LiveClone, Reachable, Recorded, ForcedOut
<1>27. ASSUME NEW p \in Procs, Put(p) PROVE CloneReachable'
  <2> DEFINE r == [running |-> TRUE, ip |-> my[p].ip, slot |-> my[p].slot, pid |-> p]
  <2>1. registry' = [registry EXCEPT ![Mine(p)] = r] /\ UNCHANGED <<job, my, worker, clone>> /\ pc[p] = "put"
    BY <1>27 DEF Put
  <2>2. /\ \A n \in Names \ {Mine(p)} : registry'[n] = registry[n]
        /\ registry'[Mine(p)] = r /\ Mine(p) \in Names
    BY <1>t, <2>1, JobType DEF TypeOK
  <2>3. pc'[p] \in {"wait", "keep", "done"} /\ \A q \in Procs \ {p} : pc'[q] = pc[q]
    BY <1>27, <1>t DEF Put, Leave, TypeOK
  <2>4. r.slot # None => Wired(Mine(p), my[p].slot, my[p].ip)
    BY <1>t, <2>1 DEF LocalInv, NetInv, Launching
  <2>5. QED
    BY <2>1, <2>2, <2>4 DEF CloneReachable, LiveClone, Reachable, Recorded, ForcedOut, Wired
<1>28. ASSUME NEW p \in Procs, Waited(p) PROVE CloneReachable'
  BY <1>28, <1>t, JobType DEF Waited, Leave, TypeOK, OwnerInv, CloneReachable, LiveClone,
     Reachable, Recorded, ForcedOut
<1>29. ASSUME NEW p \in Procs, WorkerEnds(p) PROVE CloneReachable'
  BY <1>29, <1>t, JobType DEF WorkerEnds, Alive, TypeOK, OwnerInv, CloneReachable, LiveClone,
     Reachable, Recorded, ForcedOut
<1>30. ASSUME NEW p \in Procs, BeginStop(p) PROVE CloneReachable'
  BY <1>30, <1>t, JobType, SMTT(30) DEF BeginStop, Leave, TypeOK, OwnerInv, CloneReachable,
     LiveClone, Reachable, Recorded, ForcedOut
<1>31. ASSUME NEW p \in Procs, PutStopped(p) PROVE CloneReachable'
  BY <1>31, <1>t, JobType DEF PutStopped, Leave, TypeOK, OwnerInv, CloneReachable, LiveClone,
     Reachable, Recorded, ForcedOut
<1>32. ASSUME NEW p \in Procs, BeginRm(p) PROVE CloneReachable'
  BY <1>32, <1>t, JobType DEF BeginRm, TypeOK, OwnerInv, CloneReachable, LiveClone, Reachable,
     Recorded, ForcedOut
<1>33. ASSUME NEW p \in Procs, Delete(p) PROVE CloneReachable'
  BY <1>33, <1>t, JobType DEF Delete, Leave, TypeOK, OwnerInv, CloneReachable, LiveClone,
     Reachable, Recorded, ForcedOut
<1>34. ASSUME NEW p \in Procs, Gc(p) PROVE CloneReachable'
  BY <1>34, <1>t, JobType DEF Gc, Asked, TypeOK, OwnerInv, CloneReachable, LiveClone,
     Reachable, Recorded, ForcedOut
<1>35. ASSUME NEW p \in Procs, RemoveFile(p) PROVE CloneReachable'
  BY <1>35, <1>t, JobType DEF RemoveFile, Asked, TypeOK, OwnerInv, CloneReachable, LiveClone,
     Reachable, Recorded, ForcedOut
<1>36. ASSUME NEW p \in Procs, Removed(p) PROVE CloneReachable'
  BY <1>36, <1>t, JobType DEF Removed, Leave, Asked, TypeOK, OwnerInv, CloneReachable,
     LiveClone, Reachable, Recorded, ForcedOut
<1>40. ASSUME NEW p \in Procs, Masquerade(p) PROVE CloneReachable'
  <2>1. UNCHANGED <<registry, worker, job, netns, veth, route, crossed>>
    BY <1>40 DEF Masquerade
  <2>2. \A s \in Slots : masq[s] > 0 => masq'[s] > 0
    <3>1. /\ masq \in [Slots -> Nat] /\ masq' = [masq EXCEPT ![my[p].slot] = @ + 1]
      BY <1>40, <1>t DEF Masquerade, TypeOK
    <3>2. QED
      BY <3>1
  <2>3. \A n \in Recorded : LiveClone(n) => registry[n].slot \in Slots
    BY <1>t, RecordType DEF LiveClone, Recorded
  <2>4. QED
    BY <2>1, <2>2, <2>3 DEF CloneReachable, LiveClone, Reachable, Recorded, ForcedOut
<1>41. ASSUME NEW p \in Procs, DropMasq(p) PROVE CloneReachable'
  <2>1. UNCHANGED <<registry, worker, job, crossed>> /\ pc[p] \in Tearing
    BY <1>41 DEF DropMasq, Tearing
  <2>2. Plan(p).slot \in Slots /\ Plan(p).ip \in Ips /\ Mine(p) \in Names
    BY <1>t, <2>1, PlanType
  <2>3. ASSUME NEW n \in Recorded, LiveClone(n), registry[n].pid \notin crossed, Reachable(n)
        PROVE  Reachable(n)'
    <3>1. n # Mine(p) /\ registry[n].slot # Plan(p).slot /\ registry[n].ip # Plan(p).ip
          /\ registry[n].slot \in Slots /\ registry[n].ip \in Ips
      BY <1>t, <2>1, <2>3, TearApart
    <3>2. QED
      BY <1>41, <1>t, <2>1, <2>2, <2>3, <3>1 DEF DropMasq, Reachable, Recorded, TypeOK
  <2>4. QED
    BY <2>1, <2>3 DEF CloneReachable, LiveClone, Recorded, ForcedOut
<1>42. ASSUME NEW p \in Procs, DropRoute(p) PROVE CloneReachable'
  <2>1. UNCHANGED <<registry, worker, job, crossed>> /\ pc[p] \in Tearing
    BY <1>42 DEF DropRoute, Tearing
  <2>2. Plan(p).slot \in Slots /\ Plan(p).ip \in Ips /\ Mine(p) \in Names
    BY <1>t, <2>1, PlanType
  <2>3. ASSUME NEW n \in Recorded, LiveClone(n), registry[n].pid \notin crossed, Reachable(n)
        PROVE  Reachable(n)'
    <3>1. n # Mine(p) /\ registry[n].slot # Plan(p).slot /\ registry[n].ip # Plan(p).ip
          /\ registry[n].slot \in Slots /\ registry[n].ip \in Ips
      BY <1>t, <2>1, <2>3, TearApart
    <3>2. QED
      BY <1>42, <1>t, <2>1, <2>2, <2>3, <3>1 DEF DropRoute, Reachable, Recorded, TypeOK
  <2>4. QED
    BY <2>1, <2>3 DEF CloneReachable, LiveClone, Recorded, ForcedOut
<1>43. ASSUME NEW p \in Procs, DropVeth(p) PROVE CloneReachable'
  <2>1. UNCHANGED <<registry, worker, job, crossed>> /\ pc[p] \in Tearing
    BY <1>43 DEF DropVeth, Tearing
  <2>2. Plan(p).slot \in Slots /\ Plan(p).ip \in Ips /\ Mine(p) \in Names
    BY <1>t, <2>1, PlanType
  <2>3. ASSUME NEW n \in Recorded, LiveClone(n), registry[n].pid \notin crossed, Reachable(n)
        PROVE  Reachable(n)'
    <3>1. n # Mine(p) /\ registry[n].slot # Plan(p).slot /\ registry[n].ip # Plan(p).ip
          /\ registry[n].slot \in Slots /\ registry[n].ip \in Ips
      BY <1>t, <2>1, <2>3, TearApart
    <3>2. QED
      BY <1>43, <1>t, <2>1, <2>2, <2>3, <3>1 DEF DropVeth, LinksGone, Reachable, Recorded, TypeOK
  <2>4. QED
    BY <2>1, <2>3 DEF CloneReachable, LiveClone, Recorded, ForcedOut
<1>44. ASSUME NEW p \in Procs, DropNetns(p) PROVE CloneReachable'
  <2>1. UNCHANGED <<registry, worker, job, crossed>> /\ pc[p] \in Tearing
    BY <1>44 DEF DropNetns, Tearing
  <2>2. Plan(p).slot \in Slots /\ Plan(p).ip \in Ips /\ Mine(p) \in Names
    BY <1>t, <2>1, PlanType
  <2>3. ASSUME NEW n \in Recorded, LiveClone(n), registry[n].pid \notin crossed, Reachable(n)
        PROVE  Reachable(n)'
    <3>1. n # Mine(p) /\ registry[n].slot # Plan(p).slot /\ registry[n].ip # Plan(p).ip
          /\ registry[n].slot \in Slots /\ registry[n].ip \in Ips
      BY <1>t, <2>1, <2>3, TearApart
    <3>2. QED
      BY <1>44, <1>t, <2>1, <2>2, <2>3, <3>1 DEF DropNetns, LinksGone, Reachable, Recorded, TypeOK
  <2>4. QED
    BY <2>1, <2>3 DEF CloneReachable, LiveClone, Recorded, ForcedOut
<1>37. CASE UNCHANGED vars
  BY <1>37 DEF vars, TypeOK, OwnerInv, CloneReachable, LiveClone, Reachable, Recorded, ForcedOut
<1>38. QED
  BY <1>1, <1>2, <1>3, <1>4, <1>5, <1>6, <1>7, <1>8, <1>9, <1>10, <1>11, <1>12, <1>13, <1>14,
     <1>15, <1>16, <1>17, <1>18, <1>19, <1>20, <1>21, <1>22, <1>23, <1>24, <1>25, <1>26,
     <1>27, <1>28, <1>29, <1>30, <1>31, <1>32, <1>33, <1>34, <1>35, <1>36, <1>40,
     <1>41, <1>42, <1>43, <1>44, <1>37 DEF Next

(* The host as it is found: one machine, run and left by First. *)
LEMMA InitTyped == Init => TypedInv
<1> SUFFICES ASSUME Init PROVE TypedInv
  OBVIOUS
<1> USE HostAssumption
<1>1. /\ Gateway + 1 \in Ips /\ 1 \in Ids /\ 0 \in 0..MaxSnap /\ Ids \subseteq Nat
  BY DEF Gateway, Ips, Ids
<1>2. registry \in [Names -> Record \union {None}]
  BY <1>1 DEF Init, Record
<1>3. job \in [Procs -> Jobs]
  BY <1>1 DEF Init, Jobs, Ops
<1>4. Nothing \in Locals /\ [Nothing EXCEPT !.ip = Gateway + 1, !.fresh = TRUE] \in Locals
  BY <1>1 DEF Nothing, Locals
<1>5. my \in [Procs -> Locals]
  BY <1>4 DEF Init
<1>6. jail \in [Names -> Jail \union {None}]
  BY DEF Init, Jail, NoRestore, Source
<1>7. scratch \in [Images -> [tree : Wholeness, img : Wholeness]] /\ base \in [Images -> Wholeness]
  BY DEF Init, NoScratch, Wholeness
<1>8. /\ store \in Procs \union {None} /\ pc \in [Procs -> Pcs]
      /\ worker \in [Procs -> {"none", "alive", "term", "dead"}]
  BY DEF Init, Pcs
<1>9. /\ tap \in [Names -> Procs \union {None, "idle"}]
      /\ netns \in [Names -> {"none", "bare", "tap", "nat"}]
      /\ veth \in [Slots -> Names \union {None}] /\ masq \in [Slots -> Nat]
      /\ route \in [Ips -> Slots \union {None}] /\ crossed \subseteq Procs
  BY DEF Init
<1>10. snaps \in [Names -> [Ids -> SUBSET Files]] /\ made \in [Names -> 0..MaxSnap]
  BY <1>1 DEF Init
<1>11. TypeOK
  BY <1>2, <1>3, <1>5, <1>6, <1>7, <1>8, <1>9, <1>10 DEF TypeOK
<1>12. \A p \in Procs : pc[p] \in {"idle", "done"} /\ Op(p) = "run" /\ my[p].slot = None
  BY DEF Init, Op, Nothing
<1>13. LockInv /\ WhereInv /\ LocalInv
  BY <1>12 DEF LockInv, WhereInv, LocalInv, Locked, Building, Wiring, Tearing, Launching, Files
<1>14. QED
  BY <1>11, <1>13 DEF TypedInv

LEMMA InitRest == Init => /\ BuildInv /\ CachedImagesWhole /\ AddressInv /\ BridgeAddressesDistinct
                          /\ FreshInv /\ OwnerInv /\ SlotInv /\ NetInv /\ CloneReachable
<1> SUFFICES ASSUME Init
             PROVE  /\ BuildInv /\ CachedImagesWhole /\ AddressInv /\ BridgeAddressesDistinct
                    /\ FreshInv /\ OwnerInv /\ SlotInv /\ NetInv /\ CloneReachable
  OBVIOUS
<1> USE HostAssumption
<1>1. \A p \in Procs : pc[p] = (IF p = First THEN "done" ELSE "idle") /\ Op(p) = "run" /\ Mine(p) = Seed
                       /\ job[p].img = SeedImage
  BY DEF Init, Op, Mine
<1>2. \A p \in Procs : my[p].fresh <=> p = First
  BY DEF Init, Nothing
<1>3. \A n \in Names : registry[n] # None => n = Seed /\ registry[n].slot = None /\ registry[n].pid = First
  BY DEF Init
<1>4. BuildInv /\ CachedImagesWhole /\ AddressInv /\ BridgeAddressesDistinct
  BY <1>1, <1>3 DEF Init, BuildInv, CachedImagesWhole, AddressInv, BridgeAddressesDistinct,
     Recorded, Launching
<1>5. jail[Seed].rootfs = SeedImage /\ jail[Seed] # None
  <2>1. jail[Seed] = [rootfs |-> SeedImage, restore |-> NoRestore, control |-> First]
    BY DEF Init
  <2>2. jail[Seed] \in Jail
    BY <2>1 DEF Jail, NoRestore
  <2>3. QED
    BY <2>1, <2>2
<1>6. \A p \in Procs : worker[p] # "none" => p = First
  BY DEF Init
<1>7. FreshInv
  BY <1>1, <1>2, <1>5, <1>6 DEF FreshInv, Spawned
<1>8. OwnerInv /\ SlotInv /\ NetInv /\ CloneReachable
  BY <1>1, <1>3 DEF OwnerInv, Spawned, SlotInv, Branching, IsClone, Sole, NetInv,
     CloneReachable, LiveClone, Recorded
<1>9. QED
  BY <1>4, <1>7, <1>8

(* The inductive invariant of the host: who has the registry open, what each *)
(* command holds while it does, and what that makes true of images, bridge   *)
(* addresses and jails.                                                      *)
THEOREM HostInvariant == Spec => []IInv
<1>1. Init => IInv
  BY InitTyped, InitRest DEF IInv
<1>2. IInv /\ [Next]_vars => IInv'
  BY TypedStep, BuildStep, AddressStep, FreshStep DEF IInv
<1>3. QED
  BY <1>1, <1>2, PTL DEF Spec

(* Every variable of the host keeps its type. *)
THEOREM HostTyped == Spec => []TypeOK
<1>1. IInv => TypeOK
  BY DEF IInv, TypedInv
<1>2. QED
  BY <1>1, HostInvariant, PTL

(* build_base_rootfs: however many invocations are killed wherever, an image *)
(* in the cache was packed from a whole tree.                                *)
THEOREM CachedImages == Spec => []CachedImagesWhole
<1>1. IInv => CachedImagesWhole
  BY DEF IInv
<1>2. QED
  BY <1>1, HostInvariant, PTL

(* run and restore: no two machines on the bridge share an address.          *)
THEOREM BridgeAddresses == Spec => []BridgeAddressesDistinct
<1>1. IInv => BridgeAddressesDistinct
  BY DEF IInv
<1>2. QED
  BY <1>1, HostInvariant, PTL

(* launch and restore_launch: a worker in a jail nobody had used runs what   *)
(* it was asked to run, all of it from one snapshot.                         *)
THEOREM FreshJails == Spec => []FreshJailIsAsked
<1>1. IInv => FreshJailIsAsked
  BY DEF IInv, FreshInv, FreshJailIsAsked, Alive, Wanted
<1>2. QED
  BY <1>1, HostInvariant, PTL

(* branch: a clone that runs can be reached, however many branches, crossed  *)
(* ones included, runs, removals and failed wirings there are beside it and  *)
(* wherever they are killed, unless its own branch had another in its gap:   *)
(* those two choose the same slot.                                           *)
THEOREM ClonesReachable == Spec => []CloneReachable
<1> DEFINE Inv == IInv /\ OwnerInv /\ SlotInv /\ NetInv /\ CloneReachable
<1>1. Init => Inv
  BY InitTyped, InitRest DEF IInv
<1>2. Inv /\ [Next]_vars => Inv'
  BY TypedStep, BuildStep, AddressStep, FreshStep, OwnerStep, SlotStep, NetStep, ReachStep DEF IInv
<1>3. Inv => CloneReachable
  OBVIOUS
<1> HIDE DEF Inv
<1>4. QED
  BY <1>1, <1>2, <1>3, PTL DEF Spec
===============================================================================
