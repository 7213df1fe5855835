-------------------------------- MODULE Worker --------------------------------
(***************************************************************************)
(* The jailed worker process of one machine (mm-host, worker.rs): the      *)
(* reaper, which is the main thread; the control thread, which serves      *)
(* snapshot and branch requests one connection at a time; the mutex around *)
(* the Machine that they share; the vCPU threads; and the clients of the   *)
(* control socket, the CLI or the agent (control.rs).                      *)
(*                                                                         *)
(* What an operation does to the guest is in modules Checkpoint and        *)
(* LiveBranch; here it is one barrier or two, which fail when a vCPU       *)
(* thread has ended, and a directory that is complete once the manifest   *)
(* is in it.                                                               *)
(***************************************************************************)
EXTENDS Naturals, Sequences

CONSTANTS
    Vcpus,          \* the vCPU threads
    Clients,        \* control connections, one request each
    NoClient,       \* the control thread serves nobody
    MayPanic        \* TRUE: an operation may panic under the lock

ASSUME WorkerAssumption == NoClient \notin Clients /\ MayPanic \in BOOLEAN

VARIABLES
    off,            \* the vCPU threads that have ended
    poweredOff,     \* Machine::powered_off
    lock,           \* who holds the mutex around the Machine
    poisoned,       \* its holder panicked
    reaper,         \* the main thread
    control,        \* the control thread
    cur, resp,      \* the client it serves; the answer it has for it
    barriers,       \* barriers left of the operation
    conn,           \* each client's end of its connection
    backlog,        \* connections not accepted yet
    dir,            \* the snapshot directory of each request
    alive           \* the process

guest    == <<off, poweredOff>>
mutex    == <<lock, poisoned>>
serving  == <<control, cur, resp, barriers>>
clients  == <<conn, backlog>>
vars     == <<guest, mutex, reaper, serving, clients, dir, alive>>

ReaperPcs  == {"poll", "off", "join"}
Holding    == {"dir", "run", "parked", "meta", "unlock"}
ControlPcs == Holding \union {"accept", "read", "lock", "reply", "dead"}
Answers    == {"ok", "err"}
ConnStates == {"idle", "connected", "sent", "eof", "gone"} \union Answers

TypeOK ==
    /\ off \subseteq Vcpus /\ poweredOff \in BOOLEAN
    /\ lock \in {"free", "reaper", "control"} /\ poisoned \in BOOLEAN
    /\ reaper \in ReaperPcs /\ control \in ControlPcs
    /\ cur \in Clients \union {NoClient} /\ resp \in Answers /\ barriers \in 0..2
    /\ conn \in [Clients -> ConnStates] /\ backlog \in Seq(Clients)
    /\ dir \in [Clients -> {"none", "partial", "complete"}]
    /\ alive \in BOOLEAN

Init ==
    /\ off = {} /\ poweredOff = FALSE
    /\ lock = "free" /\ poisoned = FALSE
    /\ reaper = "poll" /\ control = "accept"
    /\ cur = NoClient /\ resp = "err" /\ barriers = 0
    /\ conn = [c \in Clients |-> "idle"] /\ backlog = <<>>
    /\ dir = [c \in Clients |-> "none"]
    /\ alive = TRUE

(* The process ends: the kernel closes every connection, and whoever still   *)
(* waits reads the end of the stream.                                        *)
ProcessEnds ==
    /\ alive' = FALSE
    /\ conn' = [c \in Clients |->
                   IF conn[c] \in {"connected", "sent"} THEN "eof" ELSE conn[c]]

-------------------------------------------------------------------------------
(* The guest: a vCPU thread ends, on a shutdown of the guest or an error.    *)
(* Parked vCPUs do not run.                                                  *)
VcpuEnds(v) ==
    /\ alive /\ control # "parked" /\ v \notin off
    /\ off' = off \union {v} /\ poweredOff' = TRUE
    /\ UNCHANGED <<mutex, reaper, serving, clients, dir, alive>>

(* mm stop, or the host: the process is killed. *)
Killed ==
    /\ alive /\ ProcessEnds
    /\ UNCHANGED <<guest, mutex, reaper, serving, backlog, dir>>

-------------------------------------------------------------------------------
(* A client: control::request. *)

Connect(c) ==
    /\ conn[c] = "idle"
    /\ IF alive /\ control # "dead"
       THEN conn' = [conn EXCEPT ![c] = "connected"] /\ backlog' = Append(backlog, c)
       ELSE conn' = [conn EXCEPT ![c] = "eof"] /\ UNCHANGED backlog
    /\ UNCHANGED <<guest, mutex, reaper, serving, dir, alive>>

Send(c) ==
    /\ conn[c] = "connected"
    /\ conn' = [conn EXCEPT ![c] = "sent"]
    /\ UNCHANGED <<guest, mutex, reaper, serving, backlog, dir, alive>>

(* Its read timed out, or the client itself ended. *)
GivesUp(c) ==
    /\ conn[c] \in {"connected", "sent"}
    /\ conn' = [conn EXCEPT ![c] = "gone"]
    /\ UNCHANGED <<guest, mutex, reaper, serving, backlog, dir, alive>>

-------------------------------------------------------------------------------
(* The control thread: serve_control. *)

Control(from, to) == alive /\ control = from /\ control' = to

Accept ==
    /\ Control("accept", "read") /\ backlog # <<>>
    /\ cur' = Head(backlog) /\ backlog' = Tail(backlog)
    /\ UNCHANGED <<guest, mutex, reaper, resp, barriers, conn, dir, alive>>

(* The request line: SNAPSHOT (one barrier) or BRANCH (two). *)
ReadLine ==
    /\ Control("read", "lock") /\ conn[cur] = "sent"
    /\ barriers' \in 1..2
    /\ UNCHANGED <<guest, mutex, reaper, cur, resp, clients, dir, alive>>

(* The client went: whatever it had sent by then, a request or nothing. *)
ReadGone ==
    /\ alive /\ control = "read" /\ conn[cur] = "gone"
    /\ \/ control' = "lock" /\ barriers' \in 1..2 /\ UNCHANGED resp
       \/ control' = "reply" /\ resp' = "err" /\ UNCHANGED barriers
    /\ UNCHANGED <<guest, mutex, reaper, cur, clients, dir, alive>>

Lock ==
    /\ Control("lock", "dir") /\ lock = "free"
    /\ lock' = "control"
    /\ UNCHANGED <<guest, poisoned, reaper, cur, resp, barriers, clients, dir, alive>>

(* Any step of the operation fails: its error is the answer. *)
OperationFails ==
    /\ alive /\ control \in {"dir", "run", "parked", "meta"}
    /\ control' = "unlock" /\ resp' = "err"
    /\ UNCHANGED <<guest, mutex, reaper, cur, barriers, clients, dir, alive>>

NewSnapshotDir ==
    /\ Control("dir", "run")
    /\ dir' = [dir EXCEPT ![cur] = "partial"]
    /\ UNCHANGED <<guest, mutex, reaper, cur, resp, barriers, clients, alive>>

(* quiesce_at_barrier succeeds only with every vCPU thread there. *)
Quiesce ==
    /\ Control("run", "parked") /\ off = {}
    /\ barriers' = barriers - 1
    /\ UNCHANGED <<guest, mutex, reaper, cur, resp, clients, dir, alive>>

\* Variant: one barrier too many.
ReleaseOnceMore ==
    /\ alive /\ control = "parked" /\ control' = "run"
    /\ UNCHANGED <<guest, mutex, reaper, cur, resp, barriers, clients, dir, alive>>

Release ==
    /\ alive /\ control = "parked"
    /\ control' = IF barriers = 0 THEN "meta" ELSE "run"
    /\ UNCHANGED <<guest, mutex, reaper, cur, resp, barriers, clients, dir, alive>>

\* Variant: the operation reports success before the manifest is written.
WriteMetadataLater ==
    /\ Control("meta", "unlock") /\ resp' = "ok"
    /\ UNCHANGED <<guest, mutex, reaper, cur, barriers, clients, dir, alive>>

WriteMetadata ==
    /\ Control("meta", "unlock") /\ resp' = "ok"
    /\ dir' = [dir EXCEPT ![cur] = "complete"]
    /\ UNCHANGED <<guest, mutex, reaper, cur, barriers, clients, alive>>

(* The guard is dropped before the answer is written. *)
Unlock ==
    /\ Control("unlock", "reply")
    /\ lock' = "free"
    /\ UNCHANGED <<guest, poisoned, reaper, cur, resp, barriers, clients, dir, alive>>

(* write_all, its error ignored. *)
Reply ==
    /\ Control("reply", "accept")
    /\ conn' = IF conn[cur] = "sent" THEN [conn EXCEPT ![cur] = resp] ELSE conn
    /\ cur' = NoClient
    /\ UNCHANGED <<guest, mutex, reaper, resp, barriers, backlog, dir, alive>>

(* A panic under the lock unwinds the thread and poisons the mutex; the      *)
(* connection in hand and the listener are closed.                           *)
Panic ==
    /\ MayPanic /\ alive /\ control \in Holding
    /\ control' = "dead" /\ lock' = "free" /\ poisoned' = TRUE
    /\ conn' = [c \in Clients |->
                   IF conn[c] \in {"connected", "sent"} THEN "eof" ELSE conn[c]]
    /\ backlog' = <<>>
    /\ UNCHANGED <<guest, reaper, cur, resp, barriers, dir, alive>>

ControlStep ==
    \/ Accept \/ ReadLine \/ ReadGone \/ Lock \/ NewSnapshotDir
    \/ OperationFails \/ Quiesce \/ Release \/ WriteMetadata \/ Unlock \/ Reply

-------------------------------------------------------------------------------
(* The reaper. *)

(* It polls powered_off under the lock, every 100 ms; a poisoned lock reads   *)
(* as powered off.                                                           *)
ReaperSeesOff ==
    /\ alive /\ reaper = "poll" /\ lock = "free"
    /\ poweredOff \/ poisoned
    /\ reaper' = "off"
    /\ UNCHANGED <<guest, mutex, serving, clients, dir, alive>>

\* Variant: the joins do not wait for the lock.
ReaperLockTaken ==
    /\ alive /\ reaper = "off" /\ ~poisoned
    /\ reaper' = "join"
    /\ UNCHANGED <<guest, mutex, serving, clients, dir, alive>>

(* wait_for_vcpus joins every vCPU thread with the lock held. *)
ReaperLock ==
    /\ alive /\ reaper = "off" /\ lock = "free" /\ ~poisoned
    /\ reaper' = "join" /\ lock' = "reaper"
    /\ UNCHANGED <<guest, poisoned, serving, clients, dir, alive>>

\* Variant: the control thread is joined as well.
ReaperJoinsControl ==
    /\ alive /\ reaper = "join" /\ off = Vcpus /\ control = "dead"
    /\ ProcessEnds
    /\ UNCHANGED <<guest, mutex, reaper, serving, backlog, dir>>

ReaperJoined ==
    /\ alive /\ reaper = "join" /\ off = Vcpus
    /\ ProcessEnds
    /\ UNCHANGED <<guest, mutex, reaper, serving, backlog, dir>>

(* expect("machine lock") on a poisoned mutex: the main thread panics. *)
ReaperPanics ==
    /\ alive /\ reaper = "off" /\ lock = "free" /\ poisoned
    /\ ProcessEnds
    /\ UNCHANGED <<guest, mutex, reaper, serving, backlog, dir>>

ReaperStep == ReaperSeesOff \/ ReaperLock \/ ReaperJoined \/ ReaperPanics

Next ==
    \/ (\E v \in Vcpus : VcpuEnds(v)) \/ Killed
    \/ \E c \in Clients : Connect(c) \/ Send(c) \/ GivesUp(c)
    \/ ControlStep \/ Panic \/ ReaperStep

Spec == Init /\ [][Next]_vars

(* The two threads run.  A client that connected sends its line or is gone   *)
(* (control.rs:21-24); nothing makes a vCPU end.                             *)
FairSpec ==
    /\ Spec /\ WF_vars(ControlStep) /\ WF_vars(ReaperStep)
    /\ \A c \in Clients : WF_vars(Send(c))

-------------------------------------------------------------------------------
(* worker.rs:255-300: a client told OK finds its snapshot complete, and one  *)
(* told ERR does not, whatever the guest and the other clients do.           *)
ToldTheTruth ==
    \A c \in Clients :
        /\ conn[c] = "ok" => dir[c] = "complete"
        /\ conn[c] = "err" => dir[c] # "complete"

(* worker.rs:231-235: a guest that powers off never cuts a snapshot or       *)
(* branch in flight short; the process ends after it.                        *)
NoSnapshotCut == reaper = "join" => control \notin Holding

(* wait_for_vcpus waits, with the lock held, for vCPU threads that nothing   *)
(* stops: powered_off was set by the first of them to end.                   *)
HeldUp == reaper = "join" /\ off # Vcpus

(* worker.rs:231-254: the two threads that share the machine lock never keep *)
(* each other from their work for good, unless the reaper is held up by the  *)
(* vCPUs that still run: a request that was sent is answered or ended; the   *)
(* end of a vCPU gets the reaper past every operation in flight; and the end *)
(* of the last one ends the process.                                         *)
Served ==
    /\ \A c \in Clients : conn[c] = "sent" ~> conn[c] # "sent" \/ HeldUp
    /\ poweredOff ~> ~alive \/ HeldUp
    /\ off = Vcpus ~> ~alive

(* machine.rs:565-567: power-off is signalled however the run loop of a vCPU *)
(* ended, "so a holder of a shared Machine stops waiting on a dead guest":   *)
(* the end of a vCPU ends the worker process.                                *)
Reaped == poweredOff ~> ~alive
===============================================================================
