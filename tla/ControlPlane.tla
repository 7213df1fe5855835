----------------------------- MODULE ControlPlane -----------------------------
(***************************************************************************)
(* The cluster: the controller's store (PostgreSQL rows of machines and    *)
(* hosts), its reconcile loop and agent registry, the agents' sessions,    *)
(* their assignment handling, their redb records, and the workers they     *)
(* boot.  A worker outlives its agent; an agent outlives its session; the  *)
(* store outlives the controller.                                          *)
(*                                                                         *)
(* A machine takes one slot of a host's capacity.  Faults names the kinds  *)
(* of failure an instance allows, MaxFaults how many of them happen.       *)
(***************************************************************************)
EXTENDS Naturals, Sequences, FiniteSets

CONSTANTS
    Machines,           \* uids: each is created at most once
    Hosts, NoHost,
    Room,               \* slots of each host
    MaxRetries,         \* loop.rs:22
    ChanCap,            \* capacity of an assignment stream (grpc.rs:40)
    NoTask,             \* an agent or the loop has nothing in hand
    Faults,             \* which failures may happen
    MaxFaults,          \* bound: failures in a behaviour
    MaxEdits            \* bound: user edits of existing machines

FaultKinds == {"controller", "store", "session", "lost", "heartbeat", "boot",
               "disk", "agent", "worker", "host"}

Assignments == [m : Machines, run : BOOLEAN]
Tasks       == [m : Machines, run : BOOLEAN,
                at : {"handle", "booted", "killed", "running", "failed",
                      "stopped", "capacity"}]

ASSUME ClusterAssumption ==
    /\ IsFiniteSet(Machines) /\ NoHost \notin Hosts
    /\ Room \in [Hosts -> Nat] /\ NoTask \notin Tasks

ASSUME ClusterBoundAssumption ==
    /\ MaxRetries \in Nat /\ ChanCap \in Nat \ {0}
    /\ Faults \subseteq FaultKinds /\ MaxFaults \in Nat /\ MaxEdits \in Nat

VARIABLES
    row, want,          \* machines.spec: is there a row; spec.running
    state, retries,     \* machines.status
    host,               \* machines.host_id
    cap, live,          \* hosts: advertised free slots; heartbeat recent
    tick, pass, seen,   \* the loop: where it is, rows not considered yet, hosts
    push,               \* the assignment it is about to send
    sess, beating,      \* agent sessions; their heartbeat task
    chan,               \* the open assignment stream of each host
    busy,               \* the assignment an agent is handling, and how far
    local,              \* LocalStore: the agent's record of each machine
    workers,            \* worker processes alive on each host
    orphans,            \* history: those whose agent failed before recording them
    faults, edits

spec   == <<row, want>>
status == <<state, retries, host>>
table  == <<cap, live>>
loop   == <<tick, pass, seen, push>>
link   == <<sess, beating, chan>>
agent  == <<busy, local, workers, orphans>>
bounds == <<faults, edits>>
vars   == <<spec, status, table, loop, link, agent, bounds>>

States      == {"created", "running", "failed", "stopped"}
Records     == [m : Machines, want : BOOLEAN, state : States,
                retries : 0..MaxRetries, host : Hosts \union {NoHost}]

TypeOK ==
    /\ row \in [Machines -> {"unborn", "there", "deleted"}]
    /\ want \in [Machines -> BOOLEAN]
    /\ state \in [Machines -> States] /\ retries \in [Machines -> 0..MaxRetries]
    /\ host \in [Machines -> Hosts \union {NoHost}]
    /\ cap \in [Hosts -> Nat] /\ live \in [Hosts -> BOOLEAN]
    /\ tick \in {"idle", "hosts", "each", "push"}
    /\ pass \subseteq Records /\ seen \in [Hosts -> Nat]
    /\ push \in [m : Machines, run : BOOLEAN, to : Hosts] \union {NoTask}
    /\ sess \in [Hosts -> {"down", "registered", "up", "gone"}]
    /\ beating \in [Hosts -> BOOLEAN]
    /\ chan \in [Hosts -> Seq(Assignments)]
    /\ busy \in [Hosts -> Tasks \union {NoTask}]
    /\ local \in [Hosts -> [Machines -> {"none", "running", "stopped"}]]
    /\ workers \in [Hosts -> SUBSET Machines]
    /\ orphans \in [Hosts -> SUBSET Machines]
    /\ faults \in 0..MaxFaults /\ edits \in 0..MaxEdits

Init ==
    /\ row = [m \in Machines |-> "unborn"] /\ want = [m \in Machines |-> FALSE]
    /\ state = [m \in Machines |-> "created"] /\ retries = [m \in Machines |-> 0]
    /\ host = [m \in Machines |-> NoHost]
    /\ cap = [h \in Hosts |-> 0] /\ live = [h \in Hosts |-> FALSE]
    /\ tick = "idle" /\ pass = {} /\ seen = [h \in Hosts |-> 0] /\ push = NoTask
    /\ sess = [h \in Hosts |-> "down"] /\ beating = [h \in Hosts |-> FALSE]
    /\ chan = [h \in Hosts |-> <<>>] /\ busy = [h \in Hosts |-> NoTask]
    /\ local = [h \in Hosts |-> [m \in Machines |-> "none"]]
    /\ workers = [h \in Hosts |-> {}] /\ orphans = [h \in Hosts |-> {}]
    /\ faults = 0 /\ edits = 0

Fault(kind) ==
    /\ kind \in Faults /\ faults < MaxFaults
    /\ faults' = faults + 1 /\ UNCHANGED edits

-------------------------------------------------------------------------------
(* REST (api/machines.rs): authorised requests that reach the store. *)

CreateMachine(m, run) ==
    /\ row[m] = "unborn"
    /\ row' = [row EXCEPT ![m] = "there"] /\ want' = [want EXCEPT ![m] = run]
    /\ UNCHANGED <<status, table, loop, link, agent, bounds>>

SetRunning(m) ==
    /\ row[m] = "there" /\ edits < MaxEdits
    /\ want' = [want EXCEPT ![m] = ~want[m]] /\ edits' = edits + 1
    /\ UNCHANGED <<row, status, table, loop, link, agent, faults>>

(* The row goes; nothing else is told. *)
DeleteMachine(m) ==
    /\ row[m] = "there" /\ edits < MaxEdits
    /\ row' = [row EXCEPT ![m] = "deleted"] /\ edits' = edits + 1
    /\ UNCHANGED <<want, status, table, loop, link, agent, faults>>

User == \E m \in Machines :
            (\E run \in BOOLEAN : CreateMachine(m, run)) \/ SetRunning(m) \/ DeleteMachine(m)

-------------------------------------------------------------------------------
(* The reconcile loop (loop.rs).  The rows and the capacities are read once *)
(* per pass; everything after works on those copies.                        *)

LoadMachines ==
    /\ tick = "idle" /\ tick' = "hosts"
    /\ pass' = {[m |-> m, want |-> want[m], state |-> state[m],
                 retries |-> retries[m], host |-> host[m]] :
                   m \in {x \in Machines : row[x] = "there"}}
    /\ UNCHANGED <<spec, status, table, seen, push, link, agent, bounds>>

LoadHosts ==
    /\ tick = "hosts" /\ tick' = "each"
    /\ seen' = [h \in Hosts |-> IF live[h] THEN cap[h] ELSE 0]
    /\ UNCHANGED <<spec, status, table, pass, push, link, agent, bounds>>

\* Variant: the budget compared with <=.
DecideOneMore(r) ==
    CASE r.want /\ r.state = "running" -> "none"
      [] r.want /\ r.state = "failed" ->
             IF r.retries <= MaxRetries THEN "retry" ELSE "none"
      [] r.want /\ (r.host = NoHost \/ r.state \in {"stopped", "created"}) -> "start"
      [] ~r.want /\ r.state = "running" -> "stop"
      [] OTHER -> "none"

(* reconcile::decide.  No agent ever reports one of the in-flight states,    *)
(* and a deleted spec has no row.                                            *)
Decide(r) ==
    CASE r.want /\ r.state = "running" -> "none"
      [] r.want /\ r.state = "failed" ->
             IF r.retries < MaxRetries THEN "retry" ELSE "none"
      [] r.want /\ (r.host = NoHost \/ r.state \in {"stopped", "created"}) -> "start"
      [] ~r.want /\ r.state = "running" -> "stop"
      [] OTHER -> "none"

(* The host kept, or scheduler::place: room, then most free (ties: any, the  *)
(* rows come in no order).                                                   *)
Placements(r) ==
    IF r.host # NoHost THEN {r.host}
    ELSE {h \in Hosts : seen[h] >= 1 /\ \A g \in Hosts : seen[g] <= seen[h]}

(* increment_retry_count on the row, if it is still there. *)
CountRetry(r) ==
    retries' = IF Decide(r) = "retry" /\ row[r.m] = "there"
               THEN [retries EXCEPT ![r.m] = @ + 1] ELSE retries

Rest(r) ==
    /\ tick = "each" /\ r \in pass
    /\ \/ Decide(r) = "none"
       \/ Decide(r) = "stop" /\ r.host = NoHost
       \/ Decide(r) \in {"start", "retry"} /\ Placements(r) = {}
    /\ CountRetry(r)
    /\ pass' = pass \ {r}
    /\ UNCHANGED <<spec, state, host, table, tick, seen, push, link, agent, bounds>>

\* Variant: the assignment is sent, and the placement saved afterwards.
StartUnsaved(r, h) ==
    /\ tick = "each" /\ r \in pass
    /\ Decide(r) \in {"start", "retry"} /\ h \in Placements(r)
    /\ CountRetry(r)
    /\ push' = [m |-> r.m, run |-> TRUE, to |-> h]
    /\ pass' = pass \ {r} /\ tick' = "push"
    /\ UNCHANGED <<spec, state, host, table, seen, link, agent, bounds>>

(* AssignAndStart or Retry: the placement is saved before the send. *)
Start(r, h) ==
    /\ tick = "each" /\ r \in pass
    /\ Decide(r) \in {"start", "retry"} /\ h \in Placements(r)
    /\ CountRetry(r)
    /\ host' = IF row[r.m] = "there" THEN [host EXCEPT ![r.m] = h] ELSE host
    /\ push' = [m |-> r.m, run |-> TRUE, to |-> h]
    /\ pass' = pass \ {r} /\ tick' = "push"
    /\ UNCHANGED <<spec, state, table, seen, link, agent, bounds>>

Stop(r) ==
    /\ tick = "each" /\ r \in pass
    /\ Decide(r) = "stop" /\ r.host # NoHost
    /\ push' = [m |-> r.m, run |-> FALSE, to |-> r.host]
    /\ pass' = pass \ {r} /\ tick' = "push"
    /\ UNCHANGED <<spec, status, table, seen, link, agent, bounds>>

(* AgentRegistry::send: into the stream, waiting while it is full ... *)
PushQueued ==
    /\ tick = "push" /\ sess[push.to] = "up" /\ Len(chan[push.to]) < ChanCap
    /\ chan' = [chan EXCEPT ![push.to] = Append(@, [m |-> push.m, run |-> push.run])]
    /\ push' = NoTask /\ tick' = "each"
    /\ UNCHANGED <<spec, status, table, pass, seen, sess, beating, agent, bounds>>

(* ... or nowhere, when no stream is open.  The loop goes on either way. *)
PushDropped ==
    /\ tick = "push" /\ sess[push.to] # "up"
    /\ push' = NoTask /\ tick' = "each"
    /\ UNCHANGED <<spec, status, table, pass, seen, link, agent, bounds>>

EndPass ==
    /\ tick = "each" /\ pass = {} /\ tick' = "idle"
    /\ UNCHANGED <<spec, status, table, pass, seen, push, link, agent, bounds>>

LoopStep ==
    \/ LoadMachines \/ LoadHosts \/ PushQueued \/ PushDropped \/ EndPass
    \/ \E r \in pass : Rest(r) \/ Stop(r) \/ \E h \in Hosts : Start(r, h)

-------------------------------------------------------------------------------
(* Sessions (mm-agent main.rs, serve_once; grpc.rs). *)

Free(h) ==
    LET used == Cardinality({m \in Machines : local[h][m] = "running"})
    IN  IF used >= Room[h] THEN 0 ELSE Room[h] - used

(* report_capacity, as the store sees it. *)
Advertised(h) ==
    cap' = [cap EXCEPT ![h] = Free(h)] /\ live' = [live EXCEPT ![h] = TRUE]

(* connect, report_capacity, spawn the heartbeat. *)
Register(h) ==
    /\ sess[h] = "down" /\ busy[h] = NoTask
    /\ sess' = [sess EXCEPT ![h] = "registered"]
    /\ beating' = [beating EXCEPT ![h] = TRUE]
    /\ Advertised(h)
    /\ UNCHANGED <<spec, status, loop, chan, agent, bounds>>

(* watch_assignments: AgentRegistry::connect replaces any older stream. *)
Watch(h) ==
    /\ sess[h] = "registered"
    /\ sess' = [sess EXCEPT ![h] = "up"]
    /\ UNCHANGED <<spec, status, table, loop, beating, chan, agent, bounds>>

(* No heartbeat for HOST_STALE_SECS. *)
GoStale(h) ==
    /\ live[h] /\ (sess[h] \in {"down", "gone"} \/ ~beating[h])
    /\ live' = [live EXCEPT ![h] = FALSE]
    /\ UNCHANGED <<spec, status, cap, loop, link, agent, bounds>>

-------------------------------------------------------------------------------
(* One assignment at a time (main.rs, handle_assignment). *)

Handling(h, at) == busy[h] # NoTask /\ busy[h].at = at
Advance(h, at)  == busy' = [busy EXCEPT ![h] = [@ EXCEPT !.at = at]]

Receive(h) ==
    /\ sess[h] = "up" /\ busy[h] = NoTask /\ chan[h] # <<>>
    /\ busy' = [busy EXCEPT ![h] =
                    [m |-> Head(chan[h]).m, run |-> Head(chan[h]).run, at |-> "handle"]]
    /\ chan' = [chan EXCEPT ![h] = Tail(@)]
    /\ UNCHANGED <<spec, status, table, loop, sess, beating, local, workers, orphans, bounds>>

(* Already running, or a stop for a machine this agent has no record of. *)
Converged(h) ==
    /\ Handling(h, "handle")
    /\ local[h][busy[h].m] = (IF busy[h].run THEN "running" ELSE "none")
    /\ Advance(h, "capacity")
    /\ UNCHANGED <<spec, status, table, loop, link, local, workers, orphans, bounds>>

(* actuator::boot.  The TAP of a live worker of the same machine is busy. *)
Boot(h) ==
    /\ Handling(h, "handle") /\ busy[h].run /\ local[h][busy[h].m] # "running"
    /\ busy[h].m \notin workers[h]
    /\ workers' = [workers EXCEPT ![h] = @ \union {busy[h].m}]
    /\ Advance(h, "booted")
    /\ UNCHANGED <<spec, status, table, loop, link, local, orphans, bounds>>

BootFails(h) ==
    /\ Handling(h, "handle") /\ busy[h].run /\ local[h][busy[h].m] # "running"
    /\ IF busy[h].m \in workers[h] THEN UNCHANGED bounds ELSE Fault("boot")
    /\ Advance(h, "failed")
    /\ UNCHANGED <<spec, status, table, loop, link, local, workers, orphans>>

(* actuator::stop signals the recorded pid; a stopped record has none. *)
Kill(h) ==
    /\ Handling(h, "handle") /\ ~busy[h].run /\ local[h][busy[h].m] # "none"
    /\ workers' = IF local[h][busy[h].m] = "running"
                  THEN [workers EXCEPT ![h] = @ \ {busy[h].m}] ELSE workers
    /\ Advance(h, "killed")
    /\ UNCHANGED <<spec, status, table, loop, link, local, orphans, bounds>>

(* What store.put records after a boot or a kill. *)
Outcome == [booted |-> "running", killed |-> "stopped"]

\* Variant: the record is kept as it was.
SaveNothing(h) ==
    /\ \E at \in DOMAIN Outcome : Handling(h, at) /\ Advance(h, Outcome[at])
    /\ UNCHANGED <<spec, status, table, loop, link, local, workers, orphans, bounds>>

Save(h) ==
    /\ \E at \in DOMAIN Outcome :
           /\ Handling(h, at) /\ Advance(h, Outcome[at])
           /\ local' = [local EXCEPT ![h][busy[h].m] = Outcome[at]]
    /\ UNCHANGED <<spec, status, table, loop, link, workers, orphans, bounds>>

(* The agent fails with a worker booted and not recorded yet. *)
Orphaned(h) ==
    orphans' = IF Handling(h, "booted")
               THEN [orphans EXCEPT ![h] = @ \union {busy[h].m}] ELSE orphans

(* redb fails, on a read before the action or on the put after it: the      *)
(* handling ends there.                                                      *)
SaveFails(h) ==
    /\ \E at \in {"handle", "booted", "killed"} : Handling(h, at)
    /\ Advance(h, "capacity") /\ Orphaned(h) /\ Fault("disk")
    /\ UNCHANGED <<spec, status, table, loop, link, local, workers>>

\* Variant: what is not desired running is not recorded as running.
ReportWanted(h) ==
    /\ \E at \in {"running", "failed", "stopped"} :
           /\ Handling(h, at)
           /\ state' = IF row[busy[h].m] = "there" /\ (want[busy[h].m] \/ at # "running")
                       THEN [state EXCEPT ![busy[h].m] = at] ELSE state
    /\ Advance(h, "capacity")
    /\ UNCHANGED <<spec, retries, host, table, loop, link, local, workers, orphans, bounds>>

(* report: set_observed on the row, if it is still there. *)
Report(h) ==
    /\ \E at \in {"running", "failed", "stopped"} :
           /\ Handling(h, at)
           /\ state' = IF row[busy[h].m] = "there"
                       THEN [state EXCEPT ![busy[h].m] = at] ELSE state
    /\ Advance(h, "capacity")
    /\ UNCHANGED <<spec, retries, host, table, loop, link, local, workers, orphans, bounds>>

(* Best-effort: an error is logged. *)
ReportLost(h) ==
    /\ \E at \in {"running", "failed", "stopped"} : Handling(h, at)
    /\ Advance(h, "capacity") /\ Fault("lost")
    /\ UNCHANGED <<spec, status, table, loop, link, local, workers, orphans>>

Advertise(h) ==
    /\ Handling(h, "capacity")
    /\ Advertised(h)
    /\ busy' = [busy EXCEPT ![h] = NoTask]
    /\ UNCHANGED <<spec, status, loop, link, local, workers, orphans, bounds>>

AdvertiseLost(h) ==
    /\ Handling(h, "capacity") /\ Fault("lost")
    /\ busy' = [busy EXCEPT ![h] = NoTask]
    /\ UNCHANGED <<spec, status, table, loop, link, local, workers, orphans>>

AgentStep(h) ==
    \/ Register(h) \/ Watch(h)
    \/ Receive(h) \/ Converged(h) \/ Boot(h) \/ Kill(h) \/ Save(h)
    \/ Report(h) \/ Advertise(h)

AgentTrouble(h) ==
    \/ GoStale(h) \/ BootFails(h) \/ SaveFails(h) \/ ReportLost(h) \/ AdvertiseLost(h)

-------------------------------------------------------------------------------
(* Failures. *)

(* A call in flight when a connection or the controller goes is lost; where  *)
(* no loss is allowed, they go only between calls.                           *)
NoCallCut(h) ==
    "lost" \in Faults \/ \A at \in {"running", "failed", "stopped"} : ~Handling(h, at)

(* The registry, the pass and every stream are in memory. *)
ControllerRestart ==
    /\ Fault("controller") /\ \A h \in Hosts : NoCallCut(h)
    /\ tick' = "idle" /\ pass' = {} /\ push' = NoTask
    /\ sess' = [h \in Hosts |-> IF sess[h] = "gone" THEN "gone" ELSE "down"]
    /\ chan' = [h \in Hosts |-> <<>>]
    /\ UNCHANGED <<spec, status, table, seen, beating, agent>>

(* A query of the pass fails: the rest of the pass is skipped, a retry it    *)
(* has counted stays counted.                                                *)
PassFails ==
    /\ Fault("store") /\ tick \in {"hosts", "each"}
    /\ UNCHANGED retries \/ \E r \in pass : tick = "each" /\ CountRetry(r)
    /\ tick' = "idle" /\ pass' = {}
    /\ UNCHANGED <<spec, state, host, table, seen, push, link, agent>>

SessionBreaks(h) ==
    /\ Fault("session") /\ NoCallCut(h)
    /\ sess[h] \in {"registered", "up"}
    /\ sess' = [sess EXCEPT ![h] = "down"] /\ chan' = [chan EXCEPT ![h] = <<>>]
    /\ UNCHANGED <<spec, status, table, loop, beating, agent>>

(* The heartbeat task ends at its first error; the session goes on. *)
HeartbeatFails(h) ==
    /\ Fault("heartbeat")
    /\ sess[h] \in {"registered", "up"} /\ beating[h]
    /\ beating' = [beating EXCEPT ![h] = FALSE]
    /\ UNCHANGED <<spec, status, table, loop, sess, chan, agent>>

(* The agent is killed and restarted; its workers are detached. *)
AgentRestart(h) ==
    /\ Fault("agent") /\ sess[h] # "gone"
    /\ sess' = [sess EXCEPT ![h] = "down"] /\ chan' = [chan EXCEPT ![h] = <<>>]
    /\ busy' = [busy EXCEPT ![h] = NoTask] /\ Orphaned(h)
    /\ UNCHANGED <<spec, status, table, loop, beating, local, workers>>

WorkerDies(h, m) ==
    /\ Fault("worker") /\ m \in workers[h]
    /\ workers' = [workers EXCEPT ![h] = @ \ {m}]
    /\ orphans' = [orphans EXCEPT ![h] = @ \ {m}]
    /\ UNCHANGED <<spec, status, table, loop, link, busy, local>>

HostGone(h) ==
    /\ Fault("host") /\ sess[h] # "gone"
    /\ sess' = [sess EXCEPT ![h] = "gone"] /\ chan' = [chan EXCEPT ![h] = <<>>]
    /\ busy' = [busy EXCEPT ![h] = NoTask]
    /\ workers' = [workers EXCEPT ![h] = {}] /\ orphans' = [orphans EXCEPT ![h] = {}]
    /\ UNCHANGED <<spec, status, table, loop, beating, local>>

Failure ==
    \/ ControllerRestart \/ PassFails
    \/ \E h \in Hosts :
          \/ SessionBreaks(h) \/ HeartbeatFails(h) \/ AgentRestart(h) \/ HostGone(h)
          \/ \E m \in Machines : WorkerDies(h, m)

Next ==
    \/ User \/ LoopStep \/ Failure
    \/ \E h \in Hosts : AgentStep(h) \/ AgentTrouble(h)

Spec == Init /\ [][Next]_vars

(* The loop ticks forever; an agent reconnects every 5 s and serves its      *)
(* stream.  Nothing makes a user act or a failure happen.                    *)
FairSpec ==
    /\ Spec /\ WF_vars(LoopStep)
    /\ \A h \in Hosts : WF_vars(AgentStep(h))

-------------------------------------------------------------------------------
(* Properties. *)

(* loop.rs:57-82: a machine's placement is saved before its first            *)
(* assignment leaves the controller, and is kept: whatever crashes in        *)
(* between, it never runs on two hosts.                                      *)
OneHost ==
    \A m \in Machines, g, h \in Hosts :
        m \in workers[g] /\ m \in workers[h] => g = h

(* main.rs:298-349: between two assignments, and after any restart of the    *)
(* agent, a worker alive on a host is one its agent has on record as         *)
(* running, so stop and capacity reach it, or one whose agent was killed, or *)
(* whose redb failed, after the boot and before the put (main.rs:327-330);   *)
(* no other crash, error or stop takes a live worker off the record.         *)
WorkersRecorded ==
    \A h \in Hosts : busy[h] = NoTask =>
        \A m \in workers[h] \ orphans[h] : local[h][m] = "running"

(* local_store.rs:3-5, "An agent persists what it owns to a local redb       *)
(* database so a restart can re-discover its running microVMs": every worker *)
(* alive under an agent with nothing in hand is on its record.               *)
WorkersAlwaysRecorded ==
    \A h \in Hosts : busy[h] = NoTask =>
        \A m \in workers[h] : local[h][m] = "running"

(* loop.rs:1-2: a machine desired running is observed running and runs, or   *)
(* its retry budget is spent, or the host it is placed on, or every host     *)
(* it could be, is lost for good (a placement is never moved, loop.rs:57-59).*)
StartConverges ==
    \A m \in Machines :
        row[m] = "there" /\ want[m] ~>
            \/ row[m] = "deleted" \/ ~want[m]
            \/ state[m] = "running" /\ host[m] # NoHost /\ m \in workers[host[m]]
            \/ state[m] = "failed" /\ retries[m] = MaxRetries
            \/ \A h \in Hosts : h = host[m] \/ host[m] = NoHost => sess[h] = "gone"

(* loop.rs:1-2: a machine desired stopped comes to rest on every host. *)
StopConverges ==
    \A m \in Machines :
        row[m] = "there" /\ ~want[m] ~>
            \/ row[m] = "deleted" \/ want[m]
            \/ \A h \in Hosts : m \notin workers[h]

(* loop.rs:27-35, grpc.rs:47-53: no agent holds the loop up forever. *)
PassEnds == tick # "idle" ~> tick = "idle"

(* loop.rs:1-2, "drive observed state toward desired state": no pass of      *)
(* the loop hangs, and the passes bring up what is wanted, within its retry  *)
(* budget and where its host lives, and bring down what is not.              *)
Converges == StartConverges /\ StopConverges /\ PassEnds
===============================================================================
