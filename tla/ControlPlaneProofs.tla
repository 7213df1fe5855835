-------------------------- MODULE ControlPlaneProofs --------------------------
(***************************************************************************)
(* ControlPlane for any number of machines and hosts and any failures: the *)
(* types (and with them the retry budget), that no machine ever runs on    *)
(* two hosts, and that every worker is on its agent's record, but those    *)
(* whose agent or whose redb file failed between the boot and the record.  *)
(***************************************************************************)
EXTENDS ControlPlane, FiniteSetTheorems, TLAPS

(* The rows of a pass: one per machine, as they are in the store but for     *)
(* desired and observed state.                                               *)
PassInv ==
    /\ tick = "push" => push \in [m : Machines, run : BOOLEAN, to : Hosts]
    /\ \A r, q \in pass : r.m = q.m => r = q
    /\ \A r \in pass :
          /\ row[r.m] # "unborn"
          /\ row[r.m] = "there" => retries[r.m] = r.retries /\ host[r.m] = r.host

TypedInv == TypeOK /\ PassInv

(* Where a machine runs, or is on its way to. *)
Trace(m, h) ==
    \/ m \in workers[h]
    \/ busy[h] # NoTask /\ busy[h].m = m
    \/ \E i \in 1..Len(chan[h]) : chan[h][i].m = m
    \/ tick = "push" /\ push.m = m /\ push.to = h

TraceInv ==
    \A m \in Machines, h \in Hosts : Trace(m, h) =>
        /\ row[m] # "unborn"
        /\ row[m] = "there" => host[m] = h
        /\ \A r \in pass : r.m = m => r.host = h
        /\ \A g \in Hosts : Trace(m, g) => g = h

IInv == TypedInv /\ TraceInv

(* A worker is on record as running and not just killed, or was booted by    *)
(* the assignment in hand, which saves it next, or its agent failed there.   *)
Booting(h, m) == Handling(h, "booted") /\ busy[h].m = m
Killed(h, m)  == Handling(h, "killed") /\ busy[h].m = m

RecordInv ==
    \A h \in Hosts : \A m \in workers[h] :
        \/ Booting(h, m) \/ m \in orphans[h]
        \/ local[h][m] = "running" /\ ~Killed(h, m)

-------------------------------------------------------------------------------
(* The agents' capacity is a number of slots. *)
LEMMA FreeType == ASSUME TypeOK, NEW h \in Hosts PROVE Free(h) \in Nat
<1> DEFINE R == {m \in Machines : local[h][m] = "running"}
<1>1. IsFiniteSet(R)
  BY ClusterAssumption, FS_Subset
<1>2. Cardinality(R) \in Nat
  BY <1>1, FS_CardinalityType
<1>3. Room[h] \in Nat
  BY ClusterAssumption
<1>4. QED
  BY <1>2, <1>3 DEF Free

(* A failure is counted. *)
LEMMA FaultType ==
    ASSUME TypeOK, NEW kind, Fault(kind)
    PROVE  faults' \in 0..MaxFaults /\ edits' \in 0..MaxEdits
BY ClusterBoundAssumption DEF TypeOK, Fault

(* Progress of an assignment keeps its machine and its direction. *)
LEMMA AdvanceType ==
    ASSUME TypeOK, NEW h \in Hosts, busy[h] # NoTask, NEW at \in {"booted", "killed", "running", "failed", "stopped", "capacity"},
           Advance(h, at)
    PROVE  /\ busy' \in [Hosts -> Tasks \union {NoTask}]
           /\ \A g \in Hosts : g # h => busy'[g] = busy[g]
           /\ busy'[h] # NoTask => busy'[h].m = busy[h].m
<1>1. busy[h] \in Tasks
  BY DEF TypeOK
<1>2. [busy[h] EXCEPT !.at = at] \in Tasks /\ [busy[h] EXCEPT !.at = at].m = busy[h].m
  BY <1>1 DEF Tasks
<1>3. QED
  BY <1>2 DEF Advance, TypeOK

(* A retry is counted at most up to the budget, on the machine's own row. *)
LEMMA RetryType ==
    ASSUME TypedInv, NEW r \in pass, CountRetry(r)
    PROVE  /\ retries' \in [Machines -> 0..MaxRetries]
           /\ \A m \in Machines : m # r.m => retries'[m] = retries[m]
<1>1. r \in Records /\ r.m \in Machines /\ r.retries \in 0..MaxRetries
  BY DEF TypedInv, TypeOK, Records
<1>2. CASE Decide(r) = "retry" /\ row[r.m] = "there"
  <2>1. r.retries < MaxRetries /\ retries[r.m] = r.retries
    BY <1>2 DEF Decide, TypedInv, PassInv
  <2>2. retries[r.m] + 1 \in 0..MaxRetries
    BY <1>1, <2>1, ClusterBoundAssumption
  <2>3. QED
    BY <1>2, <2>2 DEF CountRetry, TypedInv, TypeOK
<1>3. CASE ~(Decide(r) = "retry" /\ row[r.m] = "there")
  BY <1>3 DEF CountRetry, TypedInv, TypeOK
<1>4. QED
  BY <1>2, <1>3

(* Every step keeps the types and the rows of the pass. *)
LEMMA TypedStep == TypedInv /\ [Next]_vars => TypedInv'
<1> SUFFICES ASSUME TypedInv, [Next]_vars PROVE TypedInv'
  OBVIOUS
<1> USE ClusterAssumption, ClusterBoundAssumption
    DEF TypedInv, TypeOK, PassInv, States,
        spec, status, table, loop, link, agent, bounds, Handling
<1>1. ASSUME NEW m \in Machines, NEW run \in BOOLEAN, CreateMachine(m, run) PROVE TypedInv'
  BY <1>1 DEF CreateMachine, Records
<1>2. ASSUME NEW m \in Machines, SetRunning(m) PROVE TypedInv'
  BY <1>2 DEF SetRunning
<1>3. ASSUME NEW m \in Machines, DeleteMachine(m) PROVE TypedInv'
  BY <1>3 DEF DeleteMachine
<1>4. ASSUME LoadMachines PROVE TypedInv'
  <2>1. pass' \subseteq Records
    BY <1>4 DEF LoadMachines, Records
  <2>2. \A r \in pass' : row[r.m] = "there" /\ retries[r.m] = r.retries /\ host[r.m] = r.host
    BY <1>4 DEF LoadMachines
  <2>3. \A r, q \in pass' : r.m = q.m => r = q
    BY <1>4 DEF LoadMachines
  <2>4. QED
    BY <1>4, <2>1, <2>2, <2>3 DEF LoadMachines
<1>5. ASSUME LoadHosts PROVE TypedInv'
  BY <1>5 DEF LoadHosts
<1>6. ASSUME NEW r \in pass, Rest(r) PROVE TypedInv'
  <2>1. retries' \in [Machines -> 0..MaxRetries]
        /\ \A m \in Machines : m # r.m => retries'[m] = retries[m]
    BY <1>6, RetryType DEF Rest
  <2>2. \A q \in pass' : q \in pass /\ q.m # r.m /\ q.m \in Machines
    BY <1>6 DEF Rest, Records
  <2>3. TypeOK'
    BY <1>6, <2>1 DEF Rest
  <2>4. QED
    BY <1>6, <2>1, <2>2, <2>3 DEF Rest
<1>7. ASSUME NEW r \in pass, NEW h \in Hosts, Start(r, h) PROVE TypedInv'
  <2>1. retries' \in [Machines -> 0..MaxRetries]
        /\ \A m \in Machines : m # r.m => retries'[m] = retries[m]
    BY <1>7, RetryType DEF Start
  <2>2. \A q \in pass' : q \in pass /\ q.m # r.m /\ q.m \in Machines
    BY <1>7 DEF Start, Records
  <2>3. r.m \in Machines
    BY DEF Records
  <2>4. push' \in [m : Machines, run : BOOLEAN, to : Hosts]
    BY <1>7, <2>3 DEF Start
  <2>5. host' \in [Machines -> Hosts \union {NoHost}]
        /\ \A m \in Machines : m # r.m => host'[m] = host[m]
    BY <1>7 DEF Start
  <2>6. TypeOK'
    BY <1>7, <2>1, <2>4, <2>5 DEF Start
  <2>7. QED
    BY <1>7, <2>1, <2>2, <2>4, <2>5, <2>6 DEF Start
<1>8. ASSUME NEW r \in pass, Stop(r) PROVE TypedInv'
  <2>1. r.m \in Machines /\ r.host \in Hosts
    BY <1>8 DEF Stop, Records
  <2>2. push' \in [m : Machines, run : BOOLEAN, to : Hosts]
    BY <1>8, <2>1 DEF Stop
  <2>3. TypeOK'
    BY <1>8, <2>2 DEF Stop
  <2>4. QED
    BY <1>8, <2>2, <2>3 DEF Stop
<1>9. ASSUME PushQueued PROVE TypedInv'
  <2>1. push.to \in Hosts /\ [m |-> push.m, run |-> push.run] \in Assignments
    BY <1>9 DEF PushQueued, Assignments
  <2>2. chan' \in [Hosts -> Seq(Assignments)]
    BY <1>9, <2>1 DEF PushQueued
  <2>3. TypeOK'
    BY <1>9, <2>2 DEF PushQueued
  <2>4. QED
    BY <1>9, <2>3 DEF PushQueued
<1>10. ASSUME PushDropped PROVE TypedInv'
  BY <1>10 DEF PushDropped
<1>11. ASSUME EndPass PROVE TypedInv'
  BY <1>11 DEF EndPass
<1>12. ASSUME NEW h \in Hosts, Register(h) PROVE TypedInv'
  BY <1>12, FreeType DEF Register, Advertised
<1>13. ASSUME NEW h \in Hosts, Watch(h) PROVE TypedInv'
  BY <1>13 DEF Watch
<1>14. ASSUME NEW h \in Hosts, Receive(h) PROVE TypedInv'
  <2>1. Head(chan[h]) \in Assignments /\ Tail(chan[h]) \in Seq(Assignments)
    BY <1>14 DEF Receive
  <2>2. [m |-> Head(chan[h]).m, run |-> Head(chan[h]).run, at |-> "handle"] \in Tasks
    BY <2>1 DEF Assignments, Tasks
  <2>3. busy' \in [Hosts -> Tasks \union {NoTask}] /\ chan' \in [Hosts -> Seq(Assignments)]
    BY <1>14, <2>1, <2>2 DEF Receive
  <2>4. TypeOK'
    BY <1>14, <2>3 DEF Receive
  <2>5. QED
    BY <1>14, <2>4 DEF Receive
<1>15. ASSUME NEW h \in Hosts, Converged(h) PROVE TypedInv'
  BY <1>15, AdvanceType DEF Converged
<1>16. ASSUME NEW h \in Hosts, Boot(h) PROVE TypedInv'
  <2>1. busy[h].m \in Machines
    BY <1>16 DEF Boot, Tasks
  <2>2. workers' \in [Hosts -> SUBSET Machines]
    BY <1>16, <2>1 DEF Boot
  <2>3. QED
    BY <1>16, <2>2, AdvanceType DEF Boot
<1>17. ASSUME NEW h \in Hosts, Kill(h) PROVE TypedInv'
  BY <1>17, AdvanceType, SMTT(30) DEF Kill
<1>18. ASSUME NEW h \in Hosts, Save(h) PROVE TypedInv'
  <2>1. PICK at \in DOMAIN Outcome :
            /\ Handling(h, at) /\ Advance(h, Outcome[at])
            /\ local' = [local EXCEPT ![h][busy[h].m] = Outcome[at]]
    BY <1>18 DEF Save
  <2>2. Outcome[at] \in {"running", "stopped"}
    BY DEF Outcome
  <2>3. busy' \in [Hosts -> Tasks \union {NoTask}]
    BY <2>1, <2>2, AdvanceType
  <2>4. local' \in [Hosts -> [Machines -> {"none", "running", "stopped"}]]
    BY <2>1, <2>2
  <2>5. QED
    BY <1>18, <2>3, <2>4 DEF Save
<1>19. ASSUME NEW h \in Hosts, Report(h) PROVE TypedInv'
  <2>1. state' \in [Machines -> States]
    BY <1>19 DEF Report
  <2>2. busy' \in [Hosts -> Tasks \union {NoTask}]
    BY <1>19, AdvanceType DEF Report
  <2>3. QED
    BY <1>19, <2>1, <2>2 DEF Report
<1>20. ASSUME NEW h \in Hosts, Advertise(h) PROVE TypedInv'
  BY <1>20, FreeType DEF Advertise, Advertised
<1>21. ASSUME NEW h \in Hosts, GoStale(h) PROVE TypedInv'
  BY <1>21 DEF GoStale
<1>22. ASSUME NEW h \in Hosts, BootFails(h) PROVE TypedInv'
  BY <1>22, FaultType, AdvanceType, ZenonT(40) DEF BootFails
<1>23. ASSUME NEW h \in Hosts, SaveFails(h) PROVE TypedInv'
  <2>1. busy[h].m \in Machines
    BY <1>23 DEF SaveFails, Tasks
  <2>2. orphans' \in [Hosts -> SUBSET Machines]
    BY <1>23, <2>1 DEF SaveFails, Orphaned
  <2>3. QED
    BY <1>23, <2>2, FaultType, AdvanceType DEF SaveFails
<1>24. ASSUME NEW h \in Hosts, ReportLost(h) PROVE TypedInv'
  BY <1>24, FaultType, AdvanceType DEF ReportLost
<1>25. ASSUME NEW h \in Hosts, AdvertiseLost(h) PROVE TypedInv'
  BY <1>25, FaultType DEF AdvertiseLost
<1>26. ASSUME ControllerRestart PROVE TypedInv'
  BY <1>26, FaultType DEF ControllerRestart
<1>27. ASSUME NEW h \in Hosts, SessionBreaks(h) PROVE TypedInv'
  <2>1. chan' \in [Hosts -> Seq(Assignments)] /\ sess' \in [Hosts -> {"down", "registered", "up", "gone"}]
    BY <1>27 DEF SessionBreaks
  <2>2. QED
    BY <1>27, <2>1, FaultType DEF SessionBreaks
<1>28. ASSUME NEW h \in Hosts, HeartbeatFails(h) PROVE TypedInv'
  BY <1>28, FaultType DEF HeartbeatFails
<1>29. ASSUME NEW h \in Hosts, AgentRestart(h) PROVE TypedInv'
  <2>1. orphans' \in [Hosts -> SUBSET Machines]
    <3>1. CASE Handling(h, "booted")
      <4>1. busy[h].m \in Machines
        BY <3>1 DEF Tasks
      <4>2. QED
        BY <1>29, <3>1, <4>1 DEF AgentRestart, Orphaned
    <3>2. CASE ~Handling(h, "booted")
      BY <1>29, <3>2 DEF AgentRestart, Orphaned
    <3>3. QED
      BY <3>1, <3>2
  <2>2. /\ chan' \in [Hosts -> Seq(Assignments)] /\ busy' \in [Hosts -> Tasks \union {NoTask}]
        /\ sess' \in [Hosts -> {"down", "registered", "up", "gone"}]
    BY <1>29 DEF AgentRestart
  <2>3. QED
    BY <1>29, <2>1, <2>2, FaultType DEF AgentRestart
<1>30. ASSUME NEW h \in Hosts, HostGone(h) PROVE TypedInv'
  BY <1>30, FaultType, SMTT(30) DEF HostGone
<1>31. ASSUME NEW h \in Hosts, NEW m \in Machines, WorkerDies(h, m) PROVE TypedInv'
  BY <1>31, FaultType DEF WorkerDies
<1>32. ASSUME PassFails PROVE TypedInv'
  <2>1. retries' \in [Machines -> 0..MaxRetries]
    BY <1>32, RetryType DEF PassFails
  <2>2. QED
    BY <1>32, <2>1, FaultType DEF PassFails
<1>90. CASE UNCHANGED vars
  BY <1>90 DEF vars
<1> HIDE DEF TypedInv, TypeOK, PassInv
<1>91. QED
  BY <1>1, <1>2, <1>3, <1>4, <1>5, <1>6, <1>7, <1>8, <1>9, <1>10, <1>11,
     <1>12, <1>13, <1>14, <1>15, <1>16, <1>17, <1>18, <1>19, <1>20, <1>21,
     <1>22, <1>23, <1>24, <1>25, <1>26, <1>27, <1>28, <1>29, <1>30, <1>31,
     <1>32, <1>90 DEF Next, User, LoopStep, AgentStep, AgentTrouble, Failure

-------------------------------------------------------------------------------
(* A step that starts nothing, moves no row and adds none to the pass. *)
LEMMA NoNewTrace ==
    ASSUME TraceInv, UNCHANGED <<row, host>>, pass' \subseteq pass,
           \A m \in Machines, h \in Hosts : Trace(m, h)' => Trace(m, h)
    PROVE  TraceInv'
BY DEF TraceInv

(* Every step keeps each machine's traces on the host its row names. *)
LEMMA TraceStep == IInv /\ [Next]_vars => TraceInv'
<1> SUFFICES ASSUME IInv, [Next]_vars PROVE TraceInv'
  OBVIOUS
<1> USE IInv, ClusterAssumption
    DEF IInv, TypedInv, TypeOK, PassInv, Fault, Handling, Advance,
        spec, status, table, loop, link, agent, bounds
<1>1. ASSUME NEW m \in Machines, NEW run \in BOOLEAN, CreateMachine(m, run) PROVE TraceInv'
  BY <1>1, SMTT(30) DEF CreateMachine, Trace, TraceInv, Records
<1>2. ASSUME NEW m \in Machines, SetRunning(m) PROVE TraceInv'
  <2>1. /\ \A x \in Machines, g \in Hosts : Trace(x, g)' => Trace(x, g)
        /\ UNCHANGED <<row, host>> /\ pass' \subseteq pass
    BY <1>2 DEF SetRunning, Trace
  <2>2. QED
    BY <2>1, NoNewTrace
<1>3. ASSUME NEW m \in Machines, DeleteMachine(m) PROVE TraceInv'
  BY <1>3, SMTT(30) DEF DeleteMachine, Trace, TraceInv, Records
<1>4. ASSUME LoadMachines PROVE TraceInv'
  BY <1>4 DEF LoadMachines, Trace, TraceInv, Records
<1>5. ASSUME LoadHosts PROVE TraceInv'
  <2>1. /\ \A x \in Machines, g \in Hosts : Trace(x, g)' => Trace(x, g)
        /\ UNCHANGED <<row, host>> /\ pass' \subseteq pass
    BY <1>5 DEF LoadHosts, Trace
  <2>2. QED
    BY <2>1, NoNewTrace
<1>6. ASSUME NEW r \in pass, Rest(r) PROVE TraceInv'
  <2>1. /\ \A x \in Machines, g \in Hosts : Trace(x, g)' => Trace(x, g)
        /\ UNCHANGED <<row, host>> /\ pass' \subseteq pass
    BY <1>6 DEF Rest, Trace
  <2>2. QED
    BY <2>1, NoNewTrace
<1>7. ASSUME NEW r \in pass, NEW h \in Hosts, Start(r, h) PROVE TraceInv'
  BY <1>7, SMTT(30) DEF Start, CountRetry, Decide, Placements, Trace, TraceInv, Records
<1>8. ASSUME NEW r \in pass, Stop(r) PROVE TraceInv'
  BY <1>8, SMTT(30) DEF Stop, Decide, Trace, TraceInv, Records
<1>9. ASSUME PushQueued PROVE TraceInv'
  BY <1>9, SMTT(30) DEF PushQueued, Trace, TraceInv, Records
<1>10. ASSUME PushDropped PROVE TraceInv'
  <2>1. /\ \A x \in Machines, g \in Hosts : Trace(x, g)' => Trace(x, g)
        /\ UNCHANGED <<row, host>> /\ pass' \subseteq pass
    BY <1>10 DEF PushDropped, Trace
  <2>2. QED
    BY <2>1, NoNewTrace
<1>11. ASSUME EndPass PROVE TraceInv'
  <2>1. /\ \A x \in Machines, g \in Hosts : Trace(x, g)' => Trace(x, g)
        /\ UNCHANGED <<row, host>> /\ pass' \subseteq pass
    BY <1>11 DEF EndPass, Trace
  <2>2. QED
    BY <2>1, NoNewTrace
<1>12. ASSUME NEW h \in Hosts, Register(h) PROVE TraceInv'
  <2>1. /\ \A x \in Machines, g \in Hosts : Trace(x, g)' => Trace(x, g)
        /\ UNCHANGED <<row, host>> /\ pass' \subseteq pass
    BY <1>12 DEF Register, Advertised, Trace
  <2>2. QED
    BY <2>1, NoNewTrace
<1>13. ASSUME NEW h \in Hosts, Watch(h) PROVE TraceInv'
  <2>1. /\ \A x \in Machines, g \in Hosts : Trace(x, g)' => Trace(x, g)
        /\ UNCHANGED <<row, host>> /\ pass' \subseteq pass
    BY <1>13 DEF Watch, Trace
  <2>2. QED
    BY <2>1, NoNewTrace
<1>14. ASSUME NEW h \in Hosts, Receive(h) PROVE TraceInv'
  <2>1. /\ Head(chan[h]) = chan[h][1] /\ 1 \in 1..Len(chan[h])
        /\ \A i \in 1..Len(Tail(chan[h])) :
              i + 1 \in 1..Len(chan[h]) /\ Tail(chan[h])[i] = chan[h][i + 1]
    BY <1>14 DEF Receive
  <2>2. \A g \in Hosts : g # h => busy'[g] = busy[g] /\ chan'[g] = chan[g]
    BY <1>14 DEF Receive
  <2>3. busy'[h].m = chan[h][1].m /\ chan'[h] = Tail(chan[h])
    BY <1>14, <2>1 DEF Receive
  <2>4. \A x \in Machines, g \in Hosts : Trace(x, g)' => Trace(x, g)
    <3> SUFFICES ASSUME NEW x \in Machines, NEW g \in Hosts, Trace(x, g)' PROVE Trace(x, g)
      OBVIOUS
    <3>1. CASE g # h
      BY <1>14, <3>1, <2>2 DEF Receive, Trace
    <3>2. CASE g = h
      BY <1>14, <3>2, <2>1, <2>3 DEF Receive, Trace
    <3>3. QED
      BY <3>1, <3>2
  <2>5. UNCHANGED <<row, host>> /\ pass' \subseteq pass
    BY <1>14 DEF Receive
  <2>6. QED
    BY <2>4, <2>5, NoNewTrace
<1>15. ASSUME NEW h \in Hosts, Converged(h) PROVE TraceInv'
  <2>1. /\ \A x \in Machines, g \in Hosts : Trace(x, g)' => Trace(x, g)
        /\ UNCHANGED <<row, host>> /\ pass' \subseteq pass
    BY <1>15 DEF Converged, Trace
  <2>2. QED
    BY <2>1, NoNewTrace
<1>16. ASSUME NEW h \in Hosts, Boot(h) PROVE TraceInv'
  BY <1>16, SMTT(30) DEF Boot, Trace, TraceInv, Records
<1>17. ASSUME NEW h \in Hosts, Kill(h) PROVE TraceInv'
  <2>1. /\ \A x \in Machines, g \in Hosts : Trace(x, g)' => Trace(x, g)
        /\ UNCHANGED <<row, host>> /\ pass' \subseteq pass
    BY <1>17 DEF Kill, Trace
  <2>2. QED
    BY <2>1, NoNewTrace
<1>18. ASSUME NEW h \in Hosts, Save(h) PROVE TraceInv'
  <2>1. /\ \A x \in Machines, g \in Hosts : Trace(x, g)' => Trace(x, g)
        /\ UNCHANGED <<row, host>> /\ pass' \subseteq pass
    BY <1>18 DEF Save, Outcome, Trace
  <2>2. QED
    BY <2>1, NoNewTrace
<1>19. ASSUME NEW h \in Hosts, Report(h) PROVE TraceInv'
  <2>1. /\ \A x \in Machines, g \in Hosts : Trace(x, g)' => Trace(x, g)
        /\ UNCHANGED <<row, host>> /\ pass' \subseteq pass
    BY <1>19 DEF Report, Trace
  <2>2. QED
    BY <2>1, NoNewTrace
<1>20. ASSUME NEW h \in Hosts, Advertise(h) PROVE TraceInv'
  <2>1. /\ \A x \in Machines, g \in Hosts : Trace(x, g)' => Trace(x, g)
        /\ UNCHANGED <<row, host>> /\ pass' \subseteq pass
    BY <1>20 DEF Advertise, Advertised, Trace
  <2>2. QED
    BY <2>1, NoNewTrace
<1>21. ASSUME NEW h \in Hosts, GoStale(h) PROVE TraceInv'
  <2>1. /\ \A x \in Machines, g \in Hosts : Trace(x, g)' => Trace(x, g)
        /\ UNCHANGED <<row, host>> /\ pass' \subseteq pass
    BY <1>21 DEF GoStale, Trace
  <2>2. QED
    BY <2>1, NoNewTrace
<1>22. ASSUME NEW h \in Hosts, BootFails(h) PROVE TraceInv'
  <2>1. /\ \A x \in Machines, g \in Hosts : Trace(x, g)' => Trace(x, g)
        /\ UNCHANGED <<row, host>> /\ pass' \subseteq pass
    BY <1>22 DEF BootFails, Trace
  <2>2. QED
    BY <2>1, NoNewTrace
<1>23. ASSUME NEW h \in Hosts, SaveFails(h) PROVE TraceInv'
  <2>1. /\ \A x \in Machines, g \in Hosts : Trace(x, g)' => Trace(x, g)
        /\ UNCHANGED <<row, host>> /\ pass' \subseteq pass
    BY <1>23 DEF SaveFails, Outcome, Trace
  <2>2. QED
    BY <2>1, NoNewTrace
<1>24. ASSUME NEW h \in Hosts, ReportLost(h) PROVE TraceInv'
  <2>1. /\ \A x \in Machines, g \in Hosts : Trace(x, g)' => Trace(x, g)
        /\ UNCHANGED <<row, host>> /\ pass' \subseteq pass
    BY <1>24 DEF ReportLost, Trace
  <2>2. QED
    BY <2>1, NoNewTrace
<1>25. ASSUME NEW h \in Hosts, AdvertiseLost(h) PROVE TraceInv'
  <2>1. /\ \A x \in Machines, g \in Hosts : Trace(x, g)' => Trace(x, g)
        /\ UNCHANGED <<row, host>> /\ pass' \subseteq pass
    BY <1>25 DEF AdvertiseLost, Trace
  <2>2. QED
    BY <2>1, NoNewTrace
<1>26. ASSUME ControllerRestart PROVE TraceInv'
  <2>1. /\ \A x \in Machines, g \in Hosts : Trace(x, g)' => Trace(x, g)
        /\ UNCHANGED <<row, host>> /\ pass' \subseteq pass
    BY <1>26 DEF ControllerRestart, Trace
  <2>2. QED
    BY <2>1, NoNewTrace
<1>27. ASSUME NEW h \in Hosts, SessionBreaks(h) PROVE TraceInv'
  <2>1. /\ \A x \in Machines, g \in Hosts : Trace(x, g)' => Trace(x, g)
        /\ UNCHANGED <<row, host>> /\ pass' \subseteq pass
    BY <1>27 DEF SessionBreaks, Trace
  <2>2. QED
    BY <2>1, NoNewTrace
<1>28. ASSUME NEW h \in Hosts, HeartbeatFails(h) PROVE TraceInv'
  <2>1. /\ \A x \in Machines, g \in Hosts : Trace(x, g)' => Trace(x, g)
        /\ UNCHANGED <<row, host>> /\ pass' \subseteq pass
    BY <1>28 DEF HeartbeatFails, Trace
  <2>2. QED
    BY <2>1, NoNewTrace
<1>29. ASSUME NEW h \in Hosts, AgentRestart(h) PROVE TraceInv'
  <2>1. /\ \A x \in Machines, g \in Hosts : Trace(x, g)' => Trace(x, g)
        /\ UNCHANGED <<row, host>> /\ pass' \subseteq pass
    BY <1>29 DEF AgentRestart, Trace
  <2>2. QED
    BY <2>1, NoNewTrace
<1>30. ASSUME NEW h \in Hosts, HostGone(h) PROVE TraceInv'
  <2>1. /\ \A x \in Machines, g \in Hosts : Trace(x, g)' => Trace(x, g)
        /\ UNCHANGED <<row, host>> /\ pass' \subseteq pass
    BY <1>30 DEF HostGone, Trace
  <2>2. QED
    BY <2>1, NoNewTrace
<1>31. ASSUME NEW h \in Hosts, NEW m \in Machines, WorkerDies(h, m) PROVE TraceInv'
  <2>1. /\ \A x \in Machines, g \in Hosts : Trace(x, g)' => Trace(x, g)
        /\ UNCHANGED <<row, host>> /\ pass' \subseteq pass
    BY <1>31 DEF WorkerDies, Trace
  <2>2. QED
    BY <2>1, NoNewTrace
<1>32. ASSUME PassFails PROVE TraceInv'
  <2>1. /\ \A x \in Machines, g \in Hosts : Trace(x, g)' => Trace(x, g)
        /\ UNCHANGED <<row, host>> /\ pass' \subseteq pass
    BY <1>32 DEF PassFails, Trace
  <2>2. QED
    BY <2>1, NoNewTrace
<1>90. CASE UNCHANGED vars
  <2>1. /\ \A x \in Machines, g \in Hosts : Trace(x, g)' => Trace(x, g)
        /\ UNCHANGED <<row, host>> /\ pass' \subseteq pass
    BY <1>90 DEF vars, Trace
  <2>2. QED
    BY <2>1, NoNewTrace
<1> HIDE DEF IInv, TypedInv, TypeOK, PassInv
<1>91. QED
  BY <1>1, <1>2, <1>3, <1>4, <1>5, <1>6, <1>7, <1>8, <1>9, <1>10, <1>11,
     <1>12, <1>13, <1>14, <1>15, <1>16, <1>17, <1>18, <1>19, <1>20, <1>21,
     <1>22, <1>23, <1>24, <1>25, <1>26, <1>27, <1>28, <1>29, <1>30, <1>31,
     <1>32, <1>90 DEF Next, User, LoopStep, AgentStep, AgentTrouble, Failure

LEMMA InvariantStart == Init => IInv
<1> SUFFICES ASSUME Init PROVE IInv
  OBVIOUS
<1>1. TypeOK
  BY ClusterAssumption, ClusterBoundAssumption DEF Init, TypeOK, States
<1>2. PassInv /\ TraceInv
  BY DEF Init, PassInv, TraceInv, Trace
<1>3. QED
  BY <1>1, <1>2 DEF IInv, TypedInv

(* loop.rs:39-102, main.rs:298-349: types, including that no machine is      *)
(* retried beyond its budget whatever the loop's copies of the rows miss.    *)
THEOREM ClusterTyped == Spec => []TypeOK
<1>1. Init => TypedInv
  BY InvariantStart DEF IInv
<1>2. TypedInv /\ [Next]_vars => TypedInv'
  BY TypedStep
<1>3. TypedInv => TypeOK
  BY DEF TypedInv
<1>4. QED
  BY <1>1, <1>2, <1>3, PTL DEF Spec

(* loop.rs:57-82: for any cluster and any sequence of failures, no machine   *)
(* has workers on two hosts.                                                 *)
THEOREM NeverOnTwoHosts == Spec => []OneHost
<1>1. Init => IInv
  BY InvariantStart
<1>2. IInv /\ [Next]_vars => IInv'
  BY TypedStep, TraceStep DEF IInv
<1>3. IInv => OneHost
  BY DEF IInv, TraceInv, Trace, OneHost
<1>4. QED
  BY <1>1, <1>2, <1>3, PTL DEF Spec

-------------------------------------------------------------------------------
(* An assignment that is neither booting nor killing goes on. *)
LEMMA RecordKept ==
    ASSUME TypeOK, RecordInv, UNCHANGED <<local, workers, orphans>>, NEW h \in Hosts,
           ~Handling(h, "booted"),
           \A g \in Hosts : g # h => busy'[g] = busy[g],
           ~Handling(h, "booted")', ~Handling(h, "killed")'
    PROVE  RecordInv'
<1>1. ASSUME NEW g \in Hosts, NEW m \in workers'[g]
      PROVE  (Booting(g, m) \/ m \in orphans[g]
                \/ (local[g][m] = "running" /\ ~Killed(g, m)))'
  <2>1. m \in workers[g] /\ local'[g][m] = local[g][m] /\ orphans'[g] = orphans[g]
    BY <1>1
  <2>2. CASE g = h
    BY <2>1, <2>2 DEF RecordInv, Booting, Killed
  <2>3. CASE g # h
    BY <2>1, <2>3 DEF RecordInv, Booting, Killed, Handling
  <2>4. QED
    BY <2>2, <2>3
<1>2. QED
  BY <1>1 DEF RecordInv

(* What an assignment in hand becomes when it goes on. *)
LEMMA Advanced ==
    ASSUME TypeOK, NEW h \in Hosts, busy[h] # NoTask,
           NEW at \in {"booted", "killed", "running", "failed", "stopped", "capacity"},
           Advance(h, at)
    PROVE  /\ busy'[h] # NoTask /\ busy'[h].at = at /\ busy'[h].m = busy[h].m
           /\ busy[h].m \in Machines
           /\ \A g \in Hosts : g # h => busy'[g] = busy[g]
<1>1. busy[h] \in Tasks
  BY DEF TypeOK
<1>2. [busy[h] EXCEPT !.at = at] \in Tasks /\ [busy[h] EXCEPT !.at = at].m = busy[h].m
      /\ [busy[h] EXCEPT !.at = at].at = at
  BY <1>1 DEF Tasks
<1>3. QED
  BY <1>1, <1>2, ClusterAssumption DEF Advance, TypeOK, Tasks

(* The agent fails and has the assignment in hand no more: what it was       *)
(* booting is an orphan.                                                     *)
LEMMA Forgotten ==
    ASSUME TypeOK, RecordInv, UNCHANGED <<local, workers>>, NEW h \in Hosts, Orphaned(h),
           \A g \in Hosts : g # h => busy'[g] = busy[g],
           ~Handling(h, "booted")', ~Handling(h, "killed")'
    PROVE  RecordInv'
<1>1. ASSUME NEW g \in Hosts, NEW m \in workers'[g]
      PROVE  (Booting(g, m) \/ m \in orphans[g]
                \/ (local[g][m] = "running" /\ ~Killed(g, m)))'
  <2>1. m \in workers[g] /\ local'[g][m] = local[g][m]
    BY <1>1
  <2>2. orphans[g] \subseteq orphans'[g] /\ (Booting(h, m) => m \in orphans'[h])
    BY DEF Orphaned, Booting, TypeOK
  <2>3. CASE g = h
    BY <2>1, <2>2, <2>3 DEF RecordInv, Killed
  <2>4. CASE g # h
    BY <2>1, <2>2, <2>4 DEF RecordInv, Booting, Killed, Handling
  <2>5. QED
    BY <2>3, <2>4
<1>2. QED
  BY <1>1 DEF RecordInv

(* A boot is followed by its record, or by the failure that makes the worker *)
(* an orphan; a kill ends the worker of a running record.                    *)
LEMMA RecordStep ==
    ASSUME TypedInv, RecordInv, [Next]_vars
    PROVE  RecordInv'
<1> USE ClusterAssumption
    DEF spec, status, table, loop, link, agent, bounds
<1>0. TypeOK
  BY DEF TypedInv
<1>k. ASSUME UNCHANGED <<busy, local, workers, orphans>> PROVE RecordInv'
  BY <1>k DEF RecordInv, Booting, Killed, Handling
<1>1. ASSUME NEW m \in Machines, NEW run \in BOOLEAN, CreateMachine(m, run) PROVE RecordInv'
  BY <1>1, <1>k DEF CreateMachine
<1>2. ASSUME NEW m \in Machines, SetRunning(m) PROVE RecordInv'
  BY <1>2, <1>k DEF SetRunning
<1>3. ASSUME NEW m \in Machines, DeleteMachine(m) PROVE RecordInv'
  BY <1>3, <1>k DEF DeleteMachine
<1>4. ASSUME LoadMachines PROVE RecordInv'
  BY <1>4, <1>k DEF LoadMachines
<1>5. ASSUME LoadHosts PROVE RecordInv'
  BY <1>5, <1>k DEF LoadHosts
<1>6. ASSUME NEW r \in pass, Rest(r) PROVE RecordInv'
  BY <1>6, <1>k DEF Rest
<1>7. ASSUME NEW r \in pass, NEW h \in Hosts, Start(r, h) PROVE RecordInv'
  BY <1>7, <1>k DEF Start
<1>8. ASSUME NEW r \in pass, Stop(r) PROVE RecordInv'
  BY <1>8, <1>k DEF Stop
<1>9. ASSUME PushQueued PROVE RecordInv'
  BY <1>9, <1>k DEF PushQueued
<1>10. ASSUME PushDropped PROVE RecordInv'
  BY <1>10, <1>k DEF PushDropped
<1>11. ASSUME EndPass PROVE RecordInv'
  BY <1>11, <1>k DEF EndPass
<1>12. ASSUME NEW h \in Hosts, Register(h) PROVE RecordInv'
  BY <1>12, <1>k DEF Register
<1>13. ASSUME NEW h \in Hosts, Watch(h) PROVE RecordInv'
  BY <1>13, <1>k DEF Watch
<1>14. ASSUME NEW h \in Hosts, Receive(h) PROVE RecordInv'
  <2>1. /\ ~Handling(h, "booted") /\ UNCHANGED <<local, workers, orphans>>
        /\ busy'[h].at = "handle" /\ \A g \in Hosts : g # h => busy'[g] = busy[g]
    BY <1>14, <1>0 DEF Receive, Handling, TypeOK
  <2>2. ~Handling(h, "booted")' /\ ~Handling(h, "killed")'
    BY <2>1 DEF Handling
  <2>3. QED
    BY <1>0, <2>1, <2>2, RecordKept
<1>15. ASSUME NEW h \in Hosts, Converged(h) PROVE RecordInv'
  <2>1. /\ busy[h] # NoTask /\ ~Handling(h, "booted") /\ UNCHANGED <<local, workers, orphans>>
        /\ Advance(h, "capacity")
    BY <1>15 DEF Converged, Handling
  <2>2. ~Handling(h, "booted")' /\ ~Handling(h, "killed")'
        /\ \A g \in Hosts : g # h => busy'[g] = busy[g]
    BY <1>0, <2>1, Advanced DEF Handling
  <2>3. QED
    BY <1>0, <2>1, <2>2, RecordKept
<1>16. ASSUME NEW h \in Hosts, Boot(h) PROVE RecordInv'
  <2>1. /\ busy'[h] # NoTask /\ busy'[h].at = "booted" /\ busy'[h].m = busy[h].m
        /\ \A g \in Hosts : g # h => busy'[g] = busy[g]
    BY <1>16, <1>0, Advanced DEF Boot, Handling
  <2>2. /\ workers'[h] = workers[h] \union {busy[h].m} /\ UNCHANGED <<local, orphans>>
        /\ \A g \in Hosts : g # h => workers'[g] = workers[g]
    BY <1>16, <1>0 DEF Boot, TypeOK
  <2>3. busy[h].at = "handle"
    BY <1>16 DEF Boot, Handling
  <2>4. QED
    BY <2>1, <2>2, <2>3 DEF RecordInv, Booting, Killed, Handling
<1>17. ASSUME NEW h \in Hosts, Kill(h) PROVE RecordInv'
  <2>1. /\ busy'[h] # NoTask /\ busy'[h].at = "killed" /\ busy'[h].m = busy[h].m
        /\ \A g \in Hosts : g # h => busy'[g] = busy[g]
    BY <1>17, <1>0, Advanced DEF Kill, Handling
  <2>2. busy[h].at = "handle"
    BY <1>17 DEF Kill, Handling
  <2>3. /\ UNCHANGED <<local, orphans>>
        /\ \A g \in Hosts : workers'[g] \subseteq workers[g]
    BY <1>17, <1>0 DEF Kill, TypeOK
  <2>4. busy[h].m \in workers'[h] => busy[h].m \in orphans[h]
    <3>1. CASE local[h][busy[h].m] = "running"
      BY <1>17, <1>0, <3>1 DEF Kill, TypeOK
    <3>2. CASE local[h][busy[h].m] # "running"
      BY <2>2, <2>3, <3>2 DEF RecordInv, Booting, Handling
    <3>3. QED
      BY <3>1, <3>2
  <2>5. QED
    BY <2>1, <2>2, <2>3, <2>4 DEF RecordInv, Booting, Killed, Handling
<1>18. ASSUME NEW h \in Hosts, Save(h) PROVE RecordInv'
  <2>1. PICK at \in DOMAIN Outcome :
            /\ Handling(h, at) /\ Advance(h, Outcome[at])
            /\ local' = [local EXCEPT ![h][busy[h].m] = Outcome[at]]
    BY <1>18 DEF Save
  <2>2. /\ Outcome[at] \in {"running", "stopped"} /\ at \in {"booted", "killed"}
        /\ at = "booted" => Outcome[at] = "running"
    BY DEF Outcome
  <2>3. busy[h] # NoTask /\ busy[h].at = at
    BY <2>1 DEF Handling
  <2>4. /\ busy'[h].at = Outcome[at]  /\ busy[h].m \in Machines
        /\ \A g \in Hosts : g # h => busy'[g] = busy[g]
    BY <1>0, <2>1, <2>2, <2>3, Advanced
  <2>5. /\ local'[h][busy[h].m] = Outcome[at]
        /\ \A m \in Machines : m # busy[h].m => local'[h][m] = local[h][m]
        /\ \A g \in Hosts : g # h => local'[g] = local[g]
    BY <1>0, <2>1, <2>4 DEF TypeOK
  <2>6. UNCHANGED <<workers, orphans>> /\ \A g \in Hosts : workers[g] \subseteq Machines
    BY <1>18, <1>0 DEF Save, TypeOK
  <2>7. QED
    BY <2>2, <2>3, <2>4, <2>5, <2>6 DEF RecordInv, Booting, Killed, Handling
<1>19. ASSUME NEW h \in Hosts, Report(h) PROVE RecordInv'
  <2>1. /\ busy[h] # NoTask /\ ~Handling(h, "booted") /\ UNCHANGED <<local, workers, orphans>>
        /\ Advance(h, "capacity")
    BY <1>19 DEF Report, Handling
  <2>2. ~Handling(h, "booted")' /\ ~Handling(h, "killed")'
        /\ \A g \in Hosts : g # h => busy'[g] = busy[g]
    BY <1>0, <2>1, Advanced DEF Handling
  <2>3. QED
    BY <1>0, <2>1, <2>2, RecordKept
<1>20. ASSUME NEW h \in Hosts, Advertise(h) PROVE RecordInv'
  <2>1. /\ ~Handling(h, "booted") /\ UNCHANGED <<local, workers, orphans>>
        /\ busy'[h] = NoTask /\ \A g \in Hosts : g # h => busy'[g] = busy[g]
    BY <1>20, <1>0 DEF Advertise, Handling, TypeOK
  <2>2. ~Handling(h, "booted")' /\ ~Handling(h, "killed")'
    BY <2>1 DEF Handling
  <2>3. QED
    BY <1>0, <2>1, <2>2, RecordKept
<1>21. ASSUME NEW h \in Hosts, GoStale(h) PROVE RecordInv'
  BY <1>21, <1>k DEF GoStale
<1>22. ASSUME NEW h \in Hosts, BootFails(h) PROVE RecordInv'
  <2>1. /\ busy[h] # NoTask /\ ~Handling(h, "booted") /\ UNCHANGED <<local, workers, orphans>>
        /\ Advance(h, "failed")
    BY <1>22 DEF BootFails, Handling
  <2>2. ~Handling(h, "booted")' /\ ~Handling(h, "killed")'
        /\ \A g \in Hosts : g # h => busy'[g] = busy[g]
    BY <1>0, <2>1, Advanced DEF Handling
  <2>3. QED
    BY <1>0, <2>1, <2>2, RecordKept
<1>23. ASSUME NEW h \in Hosts, SaveFails(h) PROVE RecordInv'
  <2>1. /\ busy[h] # NoTask /\ UNCHANGED <<local, workers>> /\ Orphaned(h)
        /\ Advance(h, "capacity")
    BY <1>23 DEF SaveFails, Handling
  <2>2. /\ busy'[h].at = "capacity" /\ busy[h].m \in Machines
        /\ \A g \in Hosts : g # h => busy'[g] = busy[g]
    BY <1>0, <2>1, Advanced
  <2>3. QED
    BY <1>0, <2>1, <2>2, Forgotten DEF Handling
<1>24. ASSUME NEW h \in Hosts, ReportLost(h) PROVE RecordInv'
  <2>1. /\ busy[h] # NoTask /\ ~Handling(h, "booted") /\ UNCHANGED <<local, workers, orphans>>
        /\ Advance(h, "capacity")
    BY <1>24 DEF ReportLost, Handling
  <2>2. ~Handling(h, "booted")' /\ ~Handling(h, "killed")'
        /\ \A g \in Hosts : g # h => busy'[g] = busy[g]
    BY <1>0, <2>1, Advanced DEF Handling
  <2>3. QED
    BY <1>0, <2>1, <2>2, RecordKept
<1>25. ASSUME NEW h \in Hosts, AdvertiseLost(h) PROVE RecordInv'
  <2>1. /\ ~Handling(h, "booted") /\ UNCHANGED <<local, workers, orphans>>
        /\ busy'[h] = NoTask /\ \A g \in Hosts : g # h => busy'[g] = busy[g]
    BY <1>25, <1>0 DEF AdvertiseLost, Handling, TypeOK
  <2>2. ~Handling(h, "booted")' /\ ~Handling(h, "killed")'
    BY <2>1 DEF Handling
  <2>3. QED
    BY <1>0, <2>1, <2>2, RecordKept
<1>26. ASSUME ControllerRestart PROVE RecordInv'
  BY <1>26, <1>k DEF ControllerRestart
<1>27. ASSUME NEW h \in Hosts, SessionBreaks(h) PROVE RecordInv'
  BY <1>27, <1>k DEF SessionBreaks
<1>28. ASSUME NEW h \in Hosts, HeartbeatFails(h) PROVE RecordInv'
  BY <1>28, <1>k DEF HeartbeatFails
<1>29. ASSUME NEW h \in Hosts, AgentRestart(h) PROVE RecordInv'
  <2>1. /\ UNCHANGED <<local, workers>> /\ Orphaned(h)
        /\ busy'[h] = NoTask /\ \A g \in Hosts : g # h => busy'[g] = busy[g]
    BY <1>29, <1>0 DEF AgentRestart, TypeOK
  <2>2. QED
    BY <1>0, <2>1, Forgotten DEF Handling
<1>30. ASSUME NEW h \in Hosts, HostGone(h) PROVE RecordInv'
  <2>1. /\ workers'[h] = {} /\ local' = local
        /\ \A g \in Hosts : g # h => /\ workers'[g] = workers[g]
                                     /\ busy'[g] = busy[g] /\ orphans'[g] = orphans[g]
    BY <1>30, <1>0 DEF HostGone, TypeOK
  <2>2. QED
    BY <2>1 DEF RecordInv, Booting, Killed, Handling
<1>31. ASSUME NEW h \in Hosts, NEW m \in Machines, WorkerDies(h, m) PROVE RecordInv'
  <2>1. /\ \A g \in Hosts : \A x \in workers'[g] :
               x \in workers[g] /\ (x \in orphans[g] => x \in orphans'[g])
        /\ UNCHANGED <<busy, local>>
    BY <1>31, <1>0 DEF WorkerDies, TypeOK
  <2>2. QED
    BY <2>1 DEF RecordInv, Booting, Killed, Handling
<1>32. ASSUME PassFails PROVE RecordInv'
  BY <1>32, <1>k DEF PassFails
<1>90. CASE UNCHANGED vars
  BY <1>90, <1>k DEF vars
<1>91. QED
  BY <1>1, <1>2, <1>3, <1>4, <1>5, <1>6, <1>7, <1>8, <1>9, <1>10, <1>11,
     <1>12, <1>13, <1>14, <1>15, <1>16, <1>17, <1>18, <1>19, <1>20, <1>21,
     <1>22, <1>23, <1>24, <1>25, <1>26, <1>27, <1>28, <1>29, <1>30, <1>31,
     <1>32, <1>90 DEF Next, User, LoopStep, AgentStep, AgentTrouble, Failure

(* main.rs:298-349: whatever fails, the agent and its redb file included,    *)
(* between two assignments and after any restart an agent has every worker   *)
(* of its host on record, but those it was killed, or failed to write its    *)
(* store, between booting and recording (main.rs:327-330).                   *)
THEOREM EveryWorkerRecorded == Spec => []WorkersRecorded
<1>1. Init => TypedInv /\ RecordInv
  BY InvariantStart DEF IInv, Init, RecordInv
<1>2. TypedInv /\ RecordInv /\ [Next]_vars => (TypedInv /\ RecordInv)'
  BY TypedStep, RecordStep
<1>3. TypedInv /\ RecordInv => WorkersRecorded
  BY DEF RecordInv, WorkersRecorded, Booting, Handling
<1>4. QED
  BY <1>1, <1>2, <1>3, PTL DEF Spec
===============================================================================
