------------------------- MODULE ClusterSnapshotProofs -------------------------
(***************************************************************************)
(* Proofs about Worker, for any number of vCPUs and control connections,   *)
(* with and without panics, and about ClusterSnapshot, for any number of   *)
(* requests and other clients too.  The composition implements module      *)
(* Worker, so what is shown of the worker holds in it; the rest is an      *)
(* invariant that follows the worker's "ok" on its way to the table.       *)
(***************************************************************************)
EXTENDS ClusterSnapshot, TLAPS

-------------------------------------------------------------------------------
(* The worker process. *)

(* The mutex is held by exactly the thread whose program counter says so. *)
LockInv ==
    /\ lock = "control" <=> control \in Holding
    /\ lock = "reaper" <=> reaper = "join"

(* How many barriers of the operation are left, where. *)
BarrierInv ==
    /\ control \in {"lock", "dir", "run"} => barriers \in 1..2
    /\ control = "parked" => barriers \in 0..1

(* A connection is served once: it is idle, waiting in the backlog, the one  *)
(* in hand, or over.                                                         *)
Queued(c) == \E i \in 1..Len(backlog) : backlog[i] = c
QueueInv ==
    /\ control \notin {"accept", "dead"} => cur \in Clients
    /\ \A i, j \in 1..Len(backlog) : backlog[i] = backlog[j] => i = j
    /\ \A c \in Clients : Queued(c) => c # cur /\ conn[c] \notin Answers \union {"idle"}
    /\ \A c \in Clients : Queued(c) \/ conn[c] = "idle" => dir[c] = "none"
    /\ \A c \in Clients : conn[c] \in Answers \union {"idle"} => c # cur

(* What the answer in hand says of the directory in hand. *)
AnswerInv ==
    /\ control \in {"read", "lock", "dir", "run", "parked", "meta"} =>
           dir[cur] # "complete"
    /\ control \in {"unlock", "reply"} => (resp = "ok" <=> dir[cur] = "complete")

IInv == TypeOK /\ LockInv /\ BarrierInv /\ QueueInv /\ AnswerInv /\ ToldTheTruth

LEMMA WorkerInit == Init => IInv
<1> SUFFICES ASSUME Init PROVE IInv
  OBVIOUS
<1> USE WorkerAssumption DEF Init, Holding, ControlPcs, ReaperPcs, Answers, ConnStates
<1>1. TypeOK
  <2>1. poweredOff \in BOOLEAN /\ poisoned \in BOOLEAN /\ alive \in BOOLEAN
    OBVIOUS
  <2>2. off \subseteq Vcpus /\ cur \in Clients \union {NoClient}
    OBVIOUS
  <2>3. conn \in [Clients -> ConnStates] /\ dir \in [Clients -> {"none", "partial", "complete"}]
    OBVIOUS
  <2>4. backlog \in Seq(Clients) /\ barriers \in 0..2
    OBVIOUS
  <2>5. resp \in Answers /\ reaper \in ReaperPcs /\ control \in ControlPcs
        /\ lock \in {"free", "reaper", "control"}
    OBVIOUS
  <2> QED BY <2>1, <2>2, <2>3, <2>4, <2>5 DEF TypeOK
<1>2. LockInv /\ BarrierInv /\ AnswerInv /\ ToldTheTruth
  BY DEF LockInv, BarrierInv, AnswerInv, ToldTheTruth
<1>3. QueueInv
  BY DEF QueueInv, Queued
<1> QED BY <1>1, <1>2, <1>3 DEF IInv

LEMMA ProcessEndsKeeps ==
  ASSUME IInv, ProcessEnds, UNCHANGED <<guest, mutex, reaper, serving, backlog, dir>>
  PROVE  IInv'
<1> USE DEF IInv, TypeOK, LockInv, BarrierInv, QueueInv, Queued, AnswerInv,
        ToldTheTruth, Holding, ControlPcs, ReaperPcs, Answers, ConnStates
<1>1. UNCHANGED <<off, poweredOff, lock, poisoned, reaper, control, cur, resp,
                  barriers, backlog, dir>>
  BY DEF guest, mutex, serving
<1>2. alive' \in BOOLEAN /\ conn' \in [Clients -> ConnStates]
  BY DEF ProcessEnds
<1>3. \A c \in Clients :
        conn'[c] = IF conn[c] \in {"connected", "sent"} THEN "eof" ELSE conn[c]
  BY DEF ProcessEnds
<1> QED BY <1>1, <1>2, <1>3

LEMMA WorkerStep == IInv /\ [Next]_vars => IInv'
<1> SUFFICES ASSUME IInv, [Next]_vars PROVE IInv'
  OBVIOUS
<1> USE WorkerAssumption DEF IInv, TypeOK, LockInv, BarrierInv, QueueInv, Queued, AnswerInv,
        ToldTheTruth, Holding, ControlPcs, ReaperPcs, Answers, ConnStates
<1>1. ASSUME NEW v \in Vcpus, VcpuEnds(v) PROVE IInv'
  <2>1. off' \subseteq Vcpus /\ poweredOff' \in BOOLEAN
    BY <1>1 DEF VcpuEnds
  <2>2. UNCHANGED <<lock, poisoned, reaper, control, cur, resp, barriers, conn,
                    backlog, dir, alive>>
    BY <1>1 DEF VcpuEnds, mutex, serving, clients
  <2>3. TypeOK'
    BY <2>1, <2>2
  <2>4. LockInv' /\ BarrierInv' /\ QueueInv' /\ AnswerInv' /\ ToldTheTruth'
    BY <2>2
  <2> QED BY <2>3, <2>4
<1>2. CASE Killed
  BY <1>2, ProcessEndsKeeps DEF Killed
<1>3. ASSUME NEW c \in Clients, Connect(c) PROVE IInv'
  <2>1. CASE alive /\ control # "dead"
    BY <1>3, <2>1, SMTT(30) DEF Connect, guest, mutex, serving, clients
  <2>2. CASE ~(alive /\ control # "dead")
    BY <1>3, <2>2 DEF Connect, guest, mutex, serving, clients
  <2> QED BY <2>1, <2>2
<1>4. ASSUME NEW c \in Clients, Send(c) PROVE IInv'
  BY <1>4 DEF Send, guest, mutex, serving, clients
<1>5. ASSUME NEW c \in Clients, GivesUp(c) PROVE IInv'
  BY <1>5 DEF GivesUp, guest, mutex, serving, clients
<1>6. CASE Accept
  BY <1>6 DEF Accept, Control, guest, mutex, serving, clients
<1>7. CASE ReadLine
  BY <1>7 DEF ReadLine, Control, guest, mutex, serving, clients
<1>8. CASE ReadGone
  BY <1>8 DEF ReadGone, guest, mutex, serving, clients
<1>9. CASE Lock
  BY <1>9 DEF Lock, Control, guest, mutex, serving, clients
<1>10. CASE OperationFails
  BY <1>10 DEF OperationFails, guest, mutex, serving, clients
<1>11. CASE NewSnapshotDir
  BY <1>11 DEF NewSnapshotDir, Control, guest, mutex, serving, clients
<1>12. CASE Quiesce
  BY <1>12 DEF Quiesce, Control, guest, mutex, serving, clients
<1>13. CASE Release
  BY <1>13 DEF Release, guest, mutex, serving, clients
<1>14. CASE WriteMetadata
  BY <1>14 DEF WriteMetadata, Control, guest, mutex, serving, clients
<1>15. CASE Unlock
  BY <1>15 DEF Unlock, Control, guest, mutex, serving, clients
<1>16. CASE Reply
  BY <1>16 DEF Reply, Control, guest, mutex, serving, clients
<1>17. CASE Panic
  <2> USE <1>17 DEF Panic, guest, mutex, serving, clients
  <2>1. TypeOK'
    <3>1. backlog' \in Seq(Clients) /\ conn' \in [Clients -> ConnStates]
      OBVIOUS
    <3> QED BY <3>1
  <2>2. LockInv' /\ BarrierInv' /\ AnswerInv'
    OBVIOUS
  <2>3. \A c \in Clients : conn'[c] \in {conn[c], "eof"}
    OBVIOUS
  <2>4. QueueInv'
    <3>1. Len(backlog') = 0
      OBVIOUS
    <3>2. \A c \in Clients : ~Queued(c)'
      BY <3>1
    <3> QED BY <3>1, <3>2, <2>3
  <2>5. ToldTheTruth'
    BY <2>3
  <2> QED BY <2>1, <2>2, <2>4, <2>5
<1>18. CASE ReaperSeesOff
  BY <1>18 DEF ReaperSeesOff, guest, mutex, serving, clients
<1>19. CASE ReaperLock
  BY <1>19 DEF ReaperLock, guest, mutex, serving, clients
<1>20. CASE ReaperJoined
  BY <1>20, ProcessEndsKeeps DEF ReaperJoined
<1>21. CASE ReaperPanics
  BY <1>21, ProcessEndsKeeps DEF ReaperPanics
<1>22. CASE UNCHANGED vars
  BY <1>22 DEF vars, guest, mutex, serving, clients
<1> QED
  BY <1>1, <1>2, <1>3, <1>4, <1>5, <1>6, <1>7, <1>8, <1>9, <1>10, <1>11, <1>12,
     <1>13, <1>14, <1>15, <1>16, <1>17, <1>18, <1>19, <1>20, <1>21, <1>22
     DEF Next, ControlStep, ReaperStep

THEOREM WorkerInvariant == Spec => []IInv
BY WorkerInit, WorkerStep, PTL DEF Spec

(* worker.rs:146-300: whatever the clients, the guest and the two threads    *)
(* do, every variable keeps its type and an operation crosses its barriers   *)
(* and no more.                                                              *)
THEOREM WorkerTyped == Spec => []TypeOK
<1>1. IInv => TypeOK
  BY DEF IInv
<1> QED BY <1>1, WorkerInvariant, PTL

(* worker.rs:255-300: OK means the snapshot is complete and ERR that it is   *)
(* not, for every client.                                                    *)
THEOREM ClientsToldTheTruth == Spec => []ToldTheTruth
<1>1. IInv => ToldTheTruth
  BY DEF IInv
<1> QED BY <1>1, WorkerInvariant, PTL

(* worker.rs:231-247: the reaper joins only when no operation is in flight,  *)
(* because both hold the machine lock.                                       *)
THEOREM PowerOffCutsNothing == Spec => []NoSnapshotCut
<1>1. IInv => NoSnapshotCut
  BY DEF IInv, TypeOK, LockInv, NoSnapshotCut
<1> QED BY <1>1, WorkerInvariant, PTL

-------------------------------------------------------------------------------
(* The composition. *)

(* Wherever an "ok" is on its way back, the directory is complete. *)
OkInv ==
    \A r \in Requests :
        /\ result[r] = "ok" => dir[r] = "complete"
        /\ inbox[r] = "ok" => dir[r] = "complete"
        /\ caller[r] = "record" => dir[r] = "complete"
        /\ r \in rows \/ told[r] = "created" => dir[r] = "complete"

(* A request not dispatched is unknown to the agent, and one unknown to the  *)
(* agent is unknown to the worker.                                           *)
Enqueued(r) == \E i \in 1..Len(queue) : queue[i] = r
FreshInv ==
    \A r \in Requests :
        /\ caller[r] \in {"idle", "dispatch"} => task[r] = "none" /\ ~Enqueued(r)
        /\ told[r] = "unavailable" =>
               caller[r] \in {"finish", "done"} /\ task[r] = "none" /\ ~Enqueued(r)
        /\ task[r] = "none" => conn[r] = "idle"

(* An entry whose result has been delivered is gone. *)
EntryInv ==
    \A r \in Requests :
        /\ inbox[r] # "none" \/ caller[r] = "record" => r \notin pending
        /\ caller[r] = "idle" => inbox[r] = "none"

CInv == ClusterTypeOK /\ OkInv /\ FreshInv /\ EntryInv /\ EntriesOwned

-------------------------------------------------------------------------------
(* The worker in the composition. *)

LEMMA ClusterStepIsWorkerStep == [ClusterNext]_cvars => [Next]_vars
<1> SUFFICES ASSUME [ClusterNext]_cvars PROVE [Next]_vars
  OBVIOUS
<1>1. ASSUME NEW r \in Requests, AskWorker(r) PROVE Next
  BY <1>1, ClusterAssumption DEF AskWorker, Next
<1>2. CASE WorkerActs
  BY <1>2 DEF WorkerActs, Next
<1>3. ASSUME NEW r \in Requests,
             BeginSnapshot(r) \/ DropHandler(r) \/ DeleteRow(r) \/ CallerStep(r)
      PROVE  UNCHANGED vars
  BY <1>3 DEF BeginSnapshot, DropHandler, DeleteRow, CallerStep, DispatchTask,
     DispatchTaskFails, Receive, ResultTimesOut, FinishSnapshot, RecordRow, RecordRowFails
<1>4. ASSUME NEW r \in Requests, NotRunning(r) \/ Hear(r) \/ ReportResult(r) \/ ReportLost(r)
      PROVE  UNCHANGED vars
  BY <1>4 DEF NotRunning, Hear, ReportResult, ReportLost
<1>5. ASSUME TakeSnapshotTask \/ ForgetPid \/ OpenStream \/ NoticeBreak \/ ControllerRestarts
      PROVE  UNCHANGED vars
  BY <1>5 DEF TakeSnapshotTask, ForgetPid, OpenStream, NoticeBreak, ControllerRestarts
<1>6. ASSUME NEW died \in BOOLEAN, BreakStream(died) PROVE UNCHANGED vars
  BY <1>6 DEF BreakStream
<1>7. CASE UNCHANGED cvars
  BY <1>7 DEF cvars
<1> QED BY <1>1, <1>2, <1>3, <1>4, <1>5, <1>6, <1>7 DEF ClusterNext, TaskStep

(* worker.rs, control.rs: with the agent's tasks as its clients the worker   *)
(* does nothing that module Worker does not allow.                           *)
THEOREM ClusterImplementsWorker == ClusterSpec => Spec
<1>1. ClusterInit => Init
  BY DEF ClusterInit
<1> QED BY <1>1, ClusterStepIsWorkerStep, PTL DEF ClusterSpec, Spec

(* What the steps of the worker leave alone: a complete directory stays, and *)
(* a client that has not connected stays away.                               *)
LEMMA CompleteStays ==
  ASSUME IInv, [Next]_vars, NEW c \in Clients, dir[c] = "complete"
  PROVE  dir'[c] = "complete"
<1> USE DEF guest, mutex, serving, clients
<1>t. /\ dir \in [Clients -> {"none", "partial", "complete"}]
      /\ control \in {"dir", "meta"} => cur \in Clients
      /\ control = "dir" => dir[cur] # "complete"
  BY DEF IInv, TypeOK, QueueInv, AnswerInv
<1>1. CASE NewSnapshotDir
  BY <1>1, <1>t DEF NewSnapshotDir, Control
<1>2. CASE WriteMetadata
  BY <1>2, <1>t DEF WriteMetadata, Control
<1>3. CASE UNCHANGED dir
  BY <1>3
<1>4. NewSnapshotDir \/ WriteMetadata \/ UNCHANGED dir
  BY DEF Next, vars, VcpuEnds, Killed, Connect, Send, GivesUp, ControlStep, Accept, ReadLine,
     ReadGone, Lock, OperationFails, Quiesce, Release, Unlock, Reply, Panic, ReaperStep,
     ReaperSeesOff, ReaperLock, ReaperJoined, ReaperPanics
<1> QED BY <1>1, <1>2, <1>3, <1>4

LEMMA IdleStays ==
  ASSUME IInv, WorkerActs, NEW c \in Requests, conn[c] = "idle"
  PROVE  conn'[c] = "idle"
<1> USE ClusterAssumption DEF guest, mutex, serving, clients
<1>t. conn \in [Clients -> ConnStates] /\ c \in Clients
  BY DEF IInv, TypeOK
<1>1. ASSUME NEW d \in Clients, Send(d) PROVE conn'[c] = "idle"
  BY <1>1, <1>t DEF Send
<1>2. ASSUME NEW d \in Clients, GivesUp(d) PROVE conn'[c] = "idle"
  BY <1>2, <1>t DEF GivesUp
<1>3. ASSUME NEW d \in Clients \ Requests, Connect(d) PROVE conn'[c] = "idle"
  <2>1. c # d
    OBVIOUS
  <2> QED BY <1>3, <1>t, <2>1 DEF Connect
<1>4. CASE Killed \/ ReaperJoined \/ ReaperPanics
  BY <1>4, <1>t DEF Killed, ReaperJoined, ReaperPanics, ProcessEnds
<1>5. CASE Panic
  BY <1>5, <1>t DEF Panic
<1>6. CASE Reply
  BY <1>6, <1>t DEF Reply, Control
<1>7. CASE UNCHANGED conn
  BY <1>7
<1>8. \/ Killed \/ ReaperJoined \/ ReaperPanics \/ Panic \/ Reply \/ UNCHANGED conn
      \/ (\E d \in Clients : Send(d) \/ GivesUp(d)) \/ (\E d \in Clients \ Requests : Connect(d))
  BY DEF WorkerActs, VcpuEnds, ControlStep, Accept, ReadLine, ReadGone, Lock, NewSnapshotDir,
     OperationFails, Quiesce, Release, WriteMetadata, Unlock, ReaperStep, ReaperSeesOff,
     ReaperLock
<1> QED BY <1>1, <1>2, <1>3, <1>4, <1>5, <1>6, <1>7, <1>8

-------------------------------------------------------------------------------
(* The invariant. *)

LEMMA ClusterBegins == ClusterInit => CInv
<1> SUFFICES ASSUME ClusterInit PROVE CInv
  OBVIOUS
<1> USE ClusterAssumption DEF ClusterInit
<1>1. ClusterTypeOK
  <2>1. pid \in BOOLEAN /\ queue \in Seq(Requests) /\ Len(queue) <= TaskCap
    OBVIOUS
  <2> QED BY <2>1 DEF ClusterTypeOK, Results
<1>2. OkInv /\ EntryInv /\ EntriesOwned
  BY DEF OkInv, EntryInv, EntriesOwned
<1>3. FreshInv
  BY DEF FreshInv, Enqueued, Init
<1> QED BY <1>1, <1>2, <1>3 DEF CInv

(* Typing, action by action. *)
LEMMA ClusterTypes == ClusterTypeOK /\ [ClusterNext]_cvars => ClusterTypeOK'
<1> SUFFICES ASSUME ClusterTypeOK, [ClusterNext]_cvars PROVE ClusterTypeOK'
  OBVIOUS
<1> USE ClusterAssumption DEF ClusterTypeOK, Results, Answers, front, session, agent
<1>1. ASSUME NEW r \in Requests, BeginSnapshot(r) \/ DispatchTaskFails(r) \/ ResultTimesOut(r)
             \/ FinishSnapshot(r) \/ RecordRow(r) \/ RecordRowFails(r)
      PROVE  ClusterTypeOK'
  BY <1>1 DEF BeginSnapshot, DispatchTaskFails, ResultTimesOut, FinishSnapshot, RecordRow,
     RecordRowFails, Goto, Respond
<1>2. ASSUME NEW r \in Requests, DispatchTask(r) PROVE ClusterTypeOK'
  BY <1>2 DEF DispatchTask, Goto
<1>3. ASSUME NEW r \in Requests, Receive(r) PROVE ClusterTypeOK'
  BY <1>3 DEF Receive, Goto, Respond
<1>4. ASSUME NEW r \in Requests, DropHandler(r) PROVE ClusterTypeOK'
  <2>1. rows' \subseteq Requests
    BY <1>4 DEF DropHandler
  <2> QED BY <1>4, <2>1 DEF DropHandler, Respond
<1>13. ASSUME NEW r \in Requests, DeleteRow(r) PROVE ClusterTypeOK'
  BY <1>13 DEF DeleteRow
<1>5. ASSUME NEW r \in Requests, NotRunning(r) \/ AskWorker(r) \/ Hear(r) \/ ReportResult(r)
             \/ ReportLost(r)
      PROVE  ClusterTypeOK'
  BY <1>5, SMTT(30) DEF NotRunning, AskWorker, Hear, ReportResult, ReportLost, Task
<1>6. CASE TakeSnapshotTask
  BY <1>6 DEF TakeSnapshotTask
<1>7. CASE ForgetPid
  BY <1>7 DEF ForgetPid
<1>8. CASE OpenStream \/ NoticeBreak
  <2>1. queue' = <<>>
    BY <1>8 DEF OpenStream, NoticeBreak
  <2>2. queue' \in Seq(Requests) /\ Len(queue') <= TaskCap
    BY <2>1
  <2>3. UNCHANGED <<front, agent>> /\ stream' \in {"up", "half", "down"}
    BY <1>8 DEF OpenStream, NoticeBreak
  <2> QED BY <2>2, <2>3
<1>9. ASSUME NEW died \in BOOLEAN, BreakStream(died) PROVE ClusterTypeOK'
  BY <1>9 DEF BreakStream
<1>10. CASE ControllerRestarts
  BY <1>10 DEF ControllerRestarts
<1>11. CASE WorkerActs
  BY <1>11 DEF WorkerActs
<1>12. CASE UNCHANGED cvars
  BY <1>12 DEF cvars
<1> QED BY <1>1, <1>2, <1>3, <1>4, <1>5, <1>6, <1>7, <1>8, <1>9, <1>10, <1>11, <1>12, <1>13
        DEF ClusterNext, CallerStep, TaskStep

LEMMA OkStep == IInv /\ CInv /\ [ClusterNext]_cvars => OkInv'
<1> SUFFICES ASSUME IInv, CInv, [ClusterNext]_cvars, NEW q \in Requests
             PROVE  /\ result'[q] = "ok" => dir'[q] = "complete"
                    /\ inbox'[q] = "ok" => dir'[q] = "complete"
                    /\ caller'[q] = "record" => dir'[q] = "complete"
                    /\ q \in rows' \/ told'[q] = "created" => dir'[q] = "complete"
  BY DEF OkInv
<1> USE DEF front, session, agent
<1>t. /\ result \in [Requests -> {"none", "ok", "err"}] /\ inbox \in [Requests -> {"none", "ok", "err"}]
      /\ caller \in [Requests -> {"idle", "dispatch", "waiting", "finish", "record", "done"}]
      /\ told \in [Requests -> {"none", "created", "failed", "unavailable", "timeout", "dropped"}]
      /\ rows \subseteq Requests
  BY DEF CInv, ClusterTypeOK, Results, Answers
<1>o. /\ result[q] = "ok" => dir[q] = "complete"
      /\ inbox[q] = "ok" => dir[q] = "complete"
      /\ caller[q] = "record" => dir[q] = "complete"
      /\ q \in rows \/ told[q] = "created" => dir[q] = "complete"
  BY DEF CInv, OkInv
<1>d. dir[q] = "complete" => dir'[q] = "complete"
  BY ClusterStepIsWorkerStep, CompleteStays, ClusterAssumption
<1>k. conn[q] = "ok" => dir[q] = "complete"
  BY ClusterAssumption DEF IInv, ToldTheTruth
<1> HIDE DEF front, session, agent
<1>1. ASSUME NEW r \in Requests, BeginSnapshot(r) \/ DispatchTask(r) \/ DispatchTaskFails(r)
             \/ ResultTimesOut(r) \/ FinishSnapshot(r)
      PROVE  /\ result' = result /\ inbox' = inbox /\ rows' = rows
             /\ caller'[q] \in {caller[q], "dispatch", "waiting", "finish", "done"}
             /\ told'[q] \in {told[q], "unavailable", "timeout"}
  BY <1>1, <1>t DEF BeginSnapshot, DispatchTask, DispatchTaskFails, ResultTimesOut,
     FinishSnapshot, Goto, Respond, agent
<1>2. ASSUME NEW r \in Requests, Receive(r)
      PROVE  /\ result' = result /\ rows' = rows
             /\ inbox'[q] \in {inbox[q], "none"} /\ told'[q] \in {told[q], "failed"}
             /\ caller'[q] = "record" => caller[q] = "record" \/ inbox[q] = "ok"
  BY <1>2, <1>t DEF Receive, Goto, Respond, agent
<1>3. ASSUME NEW r \in Requests, RecordRow(r) \/ RecordRowFails(r)
      PROVE  /\ result' = result /\ inbox' = inbox
             /\ caller'[q] \in {caller[q], "done"}
             /\ q \in rows' \/ told'[q] = "created" =>
                    q \in rows \/ told[q] = "created" \/ caller[q] = "record"
  BY <1>3, <1>t DEF RecordRow, RecordRowFails, Goto, Respond, agent
<1>4. ASSUME NEW r \in Requests, DropHandler(r)
      PROVE  /\ result' = result
             /\ inbox'[q] \in {inbox[q], "none"} /\ caller'[q] \in {caller[q], "done"}
             /\ q \in rows' \/ told'[q] = "created" =>
                    q \in rows \/ told[q] = "created" \/ caller[q] = "record"
  BY <1>4, <1>t DEF DropHandler, Respond, agent
<1>5. ASSUME NEW r \in Requests, DeleteRow(r)
      PROVE  /\ result' = result /\ inbox' = inbox /\ caller' = caller /\ told' = told
             /\ rows' \subseteq rows
  BY <1>5 DEF DeleteRow, agent
<1>6. ASSUME NEW r \in Requests, NotRunning(r) \/ Hear(r)
      PROVE  /\ UNCHANGED front
             /\ result'[q] = "ok" => result[q] = "ok" \/ conn[q] = "ok"
  BY <1>6, <1>t DEF NotRunning, Hear
<1>7. ASSUME NEW r \in Requests, ReportResult(r)
      PROVE  /\ caller' = caller /\ told' = told /\ rows' = rows
             /\ result'[q] \in {result[q], "none"} /\ inbox'[q] \in {inbox[q], result[q]}
  BY <1>7, <1>t DEF ReportResult
<1>8. ASSUME NEW r \in Requests, ReportLost(r)
      PROVE  UNCHANGED front /\ result'[q] \in {result[q], "none"}
  BY <1>8, <1>t DEF ReportLost
<1>9. ASSUME NEW died \in BOOLEAN, BreakStream(died)
      PROVE  UNCHANGED front /\ result'[q] \in {result[q], "none"}
  BY <1>9, <1>t DEF BreakStream
<1>10. ASSUME ControllerRestarts
       PROVE  /\ result' = result
              /\ inbox'[q] = "none" /\ caller'[q] \in {"idle", "done"}
              /\ q \in rows' \/ told'[q] = "created" =>
                     q \in rows \/ told[q] = "created" \/ caller[q] = "record"
  BY <1>10, <1>t DEF ControllerRestarts, agent
<1>11. ASSUME \/ TakeSnapshotTask \/ ForgetPid \/ OpenStream \/ NoticeBreak \/ WorkerActs
              \/ (\E r \in Requests : AskWorker(r)) \/ UNCHANGED cvars
       PROVE  UNCHANGED front /\ result' = result
  BY <1>11 DEF TakeSnapshotTask, ForgetPid, OpenStream, NoticeBreak, WorkerActs, AskWorker,
     cvars, agent
<1> HIDE <1>t
<1> USE <1>o, <1>d, <1>k
<1>a. ASSUME NEW r \in Requests, BeginSnapshot(r) \/ DropHandler(r) \/ DeleteRow(r) \/ CallerStep(r)
      PROVE  /\ result'[q] = "ok" => dir'[q] = "complete"
             /\ inbox'[q] = "ok" => dir'[q] = "complete"
             /\ caller'[q] = "record" => dir'[q] = "complete"
             /\ q \in rows' \/ told'[q] = "created" => dir'[q] = "complete"
  BY <1>a, <1>1, <1>2, <1>3, <1>4, <1>5 DEF CallerStep
<1>b. ASSUME NEW r \in Requests, TaskStep(r)
      PROVE  /\ result'[q] = "ok" => dir'[q] = "complete"
             /\ inbox'[q] = "ok" => dir'[q] = "complete"
             /\ caller'[q] = "record" => dir'[q] = "complete"
             /\ q \in rows' \/ told'[q] = "created" => dir'[q] = "complete"
  BY <1>b, <1>6, <1>7, <1>8, <1>11 DEF TaskStep, front
<1> QED BY <1>a, <1>b, <1>9, <1>10, <1>11 DEF ClusterNext, front

LEMMA FreshStep == IInv /\ CInv /\ [ClusterNext]_cvars => FreshInv'
<1> SUFFICES ASSUME IInv, CInv, [ClusterNext]_cvars PROVE FreshInv'
  OBVIOUS
<1> DEFINE Fresh(q) ==
        /\ caller[q] \in {"idle", "dispatch"} => task[q] = "none" /\ ~Enqueued(q)
        /\ told[q] = "unavailable" =>
               caller[q] \in {"finish", "done"} /\ task[q] = "none" /\ ~Enqueued(q)
        /\ task[q] = "none" => conn[q] = "idle"
<1> SUFFICES ASSUME NEW q \in Requests PROVE Fresh(q)'
  BY DEF FreshInv
<1>t. /\ caller \in [Requests -> {"idle", "dispatch", "waiting", "finish", "record", "done"}]
      /\ told \in [Requests -> {"none", "created", "failed", "unavailable", "timeout", "dropped"}]
      /\ task \in [Requests -> {"none", "resolve", "asking", "report", "over"}]
      /\ queue \in Seq(Requests)
  BY DEF CInv, ClusterTypeOK
<1>f. Fresh(q)
  BY DEF CInv, FreshInv
<1>1. ASSUME NEW r \in Requests, BeginSnapshot(r) \/ FinishSnapshot(r) PROVE Fresh(q)'
  <2>1. UNCHANGED <<told, queue, task, conn>>
    BY <1>1 DEF BeginSnapshot, FinishSnapshot, session, agent, vars, clients
  <2>2. \/ caller'[q] = caller[q] \/ (caller[q] = "idle" /\ caller'[q] = "dispatch")
        \/ caller'[q] = "done"
    BY <1>1, <1>t DEF BeginSnapshot, FinishSnapshot, Goto
  <2>3. told[q] = "unavailable" => caller'[q] \in {"finish", "done"}
    BY <1>f, <2>2
  <2> QED BY <1>f, <2>1, <2>2, <2>3 DEF Enqueued
<1>2. ASSUME NEW r \in Requests, DispatchTask(r) PROVE Fresh(q)'
  <2>1. /\ UNCHANGED <<told, task, conn>> /\ caller[r] = "dispatch"
        /\ queue' = Append(queue, r) /\ caller' = [caller EXCEPT ![r] = "waiting"]
    BY <1>2 DEF DispatchTask, Goto, agent, vars, clients
  <2>2. CASE q = r
    BY <1>f, <1>t, <2>1, <2>2
  <2>3. CASE q # r
    <3>1. caller'[q] = caller[q] /\ (Enqueued(q)' => Enqueued(q))
      BY <1>t, <2>1, <2>3 DEF Enqueued
    <3> QED BY <1>f, <2>1, <3>1
  <2> QED BY <2>2, <2>3
<1>3. ASSUME NEW r \in Requests, DispatchTaskFails(r) PROVE Fresh(q)'
  <2>1. /\ UNCHANGED <<queue, task, conn>> /\ caller[r] = "dispatch"
        /\ told' = [told EXCEPT ![r] = "unavailable"]
        /\ caller' = [caller EXCEPT ![r] = "finish"]
    BY <1>3 DEF DispatchTaskFails, Goto, Respond, session, agent, vars, clients
  <2> QED BY <1>f, <1>t, <2>1 DEF Enqueued
<1>4. ASSUME NEW r \in Requests, Receive(r) \/ ResultTimesOut(r) \/ RecordRow(r)
             \/ RecordRowFails(r) \/ DropHandler(r)
      PROVE  Fresh(q)'
  <2>1. UNCHANGED <<queue, task, conn>>
    BY <1>4 DEF Receive, ResultTimesOut, RecordRow, RecordRowFails, DropHandler, session, agent,
       vars, clients
  <2>2. \/ caller'[q] = caller[q] /\ told'[q] = told[q]
        \/ /\ caller'[q] \in {"record", "done", "finish"}
           /\ told'[q] \in {"failed", "timeout", "created", "dropped"}
        \/ caller[q] = "waiting" /\ caller'[q] = "record" /\ told'[q] = told[q]
    BY <1>4, <1>t DEF Receive, ResultTimesOut, RecordRow, RecordRowFails, DropHandler, Goto,
       Respond
  <2> QED BY <1>f, <2>1, <2>2 DEF Enqueued
<1>5. ASSUME NEW r \in Requests, DeleteRow(r) PROVE Fresh(q)'
  BY <1>5, <1>f DEF DeleteRow, Enqueued, session, agent, vars, clients
<1>6. ASSUME NEW r \in Requests, NotRunning(r) \/ AskWorker(r) \/ Hear(r) \/ ReportResult(r)
             \/ ReportLost(r)
      PROVE  Fresh(q)'
  <2>1. UNCHANGED <<caller, told, queue>>
    BY <1>6 DEF NotRunning, AskWorker, Hear, ReportResult, ReportLost, front, session
  <2>2. task[q] = "none" => task'[q] = "none"
    BY <1>6, <1>t DEF NotRunning, AskWorker, Hear, ReportResult, ReportLost, Task
  <2>3. task'[q] = "none" => task[q] = "none" /\ q # r
    BY <1>6, <1>t DEF NotRunning, AskWorker, Hear, ReportResult, ReportLost, Task
  <2>4. q # r => conn'[q] = conn[q]
    <3>1. conn \in [Clients -> ConnStates]
      BY DEF IInv, TypeOK
    <3> QED BY <1>6, <3>1, ClusterAssumption DEF NotRunning, AskWorker, Hear, ReportResult,
            ReportLost, Connect, vars, clients
  <2> QED BY <1>f, <2>1, <2>2, <2>3, <2>4 DEF Enqueued
<1>7. CASE TakeSnapshotTask
  <2>1. /\ UNCHANGED <<caller, told, conn>> /\ queue # <<>> /\ queue' = Tail(queue)
        /\ task' = [task EXCEPT ![Head(queue)] = "resolve"]
    BY <1>7 DEF TakeSnapshotTask, front, vars, clients
  <2>2. Enqueued(q)' => Enqueued(q)
    BY <1>t, <2>1 DEF Enqueued
  <2>3. CASE q = Head(queue)
    <3>1. Enqueued(q) /\ task'[q] = "resolve"
      BY <1>t, <2>1, <2>3 DEF Enqueued
    <3> QED BY <1>f, <2>1, <3>1
  <2>4. CASE q # Head(queue)
    <3>1. task'[q] = task[q]
      BY <1>t, <2>1, <2>4
    <3> QED BY <1>f, <2>1, <2>2, <3>1
  <2> QED BY <2>3, <2>4
<1>8. CASE OpenStream \/ NoticeBreak
  <2>1. UNCHANGED <<caller, told, task, conn>> /\ queue' = <<>>
    BY <1>8 DEF OpenStream, NoticeBreak, front, agent, vars, clients
  <2>2. ~Enqueued(q)'
    BY <2>1 DEF Enqueued
  <2> QED BY <1>f, <2>1, <2>2
<1>9. ASSUME NEW died \in BOOLEAN, BreakStream(died) PROVE Fresh(q)'
  <2>1. UNCHANGED <<caller, told, queue, conn>> /\ (task[q] = "none" <=> task'[q] = "none")
    BY <1>9, <1>t DEF BreakStream, front, vars, clients
  <2> QED BY <1>f, <2>1 DEF Enqueued
<1>10. CASE ControllerRestarts
  <2>1. UNCHANGED <<task, conn>> /\ queue' = <<>>
    BY <1>10 DEF ControllerRestarts, agent, vars, clients
  <2>2. ~Enqueued(q)'
    BY <2>1 DEF Enqueued
  <2>3. /\ caller'[q] = IF caller[q] = "idle" THEN "idle" ELSE "done"
        /\ told'[q] = IF caller[q] \in {"idle", "done"} THEN told[q] ELSE "dropped"
    BY <1>10, <1>t DEF ControllerRestarts
  <2> QED BY <1>f, <2>1, <2>2, <2>3
<1>11. CASE WorkerActs
  <2>1. UNCHANGED <<caller, told, task, queue>>
    BY <1>11 DEF WorkerActs, front, session, agent
  <2>2. conn[q] = "idle" => conn'[q] = "idle"
    BY <1>11, IdleStays
  <2> QED BY <1>f, <2>1, <2>2 DEF Enqueued
<1>12. CASE ForgetPid \/ UNCHANGED cvars
  BY <1>12, <1>f DEF ForgetPid, cvars, front, session, agent, vars, clients, Enqueued
<1> QED BY <1>1, <1>2, <1>3, <1>4, <1>5, <1>6, <1>7, <1>8, <1>9, <1>10, <1>11, <1>12
        DEF ClusterNext, CallerStep, TaskStep

LEMMA OwnedStep == CInv /\ [ClusterNext]_cvars => EntryInv' /\ EntriesOwned'
<1> SUFFICES ASSUME CInv, [ClusterNext]_cvars PROVE EntryInv' /\ EntriesOwned'
  OBVIOUS
<1> SUFFICES ASSUME NEW q \in Requests
             PROVE  /\ inbox'[q] # "none" \/ caller'[q] = "record" => q \notin pending'
                    /\ caller'[q] = "idle" => inbox'[q] = "none"
                    /\ q \in pending' => caller'[q] # "done" \/ told'[q] = "dropped"
  <2>t. ClusterTypeOK'
    BY ClusterTypes DEF CInv
  <2>1. pending' \subseteq Requests
    BY <2>t DEF ClusterTypeOK
  <2> QED BY <2>1 DEF EntryInv, EntriesOwned
<1> DEFINE Owned ==
        /\ inbox'[q] # "none" \/ caller'[q] = "record" => q \notin pending'
        /\ caller'[q] = "idle" => inbox'[q] = "none"
        /\ q \in pending' => caller'[q] # "done" \/ told'[q] = "dropped"
<1>t. /\ caller \in [Requests -> {"idle", "dispatch", "waiting", "finish", "record", "done"}]
      /\ told \in [Requests -> {"none", "created", "failed", "unavailable", "timeout", "dropped"}]
      /\ inbox \in [Requests -> {"none", "ok", "err"}]
      /\ pending \subseteq Requests
  BY DEF CInv, ClusterTypeOK, Results, Answers
<1>f. /\ inbox[q] # "none" \/ caller[q] = "record" => q \notin pending
      /\ caller[q] = "idle" => inbox[q] = "none"
      /\ q \in pending => caller[q] # "done" \/ told[q] = "dropped"
  BY DEF CInv, EntryInv, EntriesOwned
<1>1. ASSUME NEW r \in Requests, BeginSnapshot(r) PROVE Owned
  BY <1>1, <1>t, <1>f DEF BeginSnapshot, Goto
<1>2. ASSUME NEW r \in Requests, DispatchTask(r) \/ DispatchTaskFails(r) \/ ResultTimesOut(r)
      PROVE  Owned
  BY <1>2, <1>t, <1>f DEF DispatchTask, DispatchTaskFails, ResultTimesOut, Goto, Respond
<1>3. ASSUME NEW r \in Requests, Receive(r) PROVE Owned
  BY <1>3, <1>t, <1>f DEF Receive, Goto, Respond
<1>4. ASSUME NEW r \in Requests, FinishSnapshot(r) PROVE Owned
  BY <1>4, <1>t, <1>f DEF FinishSnapshot, Goto
<1>5. ASSUME NEW r \in Requests, RecordRow(r) \/ RecordRowFails(r) PROVE Owned
  BY <1>5, <1>t, <1>f DEF RecordRow, RecordRowFails, Goto, Respond
<1>6. ASSUME NEW r \in Requests, DropHandler(r) PROVE Owned
  BY <1>6, <1>t, <1>f DEF DropHandler, Respond
<1>7. ASSUME NEW r \in Requests, ReportResult(r) PROVE Owned
  BY <1>7, <1>t, <1>f DEF ReportResult
<1>8. CASE ControllerRestarts
  BY <1>8, <1>t, <1>f DEF ControllerRestarts
<1>9. CASE UNCHANGED <<caller, told, pending, inbox>>
  BY <1>9, <1>f
<1>10. ASSUME NEW r \in Requests, DeleteRow(r) \/ NotRunning(r) \/ AskWorker(r) \/ Hear(r)
              \/ ReportLost(r)
       PROVE  UNCHANGED <<caller, told, pending, inbox>>
  BY <1>10 DEF DeleteRow, NotRunning, AskWorker, Hear, ReportLost, front
<1>11. ASSUME \/ TakeSnapshotTask \/ ForgetPid \/ OpenStream \/ NoticeBreak \/ WorkerActs
              \/ (\E died \in BOOLEAN : BreakStream(died)) \/ UNCHANGED cvars
       PROVE  UNCHANGED <<caller, told, pending, inbox>>
  BY <1>11 DEF TakeSnapshotTask, ForgetPid, OpenStream, NoticeBreak, WorkerActs, BreakStream,
     cvars, front
<1> QED BY <1>1, <1>2, <1>3, <1>4, <1>5, <1>6, <1>7, <1>8, <1>9, <1>10, <1>11
        DEF ClusterNext, CallerStep, TaskStep

THEOREM ClusterInvariant == ClusterSpec => [](IInv /\ CInv)
<1>1. ClusterInit => IInv /\ CInv
  BY ClusterBegins, WorkerInit DEF ClusterInit
<1>2. IInv /\ CInv /\ [ClusterNext]_cvars => (IInv /\ CInv)'
  <2> SUFFICES ASSUME IInv, CInv, [ClusterNext]_cvars PROVE IInv' /\ CInv'
    OBVIOUS
  <2>1. IInv'
    BY ClusterStepIsWorkerStep, WorkerStep
  <2>2. ClusterTypeOK'
    BY ClusterTypes DEF CInv
  <2>3. OkInv' /\ FreshInv' /\ EntryInv' /\ EntriesOwned'
    BY OkStep, FreshStep, OwnedStep
  <2> QED BY <2>1, <2>2, <2>3 DEF CInv
<1> QED BY <1>1, <1>2, PTL DEF ClusterSpec

(* api/snapshots.rs, grpc.rs:144-150: no stream holds more tasks than its    *)
(* capacity and every variable of the cluster's path keeps its type.         *)
THEOREM ClusterSnapshotTyped == ClusterSpec => []ClusterTypeOK
<1>1. CInv => ClusterTypeOK
  BY DEF CInv
<1> QED BY <1>1, ClusterInvariant, PTL

(* api/snapshots.rs:56-98: a recorded snapshot is one the worker completed   *)
(* for that request, and a request refused for want of an agent began none,  *)
(* for any number of requests, other clients and vCPUs.                      *)
THEOREM RecordedSnapshotsExist == ClusterSpec => []RowsTrue
<1>1. IInv /\ CInv => RowsTrue
  <2> SUFFICES ASSUME IInv, CInv, NEW r \in Requests
               PROVE  /\ r \in rows \/ told[r] = "created" => dir[r] = "complete"
                      /\ told[r] = "unavailable" => dir[r] = "none"
    BY DEF RowsTrue
  <2>1. r \in rows \/ told[r] = "created" => dir[r] = "complete"
    BY DEF CInv, OkInv
  <2>2. told[r] = "unavailable" => conn[r] = "idle"
    BY DEF CInv, FreshInv
  <2>3. conn[r] = "idle" => dir[r] = "none"
    BY ClusterAssumption DEF IInv, QueueInv
  <2> QED BY <2>1, <2>2, <2>3
<1> QED BY <1>1, ClusterInvariant, PTL

(* grpc.rs:151-180: only a handler that was dropped leaves its entry in the  *)
(* table of pending snapshots.                                               *)
THEOREM PendingEntriesOwned == ClusterSpec => []EntriesOwned
<1>1. CInv => EntriesOwned
  BY DEF CInv
<1> QED BY <1>1, ClusterInvariant, PTL
===============================================================================
