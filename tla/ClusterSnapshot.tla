---------------------------- MODULE ClusterSnapshot ----------------------------
(***************************************************************************)
(* A snapshot asked of the controller: the REST handler (api/snapshots.rs) *)
(* gives a task to the agent of the machine's host (SnapshotDispatcher,    *)
(* grpc.rs), a task of the agent (snapshot.rs) asks the machine's worker,  *)
(* the result comes back in one call, and the handler records it.          *)
(*                                                                         *)
(* One machine: the worker is that of module Worker, and a request is a    *)
(* client of it from the moment the agent connects.  Other clients are     *)
(* mm snapshot and mm branch on the host.                                  *)
(***************************************************************************)
EXTENDS Worker

CONSTANTS
    Requests,       \* request ids, as clients of the worker
    TaskCap         \* WatchSnapshots channel (grpc.rs:144)

ASSUME ClusterAssumption == Requests \subseteq Clients /\ TaskCap \in Nat \ {0}

VARIABLES
    caller, told,   \* the REST handler, and its response
    pending,        \* SnapshotDispatcher::pending
    inbox,          \* the one-shot channel of each entry
    rows,           \* the snapshots table
    stream, queue,  \* the WatchSnapshots stream and the tasks in it
    pid,            \* the agent's record of the machine has a pid
    task, result    \* the agent's tasks, and what they report

front   == <<caller, told, pending, inbox, rows>>
session == <<stream, queue>>
agent   == <<pid, task, result>>
cvars   == <<vars, front, session, agent>>

Results == {"none"} \union Answers

ClusterTypeOK ==
    /\ caller \in [Requests -> {"idle", "dispatch", "waiting", "finish", "record", "done"}]
    /\ told \in [Requests -> {"none", "created", "failed", "unavailable", "timeout", "dropped"}]
    /\ pending \subseteq Requests /\ rows \subseteq Requests
    /\ inbox \in [Requests -> Results]
    /\ stream \in {"up", "half", "down"} /\ queue \in Seq(Requests) /\ Len(queue) <= TaskCap
    /\ pid \in BOOLEAN
    /\ task \in [Requests -> {"none", "resolve", "asking", "report", "over"}]
    /\ result \in [Requests -> Results]

ClusterInit ==
    /\ Init
    /\ caller = [r \in Requests |-> "idle"] /\ told = [r \in Requests |-> "none"]
    /\ pending = {} /\ inbox = [r \in Requests |-> "none"] /\ rows = {}
    /\ stream = "down" /\ queue = <<>>
    /\ pid = TRUE
    /\ task = [r \in Requests |-> "none"] /\ result = [r \in Requests |-> "none"]

-------------------------------------------------------------------------------
(* The REST handler: create. *)

Goto(r, from, to) == caller[r] = from /\ caller' = [caller EXCEPT ![r] = to]
Respond(r, how)   == told' = [told EXCEPT ![r] = how]

(* The machine is running and placed, by its row; the entry is made. *)
BeginSnapshot(r) ==
    /\ Goto(r, "idle", "dispatch")
    /\ pending' = pending \union {r}
    /\ UNCHANGED <<told, inbox, rows, session, agent, vars>>

(* SnapshotDispatcher::dispatch; a broken stream takes tasks until the break *)
(* is noticed.                                                               *)
DispatchTask(r) ==
    /\ Goto(r, "dispatch", "waiting")
    /\ stream # "down" /\ Len(queue) < TaskCap
    /\ queue' = Append(queue, r)
    /\ UNCHANGED <<told, pending, inbox, rows, stream, agent, vars>>

DispatchTaskFails(r) ==
    /\ Goto(r, "dispatch", "finish")
    /\ stream = "down"
    /\ Respond(r, "unavailable")
    /\ UNCHANGED <<pending, inbox, rows, session, agent, vars>>

\* Variant: any answer of the agent is recorded.
ReceiveAny(r) ==
    /\ Goto(r, "waiting", "record")
    /\ inbox[r] # "none"
    /\ UNCHANGED <<told, pending, inbox, rows, session, agent, vars>>

(* The result is there: a failure is passed on, a success is recorded. *)
Receive(r) ==
    /\ inbox[r] # "none"
    /\ IF inbox[r] = "ok"
       THEN Goto(r, "waiting", "record") /\ UNCHANGED told
       ELSE Goto(r, "waiting", "done") /\ Respond(r, "failed")
    /\ inbox' = [inbox EXCEPT ![r] = "none"]
    /\ UNCHANGED <<pending, rows, session, agent, vars>>

\* Variant: the wait ends only when the agent is known to be gone.
ResultTimesOutDown(r) ==
    /\ Goto(r, "waiting", "finish")
    /\ inbox[r] = "none" /\ stream = "down"
    /\ Respond(r, "timeout")
    /\ UNCHANGED <<pending, inbox, rows, session, agent, vars>>

(* SNAPSHOT_WAIT passes.  (The sender sits in `pending`, so no break of the  *)
(* connection ends the wait before.)                                         *)
ResultTimesOut(r) ==
    /\ Goto(r, "waiting", "finish")
    /\ inbox[r] = "none"
    /\ Respond(r, "timeout")
    /\ UNCHANGED <<pending, inbox, rows, session, agent, vars>>

\* Variant: the entry is left to the report.
FinishSnapshotLater(r) ==
    /\ Goto(r, "finish", "done")
    /\ UNCHANGED <<told, pending, inbox, rows, session, agent, vars>>

FinishSnapshot(r) ==
    /\ Goto(r, "finish", "done")
    /\ pending' = pending \ {r}
    /\ UNCHANGED <<told, inbox, rows, session, agent, vars>>

(* create_snapshot, and the audit row, whose failure is ignored. *)
RecordRow(r) ==
    /\ Goto(r, "record", "done")
    /\ rows' = rows \union {r}
    /\ Respond(r, "created")
    /\ UNCHANGED <<pending, inbox, session, agent, vars>>

(* The query fails, with or without the row. *)
RecordRowFails(r) ==
    /\ Goto(r, "record", "done")
    /\ rows' \in {rows, rows \union {r}}
    /\ Respond(r, "failed")
    /\ UNCHANGED <<pending, inbox, session, agent, vars>>

(* The client disconnects, and the handler is dropped where it waits. *)
DropHandler(r) ==
    /\ caller[r] \in {"dispatch", "waiting", "finish", "record"}
    /\ caller' = [caller EXCEPT ![r] = "done"]
    /\ Respond(r, "dropped")
    /\ inbox' = [inbox EXCEPT ![r] = "none"]
    /\ rows' \in IF caller[r] = "record" THEN {rows, rows \union {r}} ELSE {rows}
    /\ UNCHANGED <<pending, session, agent, vars>>

(* delete: the row goes, the files stay. *)
DeleteRow(r) ==
    /\ r \in rows
    /\ rows' = rows \ {r}
    /\ UNCHANGED <<caller, told, pending, inbox, session, agent, vars>>

CallerStep(r) ==
    \/ DispatchTask(r) \/ DispatchTaskFails(r) \/ Receive(r) \/ ResultTimesOut(r)
    \/ FinishSnapshot(r) \/ RecordRow(r) \/ RecordRowFails(r)

-------------------------------------------------------------------------------
(* The agent: each task runs on its own. *)

Task(r, from, to) == task[r] = from /\ task' = [task EXCEPT ![r] = to]

TakeSnapshotTask ==
    /\ stream = "up" /\ queue # <<>>
    /\ task' = [task EXCEPT ![Head(queue)] = "resolve"]
    /\ queue' = Tail(queue)
    /\ UNCHANGED <<front, stream, pid, result, vars>>

(* compute: without a pid on record the machine is not running ... *)
NotRunning(r) ==
    /\ Task(r, "resolve", "report") /\ ~pid
    /\ result' = [result EXCEPT ![r] = "err"]
    /\ UNCHANGED <<front, session, pid, vars>>

(* ... otherwise the worker's control socket is connected to. *)
AskWorker(r) ==
    /\ Task(r, "resolve", "asking") /\ pid
    /\ Connect(r)
    /\ UNCHANGED <<front, session, pid, result>>

(* Its answer, the end of the stream, or SNAPSHOT_TIMEOUT. *)
Hear(r) ==
    /\ Task(r, "asking", "report")
    /\ conn[r] \in Answers \union {"eof", "gone"}
    /\ result' = [result EXCEPT ![r] = IF conn[r] = "ok" THEN "ok" ELSE "err"]
    /\ UNCHANGED <<front, session, pid, vars>>

(* SnapshotDispatcher::complete: the entry goes, and its caller, if it still *)
(* listens, has the result.  The call is made on a channel that reconnects   *)
(* by itself.                                                                *)
ReportResult(r) ==
    /\ Task(r, "report", "over")
    /\ pending' = pending \ {r}
    /\ inbox' = IF r \in pending /\ caller[r] = "waiting"
                THEN [inbox EXCEPT ![r] = result[r]] ELSE inbox
    /\ result' = [result EXCEPT ![r] = "none"]
    /\ UNCHANGED <<caller, told, rows, session, pid, vars>>

ReportLost(r) ==
    /\ Task(r, "report", "over") /\ stream # "up"
    /\ result' = [result EXCEPT ![r] = "none"]
    /\ UNCHANGED <<front, session, pid, vars>>

(* handle_assignment has stopped the worker and says so in the record. *)
ForgetPid ==
    /\ pid /\ ~alive
    /\ pid' = FALSE
    /\ UNCHANGED <<front, session, task, result, vars>>

TaskStep(r) == NotRunning(r) \/ AskWorker(r) \/ Hear(r) \/ ReportResult(r) \/ ReportLost(r)

-------------------------------------------------------------------------------
(* Sessions, and the ends of the agent and the controller. *)

(* SnapshotDispatcher::connect: a new channel replaces the old one. *)
OpenStream ==
    /\ stream # "up"
    /\ stream' = "up" /\ queue' = <<>>
    /\ UNCHANGED <<front, agent, vars>>

(* The connection breaks; if the agent died, so did its tasks. *)
BreakStream(died) ==
    /\ stream = "up" /\ stream' = "half"
    /\ task' = [r \in Requests |-> IF died /\ task[r] # "none" THEN "over" ELSE task[r]]
    /\ result' = [r \in Requests |-> IF died THEN "none" ELSE result[r]]
    /\ UNCHANGED <<front, queue, pid, vars>>

NoticeBreak ==
    /\ stream = "half" /\ stream' = "down"
    /\ queue' = <<>>
    /\ UNCHANGED <<front, agent, vars>>

(* The controller restarts: its handlers, its entries and its channels are   *)
(* gone, the table is not.                                                   *)
ControllerRestarts ==
    /\ \E r \in Requests : caller[r] \notin {"idle", "done"}
    /\ caller' = [r \in Requests |-> IF caller[r] = "idle" THEN "idle" ELSE "done"]
    /\ told' = [r \in Requests |-> IF caller[r] \in {"idle", "done"} THEN told[r] ELSE "dropped"]
    /\ pending' = {} /\ inbox' = [r \in Requests |-> "none"]
    /\ \E new \in SUBSET {r \in Requests : caller[r] = "record"} : rows' = rows \union new
    /\ stream' = "down" /\ queue' = <<>>
    /\ UNCHANGED <<agent, vars>>

(* A step of the worker and its clients.  A request connects by AskWorker    *)
(* only, and gives up when its task has been waiting, or is gone.            *)
WorkerActs ==
    /\ \/ (\E v \in Vcpus : VcpuEnds(v)) \/ Killed \/ ControlStep \/ Panic \/ ReaperStep
       \/ \E c \in Clients : Send(c) \/ GivesUp(c)
       \/ \E c \in Clients \ Requests : Connect(c)
    /\ UNCHANGED <<front, session, agent>>

ClusterNext ==
    \/ \E r \in Requests :
          \/ BeginSnapshot(r) \/ DropHandler(r) \/ DeleteRow(r)
          \/ CallerStep(r) \/ TaskStep(r)
    \/ TakeSnapshotTask \/ ForgetPid
    \/ OpenStream \/ (\E died \in BOOLEAN : BreakStream(died)) \/ NoticeBreak
    \/ ControllerRestarts
    \/ WorkerActs

ClusterSpec == ClusterInit /\ [][ClusterNext]_cvars

(* Handlers and tasks are scheduled, a query returns, the worker's threads   *)
(* run, a client of the worker sends its line.                               *)
ClusterFairSpec ==
    /\ ClusterSpec
    /\ \A r \in Requests : WF_cvars(CallerStep(r)) /\ WF_cvars(TaskStep(r))
    /\ WF_cvars(TakeSnapshotTask) /\ WF_cvars(NoticeBreak)
    /\ WF_cvars(ControlStep /\ UNCHANGED <<front, session, agent>>)
    /\ WF_cvars(ReaperStep /\ UNCHANGED <<front, session, agent>>)
    /\ \A c \in Clients : WF_cvars(Send(c) /\ UNCHANGED <<front, session, agent>>)

-------------------------------------------------------------------------------
(* api/snapshots.rs: a row, and a response of 201, stand for a directory the *)
(* worker has completed, for this request; after "no agent connected" none   *)
(* has been begun.  Whatever broke, died or restarted between the worker's   *)
(* answer and the table.                                                     *)
RowsTrue ==
    \A r \in Requests :
        /\ r \in rows \/ told[r] = "created" => dir[r] = "complete"
        /\ told[r] = "unavailable" => dir[r] = "none"

(* grpc.rs:151-153: an entry of the pending table has a handler that will    *)
(* remove it, or a task that may still report; only a dropped handler can    *)
(* leave one behind.                                                         *)
EntriesOwned ==
    \A r \in pending : caller[r] # "done" \/ told[r] = "dropped"

(* api/snapshots.rs:69-82, snapshot.rs:25-27: the caller is always released, *)
(* and no task of the agent stays blocked on a worker: it gets an answer,    *)
(* the end of the stream, or gives up.                                       *)
SnapshotsEnd ==
    \A r \in Requests :
        /\ caller[r] # "idle" ~> caller[r] = "done"
        /\ task[r] \notin {"none", "over"} ~> task[r] = "over"
===============================================================================
