--------------------------------- MODULE Exec ---------------------------------
(***************************************************************************)
(* Cluster exec: a command travels from the REST handler (api/machines.rs, *)
(* exec) over the ExecDispatcher (grpc.rs) and the agent's WatchExec       *)
(* stream to a task of the agent (exec.rs); its output travels back, chunk *)
(* by chunk, over a ReportExecResult stream and the table of pending       *)
(* requests to the client.  Every channel on the way is bounded.           *)
(*                                                                         *)
(* One host.  A chunk is its number and whether it ends the output; the    *)
(* last one carries the exit code or an error.                             *)
(***************************************************************************)
EXTENDS Naturals, Sequences

CONSTANTS
    Requests,           \* request ids
    MaxOut,             \* bound: output chunks of a command
    TaskCap,            \* WatchExec channel (grpc.rs:84)
    ChunkCap,           \* channel of a pending request (grpc.rs:93)
    UpCap,              \* the agent's report channel (exec.rs:58)
    NoChunk             \* a report stream has no chunk in hand

ASSUME ExecBoundAssumption ==
    /\ MaxOut \in Nat /\ TaskCap \in Nat \ {0}
    /\ ChunkCap \in Nat \ {0} /\ UpCap \in Nat \ {0}

Ends   == {"exit", "error"}
Chunks == [n : Nat, last : Ends \union {"no"}]

ASSUME NoChunkAssumption == NoChunk \notin Chunks

VARIABLES
    caller,             \* the REST handler, then the forwarding task
    told,               \* how its answer ended
    client,             \* the client is still there
    got,                \* the chunks that reached it
    pending, inbox,     \* ExecDispatcher::pending and the channels in it
    stream, queue,      \* the WatchExec stream and the tasks in it
    task, out,          \* the agent's task; output chunks it has produced
    up, report, hand    \* its report stream; the chunk being routed

front  == <<caller, told, client, got>>
routes == <<pending, inbox>>
link   == <<stream, queue>>
work   == <<task, out>>
back   == <<up, report, hand>>
vars   == <<front, routes, link, work, back>>

TypeOK ==
    /\ caller \in [Requests -> {"idle", "dispatch", "audit", "waiting", "finish", "done"}]
    /\ told \in [Requests -> Ends \union {"none", "unavailable", "cancelled", "hungup", "timeout"}]
    /\ client \in [Requests -> BOOLEAN]
    /\ got \in [Requests -> Seq(Nat)]
    /\ pending \subseteq Requests
    /\ inbox \in [Requests -> Seq(Chunks)]
    /\ \A r \in Requests : Len(inbox[r]) <= ChunkCap
    /\ stream \in {"up", "half", "down"}
    /\ queue \in Seq(Requests) /\ Len(queue) <= TaskCap
    /\ task \in [Requests -> {"none", "run", "sent", "over"}]
    /\ out \in [Requests -> 0..MaxOut]
    /\ up \in [Requests -> Seq(Chunks)]
    /\ \A r \in Requests : Len(up[r]) <= UpCap
    /\ report \in [Requests -> {"none", "open", "closed"}]
    /\ hand \in [Requests -> Chunks \union {NoChunk}]

Init ==
    /\ caller = [r \in Requests |-> "idle"] /\ told = [r \in Requests |-> "none"]
    /\ client = [r \in Requests |-> TRUE] /\ got = [r \in Requests |-> <<>>]
    /\ pending = {} /\ inbox = [r \in Requests |-> <<>>]
    /\ stream = "down" /\ queue = <<>>
    /\ task = [r \in Requests |-> "none"] /\ out = [r \in Requests |-> 0]
    /\ up = [r \in Requests |-> <<>>] /\ report = [r \in Requests |-> "none"]
    /\ hand = [r \in Requests |-> NoChunk]

Caller(r, from, to) == caller[r] = from /\ caller' = [caller EXCEPT ![r] = to]
Tell(r, how)        == told' = [told EXCEPT ![r] = how]

-------------------------------------------------------------------------------
(* The REST handler and the task it spawns. *)

Begin(r) ==
    /\ Caller(r, "idle", "dispatch")
    /\ pending' = pending \union {r}
    /\ UNCHANGED <<told, client, got, inbox, link, work, back>>

(* ExecDispatcher::dispatch: into the newest stream, waiting while it is     *)
(* full.  A broken stream takes tasks until the break is noticed.            *)
Dispatch(r) ==
    /\ Caller(r, "dispatch", "audit")
    /\ stream # "down" /\ Len(queue) < TaskCap
    /\ queue' = Append(queue, r)
    /\ UNCHANGED <<told, client, got, routes, stream, work, back>>

DispatchFails(r) ==
    /\ Caller(r, "dispatch", "finish")
    /\ stream = "down"
    /\ Tell(r, "unavailable")
    /\ UNCHANGED <<client, got, routes, link, work, back>>

(* The audit row is written; from here on a task of its own forwards. *)
Spawn(r) ==
    /\ Caller(r, "audit", "waiting")
    /\ UNCHANGED <<told, client, got, routes, link, work, back>>

(* The client disconnects while the handler is suspended: the handler is     *)
(* dropped with the receiver, and never comes to finish.                     *)
Cancel(r) ==
    /\ caller[r] \in {"dispatch", "audit"}
    /\ caller' = [caller EXCEPT ![r] = "done"]
    /\ Tell(r, "cancelled")
    /\ client' = [client EXCEPT ![r] = FALSE]
    /\ UNCHANGED <<got, routes, link, work, back>>

(* The client disconnects while the body streams: noticed at the next send. *)
HangUp(r) ==
    /\ caller[r] = "waiting" /\ client[r]
    /\ client' = [client EXCEPT ![r] = FALSE]
    /\ UNCHANGED <<caller, told, got, routes, link, work, back>>

Forward(r) ==
    /\ caller[r] = "waiting" /\ inbox[r] # <<>> /\ client[r]
    /\ inbox' = [inbox EXCEPT ![r] = Tail(@)]
    /\ IF Head(inbox[r]).last = "no"
       THEN /\ got' = [got EXCEPT ![r] = Append(@, Head(inbox[r]).n)]
            /\ UNCHANGED <<caller, told>>
       ELSE /\ caller' = [caller EXCEPT ![r] = "finish"]
            /\ Tell(r, Head(inbox[r]).last)
            /\ UNCHANGED got
    /\ UNCHANGED <<client, pending, link, work, back>>

ForwardToNobody(r) ==
    /\ Caller(r, "waiting", "finish")
    /\ inbox[r] # <<>> /\ ~client[r]
    /\ inbox' = [inbox EXCEPT ![r] = Tail(@)]
    /\ Tell(r, "hungup")
    /\ UNCHANGED <<client, got, pending, link, work, back>>

(* No chunk for the command's timeout plus the grace.  (The channel never    *)
(* closes under the receiver: its sender sits in pending until finish.)      *)
WaitTimesOut(r) ==
    /\ Caller(r, "waiting", "finish")
    /\ inbox[r] = <<>>
    /\ Tell(r, "timeout")
    /\ UNCHANGED <<client, got, routes, link, work, back>>

\* Variant: only an answered request is taken out of the table.
FinishAnswered(r) ==
    /\ Caller(r, "finish", "done")
    /\ pending' = IF told[r] \in Ends THEN pending \ {r} ELSE pending
    /\ UNCHANGED <<told, client, got, inbox, link, work, back>>

Finish(r) ==
    /\ Caller(r, "finish", "done")
    /\ pending' = pending \ {r}
    /\ UNCHANGED <<told, client, got, inbox, link, work, back>>

CallerStep(r) ==
    \/ Dispatch(r) \/ DispatchFails(r) \/ Spawn(r) \/ Forward(r)
    \/ ForwardToNobody(r) \/ WaitTimesOut(r) \/ Finish(r)

-------------------------------------------------------------------------------
(* The agent. *)

(* Each task runs on its own; its report stream opens at once. *)
TakeTask ==
    /\ stream = "up" /\ queue # <<>>
    /\ task' = [task EXCEPT ![Head(queue)] = "run"]
    /\ report' = [report EXCEPT ![Head(queue)] = "open"]
    /\ queue' = Tail(queue)
    /\ UNCHANGED <<front, routes, stream, out, up, hand>>

(* produce_chunks: output as the guest produces it ... *)
Produce(r) ==
    /\ task[r] = "run" /\ report[r] = "open"
    /\ out[r] < MaxOut /\ Len(up[r]) < UpCap
    /\ out' = [out EXCEPT ![r] = @ + 1]
    /\ up' = [up EXCEPT ![r] = Append(@, [n |-> out[r] + 1, last |-> "no"])]
    /\ UNCHANGED <<front, routes, link, task, report, hand>>

(* ... and always a terminal frame: the exit code, or an error of the        *)
(* lookup, the connection or the guest.                                      *)
ProduceEnd(r, end) ==
    /\ task[r] = "run" /\ report[r] = "open" /\ Len(up[r]) < UpCap
    /\ task' = [task EXCEPT ![r] = "sent"]
    /\ up' = [up EXCEPT ![r] = Append(@, [n |-> out[r] + 1, last |-> end])]
    /\ UNCHANGED <<front, routes, link, out, report, hand>>

(* The report stream is closed: the next send fails and the command's        *)
(* output is dropped.                                                        *)
ProduceStops(r) ==
    /\ task[r] = "run" /\ report[r] = "closed"
    /\ task' = [task EXCEPT ![r] = "over"]
    /\ UNCHANGED <<front, routes, link, out, back>>

(* Everything is read: the call returns and the task is over. *)
TaskEnds(r) ==
    /\ task[r] = "sent"
    /\ report[r] = "closed" \/ (up[r] = <<>> /\ hand[r] = NoChunk)
    /\ task' = [task EXCEPT ![r] = "over"]
    /\ report' = [report EXCEPT ![r] = "closed"]
    /\ UNCHANGED <<front, routes, link, out, up, hand>>

TaskStep(r) ==
    \/ (\E end \in Ends : ProduceEnd(r, end)) \/ ProduceStops(r) \/ TaskEnds(r)

-------------------------------------------------------------------------------
(* report_exec_result: chunk after chunk, each routed by its request id. *)

\* Variant: the next chunk is read before the last one is sent.
RouteTakeOver(r) ==
    /\ report[r] = "open" /\ up[r] # <<>>
    /\ hand' = [hand EXCEPT ![r] = Head(up[r])]
    /\ up' = [up EXCEPT ![r] = Tail(@)]
    /\ UNCHANGED <<front, routes, link, work, report>>

RouteTake(r) ==
    /\ report[r] = "open" /\ hand[r] = NoChunk /\ up[r] # <<>>
    /\ hand' = [hand EXCEPT ![r] = Head(up[r])]
    /\ up' = [up EXCEPT ![r] = Tail(@)]
    /\ UNCHANGED <<front, routes, link, work, report>>

Listening(r) == r \in pending /\ caller[r] # "done"

\* Variant: an unbounded channel.
RouteSendAlways(r) ==
    /\ hand[r] # NoChunk /\ Listening(r)
    /\ inbox' = [inbox EXCEPT ![r] = Append(@, hand[r])]
    /\ hand' = [hand EXCEPT ![r] = NoChunk]
    /\ UNCHANGED <<front, pending, link, work, up, report>>

(* route: send waits while the caller's channel is full. *)
RouteSend(r) ==
    /\ hand[r] # NoChunk /\ Listening(r)
    /\ Len(inbox[r]) < ChunkCap
    /\ inbox' = [inbox EXCEPT ![r] = Append(@, hand[r])]
    /\ hand' = [hand EXCEPT ![r] = NoChunk]
    /\ UNCHANGED <<front, pending, link, work, up, report>>

\* Variant: chunks for nobody are not read any more, the call left open.
RouteIgnores(r) ==
    /\ hand[r] # NoChunk /\ ~Listening(r)
    /\ UNCHANGED vars

(* Nobody is waiting, or the receiver is gone: stop reading, end the call. *)
RouteStops(r) ==
    /\ hand[r] # NoChunk /\ ~Listening(r)
    /\ hand' = [hand EXCEPT ![r] = NoChunk]
    /\ up' = [up EXCEPT ![r] = <<>>]
    /\ report' = [report EXCEPT ![r] = "closed"]
    /\ UNCHANGED <<front, routes, link, work>>

RouteStep(r) == RouteTake(r) \/ RouteSend(r) \/ RouteStops(r)

-------------------------------------------------------------------------------
(* Sessions. *)

(* ExecDispatcher::connect: a new channel replaces the old one. *)
Connect ==
    /\ stream # "up"
    /\ stream' = "up" /\ queue' = <<>>
    /\ UNCHANGED <<front, routes, work, back>>

(* The connection breaks, and with it every report stream; if the agent      *)
(* itself died, its tasks are gone too.                                      *)
Break(died) ==
    /\ stream = "up" /\ stream' = "half"
    /\ report' = [r \in Requests |-> IF report[r] = "open" THEN "closed" ELSE report[r]]
    /\ up' = [r \in Requests |-> <<>>]
    /\ hand' = [r \in Requests |-> NoChunk]
    /\ task' = [r \in Requests |->
                   IF died /\ task[r] # "none" THEN "over" ELSE task[r]]
    /\ UNCHANGED <<front, routes, queue, out>>

Notice ==
    /\ stream = "half" /\ stream' = "down"
    /\ queue' = <<>>
    /\ UNCHANGED <<front, routes, work, back>>

Next ==
    \/ \E r \in Requests :
          \/ Begin(r) \/ Cancel(r) \/ HangUp(r) \/ CallerStep(r)
          \/ Produce(r) \/ TaskStep(r) \/ RouteStep(r)
    \/ TakeTask \/ Connect \/ Notice \/ \E died \in BOOLEAN : Break(died)

Spec == Init /\ [][Next]_vars

(* Handlers and tasks are scheduled; a client reads its body or hangs up; a  *)
(* command ends within its timeout; a dead connection is noticed.            *)
FairSpec ==
    /\ Spec /\ WF_vars(TakeTask) /\ WF_vars(Notice)
    /\ \A r \in Requests :
           WF_vars(CallerStep(r)) /\ WF_vars(TaskStep(r)) /\ WF_vars(RouteStep(r))

-------------------------------------------------------------------------------
(* exec.rs:50-74, grpc.rs:113-122: what the client reads is a prefix of what *)
(* the guest wrote, in its order; the exit code comes after all of it.       *)
OutputInOrder ==
    \A r \in Requests :
        /\ \A i \in 1..Len(got[r]) : got[r][i] = i
        /\ Len(got[r]) <= out[r]
        /\ told[r] = "exit" => Len(got[r]) = out[r]

(* grpc.rs:89-91, api/machines.rs:232-233: a request's entry is in the table *)
(* only while somebody will take it out, unless the client disconnected      *)
(* before the forwarding task was spawned.                                   *)
NoLeak ==
    \A r \in pending : caller[r] # "done" \/ told[r] = "cancelled"

(* api/machines.rs:232-233, "then always release the pending entry": no      *)
(* request that is over has an entry.                                        *)
EntryAlwaysReleased == \A r \in pending : caller[r] # "done"

(* exec.rs:46-49: an exec never hangs; whatever becomes of the agent, the    *)
(* connection and the other requests, the caller gets its answer.            *)
CallerEnds == \A r \in Requests : caller[r] # "idle" ~> caller[r] = "done"

(* grpc.rs:113-115: a caller that is gone stops the agent's report stream,   *)
(* so no task stays blocked on a full channel.                               *)
TasksEnd == \A r \in Requests : task[r] = "run" ~> task[r] = "over"

(* exec.rs:46-49, grpc.rs:113-115: neither end of an exec waits on the other *)
(* for ever, whichever of them dies, hangs up or stops reading first.        *)
ExecEnds == CallerEnds /\ TasksEnd
===============================================================================
