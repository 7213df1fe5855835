------------------------------ MODULE ExecProofs ------------------------------
(***************************************************************************)
(* Proofs about Exec, for any number of requests, any amount of output and *)
(* any channel capacities.  The chunks of a request are numbered; the      *)
(* invariant says that what the client has, what waits in its channel,     *)
(* what is being routed and what waits in the report stream are adjacent   *)
(* intervals of those numbers.                                             *)
(***************************************************************************)
EXTENDS Exec, TLAPS

(* A task is in the stream once, and only before it runs. *)
QueueInv ==
    /\ \A i, j \in 1..Len(queue) : queue[i] = queue[j] => i = j
    /\ \A i \in 1..Len(queue) :
           task[queue[i]] = "none" /\ caller[queue[i]] \notin {"idle", "dispatch"}
    /\ \A r \in Requests : caller[r] \in {"idle", "dispatch"} => task[r] = "none"

InHand(r) == IF hand[r] = NoChunk THEN 0 ELSE 1

(* Where nothing has happened yet, and where the report stream is gone. *)
Stages(r) ==
    /\ task[r] = "none" =>
           out[r] = 0 /\ got[r] = <<>> /\ inbox[r] = <<>> /\ report[r] = "none"
    /\ report[r] # "open" => up[r] = <<>> /\ hand[r] = NoChunk
    /\ report[r] = "open" => task[r] \in {"run", "sent"}
    /\ told[r] = "none" <=> caller[r] \notin {"finish", "done"}

(* A chunk is a piece of the output so far, or comes right after all of it. *)
Right(r, c) ==
    IF c.last = "no" THEN c.n <= out[r]
    ELSE c.n = out[r] + 1 /\ task[r] \in {"sent", "over"}

Contents(r) ==
    /\ \A i \in 1..Len(inbox[r]) : Right(r, inbox[r][i])
    /\ hand[r] # NoChunk => Right(r, hand[r])
    /\ \A i \in 1..Len(up[r]) : Right(r, up[r][i])

(* The intervals, while the caller is waiting. *)
Sent(r)   == Len(got[r]) + Len(inbox[r])
Routed(r) == Sent(r) + InHand(r)

InboxAt(r) == \A i \in 1..Len(inbox[r]) : inbox[r][i].n = Len(got[r]) + i
HandAt(r)  == hand[r] # NoChunk => hand[r].n = Sent(r) + 1
UpAt(r)    == \A i \in 1..Len(up[r]) : up[r][i].n = Routed(r) + i
AllAt(r)   ==
    report[r] = "open" =>
        Routed(r) + Len(up[r]) = out[r] + (IF task[r] = "sent" THEN 1 ELSE 0)

Adjacent(r) ==
    told[r] = "none" => InboxAt(r) /\ HandAt(r) /\ UpAt(r) /\ AllAt(r)

(* What the client has. *)
Received(r) ==
    /\ \A i \in 1..Len(got[r]) : got[r][i] = i
    /\ Len(got[r]) <= out[r]
    /\ told[r] \in Ends => Len(got[r]) = out[r] /\ task[r] \in {"sent", "over"}

Pipe(r) == Stages(r) /\ Contents(r) /\ Adjacent(r) /\ Received(r)

IInv == TypeOK /\ QueueInv /\ NoLeak /\ \A r \in Requests : Pipe(r)

(* Of a request nothing has changed but, perhaps, where its caller is. *)
Quiet(r) ==
    /\ got'[r] = got[r] /\ inbox'[r] = inbox[r] /\ task'[r] = task[r]
    /\ out'[r] = out[r] /\ up'[r] = up[r] /\ report'[r] = report[r]
    /\ hand'[r] = hand[r]
    /\ \/ caller'[r] = caller[r] /\ told'[r] = told[r]
       \/ /\ told'[r] = told[r] \/ told'[r] \notin Ends \union {"none"}
          /\ told'[r] = "none" <=> caller'[r] \notin {"finish", "done"}

LEMMA QuietPipe ==
  ASSUME NEW r \in Requests, Pipe(r), Quiet(r) PROVE Pipe(r)'
<1>1. Stages(r)'
  BY DEF Pipe, Quiet, Stages
<1>2. Contents(r)'
  BY DEF Pipe, Quiet, Contents, Right
<1>3. Adjacent(r)'
  BY DEF Pipe, Quiet, Adjacent, InboxAt, HandAt, UpAt, AllAt, Routed, Sent, InHand
<1>4. Received(r)'
  BY DEF Pipe, Quiet, Received
<1> QED BY <1>1, <1>2, <1>3, <1>4 DEF Pipe

LEMMA ExecInit == Init => IInv
<1> SUFFICES ASSUME Init PROVE IInv
  OBVIOUS
<1> USE ExecBoundAssumption, NoChunkAssumption DEF Init
<1>1. TypeOK
  <2>1. /\ \A r \in Requests : Len(inbox[r]) <= ChunkCap /\ Len(up[r]) <= UpCap
        /\ Len(queue) <= TaskCap
    OBVIOUS
  <2>2. /\ got \in [Requests -> Seq(Nat)] /\ inbox \in [Requests -> Seq(Chunks)]
        /\ up \in [Requests -> Seq(Chunks)] /\ queue \in Seq(Requests)
    OBVIOUS
  <2>3. /\ hand \in [Requests -> Chunks \union {NoChunk}]
        /\ out \in [Requests -> 0..MaxOut] /\ client \in [Requests -> BOOLEAN]
    OBVIOUS
  <2> QED BY <2>1, <2>2, <2>3 DEF TypeOK, Ends
<1>2. QueueInv /\ NoLeak
  BY DEF QueueInv, NoLeak
<1>3. ASSUME NEW r \in Requests PROVE Pipe(r)
  <2>1. Stages(r)
    BY DEF Stages
  <2>2. Contents(r)
    BY DEF Contents
  <2>3. Adjacent(r)
    BY DEF Adjacent, InboxAt, HandAt, UpAt, AllAt, Routed, Sent, InHand
  <2>4. Received(r)
    BY DEF Received, Ends
  <2> QED BY <2>1, <2>2, <2>3, <2>4 DEF Pipe
<1> QED BY <1>1, <1>2, <1>3 DEF IInv

(* Each kind of variable keeps its type. *)
LEMMA ExecTypeStep == TypeOK /\ [Next]_vars => TypeOK'
<1> SUFFICES ASSUME TypeOK, [Next]_vars PROVE TypeOK'
  OBVIOUS
<1> USE ExecBoundAssumption, NoChunkAssumption
<1> USE DEF TypeOK, Caller, Tell, front, routes, link, work, back
<1>1. ASSUME NEW r \in Requests, Begin(r) PROVE TypeOK'
  BY <1>1 DEF Begin
<1>2. ASSUME NEW r \in Requests, Cancel(r) PROVE TypeOK'
  BY <1>2 DEF Cancel
<1>3. ASSUME NEW r \in Requests, HangUp(r) PROVE TypeOK'
  BY <1>3 DEF HangUp
<1>4. ASSUME NEW r \in Requests, Dispatch(r) PROVE TypeOK'
  BY <1>4 DEF Dispatch
<1>5. ASSUME NEW r \in Requests, DispatchFails(r) PROVE TypeOK'
  BY <1>5 DEF DispatchFails
<1>6. ASSUME NEW r \in Requests, Spawn(r) PROVE TypeOK'
  BY <1>6 DEF Spawn
<1>7. ASSUME NEW r \in Requests, Forward(r) PROVE TypeOK'
  <2>1. /\ inbox[r] \in Seq(Chunks) /\ inbox[r] # <<>>
        /\ Head(inbox[r]) \in Chunks /\ Tail(inbox[r]) \in Seq(Chunks)
        /\ Len(Tail(inbox[r])) <= ChunkCap
    BY <1>7 DEF Forward
  <2>2. /\ inbox' \in [Requests -> Seq(Chunks)]
        /\ \A q \in Requests : Len(inbox'[q]) <= ChunkCap
    BY <1>7, <2>1 DEF Forward
  <2>3. /\ Head(inbox[r]).n \in Nat
        /\ Head(inbox[r]).last # "no" => Head(inbox[r]).last \in Ends
    BY <2>1 DEF Chunks
  <2>4. CASE Head(inbox[r]).last = "no"
    <3>1. Append(got[r], Head(inbox[r]).n) \in Seq(Nat)
      BY <2>3
    <3>2. got' \in [Requests -> Seq(Nat)]
      BY <1>7, <2>4, <3>1 DEF Forward
    <3> QED BY <1>7, <2>2, <2>4, <3>2 DEF Forward
  <2>5. CASE Head(inbox[r]).last # "no"
    BY <1>7, <2>2, <2>3, <2>5 DEF Forward
  <2> QED BY <2>4, <2>5
<1>8. ASSUME NEW r \in Requests, ForwardToNobody(r) PROVE TypeOK'
  <2>1. Tail(inbox[r]) \in Seq(Chunks) /\ Len(Tail(inbox[r])) <= ChunkCap
    <3>1. inbox[r] \in Seq(Chunks) /\ inbox[r] # <<>> /\ Len(inbox[r]) <= ChunkCap
      BY <1>8 DEF ForwardToNobody
    <3> QED BY <3>1
  <2>2. /\ inbox' \in [Requests -> Seq(Chunks)]
        /\ \A q \in Requests : Len(inbox'[q]) <= ChunkCap
    BY <1>8, <2>1 DEF ForwardToNobody
  <2> QED BY <1>8, <2>2 DEF ForwardToNobody
<1>9. ASSUME NEW r \in Requests, WaitTimesOut(r) PROVE TypeOK'
  BY <1>9 DEF WaitTimesOut
<1>10. ASSUME NEW r \in Requests, Finish(r) PROVE TypeOK'
  BY <1>10 DEF Finish
<1>11. ASSUME NEW r \in Requests, Produce(r) PROVE TypeOK'
  BY <1>11 DEF Produce, Chunks, Ends
<1>12. ASSUME NEW r \in Requests, NEW end \in Ends, ProduceEnd(r, end) PROVE TypeOK'
  BY <1>12, SMTT(30) DEF ProduceEnd, Chunks, Ends
<1>13. ASSUME NEW r \in Requests, ProduceStops(r) PROVE TypeOK'
  BY <1>13 DEF ProduceStops
<1>14. ASSUME NEW r \in Requests, TaskEnds(r) PROVE TypeOK'
  BY <1>14 DEF TaskEnds
<1>15. ASSUME NEW r \in Requests, RouteTake(r) PROVE TypeOK'
  BY <1>15 DEF RouteTake
<1>16. ASSUME NEW r \in Requests, RouteSend(r) PROVE TypeOK'
  BY <1>16 DEF RouteSend
<1>17. ASSUME NEW r \in Requests, RouteStops(r) PROVE TypeOK'
  BY <1>17 DEF RouteStops
<1>18. CASE TakeTask
  BY <1>18, SMTT(30) DEF TakeTask
<1>19. CASE Connect
  BY <1>19 DEF Connect
<1>20. ASSUME NEW died \in BOOLEAN, Break(died) PROVE TypeOK'
  BY <1>20 DEF Break
<1>21. CASE Notice
  BY <1>21 DEF Notice
<1>22. CASE UNCHANGED vars
  BY <1>22 DEF vars
<1> QED
  BY <1>1, <1>2, <1>3, <1>4, <1>5, <1>6, <1>7, <1>8, <1>9, <1>10, <1>11, <1>12,
     <1>13, <1>14, <1>15, <1>16, <1>17, <1>18, <1>19, <1>20, <1>21, <1>22
     DEF Next, CallerStep, TaskStep, RouteStep

(* The tasks in the stream stay as they are, their requests too. *)
LEMMA QuietQueue ==
  ASSUME TypeOK, QueueInv, queue' = queue,
         \A q \in Requests : task'[q] = task[q] \/ (task[q] # "none" /\ task'[q] # "none"),
         \A q \in Requests : \/ caller'[q] = caller[q]
                            \/ caller'[q] \notin {"idle", "dispatch"}
                            \/ caller[q] = "idle"
  PROVE  QueueInv'
<1>1. \A i \in 1..Len(queue) : queue[i] \in Requests
  BY DEF TypeOK
<1> QED BY <1>1 DEF QueueInv

(* What a step on the chunks of one request has to keep. *)
LEMMA OnePipe ==
  ASSUME IInv, TypeOK', QueueInv', NoLeak', NEW r \in Requests, Pipe(r)',
         \A q \in Requests \ {r} : Quiet(q)
  PROVE  IInv'
<1>1. ASSUME NEW q \in Requests, q # r PROVE Pipe(q)'
  BY <1>1, QuietPipe DEF IInv
<1> QED BY <1>1 DEF IInv

(* Sequences at both ends. *)
LEMMA AppendFacts ==
  ASSUME NEW S, NEW s \in Seq(S), NEW e \in S
  PROVE  /\ Append(s, e) \in Seq(S) /\ Len(Append(s, e)) = Len(s) + 1
         /\ \A i \in 1..Len(s) : Append(s, e)[i] = s[i]
         /\ Append(s, e)[Len(s) + 1] = e
         /\ Len(s) \in Nat
OBVIOUS

LEMMA TailFacts ==
  ASSUME NEW S, NEW s \in Seq(S), s # <<>>
  PROVE  /\ Tail(s) \in Seq(S) /\ Len(s) \in Nat /\ Len(s) >= 1
         /\ Len(Tail(s)) = Len(s) - 1
         /\ Head(s) = s[1] /\ Head(s) \in S
         /\ \A i \in 1..Len(Tail(s)) : Tail(s)[i] = s[i + 1]
OBVIOUS

LEMMA Sums ==
  ASSUME NEW a \in Nat, NEW b \in Nat
  PROVE  (a + 1) + (b - 1) = a + b /\ a + (b + 1) = (a + b) + 1
OBVIOUS

LEMMA SentGrows ==
  ASSUME NEW r, Len(got[r]) \in Nat, Len(inbox[r]) \in Nat,
         got'[r] = got[r], Len(inbox'[r]) = Len(inbox[r]) + 1
  PROVE  Sent(r)' = Sent(r) + 1
BY Sums, Zenon DEF Sent

LEMMA SentMoves ==
  ASSUME NEW r, Len(got[r]) \in Nat, Len(inbox[r]) \in Nat,
         Len(got'[r]) = Len(got[r]) + 1, Len(inbox'[r]) = Len(inbox[r]) - 1
  PROVE  Sent(r)' = Sent(r)
BY Sums, Zenon DEF Sent

(* Every step keeps the invariant.  A step of one request is quiet for the   *)
(* others.                                                                   *)
LEMMA ExecStep == IInv /\ [Next]_vars => IInv'
<1> SUFFICES ASSUME IInv, [Next]_vars PROVE IInv'
  OBVIOUS
<1>t. TypeOK /\ TypeOK' /\ QueueInv /\ NoLeak
  BY ExecTypeStep DEF IInv
<1>k. /\ caller \in [Requests -> {"idle", "dispatch", "audit", "waiting", "finish", "done"}]
      /\ told \in [Requests -> Ends \union {"none", "unavailable", "cancelled", "hungup", "timeout"}]
      /\ task \in [Requests -> {"none", "run", "sent", "over"}]
      /\ pending \subseteq Requests
  BY <1>t DEF TypeOK
<1>p. \A r \in Requests : Stages(r) /\ Contents(r) /\ Adjacent(r) /\ Received(r)
  BY DEF IInv, Pipe
<1> USE ExecBoundAssumption, NoChunkAssumption
<1> USE DEF Caller, Tell, front, routes, link, work, back
<1>1. ASSUME NEW r \in Requests, Begin(r) PROVE IInv'
  <2>1. QueueInv'
    BY <1>1, <1>t, <1>k, QuietQueue DEF Begin
  <2>2. NoLeak'
    BY <1>1, <1>t, <1>k DEF Begin, NoLeak
  <2>3. \A q \in Requests : Quiet(q)
    <3>1. \A q \in Requests : told[q] = "none" <=> caller[q] \notin {"finish", "done"}
      BY <1>p DEF Stages
    <3> QED BY <1>1, <1>k, <3>1 DEF Begin, Quiet, Ends
  <2> QED BY <1>t, <2>1, <2>2, <2>3, QuietPipe DEF IInv
<1>2. ASSUME NEW r \in Requests, Cancel(r) PROVE IInv'
  <2>1. QueueInv'
    BY <1>2, <1>t, <1>k, QuietQueue DEF Cancel
  <2>2. NoLeak'
    BY <1>2, <1>t, <1>k DEF Cancel, NoLeak
  <2>3. \A q \in Requests : Quiet(q)
    <3>1. \A q \in Requests : told[q] = "none" <=> caller[q] \notin {"finish", "done"}
      BY <1>p DEF Stages
    <3> QED BY <1>2, <1>k, <3>1 DEF Cancel, Quiet, Ends
  <2> QED BY <1>t, <2>1, <2>2, <2>3, QuietPipe DEF IInv
<1>3. ASSUME NEW r \in Requests, HangUp(r) PROVE IInv'
  <2>1. QueueInv'
    BY <1>3, <1>t, <1>k, QuietQueue DEF HangUp
  <2>2. NoLeak'
    BY <1>3, <1>t, <1>k DEF HangUp, NoLeak
  <2>3. \A q \in Requests : Quiet(q)
    <3>1. \A q \in Requests : told[q] = "none" <=> caller[q] \notin {"finish", "done"}
      BY <1>p DEF Stages
    <3> QED BY <1>3, <1>k, <3>1 DEF HangUp, Quiet, Ends
  <2> QED BY <1>t, <2>1, <2>2, <2>3, QuietPipe DEF IInv
<1>4. ASSUME NEW r \in Requests, DispatchFails(r) PROVE IInv'
  <2>1. QueueInv'
    BY <1>4, <1>t, <1>k, QuietQueue DEF DispatchFails
  <2>2. NoLeak'
    BY <1>4, <1>t, <1>k DEF DispatchFails, NoLeak
  <2>3. \A q \in Requests : Quiet(q)
    <3>1. \A q \in Requests : told[q] = "none" <=> caller[q] \notin {"finish", "done"}
      BY <1>p DEF Stages
    <3> QED BY <1>4, <1>k, <3>1 DEF DispatchFails, Quiet, Ends
  <2> QED BY <1>t, <2>1, <2>2, <2>3, QuietPipe DEF IInv
<1>5. ASSUME NEW r \in Requests, Spawn(r) PROVE IInv'
  <2>1. QueueInv'
    BY <1>5, <1>t, <1>k, QuietQueue DEF Spawn
  <2>2. NoLeak'
    BY <1>5, <1>t, <1>k DEF Spawn, NoLeak
  <2>3. \A q \in Requests : Quiet(q)
    <3>1. \A q \in Requests : told[q] = "none" <=> caller[q] \notin {"finish", "done"}
      BY <1>p DEF Stages
    <3> QED BY <1>5, <1>k, <3>1 DEF Spawn, Quiet, Ends
  <2> QED BY <1>t, <2>1, <2>2, <2>3, QuietPipe DEF IInv
<1>6. ASSUME NEW r \in Requests, WaitTimesOut(r) PROVE IInv'
  <2>1. QueueInv'
    BY <1>6, <1>t, <1>k, QuietQueue DEF WaitTimesOut
  <2>2. NoLeak'
    BY <1>6, <1>t, <1>k DEF WaitTimesOut, NoLeak
  <2>3. \A q \in Requests : Quiet(q)
    <3>1. \A q \in Requests : told[q] = "none" <=> caller[q] \notin {"finish", "done"}
      BY <1>p DEF Stages
    <3> QED BY <1>6, <1>k, <3>1 DEF WaitTimesOut, Quiet, Ends
  <2> QED BY <1>t, <2>1, <2>2, <2>3, QuietPipe DEF IInv
<1>7. ASSUME NEW r \in Requests, Finish(r) PROVE IInv'
  <2>1. QueueInv'
    BY <1>7, <1>t, <1>k, QuietQueue DEF Finish
  <2>2. NoLeak'
    BY <1>7, <1>t, <1>k DEF Finish, NoLeak
  <2>3. \A q \in Requests : Quiet(q)
    <3>1. \A q \in Requests : told[q] = "none" <=> caller[q] \notin {"finish", "done"}
      BY <1>p DEF Stages
    <3> QED BY <1>7, <1>k, <3>1 DEF Finish, Quiet, Ends
  <2> QED BY <1>t, <2>1, <2>2, <2>3, QuietPipe DEF IInv
<1>8. ASSUME NEW r \in Requests, Dispatch(r) PROVE IInv'
  <2>1. QueueInv'
    <3>1. /\ task[r] = "none" /\ \A i \in 1..Len(queue) : queue[i] # r
          /\ \A i \in 1..Len(queue) : queue[i] \in Requests
      <4>1. \A i \in 1..Len(queue) : queue[i] \in Requests
        BY <1>t DEF TypeOK
      <4> QED BY <1>8, <1>t, <4>1 DEF Dispatch, QueueInv
    <3>2. /\ Len(queue') = Len(queue) + 1 /\ queue'[Len(queue) + 1] = r
          /\ \A i \in 1..Len(queue) : queue'[i] = queue[i]
          /\ Len(queue) \in Nat
      BY <1>8, <1>t, AppendFacts DEF Dispatch, TypeOK
    <3>3. \A i, j \in 1..Len(queue') : queue'[i] = queue'[j] => i = j
      BY <1>t, <3>1, <3>2 DEF QueueInv
    <3>4. /\ task' = task /\ caller'[r] = "audit"
          /\ \A q \in Requests \ {r} : caller'[q] = caller[q]
      BY <1>8, <1>t DEF Dispatch, TypeOK
    <3>5. \A i \in 1..Len(queue') :
             task'[queue'[i]] = "none" /\ caller'[queue'[i]] \notin {"idle", "dispatch"}
      BY <1>t, <3>1, <3>2, <3>4 DEF QueueInv
    <3> QED BY <1>t, <3>3, <3>4, <3>5 DEF QueueInv
  <2>2. NoLeak'
    BY <1>8, <1>t, <1>k DEF Dispatch, NoLeak
  <2>3. \A q \in Requests : Quiet(q)
    <3>1. \A q \in Requests : told[q] = "none" <=> caller[q] \notin {"finish", "done"}
      BY <1>p DEF Stages
    <3> QED BY <1>8, <1>k, <3>1 DEF Dispatch, Quiet, Ends
  <2> QED BY <1>t, <2>1, <2>2, <2>3, QuietPipe DEF IInv
<1>9. ASSUME NEW r \in Requests, Forward(r) PROVE IInv'
  <2>0. /\ queue' = queue /\ task' = task /\ pending' = pending
        /\ \A q \in Requests \ {r} : caller'[q] = caller[q] /\ told'[q] = told[q]
        /\ caller[r] = "waiting" /\ caller'[r] \in {"waiting", "finish"}
    <3>1. ASSUME Head(inbox[r]).last = "no" PROVE caller' = caller /\ told' = told
      BY <1>9, <3>1 DEF Forward
    <3>2. ASSUME Head(inbox[r]).last # "no"
          PROVE  /\ caller' = [caller EXCEPT ![r] = "finish"]
                 /\ told' = [told EXCEPT ![r] = Head(inbox[r]).last]
      BY <1>9, <3>2 DEF Forward
    <3>3. caller[r] = "waiting" /\ queue' = queue /\ task' = task /\ pending' = pending
      BY <1>9 DEF Forward
    <3> QED BY <1>k, <3>1, <3>2, <3>3
  <2>1. QueueInv'
    BY <1>t, <2>0, QuietQueue
  <2>2. NoLeak'
    BY <1>t, <1>k, <2>0 DEF NoLeak
  <2>3. /\ Len(got[r]) \in Nat /\ Len(inbox[r]) \in Nat /\ Len(up[r]) \in Nat
        /\ out[r] \in Nat /\ inbox[r] # <<>> /\ Len(inbox[r]) >= 1
        /\ Head(inbox[r]) = inbox[r][1] /\ inbox[r][1] \in Chunks
        /\ Len(Tail(inbox[r])) = Len(inbox[r]) - 1
        /\ \A i \in 1..(Len(inbox[r]) - 1) : Tail(inbox[r])[i] = inbox[r][i + 1]
    BY <1>9, <1>t, TailFacts DEF Forward, TypeOK
  <2>4. /\ inbox'[r] = Tail(inbox[r]) /\ task'[r] = task[r] /\ out'[r] = out[r]
        /\ up'[r] = up[r] /\ report'[r] = report[r] /\ hand'[r] = hand[r]
        /\ caller[r] = "waiting" /\ told[r] = "none"
    <3>1. inbox \in [Requests -> Seq(Chunks)]
      BY <1>t DEF TypeOK
    <3>2. inbox' = [inbox EXCEPT ![r] = Tail(inbox[r])] /\ out' = out /\ up' = up
          /\ report' = report /\ hand' = hand /\ task' = task
      BY <1>9 DEF Forward
    <3>3. told[r] = "none"
      BY <1>p, <2>0 DEF Stages
    <3> QED BY <2>0, <3>1, <3>2, <3>3
  <2>5. Contents(r)'
    BY <1>p, <2>3, <2>4 DEF Contents, Right
  <2>6. ASSUME Head(inbox[r]).last = "no" PROVE Pipe(r)'
    <3>1. /\ Len(got'[r]) = Len(got[r]) + 1 /\ got'[r][Len(got[r]) + 1] = inbox[r][1].n
          /\ \A i \in 1..Len(got[r]) : got'[r][i] = got[r][i]
          /\ caller'[r] = "waiting" /\ told'[r] = "none"
      <4>1. inbox[r][1].n \in Nat /\ got[r] \in Seq(Nat)
        BY <1>t, <2>3 DEF Chunks, TypeOK
      <4>2. got'[r] = Append(got[r], inbox[r][1].n) /\ caller' = caller /\ told' = told
        BY <1>9, <1>t, <2>3, <2>6 DEF Forward, TypeOK
      <4> QED BY <2>4, <4>1, <4>2, AppendFacts
    <3>2. inbox[r][1].n = Len(got[r]) + 1 /\ inbox[r][1].n <= out[r]
      <4>1. InboxAt(r) /\ Right(r, inbox[r][1])
        BY <1>p, <2>3, <2>4 DEF Adjacent, Contents
      <4> QED BY <2>3, <2>6, <4>1 DEF InboxAt, Right
    <3>3. Stages(r)'
      BY <1>p, <2>3, <2>4, <3>1 DEF Stages
    <3>4. Adjacent(r)'
      <4>1. InboxAt(r) /\ HandAt(r) /\ UpAt(r) /\ AllAt(r)
        BY <1>p, <2>4 DEF Adjacent
      <4>2. Sent(r)' = Sent(r) /\ Routed(r)' = Routed(r)
        <5>1. Len(inbox'[r]) = Len(inbox[r]) - 1
          BY <2>3, <2>4
        <5>2. Sent(r)' = Sent(r)
          <6>1. Len(got[r]) \in Nat /\ Len(inbox[r]) \in Nat /\ Len(got'[r]) = Len(got[r]) + 1
            BY <2>3, <3>1
          <6> QED BY <5>1, <6>1, SentMoves
        <5> QED BY <2>4, <5>2 DEF Routed, InHand
      <4>3. InboxAt(r)'
        BY <2>3, <2>4, <3>1, <4>1 DEF InboxAt
      <4>4. HandAt(r)'
        BY <2>4, <4>1, <4>2 DEF HandAt
      <4>5. UpAt(r)'
        BY <2>4, <4>1, <4>2 DEF UpAt
      <4>6. AllAt(r)'
        BY <2>4, <4>1, <4>2 DEF AllAt
      <4> QED BY <4>3, <4>4, <4>5, <4>6 DEF Adjacent
    <3>5. Received(r)'
      BY <1>p, <2>3, <2>4, <3>1, <3>2 DEF Received, Ends
    <3> QED BY <2>5, <3>3, <3>4, <3>5 DEF Pipe
  <2>7. ASSUME Head(inbox[r]).last # "no" PROVE Pipe(r)'
    <3>1. got'[r] = got[r] /\ caller'[r] = "finish" /\ told'[r] = inbox[r][1].last
      BY <1>9, <1>t, <2>3, <2>7 DEF Forward, TypeOK
    <3>2. /\ inbox[r][1].n = Len(got[r]) + 1 /\ inbox[r][1].n = out[r] + 1
          /\ task[r] \in {"sent", "over"} /\ inbox[r][1].last \in Ends
      <4>1. InboxAt(r) /\ Right(r, inbox[r][1]) /\ inbox[r][1].last \in Ends
        BY <1>p, <2>3, <2>4, <2>7 DEF Adjacent, Contents, Chunks
      <4> QED BY <2>3, <2>7, <4>1 DEF InboxAt, Right
    <3>3. Stages(r)'
      BY <1>p, <2>3, <2>4, <3>1, <3>2 DEF Stages, Ends
    <3>4. Adjacent(r)'
      BY <3>1, <3>2 DEF Adjacent, Ends
    <3>5. Received(r)'
      BY <1>p, <2>3, <2>4, <3>1, <3>2 DEF Received
    <3> QED BY <2>5, <3>3, <3>4, <3>5 DEF Pipe
  <2>8. \A q \in Requests \ {r} : Quiet(q)
    BY <1>9, <1>t DEF Forward, TypeOK, Quiet
  <2>9. Pipe(r)'
    BY <2>6, <2>7
  <2> QED BY <1>t, <2>1, <2>2, <2>8, <2>9, OnePipe
<1>10. ASSUME NEW r \in Requests, ForwardToNobody(r) PROVE IInv'
  <2>1. QueueInv'
    BY <1>10, <1>t, <1>k, QuietQueue DEF ForwardToNobody
  <2>2. NoLeak'
    BY <1>10, <1>t, <1>k DEF ForwardToNobody, NoLeak
  <2>3. /\ Len(got[r]) \in Nat /\ Len(inbox[r]) \in Nat /\ Len(up[r]) \in Nat
        /\ out[r] \in Nat /\ inbox[r] # <<>> /\ Len(inbox[r]) >= 1
        /\ Head(inbox[r]) = inbox[r][1] /\ inbox[r][1] \in Chunks
        /\ Len(Tail(inbox[r])) = Len(inbox[r]) - 1
        /\ \A i \in 1..(Len(inbox[r]) - 1) : Tail(inbox[r])[i] = inbox[r][i + 1]
    BY <1>10, <1>t, TailFacts DEF ForwardToNobody, TypeOK
  <2>4. /\ inbox'[r] = Tail(inbox[r]) /\ task'[r] = task[r] /\ out'[r] = out[r]
        /\ up'[r] = up[r] /\ report'[r] = report[r] /\ hand'[r] = hand[r]
        /\ got'[r] = got[r] /\ caller'[r] = "finish" /\ told'[r] = "hungup"
    BY <1>10, <1>t DEF ForwardToNobody, TypeOK
  <2>5. Stages(r)'
    BY <1>p, <2>3, <2>4 DEF Stages
  <2>6. Contents(r)'
    BY <1>p, <2>3, <2>4 DEF Contents, Right
  <2>7. Adjacent(r)'
    BY <2>4 DEF Adjacent
  <2>8. Received(r)'
    BY <1>p, <2>3, <2>4 DEF Received, Ends
  <2>9. \A q \in Requests \ {r} : Quiet(q)
    BY <1>10, <1>t DEF ForwardToNobody, TypeOK, Quiet
  <2> QED BY <1>t, <2>1, <2>2, <2>5, <2>6, <2>7, <2>8, <2>9, OnePipe DEF Pipe
<1>11. ASSUME NEW r \in Requests, Produce(r) PROVE IInv'
  <2>1. QueueInv'
    BY <1>11, <1>t, <1>k, QuietQueue DEF Produce
  <2>2. NoLeak'
    BY <1>11, <1>t, <1>k DEF Produce, NoLeak
  <2>0. Sent(r) \in Nat /\ Routed(r) \in Nat
    BY <1>t DEF TypeOK, Sent, Routed, InHand
  <2>3. /\ Len(got[r]) \in Nat /\ Len(inbox[r]) \in Nat /\ Len(up[r]) \in Nat
        /\ out[r] \in Nat
    BY <1>t DEF TypeOK
  <2>4. /\ Len(up'[r]) = Len(up[r]) + 1
        /\ up'[r][Len(up[r]) + 1] = [n |-> out[r] + 1, last |-> "no"]
        /\ \A i \in 1..Len(up[r]) : up'[r][i] = up[r][i]
        /\ out'[r] = out[r] + 1 /\ task[r] = "run" /\ task'[r] = "run"
        /\ report[r] = "open" /\ report'[r] = "open"
        /\ got'[r] = got[r] /\ inbox'[r] = inbox[r] /\ hand'[r] = hand[r]
        /\ caller'[r] = caller[r] /\ told'[r] = told[r]
    <3>1. [n |-> out[r] + 1, last |-> "no"] \in Chunks
      BY <2>3 DEF Chunks, Ends
    <3>2. up'[r] = Append(up[r], [n |-> out[r] + 1, last |-> "no"]) /\ up[r] \in Seq(Chunks)
      BY <1>11, <1>t DEF Produce, TypeOK
    <3>3. /\ Len(up'[r]) = Len(up[r]) + 1
          /\ up'[r][Len(up[r]) + 1] = [n |-> out[r] + 1, last |-> "no"]
          /\ \A i \in 1..Len(up[r]) : up'[r][i] = up[r][i]
      BY <3>1, <3>2, AppendFacts
    <3> QED BY <1>11, <1>t, <3>3 DEF Produce, TypeOK
  <2>5. Stages(r)'
    BY <1>p, <2>3, <2>4 DEF Stages
  <2>6. Contents(r)'
    <3>1. \A c \in Chunks : Right(r, c) => Right(r, c)'
      BY <2>3, <2>4 DEF Right, Chunks
    <3>2. /\ \A i \in 1..Len(inbox[r]) : inbox[r][i] \in Chunks
          /\ \A i \in 1..Len(up[r]) : up[r][i] \in Chunks
          /\ hand[r] # NoChunk => hand[r] \in Chunks
      BY <1>t DEF TypeOK
    <3>3. \A i \in 1..Len(inbox'[r]) : Right(r, inbox[r][i])'
      BY <1>p, <2>4, <3>1, <3>2 DEF Contents, Right
    <3>4. (hand[r] # NoChunk => Right(r, hand[r]))'
      BY <1>p, <2>4, <3>1, <3>2 DEF Contents, Right
    <3>5. \A i \in 1..Len(up[r]) : Right(r, up[r][i])'
      <4>1. \A i \in 1..Len(up[r]) : Right(r, up[r][i]) /\ up'[r][i] = up[r][i]
        BY <1>p, <2>4 DEF Contents
      <4> QED BY <3>1, <3>2, <4>1 DEF Right
    <3>6. \A i \in 1..Len(up'[r]) : Right(r, up[r][i])'
      BY <2>3, <2>4, <3>5 DEF Right, Ends
    <3> QED BY <3>3, <3>4, <3>6 DEF Contents
  <2>7. Adjacent(r)'
    <3> SUFFICES ASSUME told'[r] = "none" PROVE (InboxAt(r) /\ HandAt(r) /\ UpAt(r) /\ AllAt(r))'
      BY DEF Adjacent
    <3>1. InboxAt(r) /\ HandAt(r) /\ UpAt(r) /\ AllAt(r)
      BY <1>p, <2>4 DEF Adjacent
    <3>2. Sent(r)' = Sent(r) /\ Routed(r)' = Routed(r)
      BY <2>3, <2>4 DEF Routed, Sent, InHand
    <3>3. InboxAt(r)'
      BY <2>3, <2>4, <3>1 DEF InboxAt
    <3>4. HandAt(r)'
      BY <2>0, <2>3, <2>4, <3>1, <3>2 DEF HandAt
    <3>5. UpAt(r)'
      <4>1. out[r] = Routed(r) + Len(up[r])
        BY <2>0, <2>3, <2>4, <3>1 DEF AllAt
      <4>2. \A i \in 1..Len(up[r]) : up'[r][i].n = Routed(r) + i
        BY <2>4, <3>1 DEF UpAt
      <4>3. up'[r][Len(up[r]) + 1].n = Routed(r) + (Len(up[r]) + 1)
        BY <2>0, <2>3, <2>4, <4>1
      <4> QED BY <2>3, <2>4, <3>2, <4>2, <4>3 DEF UpAt
    <3>6. AllAt(r)'
      BY <2>0, <2>3, <2>4, <3>1, <3>2 DEF AllAt
    <3> QED BY <3>3, <3>4, <3>5, <3>6
  <2>8. Received(r)'
    BY <1>p, <2>3, <2>4 DEF Received
  <2>9. \A q \in Requests \ {r} : Quiet(q)
    BY <1>11, <1>t DEF Produce, TypeOK, Quiet
  <2> QED BY <1>t, <2>1, <2>2, <2>5, <2>6, <2>7, <2>8, <2>9, OnePipe DEF Pipe
<1>12. ASSUME NEW r \in Requests, NEW end \in Ends, ProduceEnd(r, end) PROVE IInv'
  <2>1. QueueInv'
    BY <1>12, <1>t, <1>k, QuietQueue DEF ProduceEnd
  <2>2. NoLeak'
    BY <1>12, <1>t, <1>k DEF ProduceEnd, NoLeak
  <2>0. Sent(r) \in Nat /\ Routed(r) \in Nat
    BY <1>t DEF TypeOK, Sent, Routed, InHand
  <2>3. /\ Len(got[r]) \in Nat /\ Len(inbox[r]) \in Nat /\ Len(up[r]) \in Nat
        /\ out[r] \in Nat
    BY <1>t DEF TypeOK
  <2>4. /\ Len(up'[r]) = Len(up[r]) + 1
        /\ up'[r][Len(up[r]) + 1] = [n |-> out[r] + 1, last |-> end]
        /\ \A i \in 1..Len(up[r]) : up'[r][i] = up[r][i]
        /\ out'[r] = out[r] /\ task[r] = "run" /\ task'[r] = "sent"
        /\ report[r] = "open" /\ report'[r] = "open"
        /\ got'[r] = got[r] /\ inbox'[r] = inbox[r] /\ hand'[r] = hand[r]
        /\ caller'[r] = caller[r] /\ told'[r] = told[r]
    <3>1. [n |-> out[r] + 1, last |-> end] \in Chunks
      BY <2>3 DEF Chunks, Ends
    <3>2. up'[r] = Append(up[r], [n |-> out[r] + 1, last |-> end]) /\ up[r] \in Seq(Chunks)
      BY <1>12, <1>t DEF ProduceEnd, TypeOK
    <3>3. /\ Len(up'[r]) = Len(up[r]) + 1
          /\ up'[r][Len(up[r]) + 1] = [n |-> out[r] + 1, last |-> end]
          /\ \A i \in 1..Len(up[r]) : up'[r][i] = up[r][i]
      BY <3>1, <3>2, AppendFacts
    <3> QED BY <1>12, <1>t, <3>3 DEF ProduceEnd, TypeOK
  <2>5. Stages(r)'
    BY <1>p, <2>3, <2>4 DEF Stages
  <2>6. Contents(r)'
    <3>1. \A c \in Chunks : Right(r, c) => Right(r, c)'
      BY <2>3, <2>4 DEF Right, Chunks
    <3>2. /\ \A i \in 1..Len(inbox[r]) : inbox[r][i] \in Chunks
          /\ \A i \in 1..Len(up[r]) : up[r][i] \in Chunks
          /\ hand[r] # NoChunk => hand[r] \in Chunks
      BY <1>t DEF TypeOK
    <3>3. \A i \in 1..Len(inbox'[r]) : Right(r, inbox[r][i])'
      BY <1>p, <2>4, <3>1, <3>2 DEF Contents, Right
    <3>4. (hand[r] # NoChunk => Right(r, hand[r]))'
      BY <1>p, <2>4, <3>1, <3>2 DEF Contents, Right
    <3>5. \A i \in 1..Len(up[r]) : Right(r, up[r][i])'
      <4>1. \A i \in 1..Len(up[r]) : Right(r, up[r][i]) /\ up'[r][i] = up[r][i]
        BY <1>p, <2>4 DEF Contents
      <4> QED BY <3>1, <3>2, <4>1 DEF Right
    <3>6. \A i \in 1..Len(up'[r]) : Right(r, up[r][i])'
      BY <2>3, <2>4, <3>5 DEF Right, Ends
    <3> QED BY <3>3, <3>4, <3>6 DEF Contents
  <2>7. Adjacent(r)'
    <3> SUFFICES ASSUME told'[r] = "none" PROVE (InboxAt(r) /\ HandAt(r) /\ UpAt(r) /\ AllAt(r))'
      BY DEF Adjacent
    <3>1. InboxAt(r) /\ HandAt(r) /\ UpAt(r) /\ AllAt(r)
      BY <1>p, <2>4 DEF Adjacent
    <3>2. Sent(r)' = Sent(r) /\ Routed(r)' = Routed(r)
      BY <2>3, <2>4 DEF Routed, Sent, InHand
    <3>3. InboxAt(r)'
      BY <2>3, <2>4, <3>1 DEF InboxAt
    <3>4. HandAt(r)'
      BY <2>0, <2>3, <2>4, <3>1, <3>2 DEF HandAt
    <3>5. UpAt(r)'
      <4>1. out[r] = Routed(r) + Len(up[r])
        BY <2>0, <2>3, <2>4, <3>1 DEF AllAt
      <4>2. \A i \in 1..Len(up[r]) : up'[r][i].n = Routed(r) + i
        BY <2>4, <3>1 DEF UpAt
      <4>3. up'[r][Len(up[r]) + 1].n = Routed(r) + (Len(up[r]) + 1)
        BY <2>0, <2>3, <2>4, <4>1
      <4> QED BY <2>3, <2>4, <3>2, <4>2, <4>3 DEF UpAt
    <3>6. AllAt(r)'
      BY <2>0, <2>3, <2>4, <3>1, <3>2 DEF AllAt
    <3> QED BY <3>3, <3>4, <3>5, <3>6
  <2>8. Received(r)'
    BY <1>p, <2>3, <2>4 DEF Received
  <2>9. \A q \in Requests \ {r} : Quiet(q)
    BY <1>12, <1>t DEF ProduceEnd, TypeOK, Quiet
  <2> QED BY <1>t, <2>1, <2>2, <2>5, <2>6, <2>7, <2>8, <2>9, OnePipe DEF Pipe
<1>13. ASSUME NEW r \in Requests, ProduceStops(r) PROVE IInv'
  <2>1. QueueInv'
    BY <1>13, <1>t, <1>k, QuietQueue DEF ProduceStops
  <2>2. NoLeak'
    BY <1>13, <1>t, <1>k DEF ProduceStops, NoLeak
  <2>0. Sent(r) \in Nat /\ Routed(r) \in Nat
    BY <1>t DEF TypeOK, Sent, Routed, InHand
  <2>3. /\ Len(got[r]) \in Nat /\ Len(inbox[r]) \in Nat /\ Len(up[r]) \in Nat
        /\ out[r] \in Nat
    BY <1>t DEF TypeOK
  <2>4. /\ got'[r] = got[r] /\ inbox'[r] = inbox[r] /\ out'[r] = out[r]
        /\ caller'[r] = caller[r] /\ told'[r] = told[r]
        /\ task[r] = "run" /\ task'[r] = "over" /\ report[r] = "closed"
        /\ report'[r] = "closed" /\ up'[r] = up[r] /\ hand'[r] = hand[r]
    BY <1>13, <1>t, <1>p DEF ProduceStops, TypeOK, Stages
  <2>5. Stages(r)'
    BY <1>p, <2>3, <2>4 DEF Stages
  <2>6. Contents(r)'
    BY <1>p, <2>3, <2>4 DEF Contents, Right
  <2>7. Adjacent(r)'
    <3> SUFFICES ASSUME told'[r] = "none" PROVE (InboxAt(r) /\ HandAt(r) /\ UpAt(r) /\ AllAt(r))'
      BY DEF Adjacent
    <3>1. InboxAt(r) /\ HandAt(r) /\ UpAt(r) /\ AllAt(r)
      BY <1>p, <2>4 DEF Adjacent
    <3>2. Sent(r)' = Sent(r) /\ Routed(r)' = Routed(r)
      BY <2>3, <2>4 DEF Routed, Sent, InHand
    <3>3. InboxAt(r)'
      BY <2>3, <2>4, <3>1 DEF InboxAt
    <3>4. HandAt(r)'
      BY <2>0, <2>3, <2>4, <3>1, <3>2 DEF HandAt
    <3>5. UpAt(r)'
      BY <2>0, <2>3, <2>4, <3>1, <3>2 DEF UpAt
    <3>6. AllAt(r)'
      BY <2>0, <2>3, <2>4, <3>1, <3>2 DEF AllAt
    <3> QED BY <3>3, <3>4, <3>5, <3>6
  <2>8. Received(r)'
    BY <1>p, <2>3, <2>4 DEF Received
  <2>9. \A q \in Requests \ {r} : Quiet(q)
    BY <1>13, <1>t DEF ProduceStops, TypeOK, Quiet
  <2> QED BY <1>t, <2>1, <2>2, <2>5, <2>6, <2>7, <2>8, <2>9, OnePipe DEF Pipe
<1>14. ASSUME NEW r \in Requests, TaskEnds(r) PROVE IInv'
  <2>1. QueueInv'
    BY <1>14, <1>t, <1>k, QuietQueue DEF TaskEnds
  <2>2. NoLeak'
    BY <1>14, <1>t, <1>k DEF TaskEnds, NoLeak
  <2>0. Sent(r) \in Nat /\ Routed(r) \in Nat
    BY <1>t DEF TypeOK, Sent, Routed, InHand
  <2>3. /\ Len(got[r]) \in Nat /\ Len(inbox[r]) \in Nat /\ Len(up[r]) \in Nat
        /\ out[r] \in Nat
    BY <1>t DEF TypeOK
  <2>4. /\ got'[r] = got[r] /\ inbox'[r] = inbox[r] /\ out'[r] = out[r]
        /\ caller'[r] = caller[r] /\ told'[r] = told[r]
        /\ task[r] = "sent" /\ task'[r] = "over" /\ report'[r] = "closed"
        /\ up'[r] = up[r] /\ up[r] = <<>> /\ hand'[r] = hand[r] /\ hand[r] = NoChunk
    BY <1>14, <1>t, <1>p DEF TaskEnds, TypeOK, Stages
  <2>5. Stages(r)'
    BY <1>p, <2>3, <2>4 DEF Stages
  <2>6. Contents(r)'
    BY <1>p, <2>3, <2>4 DEF Contents, Right
  <2>7. Adjacent(r)'
    <3> SUFFICES ASSUME told'[r] = "none" PROVE (InboxAt(r) /\ HandAt(r) /\ UpAt(r) /\ AllAt(r))'
      BY DEF Adjacent
    <3>1. InboxAt(r) /\ HandAt(r) /\ UpAt(r) /\ AllAt(r)
      BY <1>p, <2>4 DEF Adjacent
    <3>2. Sent(r)' = Sent(r) /\ Routed(r)' = Routed(r)
      BY <2>3, <2>4 DEF Routed, Sent, InHand
    <3>3. InboxAt(r)'
      BY <2>3, <2>4, <3>1 DEF InboxAt
    <3>4. HandAt(r)'
      BY <2>0, <2>3, <2>4, <3>1, <3>2 DEF HandAt
    <3>5. UpAt(r)'
      BY <2>0, <2>3, <2>4, <3>1, <3>2 DEF UpAt
    <3>6. AllAt(r)'
      BY <2>0, <2>3, <2>4, <3>1, <3>2 DEF AllAt
    <3> QED BY <3>3, <3>4, <3>5, <3>6
  <2>8. Received(r)'
    BY <1>p, <2>3, <2>4 DEF Received
  <2>9. \A q \in Requests \ {r} : Quiet(q)
    BY <1>14, <1>t DEF TaskEnds, TypeOK, Quiet
  <2> QED BY <1>t, <2>1, <2>2, <2>5, <2>6, <2>7, <2>8, <2>9, OnePipe DEF Pipe
<1>15. ASSUME NEW r \in Requests, RouteTake(r) PROVE IInv'
  <2>1. QueueInv'
    BY <1>15, <1>t, <1>k, QuietQueue DEF RouteTake
  <2>2. NoLeak'
    BY <1>15, <1>t, <1>k DEF RouteTake, NoLeak
  <2>0. Sent(r) \in Nat /\ Routed(r) \in Nat
    BY <1>15, <1>t, TailFacts DEF RouteTake, TypeOK, Sent, Routed, InHand
  <2>3. /\ Len(got[r]) \in Nat /\ Len(inbox[r]) \in Nat /\ Len(up[r]) \in Nat
        /\ out[r] \in Nat /\ Len(up[r]) >= 1 /\ Head(up[r]) = up[r][1]
        /\ up[r][1] # NoChunk /\ Len(Tail(up[r])) = Len(up[r]) - 1
        /\ \A i \in 1..(Len(up[r]) - 1) : Tail(up[r])[i] = up[r][i + 1]
    BY <1>15, <1>t, TailFacts DEF RouteTake, TypeOK
  <2>4. /\ got'[r] = got[r] /\ inbox'[r] = inbox[r] /\ out'[r] = out[r]
        /\ caller'[r] = caller[r] /\ told'[r] = told[r] /\ task'[r] = task[r]
        /\ report[r] = "open" /\ report'[r] = "open" /\ hand[r] = NoChunk
        /\ hand'[r] = up[r][1] /\ up'[r] = Tail(up[r])
    BY <1>15, <1>t, <2>3 DEF RouteTake, TypeOK
  <2>5. Stages(r)'
    BY <1>p, <2>3, <2>4 DEF Stages
  <2>6. Contents(r)'
    BY <1>p, <2>3, <2>4 DEF Contents, Right
  <2>7. Adjacent(r)'
    <3> SUFFICES ASSUME told'[r] = "none" PROVE (InboxAt(r) /\ HandAt(r) /\ UpAt(r) /\ AllAt(r))'
      BY DEF Adjacent
    <3>1. InboxAt(r) /\ HandAt(r) /\ UpAt(r) /\ AllAt(r)
      BY <1>p, <2>4 DEF Adjacent
    <3>2. Sent(r)' = Sent(r) /\ Routed(r)' = Routed(r) + 1
      BY <2>3, <2>4 DEF Routed, Sent, InHand
    <3>3. InboxAt(r)'
      BY <2>3, <2>4, <3>1 DEF InboxAt
    <3>4. HandAt(r)'
      <4>1. Routed(r) = Sent(r)
        BY <2>0, <2>4 DEF Routed, InHand
      <4>2. up[r][1].n = Sent(r) + 1
        BY <2>3, <3>1, <4>1 DEF UpAt
      <4> QED BY <2>4, <3>2, <4>2 DEF HandAt
    <3>5. UpAt(r)'
      BY <2>0, <2>3, <2>4, <3>1, <3>2 DEF UpAt
    <3>6. AllAt(r)'
      BY <2>0, <2>3, <2>4, <3>1, <3>2 DEF AllAt
    <3> QED BY <3>3, <3>4, <3>5, <3>6
  <2>8. Received(r)'
    BY <1>p, <2>3, <2>4 DEF Received
  <2>9. \A q \in Requests \ {r} : Quiet(q)
    BY <1>15, <1>t DEF RouteTake, TypeOK, Quiet
  <2> QED BY <1>t, <2>1, <2>2, <2>5, <2>6, <2>7, <2>8, <2>9, OnePipe DEF Pipe
<1>16. ASSUME NEW r \in Requests, RouteSend(r) PROVE IInv'
  <2>1. QueueInv'
    BY <1>16, <1>t, <1>k, QuietQueue DEF RouteSend
  <2>2. NoLeak'
    BY <1>16, <1>t, <1>k DEF RouteSend, NoLeak
  <2>0. Sent(r) \in Nat /\ Routed(r) \in Nat
    BY <1>t DEF TypeOK, Sent, Routed, InHand
  <2>3. /\ Len(got[r]) \in Nat /\ Len(inbox[r]) \in Nat /\ Len(up[r]) \in Nat
        /\ out[r] \in Nat
    BY <1>t DEF TypeOK
  <2>4. /\ got'[r] = got[r] /\ up'[r] = up[r] /\ out'[r] = out[r]
        /\ caller'[r] = caller[r] /\ told'[r] = told[r] /\ task'[r] = task[r]
        /\ report'[r] = report[r] /\ hand[r] # NoChunk /\ hand'[r] = NoChunk
        /\ Len(inbox'[r]) = Len(inbox[r]) + 1 /\ inbox'[r][Len(inbox[r]) + 1] = hand[r]
        /\ \A i \in 1..Len(inbox[r]) : inbox'[r][i] = inbox[r][i]
        /\ report[r] = "open" /\ task[r] # "none"
    <3>1. /\ inbox[r] \in Seq(Chunks) /\ hand[r] \in Chunks
          /\ inbox'[r] = Append(inbox[r], hand[r])
      BY <1>16, <1>t DEF RouteSend, TypeOK
    <3>2. /\ Len(inbox'[r]) = Len(inbox[r]) + 1 /\ inbox'[r][Len(inbox[r]) + 1] = hand[r]
          /\ \A i \in 1..Len(inbox[r]) : inbox'[r][i] = inbox[r][i]
      BY <3>1, AppendFacts
    <3> QED BY <1>16, <1>t, <1>p, <3>2 DEF RouteSend, TypeOK, Stages
  <2>5. Stages(r)'
    BY <1>p, <2>3, <2>4 DEF Stages
  <2>6. Contents(r)'
    <3>2. \A i \in 1..Len(inbox[r]) : Right(r, inbox[r][i]) /\ inbox'[r][i] = inbox[r][i]
      BY <1>p, <2>4 DEF Contents
    <3>3. Right(r, hand[r]) /\ \A i \in 1..Len(up[r]) : Right(r, up[r][i])
      BY <1>p, <2>4 DEF Contents
    <3>4. \A i \in 1..Len(inbox'[r]) : Right(r, inbox'[r][i])
      BY <2>3, <2>4, <3>2, <3>3
    <3>5. \A i \in 1..Len(inbox'[r]) : Right(r, inbox[r][i])'
      BY <2>4, <3>4 DEF Right
    <3>6. \A i \in 1..Len(up'[r]) : Right(r, up[r][i])'
      BY <2>4, <3>3 DEF Right
    <3> QED BY <2>4, <3>5, <3>6 DEF Contents
  <2>7. Adjacent(r)'
    <3> SUFFICES ASSUME told'[r] = "none" PROVE (InboxAt(r) /\ HandAt(r) /\ UpAt(r) /\ AllAt(r))'
      BY DEF Adjacent
    <3>1. InboxAt(r) /\ HandAt(r) /\ UpAt(r) /\ AllAt(r)
      BY <1>p, <2>4 DEF Adjacent
    <3>2. Sent(r)' = Sent(r) + 1 /\ Routed(r) = Sent(r) + 1 /\ Routed(r)' = Routed(r)
      <4>1. Sent(r)' = Sent(r) + 1
        <5>1. /\ Len(got[r]) \in Nat /\ Len(inbox[r]) \in Nat
              /\ got'[r] = got[r] /\ Len(inbox'[r]) = Len(inbox[r]) + 1
          BY <2>3, <2>4
        <5> QED BY <5>1, SentGrows
      <4> QED BY <2>0, <2>4, <4>1 DEF Routed, InHand
    <3>3. InboxAt(r)'
      <4>1. \A i \in 1..Len(inbox[r]) : inbox'[r][i].n = Len(got[r]) + i
        BY <2>4, <3>1 DEF InboxAt
      <4>2. inbox'[r][Len(inbox[r]) + 1].n = Len(got[r]) + (Len(inbox[r]) + 1)
        <5>1. /\ Len(got[r]) \in Nat /\ Len(inbox[r]) \in Nat
              /\ inbox'[r][Len(inbox[r]) + 1] = hand[r]
          BY <2>3, <2>4
        <5>2. hand[r].n = (Len(got[r]) + Len(inbox[r])) + 1
          BY <2>4, <3>1 DEF HandAt, Sent
        <5> QED BY <5>1, <5>2, Sums
      <4>3. /\ Len(inbox[r]) \in Nat /\ got'[r] = got[r]
            /\ Len(inbox'[r]) = Len(inbox[r]) + 1
        BY <2>3, <2>4
      <4>4. \A i \in 1..Len(inbox'[r]) : i \in 1..Len(inbox[r]) \/ i = Len(inbox[r]) + 1
        BY <4>3
      <4> QED BY <4>1, <4>2, <4>3, <4>4, Zenon DEF InboxAt
    <3>4. HandAt(r)'
      BY <2>0, <2>3, <2>4, <3>1, <3>2 DEF HandAt
    <3>5. UpAt(r)'
      BY <2>0, <2>3, <2>4, <3>1, <3>2 DEF UpAt
    <3>6. AllAt(r)'
      BY <2>0, <2>3, <2>4, <3>1, <3>2 DEF AllAt
    <3> QED BY <3>3, <3>4, <3>5, <3>6
  <2>8. Received(r)'
    BY <1>p, <2>3, <2>4 DEF Received
  <2>9. \A q \in Requests \ {r} : Quiet(q)
    BY <1>16, <1>t DEF RouteSend, TypeOK, Quiet
  <2> QED BY <1>t, <2>1, <2>2, <2>5, <2>6, <2>7, <2>8, <2>9, OnePipe DEF Pipe
<1>17. ASSUME NEW r \in Requests, RouteStops(r) PROVE IInv'
  <2>1. QueueInv'
    BY <1>17, <1>t, <1>k, QuietQueue DEF RouteStops
  <2>2. NoLeak'
    BY <1>17, <1>t, <1>k DEF RouteStops, NoLeak
  <2>0. Sent(r) \in Nat /\ Routed(r) \in Nat
    BY <1>t DEF TypeOK, Sent, Routed, InHand
  <2>3. /\ Len(got[r]) \in Nat /\ Len(inbox[r]) \in Nat /\ Len(up[r]) \in Nat
        /\ out[r] \in Nat
    BY <1>t DEF TypeOK
  <2>4. /\ got'[r] = got[r] /\ inbox'[r] = inbox[r] /\ out'[r] = out[r]
        /\ caller'[r] = caller[r] /\ told'[r] = told[r]
        /\ task'[r] = task[r] /\ hand[r] # NoChunk /\ hand'[r] = NoChunk
        /\ up'[r] = <<>> /\ report'[r] = "closed" /\ task[r] # "none"
    BY <1>17, <1>t, <1>p DEF RouteStops, TypeOK, Stages
  <2>5. Stages(r)'
    BY <1>p, <2>3, <2>4 DEF Stages
  <2>6. Contents(r)'
    BY <1>p, <2>3, <2>4 DEF Contents, Right
  <2>7. Adjacent(r)'
    <3> SUFFICES ASSUME told[r] = "none" PROVE InboxAt(r)'
      BY <2>4 DEF Adjacent, HandAt, UpAt, AllAt
    <3>1. InboxAt(r)
      BY <1>p DEF Adjacent
    <3> QED BY <2>4, <3>1 DEF InboxAt
  <2>8. Received(r)'
    BY <1>p, <2>3, <2>4 DEF Received
  <2>9. \A q \in Requests \ {r} : Quiet(q)
    BY <1>17, <1>t DEF RouteStops, TypeOK, Quiet
  <2> QED BY <1>t, <2>1, <2>2, <2>5, <2>6, <2>7, <2>8, <2>9, OnePipe DEF Pipe
<1>18. ASSUME TakeTask PROVE IInv'
  <2>q. queue \in Seq(Requests) /\ queue # <<>>
    BY <1>18, <1>t DEF TakeTask, TypeOK
  <2>0. PICK r \in Requests : r = Head(queue)
    BY <2>q
  <2>1. /\ r = queue[1] /\ task[r] = "none" /\ Len(queue) \in Nat
        /\ Len(queue) >= 1 /\ Len(Tail(queue)) = Len(queue) - 1
        /\ \A i \in 1..(Len(queue) - 1) : Tail(queue)[i] = queue[i + 1]
        /\ caller[r] \notin {"idle", "dispatch"}
        /\ \A i \in 1..Len(queue) : queue[i] \in Requests
    <3>1. \A i \in 1..Len(queue) : queue[i] \in Requests
      BY <2>q
    <3>2. /\ r = queue[1] /\ Len(queue) \in Nat /\ Len(queue) >= 1
          /\ Len(Tail(queue)) = Len(queue) - 1
          /\ \A i \in 1..(Len(queue) - 1) : Tail(queue)[i] = queue[i + 1]
      BY <2>q, <2>0, TailFacts
    <3> QED BY <1>t, <3>1, <3>2 DEF QueueInv
  <2>2. /\ task'[r] = "run" /\ \A q \in Requests \ {r} : task'[q] = task[q]
        /\ caller' = caller /\ queue' = Tail(queue)
    BY <1>18, <1>k, <2>0 DEF TakeTask
  <2>3. QueueInv'
    <3>1. \A i \in 1..Len(queue') : queue'[i] # r
      BY <1>t, <2>1, <2>2 DEF QueueInv
    <3>2. \A i, j \in 1..Len(queue') : queue'[i] = queue'[j] => i = j
      <4> SUFFICES ASSUME NEW i \in 1..Len(queue'), NEW j \in 1..Len(queue'),
                          queue'[i] = queue'[j]
                   PROVE  i = j
        OBVIOUS
      <4>1. i + 1 \in 1..Len(queue) /\ j + 1 \in 1..Len(queue) /\ queue[i + 1] = queue[j + 1]
        BY <2>1, <2>2
      <4>2. i + 1 = j + 1
        BY <1>t, <4>1 DEF QueueInv
      <4> QED BY <2>1, <2>2, <4>2
    <3>3. \A i \in 1..Len(queue') :
             task'[queue'[i]] = "none" /\ caller'[queue'[i]] \notin {"idle", "dispatch"}
      BY <1>t, <2>1, <2>2, <3>1 DEF QueueInv
    <3> QED BY <1>t, <2>1, <2>2, <3>2, <3>3 DEF QueueInv
  <2>4. NoLeak'
    BY <1>18, <1>t DEF TakeTask, NoLeak
  <2>5. Pipe(r)'
    <3>1. /\ out'[r] = 0 /\ got'[r] = <<>> /\ inbox'[r] = <<>> /\ up'[r] = <<>>
          /\ hand'[r] = NoChunk /\ task'[r] = "run" /\ report'[r] = "open"
          /\ told'[r] = told[r] /\ told[r] \notin Ends
          /\ told[r] = "none" <=> caller'[r] \notin {"finish", "done"}
      <4>1. out[r] = 0 /\ got[r] = <<>> /\ inbox[r] = <<>> /\ report[r] = "none"
        BY <1>p, <2>1 DEF Stages
      <4>2. told[r] \notin Ends
        BY <1>p, <2>1 DEF Received
      <4>3. up[r] = <<>> /\ hand[r] = NoChunk
        BY <1>p, <2>1, <4>1 DEF Stages
      <4>4. report'[r] = "open"
        BY <1>18, <1>t, <2>0 DEF TakeTask, TypeOK
      <4>5. told[r] = "none" <=> caller[r] \notin {"finish", "done"}
        BY <1>p, <2>1 DEF Stages
      <4> QED BY <1>18, <2>2, <4>1, <4>2, <4>3, <4>4, <4>5 DEF TakeTask
    <3>2. Stages(r)'
      BY <3>1 DEF Stages
    <3>3. Contents(r)'
      BY <3>1 DEF Contents
    <3>4. Adjacent(r)'
      BY <3>1 DEF Adjacent, InboxAt, HandAt, UpAt, AllAt, Routed, Sent, InHand
    <3>5. Received(r)'
      BY <3>1 DEF Received
    <3> QED BY <3>2, <3>3, <3>4, <3>5 DEF Pipe
  <2>6. \A q \in Requests \ {r} : Quiet(q)
    BY <1>18, <1>t, <2>0 DEF TakeTask, TypeOK, Quiet
  <2> QED BY <1>t, <2>1, <2>3, <2>4, <2>5, <2>6, OnePipe
<1>19. ASSUME Connect PROVE IInv'
  <2>1. QueueInv' /\ NoLeak'
    BY <1>19, <1>t DEF Connect, QueueInv, NoLeak
  <2>2. \A q \in Requests : Quiet(q)
    BY <1>19 DEF Connect, Quiet
  <2> QED BY <1>t, <2>1, <2>2, QuietPipe DEF IInv
<1>20. ASSUME Notice PROVE IInv'
  <2>1. QueueInv' /\ NoLeak'
    BY <1>20, <1>t DEF Notice, QueueInv, NoLeak
  <2>2. \A q \in Requests : Quiet(q)
    BY <1>20 DEF Notice, Quiet
  <2> QED BY <1>t, <2>1, <2>2, QuietPipe DEF IInv
<1>21. ASSUME NEW died \in BOOLEAN, Break(died) PROVE IInv'
  <2>1. QueueInv' /\ NoLeak'
    BY <1>21, <1>t, <1>k, QuietQueue DEF Break, NoLeak
  <2>2. ASSUME NEW r \in Requests PROVE Pipe(r)'
    <3>1. /\ up'[r] = <<>> /\ hand'[r] = NoChunk /\ report'[r] # "open"
          /\ report[r] = "none" <=> report'[r] = "none"
          /\ task'[r] = task[r] \/ (task[r] # "none" /\ task'[r] = "over")
          /\ caller'[r] = caller[r] /\ told'[r] = told[r] /\ got'[r] = got[r]
          /\ inbox'[r] = inbox[r] /\ out'[r] = out[r]
      BY <1>21, <1>t DEF Break, TypeOK
    <3>2. Stages(r)'
      BY <1>p, <3>1 DEF Stages
    <3>3. Contents(r)'
      BY <1>p, <3>1 DEF Contents, Right
    <3>4. Adjacent(r)'
      <4> SUFFICES ASSUME told[r] = "none" PROVE InboxAt(r)'
        BY <3>1 DEF Adjacent, HandAt, UpAt, AllAt
      <4>1. InboxAt(r)
        BY <1>p DEF Adjacent
      <4> QED BY <3>1, <4>1 DEF InboxAt
    <3>5. Received(r)'
      BY <1>p, <3>1 DEF Received
    <3> QED BY <3>2, <3>3, <3>4, <3>5 DEF Pipe
  <2> QED BY <1>t, <2>1, <2>2 DEF IInv
<1>22. CASE UNCHANGED vars
  <2>1. QueueInv' /\ NoLeak'
    BY <1>22, <1>t DEF vars, QueueInv, NoLeak
  <2>2. \A q \in Requests : Quiet(q)
    BY <1>22 DEF vars, Quiet
  <2> QED BY <1>t, <2>1, <2>2, QuietPipe DEF IInv
<1> QED
  BY <1>1, <1>2, <1>3, <1>4, <1>5, <1>6, <1>7, <1>8, <1>9, <1>10, <1>11,
     <1>12, <1>13, <1>14, <1>15, <1>16, <1>17, <1>18, <1>19, <1>20, <1>21,
     <1>22
     DEF Next, CallerStep, TaskStep, RouteStep

LEMMA ExecInvariant == Spec => []IInv
<1> QED BY ExecInit, ExecStep, PTL DEF Spec

(* exec.rs, grpc.rs: every channel on the way stays within its capacity, and *)
(* every variable keeps its type.                                            *)
THEOREM ExecTyped == Spec => []TypeOK
<1>1. IInv => TypeOK
  BY DEF IInv
<1> QED BY <1>1, ExecInvariant, PTL

(* The forwarding task, route and produce_chunks: whatever breaks, ends or   *)
(* is cancelled, the client reads a prefix of the output in its order, and   *)
(* an exit code only after all of it.                                        *)
THEOREM OutputIsInOrder == Spec => []OutputInOrder
<1>1. IInv => OutputInOrder
  BY DEF IInv, Pipe, Received, OutputInOrder, Ends
<1> QED BY <1>1, ExecInvariant, PTL

(* ExecDispatcher::begin and finish: no entry outlives its request, but for  *)
(* a handler dropped before it spawned the forwarding task.                  *)
THEOREM NothingLeaks == Spec => []NoLeak
<1>1. IInv => NoLeak
  BY DEF IInv
<1> QED BY <1>1, ExecInvariant, PTL
===============================================================================
