----------------------------- MODULE VirtioProofs -----------------------------
(***************************************************************************)
(* Proofs about Virtio, for any number of descriptor chains, frames, pages *)
(* and restores, any rate limit and any interleaving of the driver, the    *)
(* interrupt handler, the workers, the clock and the snapshots.            *)
(***************************************************************************)
EXTENDS Virtio, FiniteSetTheorems, TLAPS

(* The parts of TypeOK. *)
Worker == [pc : Pcs, q : AllQueues, signalled : BOOLEAN, seen : 0..MaxPages]

FlagType ==
    /\ vm \in {"new", "attached", "irqchip", "run"} /\ saved \in BOOLEAN
    /\ kind \in Kinds
    /\ status \in {"reset", "probe", "ok", "failed"} /\ activated \in BOOLEAN /\ moved \in BOOLEAN
    /\ ready \in [AllQueues -> BOOLEAN] /\ evt \in [AllQueues -> BOOLEAN]
    /\ isr \in BOOLEAN /\ irq \in BOOLEAN
    /\ driver \in {"run", "ack", "reap"} /\ kick \subseteq AllQueues
    /\ restores \in 0..MaxRestores
RingType ==
    /\ avail \in [AllQueues -> Seq(Heads)] /\ used \in [AllQueues -> Seq(Heads)]
    /\ hand \in [AllQueues -> Heads \union {None}] /\ bad \in [AllQueues -> SUBSET Heads]
WorkType == work \in [Threads -> Worker]
FrameType ==
    /\ tap \in Seq(1..MaxFrames) /\ backlog \in Seq(1..MaxFrames) /\ got \in Seq(1..MaxFrames)
    /\ Len(backlog) <= BacklogMax /\ arrived \in 0..MaxFrames
PageType == actual \in 0..MaxPages /\ owned \in 0..MaxPages
BudgetType ==
    /\ tokens \in [Dims -> Nat] /\ \A d \in Dims : tokens[d] <= Capacity[d]
    /\ since \in 0..SinceMax /\ nap \in 0..TicksPerMs /\ waited \in 0..MaxWait
    /\ ideal \in [Dims -> Nat]

(* Where a worker has a chain in its hand. *)
Holding == {"admit", "serve", "add", "load", "cas", "publish"}

(* Which worker is where, and for which queue. *)
WorkAt(t, w) ==
    /\ w.pc # "none" => moved /\ \E q \in Queues : Thread(q) = t
    /\ w.pc \notin {"none", "poll"} => w.q \in Queues /\ Thread(w.q) = t
    /\ w.pc \in {"rxdrain", "rxread"} => w.q = "rx"
    /\ w.pc \in Holding \union {"drain"} => w.q # "rx"
    /\ w.pc \in {"admit", "serve"} => w.q \in {"req", "tx"}
    /\ w.pc = "add" => w.q = "inflate"
    /\ w.pc \in {"load", "cas"} => w.q = "deflate"

WorkInv == \A t \in Threads : WorkAt(t, work[t])

(* A chain in hand is that of the queue its worker is at. *)
HandInv ==
    \A q \in AllQueues :
        hand[q] # None <=> work[Thread(q)].q = q /\ work[Thread(q)].pc \in Holding

(* A balloon request that is counted and not yet returned. *)
Counted(q) == IF work[q].pc = "publish" THEN 1 ELSE 0

Held(q) == IF hand[q] = None THEN 0 ELSE 1

(* The balloon's books: what is counted is what the guest has given up, plus *)
(* what was inflated and less what was deflated behind its back; and the     *)
(* driver asks for no more than there is.                                    *)
Books(a, o, ai, hi, ui, ci, ad, hd, ud, cd) ==
    a + ud + cd = o + ui + ci /\ o + ai + hi + ui <= MaxPages /\ ad + hd + ud <= o

CountInv == Books(actual, owned,
    Len(avail["inflate"]), Held("inflate"), Len(used["inflate"]), Counted("inflate"),
    Len(avail["deflate"]), Held("deflate"), Len(used["deflate"]), Counted("deflate"))

Rising(s)    == \A i, j \in 1..Len(s) : i < j => s[i] < s[j]
Before(s, t) == \A i \in 1..Len(s), j \in 1..Len(t) : s[i] < t[j]
UpTo(s, n)   == \A i \in 1..Len(s) : s[i] <= n

(* Frames are older the nearer they are to the guest. *)
OrderInv ==
    /\ Rising(got) /\ Rising(backlog) /\ Rising(tap)
    /\ Before(got, backlog) /\ Before(got, tap) /\ Before(backlog, tap)
    /\ UpTo(got, arrived) /\ UpTo(backlog, arrived) /\ UpTo(tap, arrived)

(* One bucket: the k tokens it holds and the s ticks it has not been refilled *)
(* for, in token-ticks, as far as the ideal one has room for them.           *)
Owed(k, s, r, cap) == Least(k * TicksPerMs + s * r, (cap + r) * TicksPerMs)

(* What taking n tokens leaves in the ideal one. *)
Taken(i, n) == IF i >= n * TicksPerMs THEN i - n * TicksPerMs ELSE 0

(* What a bucket holds and is owed is in the ideal one. *)
BudgetInv == \A d \in Dims : Owed(tokens[d], since, Refill[d], Capacity[d]) <= ideal[d]

Good == \A q \in Queues : bad[q] = {}

(* Until the vCPUs run nothing moves, and no interrupt is pending. *)
RestInv ==
    /\ ~saved
    /\ vm # "run" =>
          /\ ~isr /\ ~irq /\ driver = "run" /\ tap = <<>>
          /\ \A t \in Threads : work[t].pc \in {"none", "poll"}
          /\ \A q \in AllQueues : ~evt[q]

(* A published chain has a notification on its way, or its worker at it. *)
AvailInv ==
    Good => \A q \in Queues \ {"rx"} :
        avail[q] # <<>> => \/ q \in kick \/ evt[q]
                           \/ work[Thread(q)].q = q /\ work[Thread(q)].pc \in Holding \union {"drain"}

(* A worker that is going to raise an interrupt. *)
Owes(w) ==
    w.pc = "flag" \/ (w.signalled /\ w.pc \in Holding \union {"drain", "rxdrain", "rxread"})

(* A returned chain has a worker that will signal it, an interrupt on its    *)
(* way whose status is set, or the handler about to look.                    *)
UsedInv ==
    Good => \A q \in Queues :
        used[q] # <<>> =>
            \/ Owes(work[Thread(q)])
            \/ isr /\ (irq \/ \E t \in Threads : work[t].pc = "irq")
            \/ driver \in {"ack", "reap"}

(* A frame waits in the backlog only for a buffer, or for its worker. *)
BacklogInv ==
    /\ \A q \in AllQueues : evt[q] => q \in Queues
    /\ backlog # <<>> /\ avail["rx"] # <<>> =>
          \/ "rx" \in kick \/ evt["rx"]
          \/ work["net"].q = "rx" /\ work["net"].pc = "rxdrain"

(* A step of worker t: where it goes, and whether it owes an interrupt. *)
Moves(t, x, s) ==
    /\ work'[t].pc = x /\ work'[t].q = work[t].q /\ work'[t].signalled = s
    /\ \A u \in Threads \ {t} : work'[u] = work[u]

(* What each action of worker t does to it. *)
AtQueue(t, pc) == work[t].pc = pc /\ work[t].q \in AllQueues \ {"rx"} /\ work[t].q \in Queues /\ Thread(work[t].q) = t

LEMMA TypeParts == TypeOK <=> FlagType /\ RingType /\ WorkType /\ FrameType /\ PageType /\ BudgetType
BY DEF TypeOK, FlagType, RingType, WorkType, FrameType, PageType, BudgetType, Worker

(* The queues there are. *)
LEMMA QueueSets == AllQueues = {"req", "rx", "tx", "inflate", "deflate"}
BY DEF AllQueues, QueuesOf

LEMMA QueuesOfKind ==
    ASSUME kind \in Kinds
    PROVE  Queues \subseteq AllQueues /\ Queues \in {{"req"}, {"rx", "tx"}, {"inflate", "deflate"}}
<1>1. kind \in {"block", "net", "balloon"}
  BY VirtioAssumption
<1>2. QED
  BY <1>1, QueueSets DEF Queues, QueuesOf

LEMMA ThreadOf == \A q \in AllQueues : Thread(q) \in Threads /\ Thread(q) = IF q \in {"rx", "tx"} THEN "net" ELSE q
BY QueueSets DEF Thread, Threads, QueuesOf

(* The transport, the machine and the driver keep their types. *)
LEMMA FlagStep == FlagType /\ [Next]_vars => FlagType'
<1> SUFFICES ASSUME FlagType, [Next]_vars PROVE FlagType'
  OBVIOUS
<1> USE DEF machine, transport, rings, line, guest, frames, pages, limiter, Goto
<1>k. ASSUME UNCHANGED <<vm, saved, kind, status, activated, moved, ready, evt, isr, irq, driver, kick, restores>> PROVE FlagType'
  BY <1>k DEF FlagType
<1>1. ASSUME NEW q \in Queues, SetReady(q) PROVE FlagType'
  BY <1>1, QueuesOfKind DEF SetReady, FlagType
<1>2. ASSUME NEW q \in Queues, Post(q) PROVE FlagType'
  BY <1>2, QueuesOfKind DEF Post, FlagType
<1>3. ASSUME NEW q \in Queues, Notify(q) PROVE FlagType'
  BY <1>3, QueuesOfKind DEF Notify, FlagType
<1>4. ASSUME Probe PROVE FlagType'
  BY <1>4, QueuesOfKind DEF Probe, FlagType
<1>5. ASSUME DriverOk PROVE FlagType'
  BY <1>5, QueuesOfKind DEF DriverOk, Activate, FlagType
<1>6. ASSUME Reset PROVE FlagType'
  BY <1>6, QueuesOfKind DEF Reset, FlagType
<1>7. ASSUME IsrEnter PROVE FlagType'
  BY <1>7, QueuesOfKind DEF IsrEnter, FlagType
<1>8. ASSUME IsrAck PROVE FlagType'
  BY <1>8, QueuesOfKind DEF IsrAck, FlagType
<1>9. ASSUME IsrReap PROVE FlagType'
  BY <1>9, QueuesOfKind DEF IsrReap, FlagType
<1>10. ASSUME NEW t \in Threads, NEW q \in AllQueues, Poll(t, q) PROVE FlagType'
  BY <1>10, QueuesOfKind, ZenonT(40) DEF Poll, FlagType
<1>11. ASSUME NEW t \in Threads, Pop(t) PROVE FlagType'
  BY <1>11, <1>k DEF Pop
<1>12. ASSUME NEW t \in Threads, Serve(t) PROVE FlagType'
  BY <1>12, <1>k DEF Serve
<1>13. ASSUME NEW t \in Threads, Publish(t) PROVE FlagType'
  BY <1>13, <1>k DEF Publish
<1>14. ASSUME NEW t \in Threads, Flag(t) PROVE FlagType'
  BY <1>14, QueuesOfKind DEF Flag, FlagType
<1>15. ASSUME NEW t \in Threads, RaiseIrq(t) PROVE FlagType'
  BY <1>15, QueuesOfKind DEF RaiseIrq, FlagType
<1>16. ASSUME NEW t \in Threads, Inflate(t) PROVE FlagType'
  BY <1>16, <1>k DEF Inflate
<1>17. ASSUME NEW t \in Threads, Load(t) PROVE FlagType'
  BY <1>17, <1>k DEF Load
<1>18. ASSUME NEW t \in Threads, CompareExchange(t) PROVE FlagType'
  BY <1>18, <1>k DEF CompareExchange
<1>19. ASSUME NEW t \in Threads, TryAdmit(t) PROVE FlagType'
  BY <1>19, <1>k DEF TryAdmit, Spend
<1>20. ASSUME NEW t \in Threads, RxDrain(t) PROVE FlagType'
  BY <1>20, <1>k DEF RxDrain, Deliver
<1>21. ASSUME NEW t \in Threads, RxRead(t) PROVE FlagType'
  BY <1>21, <1>k DEF RxRead, Deliver, Enqueue, Direct
<1>22. ASSUME Tick PROVE FlagType'
  BY <1>22, <1>k DEF Tick
<1>23. ASSUME FrameArrives PROVE FlagType'
  BY <1>23, <1>k DEF FrameArrives
<1>24. ASSUME AttachBooted PROVE FlagType'
  BY <1>24, QueuesOfKind DEF AttachBooted, attach_virtio, FlagType
<1>25. ASSUME StartVcpus PROVE FlagType'
  BY <1>25, QueuesOfKind DEF StartVcpus, FlagType
<1>26. ASSUME Snapshot PROVE FlagType'
  <2>1. restores' \in 0..MaxRestores
    BY <1>26, VirtioAssumption DEF Snapshot, FlagType
  <2>2. saved' \in BOOLEAN /\ evt' \in [AllQueues -> BOOLEAN]
    BY <1>26 DEF Snapshot, FlagType
  <2>3. QED
    BY <1>26, <2>1, <2>2 DEF Snapshot, FlagType
<1>27. ASSUME AttachRestored PROVE FlagType'
  BY <1>27, QueuesOfKind DEF AttachRestored, attach_virtio, restore_activate, Activate, FlagType
<1>28. ASSUME RestoreIrqchip PROVE FlagType'
  BY <1>28, QueuesOfKind DEF RestoreIrqchip, FlagType
<1>29. ASSUME ResumeVcpus PROVE FlagType'
  BY <1>29, QueuesOfKind DEF ResumeVcpus, FlagType
<1>30. CASE UNCHANGED vars
  BY <1>k, <1>30 DEF vars
<1>31. QED
  BY <1>1, <1>2, <1>3, <1>4, <1>5, <1>6, <1>7, <1>8, <1>9, <1>10, <1>11, <1>12, <1>13, <1>14, <1>15, <1>16, <1>17, <1>18, <1>19, <1>20, <1>21, <1>22, <1>23, <1>24, <1>25, <1>26, <1>27, <1>28, <1>29, <1>30 DEF Next, Step, Handler

(* A worker moves on, and the others stay where they are. *)
LEMMA PcMove ==
    ASSUME WorkType, NEW t \in Threads, NEW x \in Pcs, work' = [work EXCEPT ![t].pc = x]
    PROVE  /\ work'[t].pc = x /\ work'[t].q = work[t].q
           /\ work'[t].signalled = work[t].signalled /\ work'[t].seen = work[t].seen
           /\ \A u \in Threads \ {t} : work'[u] = work[u]
           /\ WorkType'
BY DEF WorkType, Worker

LEMMA Signals ==
    ASSUME WorkType, NEW t \in Threads, NEW x \in Pcs,
           work' = [work EXCEPT ![t].pc = x, ![t].signalled = TRUE] \/
           (work' = [work EXCEPT ![t].signalled = TRUE] /\ x = work[t].pc)
    PROVE  /\ work'[t].pc = x /\ work'[t].q = work[t].q
           /\ work'[t].signalled = TRUE /\ work'[t].seen = work[t].seen
           /\ \A u \in Threads \ {t} : work'[u] = work[u]
           /\ WorkType'
<1>1. CASE work' = [work EXCEPT ![t].pc = x, ![t].signalled = TRUE]
  BY <1>1, ZenonT(40) DEF WorkType, Worker
<1>2. CASE work' = [work EXCEPT ![t].signalled = TRUE] /\ x = work[t].pc
  BY <1>2 DEF WorkType, Worker
<1>3. QED
  BY <1>1, <1>2

LEMMA Sees ==
    ASSUME WorkType, PageType, NEW t \in Threads, NEW x \in Pcs,
           work' = [work EXCEPT ![t].pc = x, ![t].seen = actual] \/
           (work' = [work EXCEPT ![t].seen = actual] /\ x = work[t].pc)
    PROVE  /\ work'[t].pc = x /\ work'[t].q = work[t].q
           /\ work'[t].signalled = work[t].signalled
           /\ \A u \in Threads \ {t} : work'[u] = work[u]
           /\ WorkType'
<1>1. CASE work' = [work EXCEPT ![t].pc = x, ![t].seen = actual]
  BY <1>1, ZenonT(40) DEF WorkType, Worker, PageType
<1>2. CASE work' = [work EXCEPT ![t].seen = actual] /\ x = work[t].pc
  BY <1>2 DEF WorkType, Worker, PageType
<1>3. QED
  BY <1>1, <1>2

(* Where a worker goes with a chain. *)
LEMMA AfterFacts ==
    ASSUME NEW q \in AllQueues \ {"rx"}
    PROVE  /\ q \in {"req", "tx"} => /\ After(q, "drain") \in {"admit", "serve"}
                                     /\ After(q, "serve") \in {"admit", "publish"}
                                     /\ After(q, "admit") \in {"serve", "publish"}
           /\ q = "inflate" => After(q, "drain") = "add"
           /\ q = "deflate" => After(q, "drain") = "load"
BY QueueSets DEF After

LEMMA WorkMove ==
    ASSUME WorkInv, UNCHANGED <<kind, moved>>, NEW t \in Threads, WorkAt(t, work'[t]),
           \A u \in Threads \ {t} : work'[u] = work[u]
    PROVE  WorkInv'
BY DEF WorkInv, WorkAt, Queues

LEMMA WorkActivate ==
    ASSUME FlagType, WorkType, WorkInv, Activate, UNCHANGED kind
    PROVE  (WorkType /\ WorkInv)'
<1>1. CASE moved
  BY <1>1 DEF Activate, WorkType, WorkInv, WorkAt, Queues
<1>2. CASE ~moved
  <2> DEFINE w == [Idle EXCEPT !.pc = "poll"]
  <2>1. w \in Worker /\ w.pc = "poll"
    <3>1. 0 \in 0..MaxPages
      BY VirtioAssumption
    <3>2. QED
      BY <3>1, QueueSets DEF Idle, Worker, Pcs
  <2> HIDE DEF w
  <2>2. /\ moved' = TRUE
        /\ work' = [t \in Threads |-> IF \E q \in Queues : Thread(q) = t THEN w ELSE work[t]]
    BY <1>2 DEF Activate, w
  <2>3. WorkType'
    BY <2>1, <2>2 DEF WorkType
  <2>4. ASSUME NEW t \in Threads PROVE WorkAt(t, work[t])'
    <3>1. CASE \E q \in Queues : Thread(q) = t
      BY <2>1, <2>2, <3>1 DEF WorkAt, Holding, Queues
    <3>2. CASE ~\E q \in Queues : Thread(q) = t
      BY <1>2, <2>2, <3>2 DEF WorkInv, WorkAt, Holding, Queues
    <3>3. QED
      BY <3>1, <3>2
  <2>5. QED
    BY <2>3, <2>4 DEF WorkInv
<1>3. QED
  BY <1>1, <1>2 DEF FlagType

(* The workers keep to their queues. *)
LEMMA WorkStep ==
    FlagType /\ PageType /\ WorkType /\ WorkInv /\ [Next]_vars
        => (WorkType /\ WorkInv)'
<1> SUFFICES ASSUME FlagType, PageType, WorkType, WorkInv, [Next]_vars PROVE (WorkType /\ WorkInv)'
  OBVIOUS
<1> USE DEF machine, transport, rings, line, guest, frames, pages, limiter, Goto
<1>k. ASSUME UNCHANGED <<kind, moved, work>> PROVE (WorkType /\ WorkInv)'
  BY <1>k DEF WorkType, WorkInv, WorkAt, Queues
<1>1. ASSUME NEW q \in Queues, SetReady(q) PROVE (WorkType /\ WorkInv)'
  BY <1>1, <1>k DEF SetReady
<1>2. ASSUME NEW q \in Queues, Post(q) PROVE (WorkType /\ WorkInv)'
  BY <1>2, <1>k DEF Post
<1>3. ASSUME NEW q \in Queues, Notify(q) PROVE (WorkType /\ WorkInv)'
  BY <1>3, <1>k DEF Notify
<1>4. ASSUME Probe PROVE (WorkType /\ WorkInv)'
  BY <1>4, <1>k DEF Probe
<1>5. ASSUME DriverOk PROVE (WorkType /\ WorkInv)'
  <2>1. UNCHANGED kind /\ \/ Activate
                          \/ UNCHANGED <<moved, work>>
    BY <1>5 DEF DriverOk
  <2>2. CASE UNCHANGED <<moved, work>>
    BY <1>k, <2>1, <2>2
  <2>3. CASE Activate
    BY <1>k, <2>1, <2>3, WorkActivate
  <2>4. QED
    BY <2>1, <2>2, <2>3
<1>6. ASSUME Reset PROVE (WorkType /\ WorkInv)'
  BY <1>6, <1>k DEF Reset
<1>7. ASSUME IsrEnter PROVE (WorkType /\ WorkInv)'
  BY <1>7, <1>k DEF IsrEnter
<1>8. ASSUME IsrAck PROVE (WorkType /\ WorkInv)'
  BY <1>8, <1>k DEF IsrAck
<1>9. ASSUME IsrReap PROVE (WorkType /\ WorkInv)'
  BY <1>9, <1>k DEF IsrReap
<1>10. ASSUME NEW t \in Threads, NEW q \in AllQueues, Poll(t, q) PROVE (WorkType /\ WorkInv)'
  <2>1. work[t].pc = "poll" /\ q \in Queues /\ Thread(q) = t /\ UNCHANGED <<kind, moved>>
    BY <1>10 DEF Poll
  <2> DEFINE w == [pc |-> IF q = "rx" THEN "rxdrain" ELSE "drain", q |-> q, signalled |-> FALSE, seen |-> 0]
  <2>2. work' = [work EXCEPT ![t] = w]
    BY <1>10 DEF Poll
  <2>3. w \in Worker
    BY VirtioAssumption DEF Worker, Pcs
  <2>4. WorkAt(t, w)
    BY <2>1 DEF WorkInv, WorkAt, Holding
  <2> HIDE DEF w
  <2>5. WorkType' /\ work'[t] = w /\ \A u \in Threads \ {t} : work'[u] = work[u]
    BY <2>2, <2>3 DEF WorkType
  <2>6. QED
    BY <2>1, <2>4, <2>5, WorkMove
<1>11. ASSUME NEW t \in Threads, Pop(t) PROVE (WorkType /\ WorkInv)'
  <2>1. /\ UNCHANGED <<kind, moved>> /\ work[t].pc = "drain" /\ WorkAt(t, work[t])
        /\ work[t].q \in AllQueues \ {"rx"} /\ "drain" \in Holding \union {"drain"}
    BY <1>11, QueuesOfKind DEF Pop, WorkInv, WorkAt, FlagType, Holding
  <2>2. CASE avail[work[t].q] # <<>>
    <3>1. work' = [work EXCEPT ![t].pc = After(work[t].q, "drain")]
      BY <1>11, <2>2 DEF Pop
    <3>2. After(work[t].q, "drain") \in Pcs /\ WorkAt(t, [work[t] EXCEPT !.pc = After(work[t].q, "drain")])
      BY <2>1, AfterFacts, QueueSets DEF Pcs, WorkAt, Holding, WorkType, Worker
    <3>3. WorkType' /\ work'[t] = [work[t] EXCEPT !.pc = After(work[t].q, "drain")]
      BY <3>1, <3>2, PcMove DEF WorkType
    <3>4. QED
      BY <2>1, <3>1, <3>2, <3>3, PcMove, WorkMove
  <2>3. CASE avail[work[t].q] = <<>>
    <3> DEFINE x == IF work[t].signalled THEN "flag" ELSE "poll"
    <3>1. work' = [work EXCEPT ![t].pc = x] /\ x \in Pcs
      BY <1>11, <2>3 DEF Pop, Pcs
    <3> HIDE DEF x
    <3>2. WorkType' /\ work'[t].pc = x /\ work'[t].q = work[t].q /\ \A u \in Threads \ {t} : work'[u] = work[u]
      BY <3>1, PcMove
    <3>3. WorkAt(t, work'[t])
      BY <2>1, <3>2 DEF WorkAt, Holding, x
    <3>4. QED
      BY <2>1, <3>2, <3>3, WorkMove
  <2>4. QED
    BY <2>2, <2>3
<1>12. ASSUME NEW t \in Threads, Serve(t) PROVE (WorkType /\ WorkInv)'
  <2>1. /\ UNCHANGED <<kind, moved>> /\ work[t].pc = "serve" /\ WorkAt(t, work[t])
        /\ work[t].q \in AllQueues \ {"rx"} /\ "serve" \in Holding \union {"drain"}
    BY <1>12, QueuesOfKind DEF Serve, WorkInv, WorkAt, FlagType, Holding
  <2>2. PICK x \in {"poll", After(work[t].q, "serve")} : work' = [work EXCEPT ![t].pc = x]
    BY <1>12 DEF Serve
  <2>3. x \in {"poll", "admit", "publish"} /\ x \in Pcs /\ work[t].q \in {"req", "tx"}
    BY <2>1, <2>2, AfterFacts DEF WorkAt, Pcs
  <2>4. WorkType' /\ work'[t].pc = x /\ work'[t].q = work[t].q /\ \A u \in Threads \ {t} : work'[u] = work[u]
    BY <2>2, <2>3, PcMove
  <2>5. WorkAt(t, work'[t])
    BY <2>1, <2>2, <2>3, <2>4 DEF WorkAt, Holding
  <2>6. QED
    BY <2>1, <2>4, <2>5, WorkMove
<1>13. ASSUME NEW t \in Threads, Publish(t) PROVE (WorkType /\ WorkInv)'
  <2>1. /\ UNCHANGED <<kind, moved>> /\ work[t].pc = "publish" /\ WorkAt(t, work[t])
        /\ work[t].q \in AllQueues \ {"rx"} /\ "publish" \in Holding \union {"drain"}
    BY <1>13, QueuesOfKind DEF Publish, WorkInv, WorkAt, FlagType, Holding
  <2>2. work' = [work EXCEPT ![t].pc = "drain", ![t].signalled = TRUE] /\ "drain" \in Pcs
    BY <1>13 DEF Publish, Pcs
  <2>3. WorkType' /\ work'[t].pc = "drain" /\ work'[t].q = work[t].q /\ \A u \in Threads \ {t} : work'[u] = work[u]
    BY <2>2, Signals
  <2>4. WorkAt(t, work'[t])
    BY <2>1, <2>2, <2>3 DEF WorkAt, Holding
  <2>5. QED
    BY <2>1, <2>3, <2>4, WorkMove
<1>14. ASSUME NEW t \in Threads, Flag(t) PROVE (WorkType /\ WorkInv)'
  <2>1. /\ UNCHANGED <<kind, moved>> /\ work[t].pc = "flag" /\ WorkAt(t, work[t])
        /\ work' = [work EXCEPT ![t].pc = "irq"] /\ "irq" \in Pcs
    BY <1>14 DEF Flag, WorkInv, Pcs
  <2>2. QED
    BY <2>1, PcMove, WorkMove DEF WorkAt, Holding
<1>15. ASSUME NEW t \in Threads, RaiseIrq(t) PROVE (WorkType /\ WorkInv)'
  <2>1. /\ UNCHANGED <<kind, moved>> /\ work[t].pc = "irq" /\ WorkAt(t, work[t])
        /\ work' = [work EXCEPT ![t].pc = "poll"] /\ "poll" \in Pcs
    BY <1>15 DEF RaiseIrq, WorkInv, Pcs
  <2>2. QED
    BY <2>1, PcMove, WorkMove DEF WorkAt, Holding
<1>16. ASSUME NEW t \in Threads, Inflate(t) PROVE (WorkType /\ WorkInv)'
  <2>1. /\ UNCHANGED <<kind, moved>> /\ work[t].pc = "add" /\ WorkAt(t, work[t])
        /\ work' = [work EXCEPT ![t].pc = "publish"] /\ "publish" \in Pcs
    BY <1>16 DEF Inflate, WorkInv, Pcs
  <2>2. QED
    BY <2>1, PcMove, WorkMove DEF WorkAt, Holding
<1>17. ASSUME NEW t \in Threads, Load(t) PROVE (WorkType /\ WorkInv)'
  <2>1. /\ UNCHANGED <<kind, moved>> /\ work[t].pc = "load" /\ WorkAt(t, work[t])
        /\ work' = [work EXCEPT ![t].pc = "cas", ![t].seen = actual] /\ "cas" \in Pcs
    BY <1>17 DEF Load, WorkInv, Pcs
  <2>2. QED
    BY <2>1, Sees, WorkMove DEF WorkAt, Holding
<1>18. ASSUME NEW t \in Threads, CompareExchange(t) PROVE (WorkType /\ WorkInv)'
  <2>1. /\ UNCHANGED <<kind, moved>> /\ work[t].pc = "cas" /\ WorkAt(t, work[t])
        /\ "cas" \in Pcs /\ "publish" \in Pcs
    BY <1>18 DEF CompareExchange, WorkInv, Pcs
  <2>2. \/ work' = [work EXCEPT ![t].pc = "publish"]
        \/ work' = [work EXCEPT ![t].seen = actual]
    BY <1>18 DEF CompareExchange
  <2>3. CASE work' = [work EXCEPT ![t].pc = "publish"]
    BY <2>1, <2>3, PcMove, WorkMove DEF WorkAt, Holding
  <2>4. CASE work' = [work EXCEPT ![t].seen = actual]
    BY <2>1, <2>4, Sees, WorkMove DEF WorkAt, Holding
  <2>5. QED
    BY <2>2, <2>3, <2>4
<1>19. ASSUME NEW t \in Threads, TryAdmit(t) PROVE (WorkType /\ WorkInv)'
  <2>1. /\ UNCHANGED <<kind, moved>> /\ work[t].pc = "admit" /\ WorkAt(t, work[t])
        /\ work[t].q \in AllQueues \ {"rx"} /\ "admit" \in Holding \union {"drain"}
    BY <1>19, QueuesOfKind DEF TryAdmit, WorkInv, WorkAt, FlagType, Holding
  <2>2. PICK x \in {"admit", After(work[t].q, "admit")} : work' = [work EXCEPT ![t].pc = x]
    BY <1>19 DEF TryAdmit
  <2>3. x \in {"admit", "serve", "publish"} /\ x \in Pcs /\ work[t].q \in {"req", "tx"}
    BY <2>1, <2>2, AfterFacts DEF WorkAt, Pcs
  <2>4. WorkType' /\ work'[t].pc = x /\ work'[t].q = work[t].q /\ \A u \in Threads \ {t} : work'[u] = work[u]
    BY <2>2, <2>3, PcMove
  <2>5. WorkAt(t, work'[t])
    BY <2>1, <2>2, <2>3, <2>4 DEF WorkAt, Holding
  <2>6. QED
    BY <2>1, <2>4, <2>5, WorkMove
<1>20. ASSUME NEW t \in Threads, RxDrain(t) PROVE (WorkType /\ WorkInv)'
  <2>1. /\ UNCHANGED <<kind, moved>> /\ work[t].pc = "rxdrain" /\ WorkAt(t, work[t])
        /\ "rxread" \in Pcs /\ "rxdrain" \in Pcs
    BY <1>20 DEF RxDrain, WorkInv, Pcs
  <2>2. \/ work' = [work EXCEPT ![t].signalled = TRUE]
        \/ work' = work
        \/ \E x \in {"rxread"} : work' = [work EXCEPT ![t].pc = x]
    BY <1>20 DEF RxDrain, Enqueue
  <2>3. CASE work' = [work EXCEPT ![t].signalled = TRUE]
    BY <2>1, <2>3, Signals, WorkMove DEF WorkAt, Holding
  <2>4. CASE work' = work
    BY <1>k, <2>1, <2>4
  <2>5. ASSUME NEW x \in {"rxread"}, work' = [work EXCEPT ![t].pc = x]
        PROVE  (WorkType /\ WorkInv)'
    BY <2>1, <2>5, PcMove, WorkMove, ZenonT(40) DEF WorkAt, Holding
  <2>6. QED
    BY <2>2, <2>3, <2>4, <2>5
<1>21. ASSUME NEW t \in Threads, RxRead(t) PROVE (WorkType /\ WorkInv)'
  <2>1. /\ UNCHANGED <<kind, moved>> /\ work[t].pc = "rxread" /\ WorkAt(t, work[t])
        /\ "flag" \in Pcs /\ "poll" \in Pcs /\ "rxread" \in Pcs
    BY <1>21 DEF RxRead, WorkInv, Pcs
  <2>2. \/ work' = [work EXCEPT ![t].signalled = TRUE]
        \/ work' = work
        \/ \E x \in {"flag", "poll"} : work' = [work EXCEPT ![t].pc = x]
    BY <1>21 DEF RxRead, Enqueue
  <2>3. CASE work' = [work EXCEPT ![t].signalled = TRUE]
    BY <2>1, <2>3, Signals, WorkMove DEF WorkAt, Holding
  <2>4. CASE work' = work
    BY <1>k, <2>1, <2>4
  <2>5. ASSUME NEW x \in {"flag", "poll"}, work' = [work EXCEPT ![t].pc = x]
        PROVE  (WorkType /\ WorkInv)'
    BY <2>1, <2>5, PcMove, WorkMove, ZenonT(40) DEF WorkAt, Holding
  <2>6. QED
    BY <2>2, <2>3, <2>4, <2>5
<1>22. ASSUME Tick PROVE (WorkType /\ WorkInv)'
  BY <1>22, <1>k DEF Tick
<1>23. ASSUME FrameArrives PROVE (WorkType /\ WorkInv)'
  BY <1>23, <1>k DEF FrameArrives
<1>24. ASSUME AttachBooted PROVE (WorkType /\ WorkInv)'
  BY <1>24, <1>k DEF AttachBooted, attach_virtio
<1>25. ASSUME StartVcpus PROVE (WorkType /\ WorkInv)'
  BY <1>25, <1>k DEF StartVcpus
<1>26. ASSUME Snapshot PROVE (WorkType /\ WorkInv)'
  <2>1. work' = [t \in Threads |-> Idle] /\ UNCHANGED kind
    BY <1>26 DEF Snapshot
  <2>2. Idle \in Worker /\ Idle.pc = "none"
    BY VirtioAssumption, QueueSets DEF Idle, Worker, Pcs
  <2>3. QED
    BY <2>1, <2>2 DEF WorkType, WorkInv, WorkAt, Holding
<1>27. ASSUME AttachRestored PROVE (WorkType /\ WorkInv)'
  <2>1. UNCHANGED kind /\ \/ Activate
                          \/ UNCHANGED <<moved, work>>
    BY <1>27 DEF AttachRestored, restore_activate
  <2>2. CASE UNCHANGED <<moved, work>>
    BY <1>k, <2>1, <2>2
  <2>3. CASE Activate
    BY <1>k, <2>1, <2>3, WorkActivate
  <2>4. QED
    BY <2>1, <2>2, <2>3
<1>28. ASSUME RestoreIrqchip PROVE (WorkType /\ WorkInv)'
  BY <1>28, <1>k DEF RestoreIrqchip
<1>29. ASSUME ResumeVcpus PROVE (WorkType /\ WorkInv)'
  BY <1>29, <1>k DEF ResumeVcpus
<1>30. CASE UNCHANGED vars
  BY <1>k, <1>30 DEF vars
<1>31. QED
  BY <1>1, <1>2, <1>3, <1>4, <1>5, <1>6, <1>7, <1>8, <1>9, <1>10, <1>11, <1>12, <1>13, <1>14, <1>15, <1>16, <1>17, <1>18, <1>19, <1>20, <1>21, <1>22, <1>23, <1>24, <1>25, <1>26, <1>27, <1>28, <1>29, <1>30 DEF Next, Step, Handler

(* What each step of a worker does to it, to its ring and to its hand. *)
LEMMA PopMoves ==
    ASSUME FlagType, WorkType, PageType, WorkInv, NEW t \in Threads, Pop(t)
    PROVE  /\ AtQueue(t, "drain")
           /\ \/ /\ avail[work[t].q] # <<>>
                 /\ avail' = [avail EXCEPT ![work[t].q] = Tail(@)]
                 /\ hand' = [hand EXCEPT ![work[t].q] = Head(avail[work[t].q])]
                 /\ \E x \in Holding \ {"cas", "publish"} : Moves(t, x, work[t].signalled)
              \/ /\ avail[work[t].q] = <<>> /\ UNCHANGED <<avail, hand>>
                 /\ Moves(t, IF work[t].signalled THEN "flag" ELSE "poll", work[t].signalled)
<1>1. AtQueue(t, "drain")
  BY QueuesOfKind DEF Pop, AtQueue, WorkInv, WorkAt, FlagType, Holding
<1>2. CASE avail[work[t].q] # <<>>
  <2>1. /\ work' = [work EXCEPT ![t].pc = After(work[t].q, "drain")]
        /\ avail' = [avail EXCEPT ![work[t].q] = Tail(@)]
        /\ hand' = [hand EXCEPT ![work[t].q] = Head(avail[work[t].q])]
    BY <1>2 DEF Pop, Goto
  <2>2. After(work[t].q, "drain") \in Pcs /\ After(work[t].q, "drain") \in Holding \ {"cas", "publish"}
    BY <1>1, AfterFacts, QueueSets DEF Pcs, Holding, AtQueue
  <2>3. Moves(t, After(work[t].q, "drain"), work[t].signalled)
    BY <2>1, <2>2, PcMove DEF Moves
  <2>4. QED
    BY <1>1, <1>2, <2>1, <2>2, <2>3
<1>3. CASE avail[work[t].q] = <<>>
  <2> DEFINE x == IF work[t].signalled THEN "flag" ELSE "poll"
  <2>1. work' = [work EXCEPT ![t].pc = x] /\ x \in Pcs /\ UNCHANGED <<avail, hand>>
    BY <1>3 DEF Pop, Goto, Pcs
  <2> HIDE DEF x
  <2>2. Moves(t, x, work[t].signalled)
    BY <2>1, PcMove DEF Moves
  <2>3. QED
    BY <1>1, <1>3, <2>1, <2>2 DEF x
<1>4. QED
  BY <1>2, <1>3

LEMMA ServeMoves ==
    ASSUME FlagType, WorkType, PageType, WorkInv, NEW t \in Threads, Serve(t)
    PROVE  /\ AtQueue(t, "serve")
           /\ \/ /\ hand[work[t].q] \in bad[work[t].q] /\ Moves(t, "poll", work[t].signalled)
                 /\ hand' = [hand EXCEPT ![work[t].q] = None]
              \/ UNCHANGED hand /\ \E x \in {"admit", "publish"} : Moves(t, x, work[t].signalled)
<1>1. AtQueue(t, "serve") /\ work[t].q \in {"req", "tx"}
  BY QueuesOfKind DEF Serve, AtQueue, WorkInv, WorkAt, FlagType, Holding
<1>2. PICK x \in {"poll", After(work[t].q, "serve")} :
         /\ work' = [work EXCEPT ![t].pc = x]
         /\ \/ x = "poll" /\ hand[work[t].q] \in bad[work[t].q] /\ hand' = [hand EXCEPT ![work[t].q] = None]
            \/ x = After(work[t].q, "serve") /\ UNCHANGED hand
  BY DEF Serve, Goto
<1>3. x \in Pcs /\ After(work[t].q, "serve") \in {"admit", "publish"}
  BY <1>1, <1>2, AfterFacts DEF Pcs, AtQueue
<1>4. Moves(t, x, work[t].signalled)
  BY <1>2, <1>3, PcMove DEF Moves
<1>5. QED
  BY <1>1, <1>2, <1>3, <1>4

LEMMA TryAdmitMoves ==
    ASSUME FlagType, WorkType, PageType, WorkInv, NEW t \in Threads, TryAdmit(t)
    PROVE  AtQueue(t, "admit") /\ \E x \in {"admit", "serve", "publish"} : Moves(t, x, work[t].signalled)
<1>1. AtQueue(t, "admit") /\ work[t].q \in {"req", "tx"}
  BY QueuesOfKind DEF TryAdmit, AtQueue, WorkInv, WorkAt, FlagType, Holding
<1>2. PICK x \in {"admit", After(work[t].q, "admit")} : work' = [work EXCEPT ![t].pc = x]
  BY DEF TryAdmit, Goto
<1>3. x \in Pcs /\ x \in {"admit", "serve", "publish"}
  BY <1>1, <1>2, AfterFacts DEF Pcs, AtQueue
<1>4. Moves(t, x, work[t].signalled)
  BY <1>2, <1>3, PcMove DEF Moves
<1>5. QED
  BY <1>1, <1>3, <1>4

LEMMA PublishMoves ==
    ASSUME FlagType, WorkType, PageType, WorkInv, NEW t \in Threads, Publish(t)
    PROVE  AtQueue(t, "publish") /\ Moves(t, "drain", TRUE)
<1>1. AtQueue(t, "publish")
  BY QueuesOfKind DEF Publish, AtQueue, WorkInv, WorkAt, FlagType, Holding
<1>2. work' = [work EXCEPT ![t].pc = "drain", ![t].signalled = TRUE] /\ "drain" \in Pcs
  BY DEF Publish, Pcs
<1>3. QED
  BY <1>1, <1>2, Signals DEF Moves

LEMMA FlagMoves ==
    ASSUME FlagType, WorkType, PageType, WorkInv, NEW t \in Threads, Flag(t)
    PROVE  work[t].pc = "flag" /\ Moves(t, "irq", work[t].signalled)
<1>1. work[t].pc = "flag" /\ work' = [work EXCEPT ![t].pc = "irq"] /\ "irq" \in Pcs
  BY DEF Flag, Goto, Pcs
<1>2. QED
  BY <1>1, PcMove DEF Moves

LEMMA RaiseIrqMoves ==
    ASSUME FlagType, WorkType, PageType, WorkInv, NEW t \in Threads, RaiseIrq(t)
    PROVE  work[t].pc = "irq" /\ Moves(t, "poll", work[t].signalled)
<1>1. work[t].pc = "irq" /\ work' = [work EXCEPT ![t].pc = "poll"] /\ "poll" \in Pcs
  BY DEF RaiseIrq, Goto, Pcs
<1>2. QED
  BY <1>1, PcMove DEF Moves

LEMMA InflateMoves ==
    ASSUME FlagType, WorkType, PageType, WorkInv, NEW t \in Threads, Inflate(t)
    PROVE  AtQueue(t, "add") /\ t = "inflate" /\ work[t].q = t /\ Moves(t, "publish", work[t].signalled)
<1>1. AtQueue(t, "add") /\ work[t].q = "inflate"
  BY QueuesOfKind DEF Inflate, AtQueue, WorkInv, WorkAt, FlagType, Holding
<1>2. work' = [work EXCEPT ![t].pc = "publish"] /\ "publish" \in Pcs
  BY DEF Inflate, Goto, Pcs
<1>3. QED
  BY <1>1, <1>2, PcMove, ThreadOf DEF Moves, AtQueue

LEMMA LoadMoves ==
    ASSUME FlagType, WorkType, PageType, WorkInv, NEW t \in Threads, Load(t)
    PROVE  AtQueue(t, "load") /\ t = "deflate" /\ work[t].q = t /\ Moves(t, "cas", work[t].signalled)
<1>1. AtQueue(t, "load") /\ work[t].q = "deflate"
  BY QueuesOfKind DEF Load, AtQueue, WorkInv, WorkAt, FlagType, Holding
<1>2. work' = [work EXCEPT ![t].pc = "cas", ![t].seen = actual] /\ "cas" \in Pcs
  BY DEF Load, Goto, Pcs
<1>3. QED
  BY <1>1, <1>2, Sees, ThreadOf DEF Moves, AtQueue

LEMMA CompareExchangeMoves ==
    ASSUME FlagType, WorkType, PageType, WorkInv, NEW t \in Threads, CompareExchange(t)
    PROVE  /\ AtQueue(t, "cas") /\ t = "deflate" /\ work[t].q = t
           /\ \/ Moves(t, "publish", work[t].signalled) /\ actual' = IF actual = 0 THEN 0 ELSE actual - 1
              \/ Moves(t, "cas", work[t].signalled) /\ UNCHANGED actual
<1>1. AtQueue(t, "cas") /\ work[t].q = "deflate"
  BY QueuesOfKind DEF CompareExchange, AtQueue, WorkInv, WorkAt, FlagType, Holding
<1>2. t = "deflate" /\ work[t].pc = "cas" /\ "cas" \in Pcs /\ "publish" \in Pcs
  BY <1>1, ThreadOf DEF AtQueue, Pcs
<1>3. CASE work' = [work EXCEPT ![t].pc = "publish"] /\ actual' = IF actual = 0 THEN 0 ELSE actual - 1
  BY <1>1, <1>2, <1>3, PcMove DEF Moves
<1>4. CASE work' = [work EXCEPT ![t].seen = actual] /\ UNCHANGED actual
  BY <1>1, <1>2, <1>4, Sees DEF Moves
<1>5. QED
  BY <1>3, <1>4 DEF CompareExchange, Goto

LEMMA RxDrainMoves ==
    ASSUME FlagType, WorkType, PageType, WorkInv, NEW t \in Threads, RxDrain(t)
    PROVE  /\ t = "net" /\ work[t].pc = "rxdrain" /\ work[t].q = "rx" /\ "rx" \in Queues
           /\ \/ /\ backlog # <<>> /\ avail["rx"] # <<>> /\ Deliver(Head(backlog)) /\ backlog' = Tail(backlog)
                 /\ Moves(t, "rxdrain", TRUE)
              \/ /\ backlog = <<>> \/ avail["rx"] = <<>>
                 /\ UNCHANGED <<avail, used, got, backlog>> /\ Moves(t, "rxread", work[t].signalled)
<1>1. /\ t = "net" /\ work[t].pc = "rxdrain" /\ work[t].q = "rx" /\ "rx" \in Queues
      /\ "rxdrain" \in Pcs /\ "rxread" \in Pcs
  BY ThreadOf, QueueSets DEF RxDrain, WorkInv, WorkAt, Pcs
<1>2. CASE backlog # <<>> /\ avail["rx"] # <<>>
  <2>1. work' = [work EXCEPT ![t].signalled = TRUE] /\ Deliver(Head(backlog)) /\ backlog' = Tail(backlog)
    BY <1>2 DEF RxDrain
  <2>2. Moves(t, "rxdrain", TRUE)
    BY <1>1, <2>1, Signals DEF Moves
  <2>3. QED
    BY <1>1, <1>2, <2>1, <2>2
<1>3. CASE ~(backlog # <<>> /\ avail["rx"] # <<>>)
  <2>1. work' = [work EXCEPT ![t].pc = "rxread"] /\ UNCHANGED <<avail, used, got, backlog>>
    BY <1>3 DEF RxDrain, Goto
  <2>2. Moves(t, "rxread", work[t].signalled)
    BY <1>1, <2>1, PcMove DEF Moves
  <2>3. QED
    BY <1>1, <1>3, <2>1, <2>2
<1>4. QED
  BY <1>2, <1>3

LEMMA RxReadMoves ==
    ASSUME FlagType, WorkType, PageType, WorkInv, NEW t \in Threads, RxRead(t)
    PROVE  /\ t = "net" /\ work[t].pc = "rxread" /\ work[t].q = "rx" /\ "rx" \in Queues
           /\ \/ /\ tap = <<>> /\ UNCHANGED <<avail, used, got, backlog, tap>>
                 /\ Moves(t, IF work[t].signalled THEN "flag" ELSE "poll", work[t].signalled)
              \/ /\ tap # <<>> /\ tap' = Tail(tap) /\ backlog = <<>> /\ avail["rx"] # <<>>
                 /\ Deliver(Head(tap)) /\ UNCHANGED backlog /\ Moves(t, "rxread", TRUE)
              \/ /\ tap # <<>> /\ tap' = Tail(tap) /\ (backlog # <<>> \/ avail["rx"] = <<>>)
                 /\ Enqueue(Head(tap)) /\ UNCHANGED <<avail, used, got, work>>
<1>1. /\ t = "net" /\ work[t].pc = "rxread" /\ work[t].q = "rx" /\ "rx" \in Queues
      /\ "rxread" \in Pcs /\ "flag" \in Pcs /\ "poll" \in Pcs
  BY ThreadOf, QueueSets DEF RxRead, WorkInv, WorkAt, Pcs
<1>2. CASE tap = <<>>
  <2> DEFINE x == IF work[t].signalled THEN "flag" ELSE "poll"
  <2>1. work' = [work EXCEPT ![t].pc = x] /\ x \in Pcs /\ UNCHANGED <<avail, used, got, backlog, tap>>
    BY <1>1, <1>2 DEF RxRead, Goto
  <2> HIDE DEF x
  <2>2. Moves(t, x, work[t].signalled)
    BY <2>1, PcMove DEF Moves
  <2>3. QED
    BY <1>1, <1>2, <2>1, <2>2 DEF x
<1>3. CASE tap # <<>> /\ Direct
  <2>1. /\ work' = [work EXCEPT ![t].signalled = TRUE] /\ Deliver(Head(tap)) /\ UNCHANGED backlog
        /\ tap' = Tail(tap)
    BY <1>3 DEF RxRead
  <2>2. Moves(t, "rxread", TRUE)
    BY <1>1, <2>1, Signals DEF Moves
  <2>3. QED
    BY <1>1, <1>3, <2>1, <2>2 DEF Direct
<1>4. CASE tap # <<>> /\ ~Direct
  <2>1. tap' = Tail(tap) /\ Enqueue(Head(tap)) /\ UNCHANGED <<avail, used, got, work>>
    BY <1>4 DEF RxRead
  <2>2. QED
    BY <1>1, <1>4, <2>1 DEF Direct
<1>5. QED
  BY <1>2, <1>3, <1>4

LEMMA PollMoves ==
    ASSUME WorkType, NEW t \in Threads, NEW q \in AllQueues, Poll(t, q)
    PROVE  /\ work[t].pc = "poll" /\ q \in Queues /\ Thread(q) = t
           /\ work'[t].pc = (IF q = "rx" THEN "rxdrain" ELSE "drain") /\ work'[t].q = q
           /\ \A u \in Threads \ {t} : work'[u] = work[u]
BY DEF Poll, WorkType

(* A step that takes or returns no chain. *)
LEMMA HandKept ==
    ASSUME HandInv, UNCHANGED hand, NEW t \in Threads,
           \A u \in Threads \ {t} : work'[u] = work[u],
           work'[t].pc \in Holding <=> work[t].pc \in Holding,
           work[t].pc \in Holding => work'[t].q = work[t].q
    PROVE  HandInv'
BY ThreadOf DEF HandInv

(* A step that does. *)
LEMMA HandMove ==
    ASSUME RingType, HandInv, NEW t \in Threads, NEW q \in AllQueues, Thread(q) = t,
           work[t].q = q, work'[t].q = q, \A u \in Threads \ {t} : work'[u] = work[u],
           NEW v, hand' = [hand EXCEPT ![q] = v], v # None <=> work'[t].pc \in Holding
    PROVE  HandInv'
BY ThreadOf, ZenonT(40) DEF HandInv, RingType

LEMMA PcsApart == {"flag", "poll", "rxread", "rxdrain"} \subseteq Pcs \ Holding
BY DEF Pcs, Holding

LEMMA HandActivate ==
    ASSUME WorkType, WorkInv, HandInv, Activate, UNCHANGED hand
    PROVE  HandInv'
<1>1. CASE moved
  BY <1>1 DEF Activate, HandInv
<1>2. CASE ~moved
  <2>1. \A t \in Threads : work[t].pc = "none"
    BY <1>2 DEF WorkInv, WorkAt
  <2>2. \A t \in Threads : work'[t].pc \in {"none", "poll"}
    BY <1>2, <2>1 DEF Activate, Idle
  <2>3. QED
    BY <2>1, <2>2, ThreadOf DEF HandInv, Holding
<1>3. QED
  BY <1>1, <1>2

(* A worker has at most one chain in hand. *)
LEMMA HandStep ==
    FlagType /\ PageType /\ RingType /\ WorkType /\ WorkInv /\ HandInv /\ [Next]_vars
        => HandInv'
<1> SUFFICES ASSUME FlagType, PageType, RingType, WorkType, WorkInv, HandInv, [Next]_vars PROVE HandInv'
  OBVIOUS
<1> USE DEF machine, transport, rings, line, guest, frames, pages, limiter, Goto
<1>k. ASSUME UNCHANGED <<hand, work>> PROVE HandInv'
  BY <1>k DEF HandInv, Thread
<1>1. ASSUME NEW q \in Queues, SetReady(q) PROVE HandInv'
  BY <1>1, <1>k DEF SetReady
<1>2. ASSUME NEW q \in Queues, Post(q) PROVE HandInv'
  BY <1>2, <1>k DEF Post
<1>3. ASSUME NEW q \in Queues, Notify(q) PROVE HandInv'
  BY <1>3, <1>k DEF Notify
<1>4. ASSUME Probe PROVE HandInv'
  BY <1>4, <1>k DEF Probe
<1>5. ASSUME DriverOk PROVE HandInv'
  <2>1. UNCHANGED hand /\ (Activate \/ UNCHANGED work)
    BY <1>5 DEF DriverOk
  <2>2. CASE UNCHANGED work
    BY <1>k, <2>1, <2>2
  <2>3. CASE Activate
    BY <1>k, <2>1, <2>3, HandActivate
  <2>4. QED
    BY <2>1, <2>2, <2>3
<1>6. ASSUME Reset PROVE HandInv'
  BY <1>6, <1>k DEF Reset
<1>7. ASSUME IsrEnter PROVE HandInv'
  BY <1>7, <1>k DEF IsrEnter
<1>8. ASSUME IsrAck PROVE HandInv'
  BY <1>8, <1>k DEF IsrAck
<1>9. ASSUME IsrReap PROVE HandInv'
  BY <1>9, <1>k DEF IsrReap
<1>10. ASSUME NEW t \in Threads, NEW q \in AllQueues, Poll(t, q) PROVE HandInv'
  <2>1. UNCHANGED hand
    BY <1>10 DEF Poll
  <2>2. QED
    BY <1>10, <2>1, PollMoves, HandKept DEF Holding
<1>11. ASSUME NEW t \in Threads, Pop(t) PROVE HandInv'
  <2>1. CASE avail[work[t].q] # <<>>
    <3>1. PICK x \in Holding \ {"cas", "publish"} : Moves(t, x, work[t].signalled)
      BY <1>11, <2>1, PopMoves
    <3>2. AtQueue(t, "drain") /\ hand' = [hand EXCEPT ![work[t].q] = Head(avail[work[t].q])]
      BY <1>11, <2>1, PopMoves
    <3>3. Head(avail[work[t].q]) \in Heads
      BY <2>1, <3>2 DEF RingType, AtQueue
    <3>4. Head(avail[work[t].q]) # None
      BY <3>3, VirtioAssumption
    <3>5. QED
      BY <3>1, <3>2, <3>4, HandMove DEF Moves, AtQueue
  <2>2. CASE avail[work[t].q] = <<>>
    BY <1>11, <2>2, PopMoves, HandKept DEF Moves, AtQueue, Holding
  <2>3. QED
    BY <2>1, <2>2
<1>12. ASSUME NEW t \in Threads, Serve(t) PROVE HandInv'
  <2>1. CASE hand' = [hand EXCEPT ![work[t].q] = None] /\ Moves(t, "poll", work[t].signalled)
    BY <1>12, <2>1, ServeMoves, HandMove DEF Moves, AtQueue, Holding
  <2>2. CASE UNCHANGED hand /\ \E x \in {"admit", "publish"} : Moves(t, x, work[t].signalled)
    BY <1>12, <2>2, ServeMoves, HandKept DEF Moves, AtQueue, Holding
  <2>3. QED
    BY <1>12, <2>1, <2>2, ServeMoves
<1>13. ASSUME NEW t \in Threads, Publish(t) PROVE HandInv'
  <2>1. hand' = [hand EXCEPT ![work[t].q] = None]
    BY <1>13 DEF Publish
  <2>2. QED
    BY <1>13, <2>1, PublishMoves, HandMove DEF Moves, AtQueue, Holding
<1>14. ASSUME NEW t \in Threads, Flag(t) PROVE HandInv'
  <2>1. UNCHANGED hand
    BY <1>14 DEF Flag
  <2>2. QED
    BY <1>14, <2>1, FlagMoves, HandKept DEF Moves, AtQueue, Holding
<1>15. ASSUME NEW t \in Threads, RaiseIrq(t) PROVE HandInv'
  <2>1. UNCHANGED hand
    BY <1>15 DEF RaiseIrq
  <2>2. QED
    BY <1>15, <2>1, RaiseIrqMoves, HandKept DEF Moves, AtQueue, Holding
<1>16. ASSUME NEW t \in Threads, Inflate(t) PROVE HandInv'
  <2>1. UNCHANGED hand
    BY <1>16 DEF Inflate
  <2>2. QED
    BY <1>16, <2>1, InflateMoves, HandKept DEF Moves, AtQueue, Holding
<1>17. ASSUME NEW t \in Threads, Load(t) PROVE HandInv'
  <2>1. UNCHANGED hand
    BY <1>17 DEF Load
  <2>2. QED
    BY <1>17, <2>1, LoadMoves, HandKept DEF Moves, AtQueue, Holding
<1>18. ASSUME NEW t \in Threads, CompareExchange(t) PROVE HandInv'
  <2>1. UNCHANGED hand
    BY <1>18 DEF CompareExchange
  <2>2. QED
    BY <1>18, <2>1, CompareExchangeMoves, HandKept DEF Moves, AtQueue, Holding
<1>19. ASSUME NEW t \in Threads, TryAdmit(t) PROVE HandInv'
  <2>1. UNCHANGED hand
    BY <1>19 DEF TryAdmit
  <2>2. QED
    BY <1>19, <2>1, TryAdmitMoves, HandKept DEF Moves, AtQueue, Holding
<1>20. ASSUME NEW t \in Threads, RxDrain(t) PROVE HandInv'
  <2>1. UNCHANGED hand
    BY <1>20 DEF RxDrain
  <2>2. QED
    BY <1>20, <2>1, RxDrainMoves, HandKept DEF Moves, AtQueue, Holding
<1>21. ASSUME NEW t \in Threads, RxRead(t) PROVE HandInv'
  <2>1. UNCHANGED hand
    BY <1>21 DEF RxRead
  <2>2. CASE UNCHANGED work
    BY <1>k, <2>1, <2>2
  <2>3. CASE \E x \in Pcs \ Holding, s \in BOOLEAN : Moves(t, x, s)
    BY <1>21, <2>1, <2>3, RxReadMoves, HandKept DEF Moves, Holding
  <2>4. QED
    BY <1>21, <2>2, <2>3, RxReadMoves, PcsApart DEF WorkType, Worker
<1>22. ASSUME Tick PROVE HandInv'
  BY <1>22, <1>k DEF Tick
<1>23. ASSUME FrameArrives PROVE HandInv'
  BY <1>23, <1>k DEF FrameArrives
<1>24. ASSUME AttachBooted PROVE HandInv'
  BY <1>24, <1>k DEF AttachBooted, attach_virtio
<1>25. ASSUME StartVcpus PROVE HandInv'
  BY <1>25, <1>k DEF StartVcpus
<1>26. ASSUME Snapshot PROVE HandInv'
  <2>1. UNCHANGED hand /\ \A t \in Threads : work'[t].pc = "none"
    BY <1>26 DEF Snapshot, Idle
  <2>2. \A q \in AllQueues : hand[q] = None
    <3>1. ASSUME NEW q \in AllQueues, work[Thread(q)].pc \in Holding PROVE FALSE
      <4>1. Thread(q) \in Threads
        BY ThreadOf
      <4>2. work[Thread(q)].q \in Queues /\ Thread(work[Thread(q)].q) = Thread(q)
        BY <3>1, <4>1 DEF WorkInv, WorkAt, Holding
      <4>3. QED
        BY <1>26, <3>1, <4>2 DEF Snapshot, Holding
    <3>2. QED
      BY <3>1 DEF HandInv
  <2>3. QED
    BY <2>1, <2>2, ThreadOf DEF HandInv, Holding
<1>27. ASSUME AttachRestored PROVE HandInv'
  <2>1. UNCHANGED hand /\ (Activate \/ UNCHANGED work)
    BY <1>27 DEF AttachRestored, restore_activate
  <2>2. CASE UNCHANGED work
    BY <1>k, <2>1, <2>2
  <2>3. CASE Activate
    BY <1>k, <2>1, <2>3, HandActivate
  <2>4. QED
    BY <2>1, <2>2, <2>3
<1>28. ASSUME RestoreIrqchip PROVE HandInv'
  BY <1>28, <1>k DEF RestoreIrqchip
<1>29. ASSUME ResumeVcpus PROVE HandInv'
  BY <1>29, <1>k DEF ResumeVcpus
<1>30. CASE UNCHANGED vars
  BY <1>k, <1>30 DEF vars
<1>31. QED
  BY <1>1, <1>2, <1>3, <1>4, <1>5, <1>6, <1>7, <1>8, <1>9, <1>10, <1>11, <1>12, <1>13, <1>14, <1>15, <1>16, <1>17, <1>18, <1>19, <1>20, <1>21, <1>22, <1>23, <1>24, <1>25, <1>26, <1>27, <1>28, <1>29, <1>30 DEF Next, Step, Handler

LEMMA RingDeliver ==
    ASSUME RingType, NEW n, Deliver(n), avail["rx"] # <<>>, UNCHANGED <<hand, bad>>
    PROVE  RingType'
<1>1. "rx" \in AllQueues
  BY QueueSets
<1>2. /\ Head(avail["rx"]) \in Heads /\ Tail(avail["rx"]) \in Seq(Heads)
      /\ Append(used["rx"], Head(avail["rx"])) \in Seq(Heads)
  BY <1>1 DEF RingType
<1>3. /\ avail' = [avail EXCEPT !["rx"] = Tail(avail["rx"])]
      /\ used' = [used EXCEPT !["rx"] = Append(used["rx"], Head(avail["rx"]))]
  BY DEF Deliver
<1>4. QED
  BY <1>1, <1>2, <1>3 DEF RingType

(* The rings hold chains; the driver always finds one to post. *)
LEMMA RingStep ==
    FlagType /\ PageType /\ RingType /\ WorkType /\ WorkInv /\ HandInv /\ [Next]_vars
        => RingType'
<1> SUFFICES ASSUME FlagType, PageType, RingType, WorkType, WorkInv, HandInv, [Next]_vars PROVE RingType'
  OBVIOUS
<1> USE DEF machine, transport, rings, line, guest, frames, pages, limiter, Goto
<1>k. ASSUME UNCHANGED <<avail, hand, used, bad>> PROVE RingType'
  BY <1>k DEF RingType
<1>1. ASSUME NEW q \in Queues, SetReady(q) PROVE RingType'
  BY <1>1, <1>k DEF SetReady
<1>2. ASSUME NEW q \in Queues, Post(q) PROVE RingType'
  <2>1. q \in AllQueues
    BY QueuesOfKind DEF FlagType
  <2>2. \E x \in Heads : x \notin Places(q)
    <3>1. Places(q) \ {None} \subseteq Heads
      BY <2>1 DEF Places, RingType, ToSet
    <3>2. Cardinality(Places(q) \ {None}) < Size[q] /\ Size[q] \in 1..Cardinality(Heads)
      BY <1>2, <2>1, VirtioAssumption DEF Post
    <3>3. Cardinality(Heads) \in Nat /\ Cardinality(Places(q) \ {None}) \in Nat
      BY <3>1, FS_Subset, FS_CardinalityType, VirtioAssumption
    <3>4. Places(q) \ {None} # Heads
      BY <3>2, <3>3
    <3>5. QED
      BY <3>1, <3>4, VirtioAssumption
  <2>3. (CHOOSE x \in Heads : x \notin Places(q)) \in Heads
    BY <2>2
  <2> DEFINE h == CHOOSE x \in Heads : x \notin Places(q)
  <2>4. /\ avail' = [avail EXCEPT ![q] = Append(@, h)] /\ UNCHANGED <<hand, used>>
        /\ \E b \in BOOLEAN : bad' = [bad EXCEPT ![q] = IF b THEN @ \union {h} ELSE @]
    BY <1>2 DEF Post
  <2>5. h \in Heads
    BY <2>3
  <2> HIDE DEF h
  <2>6. avail[q] \in Seq(Heads) /\ Append(avail[q], h) \in Seq(Heads)
    BY <2>1, <2>5 DEF RingType
  <2>7. avail' \in [AllQueues -> Seq(Heads)] /\ bad' \in [AllQueues -> SUBSET Heads]
    BY <2>1, <2>4, <2>5, <2>6 DEF RingType
  <2>8. QED
    BY <2>4, <2>7 DEF RingType
<1>3. ASSUME NEW q \in Queues, Notify(q) PROVE RingType'
  BY <1>3, <1>k DEF Notify
<1>4. ASSUME Probe PROVE RingType'
  BY <1>4, <1>k DEF Probe
<1>5. ASSUME DriverOk PROVE RingType'
  BY <1>5, <1>k DEF DriverOk, Activate
<1>6. ASSUME Reset PROVE RingType'
  BY <1>6, <1>k DEF Reset
<1>7. ASSUME IsrEnter PROVE RingType'
  BY <1>7, <1>k DEF IsrEnter
<1>8. ASSUME IsrAck PROVE RingType'
  BY <1>8, <1>k DEF IsrAck
<1>9. ASSUME IsrReap PROVE RingType'
  <2>1. used' = [q \in AllQueues |-> <<>>] /\ UNCHANGED <<avail, hand, bad>>
    BY <1>9 DEF IsrReap
  <2>2. QED
    BY <2>1 DEF RingType
<1>10. ASSUME NEW t \in Threads, NEW q \in AllQueues, Poll(t, q) PROVE RingType'
  BY <1>10, <1>k DEF Poll
<1>11. ASSUME NEW t \in Threads, Pop(t) PROVE RingType'
  <2>1. CASE avail[work[t].q] = <<>>
    BY <1>11, <1>k, <2>1 DEF Pop
  <2>2. CASE avail[work[t].q] # <<>>
    <3>1. /\ AtQueue(t, "drain") /\ UNCHANGED <<used, bad>>
          /\ avail' = [avail EXCEPT ![work[t].q] = Tail(@)]
          /\ hand' = [hand EXCEPT ![work[t].q] = Head(avail[work[t].q])]
      BY <1>11, <2>2, PopMoves DEF Pop
    <3>2. Head(avail[work[t].q]) \in Heads /\ Tail(avail[work[t].q]) \in Seq(Heads)
      BY <2>2, <3>1 DEF RingType, AtQueue
    <3>3. QED
      BY <3>1, <3>2 DEF RingType, AtQueue
  <2>3. QED
    BY <2>1, <2>2
<1>12. ASSUME NEW t \in Threads, Serve(t) PROVE RingType'
  <2>1. /\ UNCHANGED <<avail, used, bad>> /\ work[t].q \in AllQueues
        /\ UNCHANGED hand \/ hand' = [hand EXCEPT ![work[t].q] = None]
    BY <1>12, ServeMoves DEF Serve, AtQueue
  <2>2. QED
    BY <2>1 DEF RingType
<1>13. ASSUME NEW t \in Threads, Publish(t) PROVE RingType'
  <2>1. /\ UNCHANGED <<avail, bad>> /\ AtQueue(t, "publish") /\ hand' = [hand EXCEPT ![work[t].q] = None]
        /\ used' = [used EXCEPT ![work[t].q] = Append(@, hand[work[t].q])]
    BY <1>13, PublishMoves DEF Publish
  <2>2. hand[work[t].q] \in Heads
    BY <2>1 DEF RingType, HandInv, AtQueue, Holding
  <2>3. Append(used[work[t].q], hand[work[t].q]) \in Seq(Heads)
    BY <2>1, <2>2 DEF RingType, AtQueue
  <2>4. QED
    BY <2>1, <2>3 DEF RingType, AtQueue
<1>14. ASSUME NEW t \in Threads, Flag(t) PROVE RingType'
  BY <1>14, <1>k DEF Flag
<1>15. ASSUME NEW t \in Threads, RaiseIrq(t) PROVE RingType'
  BY <1>15, <1>k DEF RaiseIrq
<1>16. ASSUME NEW t \in Threads, Inflate(t) PROVE RingType'
  BY <1>16, <1>k DEF Inflate
<1>17. ASSUME NEW t \in Threads, Load(t) PROVE RingType'
  BY <1>17, <1>k DEF Load
<1>18. ASSUME NEW t \in Threads, CompareExchange(t) PROVE RingType'
  BY <1>18, <1>k DEF CompareExchange
<1>19. ASSUME NEW t \in Threads, TryAdmit(t) PROVE RingType'
  BY <1>19, <1>k DEF TryAdmit, Spend
<1>20. ASSUME NEW t \in Threads, RxDrain(t) PROVE RingType'
  <2>1. CASE UNCHANGED <<avail, used>>
    BY <1>20, <1>k, <2>1 DEF RxDrain
  <2>2. CASE avail["rx"] # <<>> /\ Deliver(Head(backlog))
    BY <1>20, <2>2, RingDeliver DEF RxDrain
  <2>3. QED
    BY <1>20, <2>1, <2>2, RxDrainMoves
<1>21. ASSUME NEW t \in Threads, RxRead(t) PROVE RingType'
  <2>1. CASE UNCHANGED <<avail, used>>
    BY <1>21, <1>k, <2>1 DEF RxRead
  <2>2. CASE avail["rx"] # <<>> /\ Deliver(Head(tap))
    BY <1>21, <2>2, RingDeliver DEF RxRead
  <2>3. QED
    BY <1>21, <2>1, <2>2, RxReadMoves
<1>22. ASSUME Tick PROVE RingType'
  BY <1>22, <1>k DEF Tick
<1>23. ASSUME FrameArrives PROVE RingType'
  BY <1>23, <1>k DEF FrameArrives
<1>24. ASSUME AttachBooted PROVE RingType'
  BY <1>24, <1>k DEF AttachBooted, attach_virtio
<1>25. ASSUME StartVcpus PROVE RingType'
  BY <1>25, <1>k DEF StartVcpus
<1>26. ASSUME Snapshot PROVE RingType'
  BY <1>26, <1>k DEF Snapshot
<1>27. ASSUME AttachRestored PROVE RingType'
  BY <1>27, <1>k DEF AttachRestored, attach_virtio, restore_activate, Activate
<1>28. ASSUME RestoreIrqchip PROVE RingType'
  BY <1>28, <1>k DEF RestoreIrqchip
<1>29. ASSUME ResumeVcpus PROVE RingType'
  BY <1>29, <1>k DEF ResumeVcpus
<1>30. CASE UNCHANGED vars
  BY <1>k, <1>30 DEF vars
<1>31. QED
  BY <1>1, <1>2, <1>3, <1>4, <1>5, <1>6, <1>7, <1>8, <1>9, <1>10, <1>11, <1>12, <1>13, <1>14, <1>15, <1>16, <1>17, <1>18, <1>19, <1>20, <1>21, <1>22, <1>23, <1>24, <1>25, <1>26, <1>27, <1>28, <1>29, <1>30 DEF Next, Step, Handler

LEMMA RingSizes ==
    ASSUME RingType, NEW q \in AllQueues
    PROVE  Len(avail[q]) \in Nat /\ Len(used[q]) \in Nat
BY DEF RingType

(* The entries of the books. *)
LEMMA CountNat ==
    ASSUME RingType, PageType
    PROVE  /\ actual \in Nat /\ owned \in Nat
           /\ \A r \in {"inflate", "deflate"} :
                 /\ Len(avail[r]) \in Nat /\ Len(used[r]) \in Nat
                 /\ Held(r) \in Nat /\ Counted(r) \in Nat
BY RingSizes, QueueSets DEF PageType, Held, Counted

LEMMA BookSteps ==
    ASSUME NEW a \in Nat, NEW o \in Nat, NEW ai \in Nat, NEW hi \in Nat, NEW ui \in Nat, NEW ci \in Nat,
           NEW ad \in Nat, NEW hd \in Nat, NEW ud \in Nat, NEW cd \in Nat,
           Books(a, o, ai, hi, ui, ci, ad, hd, ud, cd)
    PROVE  /\ o + (ai + hi) + ui < MaxPages => Books(a, o, ai + 1, hi, ui, ci, ad, hd, ud, cd)
           /\ o > ad + ud + hd => Books(a, o, ai, hi, ui, ci, ad + 1, hd, ud, cd)
           /\ ai > 0 /\ hi = 0 => Books(a, o, ai - 1, 1, ui, ci, ad, hd, ud, cd)
           /\ ad > 0 /\ hd = 0 => Books(a, o, ai, hi, ui, ci, ad - 1, 1, ud, cd)
           /\ hi = 1 /\ ci = 1 => Books(a, o, ai, 0, ui + 1, 0, ad, hd, ud, cd)
           /\ hd = 1 /\ cd = 1 => Books(a, o, ai, hi, ui, ci, ad, 0, ud + 1, 0)
           /\ hi = 1 /\ ci = 0 => Books(a + 1, o, ai, hi, ui, 1, ad, hd, ud, cd) /\ a + 1 <= MaxPages
           /\ hd = 1 /\ cd = 0 => Books(a - 1, o, ai, hi, ui, ci, ad, hd, ud, 1) /\ a > 0
           /\ Books(a, o + ui - ud, ai, hi, 0, ci, ad, hd, 0, cd) /\ o + ui - ud \in 0..MaxPages
<1>1. MaxPages \in Nat
  BY VirtioAssumption
<1>2. QED
  BY <1>1 DEF Books

(* Steps of the workers of other devices. *)
LEMMA CountApart ==
    ASSUME CountInv, UNCHANGED <<actual, owned>>,
           \A r \in {"inflate", "deflate"} :
               /\ Counted(r)' = Counted(r)
               /\ avail'[r] = avail[r] /\ used'[r] = used[r] /\ hand'[r] = hand[r]
    PROVE  CountInv'
BY DEF CountInv, Held

(* Nothing is being counted while the workers rest. *)
LEMMA CountRest ==
    ASSUME CountInv, UNCHANGED <<actual, owned, avail, used, hand>>,
           \A t \in Threads : work[t].pc # "publish" /\ work'[t].pc # "publish"
    PROVE  CountInv'
BY CountApart DEF Counted, Threads

(* The balloon's books stay balanced. *)
LEMMA CountStep ==
    FlagType /\ PageType /\ RingType /\ WorkType /\ WorkInv /\ HandInv /\ CountInv /\ [Next]_vars
        => (CountInv /\ PageType)'
<1> SUFFICES ASSUME FlagType, PageType, RingType, WorkType, WorkInv, HandInv, CountInv, [Next]_vars PROVE (CountInv /\ PageType)'
  OBVIOUS
<1> USE DEF machine, transport, rings, line, guest, frames, pages, limiter, Goto
<1>c. CountInv' <=> Books(actual', owned',
    Len(avail'["inflate"]), Held("inflate")', Len(used'["inflate"]), Counted("inflate")',
    Len(avail'["deflate"]), Held("deflate")', Len(used'["deflate"]), Counted("deflate")')
  BY DEF CountInv, Books
<1>b. Books(actual, owned,
    Len(avail["inflate"]), Held("inflate"), Len(used["inflate"]), Counted("inflate"),
    Len(avail["deflate"]), Held("deflate"), Len(used["deflate"]), Counted("deflate"))
  BY DEF CountInv
<1>n. /\ actual \in Nat /\ owned \in Nat
      /\ Len(avail["inflate"]) \in Nat /\ Len(used["inflate"]) \in Nat
      /\ Held("inflate") \in Nat /\ Counted("inflate") \in Nat
      /\ Len(avail["deflate"]) \in Nat /\ Len(used["deflate"]) \in Nat
      /\ Held("deflate") \in Nat /\ Counted("deflate") \in Nat
  BY CountNat
<1>k. ASSUME UNCHANGED <<actual, owned, avail, used, hand, work>> PROVE (CountInv /\ PageType)'
  BY <1>k DEF CountInv, PageType, Held, Counted
<1>1. ASSUME NEW q \in Queues, SetReady(q) PROVE (CountInv /\ PageType)'
  BY <1>1, <1>k DEF SetReady
<1>2. ASSUME NEW q \in Queues, Post(q) PROVE (CountInv /\ PageType)'
  <2>0. /\ "inflate" \in AllQueues /\ "deflate" \in AllQueues /\ Thread("inflate") = "inflate"
        /\ Thread("deflate") = "deflate" /\ "inflate" \in Threads /\ "deflate" \in Threads
    BY QueueSets, ThreadOf
  <2>1. /\ q \in AllQueues /\ UNCHANGED <<actual, owned, used, hand, work>>
        /\ \E h : avail' = [avail EXCEPT ![q] = Append(@, h)]
    BY <1>2, QueuesOfKind DEF Post, FlagType
  <2>2. \A r \in AllQueues : Len(avail'[r]) = IF r = q THEN Len(avail[r]) + 1 ELSE Len(avail[r])
    BY <2>1 DEF RingType
  <2>3. /\ q = "inflate" => owned + (Len(avail["inflate"]) + Held("inflate")) + Len(used["inflate"]) < MaxPages
        /\ q = "deflate" => owned > Len(avail["deflate"]) + Len(used["deflate"]) + Held("deflate")
    BY <1>2 DEF Post, Inflating, Deflating, Held
  <2>4. \A r \in {"inflate", "deflate"} : Held(r)' = Held(r) /\ Counted(r)' = Counted(r)
    BY <2>1 DEF Held, Counted
  <2>5. CASE q = "inflate"
    <3>1. /\ Len(avail'["inflate"]) = Len(avail["inflate"]) + 1
          /\ Len(avail'["deflate"]) = Len(avail["deflate"])
      BY <2>0, <2>2, <2>5
    <3>2. Books(actual, owned,
              Len(avail["inflate"]) + 1, Held("inflate"), Len(used["inflate"]), Counted("inflate"),
              Len(avail["deflate"]), Held("deflate"), Len(used["deflate"]), Counted("deflate"))
      BY <2>3, <2>5, <1>b, <1>n, BookSteps
    <3>3. QED
      BY <2>1, <2>4, <3>1, <3>2, <1>c DEF PageType
  <2>6. CASE q = "deflate"
    <3>1. /\ Len(avail'["inflate"]) = Len(avail["inflate"])
          /\ Len(avail'["deflate"]) = Len(avail["deflate"]) + 1
      BY <2>0, <2>2, <2>6
    <3>2. Books(actual, owned,
              Len(avail["inflate"]), Held("inflate"), Len(used["inflate"]), Counted("inflate"),
              Len(avail["deflate"]) + 1, Held("deflate"), Len(used["deflate"]), Counted("deflate"))
      BY <2>3, <2>6, <1>b, <1>n, BookSteps
    <3>3. QED
      BY <2>1, <2>4, <3>1, <3>2, <1>c DEF PageType
  <2>7. CASE q \notin {"inflate", "deflate"}
    BY <2>0, <2>1, <2>2, <2>4, <2>7, <1>b, <1>c DEF PageType
  <2>8. QED
    BY <2>5, <2>6, <2>7
<1>3. ASSUME NEW q \in Queues, Notify(q) PROVE (CountInv /\ PageType)'
  BY <1>3, <1>k DEF Notify
<1>4. ASSUME Probe PROVE (CountInv /\ PageType)'
  BY <1>4, <1>k DEF Probe
<1>5. ASSUME DriverOk PROVE (CountInv /\ PageType)'
  <2>1. UNCHANGED <<actual, owned, avail, used, hand>> /\ (Activate \/ UNCHANGED work)
    BY <1>5 DEF DriverOk
  <2>2. CASE UNCHANGED work
    BY <1>k, <2>1, <2>2
  <2>3. CASE Activate
    <3>1. CASE moved
      BY <1>k, <2>1, <2>3, <3>1 DEF Activate
    <3>2. CASE ~moved
      <4>1. \A t \in Threads : work[t].pc = "none"
        BY <3>2 DEF WorkInv, WorkAt
      <4>2. \A t \in Threads : work'[t].pc \in {"none", "poll"}
        BY <2>3, <3>2, <4>1 DEF Activate, Idle
      <4>3. QED
        BY <2>1, <4>1, <4>2, CountRest DEF PageType
    <3>3. QED
      BY <3>1, <3>2
  <2>4. QED
    BY <2>1, <2>2, <2>3
<1>6. ASSUME Reset PROVE (CountInv /\ PageType)'
  BY <1>6, <1>k DEF Reset
<1>7. ASSUME IsrEnter PROVE (CountInv /\ PageType)'
  BY <1>7, <1>k DEF IsrEnter
<1>8. ASSUME IsrAck PROVE (CountInv /\ PageType)'
  BY <1>8, <1>k DEF IsrAck
<1>9. ASSUME IsrReap PROVE (CountInv /\ PageType)'
  <2>0. /\ "inflate" \in AllQueues /\ "deflate" \in AllQueues /\ Thread("inflate") = "inflate"
        /\ Thread("deflate") = "deflate" /\ "inflate" \in Threads /\ "deflate" \in Threads
    BY QueueSets, ThreadOf
  <2>1. /\ UNCHANGED <<actual, avail, hand, work>> /\ used' = [q \in AllQueues |-> <<>>]
        /\ owned' = owned + Len(used["inflate"]) - Len(used["deflate"])
    BY <1>9 DEF IsrReap
  <2>2. Len(used'["inflate"]) = 0 /\ Len(used'["deflate"]) = 0
    BY <2>0, <2>1
  <2>3. \A r \in {"inflate", "deflate"} : Held(r)' = Held(r) /\ Counted(r)' = Counted(r)
    BY <2>1 DEF Held, Counted
  <2>4. /\ Books(actual, owned + Len(used["inflate"]) - Len(used["deflate"]),
              Len(avail["inflate"]), Held("inflate"), 0, Counted("inflate"),
              Len(avail["deflate"]), Held("deflate"), 0, Counted("deflate"))
        /\ owned + Len(used["inflate"]) - Len(used["deflate"]) \in 0..MaxPages
    BY <1>b, <1>n, BookSteps
  <2>5. QED
    BY <2>1, <2>2, <2>3, <2>4, <1>c DEF PageType
<1>10. ASSUME NEW t \in Threads, NEW q \in AllQueues, Poll(t, q) PROVE (CountInv /\ PageType)'
  <2>0. /\ "inflate" \in AllQueues /\ "deflate" \in AllQueues /\ Thread("inflate") = "inflate"
        /\ Thread("deflate") = "deflate" /\ "inflate" \in Threads /\ "deflate" \in Threads
    BY QueueSets, ThreadOf
  <2>1. UNCHANGED <<actual, owned, avail, used, hand>>
    BY <1>10 DEF Poll
  <2>2. \A r \in {"inflate", "deflate"} : Counted(r)' = Counted(r)
    BY <1>10, <2>0, PollMoves DEF Counted
  <2>3. QED
    BY <2>1, <2>2, CountApart DEF PageType
<1>11. ASSUME NEW t \in Threads, Pop(t) PROVE (CountInv /\ PageType)'
  <2>0. /\ "inflate" \in AllQueues /\ "deflate" \in AllQueues /\ Thread("inflate") = "inflate"
        /\ Thread("deflate") = "deflate" /\ "inflate" \in Threads /\ "deflate" \in Threads
    BY QueueSets, ThreadOf
  <2>1. UNCHANGED <<actual, owned, used>> /\ AtQueue(t, "drain")
    BY <1>11, PopMoves DEF Pop
  <2>2. \A r \in {"inflate", "deflate"} : Counted(r)' = Counted(r)
    BY <1>11, <2>0, PopMoves DEF Counted, Moves, AtQueue
  <2>3. ASSUME NEW r \in {"inflate", "deflate"}, r # work[t].q \/ avail[work[t].q] = <<>>
        PROVE  Len(avail'[r]) = Len(avail[r]) /\ Held(r)' = Held(r)
    <3>1. avail'[r] = avail[r] /\ hand'[r] = hand[r]
      BY <1>11, <2>0, <2>3, PopMoves DEF RingType
    <3>2. QED
      BY <3>1 DEF Held
  <2>4. ASSUME NEW r \in {"inflate", "deflate"}, r = work[t].q, avail[r] # <<>>
        PROVE  Len(avail'[r]) = Len(avail[r]) - 1 /\ Len(avail[r]) > 0 /\ Held(r) = 0 /\ Held(r)' = 1
    <3>1. avail'[r] = Tail(avail[r]) /\ hand'[r] = Head(avail[r]) /\ avail[r] \in Seq(Heads)
      BY <1>11, <2>0, <2>4, PopMoves DEF RingType
    <3>2. hand[r] = None
      BY <2>0, <2>1, <2>4 DEF HandInv, AtQueue, Holding
    <3>3. Head(avail[r]) \in Heads /\ Len(Tail(avail[r])) = Len(avail[r]) - 1 /\ Len(avail[r]) > 0
      BY <2>4, <3>1
    <3>4. Head(avail[r]) # None
      BY <3>3, VirtioAssumption
    <3>5. QED
      BY <3>1, <3>2, <3>3, <3>4 DEF Held
  <2>5. CASE avail[work[t].q] = <<>> \/ work[t].q \notin {"inflate", "deflate"}
    BY <2>1, <2>2, <2>3, <2>5 DEF CountInv, PageType
  <2>6. CASE avail[work[t].q] # <<>> /\ work[t].q = "inflate"
    <3>1. /\ Len(avail'["inflate"]) = Len(avail["inflate"]) - 1 /\ Len(avail["inflate"]) > 0
          /\ Held("inflate") = 0 /\ Held("inflate")' = 1
          /\ Len(avail'["deflate"]) = Len(avail["deflate"]) /\ Held("deflate")' = Held("deflate")
      BY <2>3, <2>4, <2>6
    <3>2. Books(actual, owned,
              Len(avail["inflate"]) - 1, 1, Len(used["inflate"]), Counted("inflate"),
              Len(avail["deflate"]), Held("deflate"), Len(used["deflate"]), Counted("deflate"))
      BY <3>1, <1>b, <1>n, BookSteps
    <3>3. QED
      BY <2>1, <2>2, <3>1, <3>2, <1>c DEF PageType
  <2>7. CASE avail[work[t].q] # <<>> /\ work[t].q = "deflate"
    <3>1. /\ Len(avail'["deflate"]) = Len(avail["deflate"]) - 1 /\ Len(avail["deflate"]) > 0
          /\ Held("deflate") = 0 /\ Held("deflate")' = 1
          /\ Len(avail'["inflate"]) = Len(avail["inflate"]) /\ Held("inflate")' = Held("inflate")
      BY <2>3, <2>4, <2>7
    <3>2. Books(actual, owned,
              Len(avail["inflate"]), Held("inflate"), Len(used["inflate"]), Counted("inflate"),
              Len(avail["deflate"]) - 1, 1, Len(used["deflate"]), Counted("deflate"))
      BY <3>1, <1>b, <1>n, BookSteps
    <3>3. QED
      BY <2>1, <2>2, <3>1, <3>2, <1>c DEF PageType
  <2>8. QED
    BY <2>5, <2>6, <2>7
<1>12. ASSUME NEW t \in Threads, Serve(t) PROVE (CountInv /\ PageType)'
  <2>0. /\ "inflate" \in AllQueues /\ "deflate" \in AllQueues /\ Thread("inflate") = "inflate"
        /\ Thread("deflate") = "deflate" /\ "inflate" \in Threads /\ "deflate" \in Threads
    BY QueueSets, ThreadOf
  <2>1. UNCHANGED <<actual, owned, avail, used>> /\ t \notin {"inflate", "deflate"}
    BY <1>12, <2>0, ServeMoves, ThreadOf DEF Serve, WorkInv, WorkAt, AtQueue
  <2>2. \A r \in {"inflate", "deflate"} : work'[r] = work[r]
    BY <1>12, <2>0, <2>1, ServeMoves DEF Moves
  <2>3. \A r \in {"inflate", "deflate"} : hand'[r] = hand[r]
    <3>1. work[t].q \notin {"inflate", "deflate"}
      BY <1>12, <2>0, <2>1, ServeMoves DEF AtQueue
    <3>2. QED
      BY <1>12, <2>0, <3>1 DEF Serve, RingType
  <2>4. QED
    BY <2>1, <2>2, <2>3, CountApart DEF PageType, Counted
<1>13. ASSUME NEW t \in Threads, Publish(t) PROVE (CountInv /\ PageType)'
  <2>0. /\ "inflate" \in AllQueues /\ "deflate" \in AllQueues /\ Thread("inflate") = "inflate"
        /\ Thread("deflate") = "deflate" /\ "inflate" \in Threads /\ "deflate" \in Threads
    BY QueueSets, ThreadOf
  <2>1. /\ UNCHANGED <<actual, owned, avail>> /\ AtQueue(t, "publish") /\ Moves(t, "drain", TRUE)
        /\ used' = [used EXCEPT ![work[t].q] = Append(@, hand[work[t].q])]
        /\ hand' = [hand EXCEPT ![work[t].q] = None]
    BY <1>13, PublishMoves DEF Publish
  <2>2. hand[work[t].q] # None
    BY <2>1 DEF HandInv, AtQueue, Holding
  <2>4. CASE t \notin {"inflate", "deflate"}
    <3>1. work[t].q \notin {"inflate", "deflate"}
      BY <2>0, <2>1, <2>4 DEF AtQueue
    <3>2. \A r \in {"inflate", "deflate"} : Counted(r)' = Counted(r) /\ hand'[r] = hand[r] /\ used'[r] = used[r]
      BY <2>0, <2>1, <2>4, <3>1 DEF Counted, Moves, RingType
    <3>3. QED
      BY <2>1, <3>2, CountApart DEF PageType
  <2>5. ASSUME NEW r \in {"inflate", "deflate"}, t = r
        PROVE  /\ Held(r) = 1 /\ Held(r)' = 0 /\ Len(used'[r]) = Len(used[r]) + 1
               /\ Counted(r) = 1 /\ Counted(r)' = 0
               /\ \A s \in {"inflate", "deflate"} \ {r} :
                     Counted(s)' = Counted(s) /\ Held(s)' = Held(s) /\ Len(used'[s]) = Len(used[s])
    <3>1. work[t].q = r
      BY <2>1, <2>5, ThreadOf DEF AtQueue
    <3>2. used[r] \in Seq(Heads) /\ used'[r] = Append(used[r], hand[r]) /\ hand'[r] = None /\ hand[r] # None
      BY <2>0, <2>1, <2>2, <3>1 DEF RingType
    <3>3. \A s \in {"inflate", "deflate"} \ {r} : used'[s] = used[s] /\ hand'[s] = hand[s] /\ work'[s] = work[s]
      BY <2>0, <2>1, <2>5, <3>1 DEF RingType, Moves
    <3>4. work[r].pc = "publish" /\ work'[r].pc = "drain"
      BY <2>1, <2>5 DEF Moves, AtQueue
    <3>5. Len(used'[r]) = Len(used[r]) + 1
      BY <3>2
    <3>6. QED
      BY <3>2, <3>3, <3>4, <3>5 DEF Counted, Held
  <2>6. CASE t = "inflate"
    <3>1. /\ Held("inflate") = 1 /\ Held("inflate")' = 0 /\ Len(used'["inflate"]) = Len(used["inflate"]) + 1
          /\ Counted("inflate") = 1 /\ Counted("inflate")' = 0
          /\ Counted("deflate")' = Counted("deflate") /\ Held("deflate")' = Held("deflate")
          /\ Len(used'["deflate"]) = Len(used["deflate"])
      BY <2>5, <2>6
    <3>2. Books(actual, owned,
              Len(avail["inflate"]), 0, Len(used["inflate"]) + 1, 0,
              Len(avail["deflate"]), Held("deflate"), Len(used["deflate"]), Counted("deflate"))
      BY <3>1, <1>b, <1>n, BookSteps, ZenonT(40)
    <3>3. QED
      BY <2>1, <3>1, <3>2, <1>c DEF PageType
  <2>7. CASE t = "deflate"
    <3>1. /\ Held("deflate") = 1 /\ Held("deflate")' = 0 /\ Len(used'["deflate"]) = Len(used["deflate"]) + 1
          /\ Counted("deflate") = 1 /\ Counted("deflate")' = 0
          /\ Counted("inflate")' = Counted("inflate") /\ Held("inflate")' = Held("inflate")
          /\ Len(used'["inflate"]) = Len(used["inflate"])
      BY <2>5, <2>7
    <3>2. Books(actual, owned,
              Len(avail["inflate"]), Held("inflate"), Len(used["inflate"]), Counted("inflate"),
              Len(avail["deflate"]), 0, Len(used["deflate"]) + 1, 0)
      BY <3>1, <1>b, <1>n, BookSteps
    <3>3. QED
      BY <2>1, <3>1, <3>2, <1>c DEF PageType
  <2>8. QED
    BY <2>4, <2>6, <2>7
<1>14. ASSUME NEW t \in Threads, Flag(t) PROVE (CountInv /\ PageType)'
  <2>0. /\ "inflate" \in AllQueues /\ "deflate" \in AllQueues /\ Thread("inflate") = "inflate"
        /\ Thread("deflate") = "deflate" /\ "inflate" \in Threads /\ "deflate" \in Threads
    BY QueueSets, ThreadOf
  <2>1. UNCHANGED <<actual, owned, avail, used, hand>>
    BY <1>14 DEF Flag
  <2>2. \A r \in {"inflate", "deflate"} : Counted(r)' = Counted(r)
    BY <1>14, <2>0, FlagMoves DEF Counted, Moves
  <2>3. QED
    BY <2>1, <2>2, CountApart DEF PageType
<1>15. ASSUME NEW t \in Threads, RaiseIrq(t) PROVE (CountInv /\ PageType)'
  <2>0. /\ "inflate" \in AllQueues /\ "deflate" \in AllQueues /\ Thread("inflate") = "inflate"
        /\ Thread("deflate") = "deflate" /\ "inflate" \in Threads /\ "deflate" \in Threads
    BY QueueSets, ThreadOf
  <2>1. UNCHANGED <<actual, owned, avail, used, hand>>
    BY <1>15 DEF RaiseIrq
  <2>2. \A r \in {"inflate", "deflate"} : Counted(r)' = Counted(r)
    BY <1>15, <2>0, RaiseIrqMoves DEF Counted, Moves
  <2>3. QED
    BY <2>1, <2>2, CountApart DEF PageType
<1>16. ASSUME NEW t \in Threads, Inflate(t) PROVE (CountInv /\ PageType)'
  <2>0. /\ "inflate" \in AllQueues /\ "deflate" \in AllQueues /\ Thread("inflate") = "inflate"
        /\ Thread("deflate") = "deflate" /\ "inflate" \in Threads /\ "deflate" \in Threads
    BY QueueSets, ThreadOf
  <2>1. /\ UNCHANGED <<owned, avail, used, hand>> /\ AtQueue(t, "add") /\ t = "inflate" /\ work[t].q = t
        /\ Moves(t, "publish", work[t].signalled) /\ actual' = actual + 1
    BY <1>16, InflateMoves DEF Inflate
  <2>2. /\ Held("inflate") = 1 /\ Counted("inflate") = 0 /\ Counted("inflate")' = 1
        /\ Counted("deflate")' = Counted("deflate")
    BY <2>0, <2>1 DEF HandInv, AtQueue, Holding, Counted, Moves, Held
  <2>3. Held("inflate")' = Held("inflate") /\ Held("deflate")' = Held("deflate")
    BY <2>1 DEF Held
  <2>4. /\ Books(actual + 1, owned,
              Len(avail["inflate"]), Held("inflate"), Len(used["inflate"]), 1,
              Len(avail["deflate"]), Held("deflate"), Len(used["deflate"]), Counted("deflate"))
        /\ actual + 1 <= MaxPages
    BY <2>2, <1>b, <1>n, BookSteps
  <2>5. CountInv'
    BY <2>1, <2>2, <2>3, <2>4, <1>c
  <2>6. QED
    BY <2>1, <2>4, <2>5, VirtioAssumption DEF PageType
<1>17. ASSUME NEW t \in Threads, Load(t) PROVE (CountInv /\ PageType)'
  <2>0. /\ "inflate" \in AllQueues /\ "deflate" \in AllQueues /\ Thread("inflate") = "inflate"
        /\ Thread("deflate") = "deflate" /\ "inflate" \in Threads /\ "deflate" \in Threads
    BY QueueSets, ThreadOf
  <2>1. UNCHANGED <<actual, owned, avail, used, hand>>
    BY <1>17 DEF Load
  <2>2. \A r \in {"inflate", "deflate"} : Counted(r)' = Counted(r)
    BY <1>17, <2>0, LoadMoves DEF Counted, Moves, AtQueue
  <2>3. QED
    BY <2>1, <2>2, CountApart DEF PageType
<1>18. ASSUME NEW t \in Threads, CompareExchange(t) PROVE (CountInv /\ PageType)'
  <2>0. /\ "inflate" \in AllQueues /\ "deflate" \in AllQueues /\ Thread("inflate") = "inflate"
        /\ Thread("deflate") = "deflate" /\ "inflate" \in Threads /\ "deflate" \in Threads
    BY QueueSets, ThreadOf
  <2>1. /\ UNCHANGED <<owned, avail, used, hand>> /\ AtQueue(t, "cas") /\ t = "deflate" /\ work[t].q = t
    BY <1>18, CompareExchangeMoves DEF CompareExchange
  <2>2. /\ Held("deflate") = 1 /\ Counted("deflate") = 0
        /\ Held("inflate")' = Held("inflate") /\ Held("deflate")' = Held("deflate")
    BY <2>0, <2>1 DEF HandInv, AtQueue, Holding, Counted, Held
  <2>3. CASE Moves(t, "publish", work[t].signalled) /\ actual' = IF actual = 0 THEN 0 ELSE actual - 1
    <3>1. Counted("deflate")' = 1 /\ Counted("inflate")' = Counted("inflate")
      BY <2>0, <2>1, <2>3 DEF Counted, Moves
    <3>2. actual > 0
      BY <2>2, <1>b, <1>c, <1>n, BookSteps
    <3>3. actual' = actual - 1 /\ actual' \in 0..MaxPages
      BY <2>3, <3>2, VirtioAssumption DEF PageType
    <3>4. CountInv'
      <4>1. Books(actual - 1, owned,
              Len(avail["inflate"]), Held("inflate"), Len(used["inflate"]), Counted("inflate"),
              Len(avail["deflate"]), Held("deflate"), Len(used["deflate"]), 1)
        BY <2>2, <1>b, <1>n, BookSteps
      <4>2. QED
        BY <2>1, <2>2, <3>1, <3>3, <4>1, <1>c
    <3>5. QED
      BY <2>1, <3>3, <3>4 DEF PageType
  <2>4. CASE Moves(t, "cas", work[t].signalled) /\ UNCHANGED actual
    <3>1. \A r \in {"inflate", "deflate"} : Counted(r)' = Counted(r)
      BY <2>0, <2>1, <2>4 DEF Counted, Moves, AtQueue
    <3>2. QED
      BY <2>1, <2>4, <3>1, CountApart DEF PageType
  <2>5. QED
    BY <1>18, <2>3, <2>4, CompareExchangeMoves
<1>19. ASSUME NEW t \in Threads, TryAdmit(t) PROVE (CountInv /\ PageType)'
  <2>0. /\ "inflate" \in AllQueues /\ "deflate" \in AllQueues /\ Thread("inflate") = "inflate"
        /\ Thread("deflate") = "deflate" /\ "inflate" \in Threads /\ "deflate" \in Threads
    BY QueueSets, ThreadOf
  <2>1. UNCHANGED <<actual, owned, avail, used>> /\ t \notin {"inflate", "deflate"}
    BY <1>19, <2>0, TryAdmitMoves, ThreadOf DEF TryAdmit, WorkInv, WorkAt, AtQueue
  <2>2. \A r \in {"inflate", "deflate"} : work'[r] = work[r]
    BY <1>19, <2>0, <2>1, TryAdmitMoves DEF Moves
  <2>3. \A r \in {"inflate", "deflate"} : hand'[r] = hand[r]
    <3>1. work[t].q \notin {"inflate", "deflate"}
      BY <1>19, <2>0, <2>1, TryAdmitMoves DEF AtQueue
    <3>2. QED
      BY <1>19, <2>0, <3>1 DEF TryAdmit, RingType
  <2>4. QED
    BY <2>1, <2>2, <2>3, CountApart DEF PageType, Counted
<1>20. ASSUME NEW t \in Threads, RxDrain(t) PROVE (CountInv /\ PageType)'
  <2>0. /\ "inflate" \in AllQueues /\ "deflate" \in AllQueues /\ Thread("inflate") = "inflate"
        /\ Thread("deflate") = "deflate" /\ "inflate" \in Threads /\ "deflate" \in Threads
    BY QueueSets, ThreadOf
  <2>1. UNCHANGED <<actual, owned, hand>> /\ t = "net"
    BY <1>20, RxDrainMoves DEF RxDrain
  <2>2. \A r \in {"inflate", "deflate"} : avail'[r] = avail[r] /\ used'[r] = used[r]
    BY <1>20, <2>0, RxDrainMoves, ZenonT(40) DEF RingType, Deliver
  <2>3. \A r \in {"inflate", "deflate"} : work'[r] = work[r]
    BY <1>20, <2>0, <2>1, RxDrainMoves DEF Moves
  <2>4. QED
    BY <2>1, <2>2, <2>3, CountApart DEF PageType, Counted
<1>21. ASSUME NEW t \in Threads, RxRead(t) PROVE (CountInv /\ PageType)'
  <2>0. /\ "inflate" \in AllQueues /\ "deflate" \in AllQueues /\ Thread("inflate") = "inflate"
        /\ Thread("deflate") = "deflate" /\ "inflate" \in Threads /\ "deflate" \in Threads
    BY QueueSets, ThreadOf
  <2>1. UNCHANGED <<actual, owned, hand>> /\ t = "net"
    BY <1>21, RxReadMoves DEF RxRead
  <2>2. \A r \in {"inflate", "deflate"} : avail'[r] = avail[r] /\ used'[r] = used[r]
    BY <1>21, <2>0, RxReadMoves, ZenonT(40) DEF RingType, Deliver
  <2>3. \A r \in {"inflate", "deflate"} : work'[r] = work[r]
    BY <1>21, <2>0, <2>1, RxReadMoves DEF Moves
  <2>4. QED
    BY <2>1, <2>2, <2>3, CountApart DEF PageType, Counted
<1>22. ASSUME Tick PROVE (CountInv /\ PageType)'
  BY <1>22, <1>k DEF Tick
<1>23. ASSUME FrameArrives PROVE (CountInv /\ PageType)'
  BY <1>23, <1>k DEF FrameArrives
<1>24. ASSUME AttachBooted PROVE (CountInv /\ PageType)'
  BY <1>24, <1>k DEF AttachBooted, attach_virtio
<1>25. ASSUME StartVcpus PROVE (CountInv /\ PageType)'
  BY <1>25, <1>k DEF StartVcpus
<1>26. ASSUME Snapshot PROVE (CountInv /\ PageType)'
  <2>1. UNCHANGED <<actual, owned, avail, used, hand>> /\ \A t \in Threads : work'[t].pc = "none"
    BY <1>26 DEF Snapshot, Idle
  <2>2. \A t \in Threads : work[t].pc \in {"none", "poll"}
    BY <1>26 DEF Snapshot, WorkInv, WorkAt
  <2>3. QED
    BY <2>1, <2>2, CountRest DEF PageType
<1>27. ASSUME AttachRestored PROVE (CountInv /\ PageType)'
  <2>1. UNCHANGED <<actual, owned, avail, used, hand>> /\ (Activate \/ UNCHANGED work)
    BY <1>27 DEF AttachRestored, restore_activate
  <2>2. CASE UNCHANGED work
    BY <1>k, <2>1, <2>2
  <2>3. CASE Activate
    <3>1. CASE moved
      BY <1>k, <2>1, <2>3, <3>1 DEF Activate
    <3>2. CASE ~moved
      <4>1. \A t \in Threads : work[t].pc = "none"
        BY <3>2 DEF WorkInv, WorkAt
      <4>2. \A t \in Threads : work'[t].pc \in {"none", "poll"}
        BY <2>3, <3>2, <4>1 DEF Activate, Idle
      <4>3. QED
        BY <2>1, <4>1, <4>2, CountRest DEF PageType
    <3>3. QED
      BY <3>1, <3>2
  <2>4. QED
    BY <2>1, <2>2, <2>3
<1>28. ASSUME RestoreIrqchip PROVE (CountInv /\ PageType)'
  BY <1>28, <1>k DEF RestoreIrqchip
<1>29. ASSUME ResumeVcpus PROVE (CountInv /\ PageType)'
  BY <1>29, <1>k DEF ResumeVcpus
<1>30. CASE UNCHANGED vars
  BY <1>k, <1>30 DEF vars
<1>31. QED
  BY <1>1, <1>2, <1>3, <1>4, <1>5, <1>6, <1>7, <1>8, <1>9, <1>10, <1>11, <1>12, <1>13, <1>14, <1>15, <1>16, <1>17, <1>18, <1>19, <1>20, <1>21, <1>22, <1>23, <1>24, <1>25, <1>26, <1>27, <1>28, <1>29, <1>30 DEF Next, Step, Handler

(* Taking the head of a sequence, and putting it behind an older one. *)
LEMMA Frontmost ==
    ASSUME NEW S \in SUBSET Nat, NEW s \in Seq(S), s # <<>>
    PROVE  /\ Head(s) \in S /\ Tail(s) \in Seq(S) /\ Len(s) \in Nat \ {0}
           /\ Head(s) = s[1] /\ Len(Tail(s)) = Len(s) - 1
           /\ \A i \in 1..Len(Tail(s)) : Tail(s)[i] = s[i + 1] /\ i + 1 \in 1..Len(s)
OBVIOUS

LEMMA TailOrder ==
    ASSUME NEW S \in SUBSET Nat, NEW s \in Seq(S), s # <<>>, NEW x \in Seq(S), NEW n \in Nat
    PROVE  /\ Rising(s) => Rising(Tail(s))
           /\ Before(x, s) => Before(x, Tail(s))
           /\ Before(s, x) => Before(Tail(s), x)
           /\ UpTo(s, n) => UpTo(Tail(s), n)
<1>1. Len(Tail(s)) \in Nat /\ \A i \in 1..Len(Tail(s)) : Tail(s)[i] = s[i + 1] /\ i + 1 \in 1..Len(s)
  BY Frontmost
<1>2. Rising(s) => Rising(Tail(s))
  BY <1>1 DEF Rising
<1>3. QED
  BY <1>1, <1>2 DEF Before, UpTo

LEMMA AppendOrder ==
    ASSUME NEW S \in SUBSET Nat, NEW s \in Seq(S), NEW e \in S, NEW x \in Seq(S), NEW n \in Nat,
           Rising(s), UpTo(s, n), e <= n,
           \A i \in 1..Len(s) : s[i] < e
    PROVE  /\ Append(s, e) \in Seq(S) /\ Rising(Append(s, e)) /\ UpTo(Append(s, e), n)
           /\ Before(s, x) /\ (\A j \in 1..Len(x) : e < x[j]) => Before(Append(s, e), x)
           /\ Before(x, s) /\ (\A j \in 1..Len(x) : x[j] < e) => Before(x, Append(s, e))
<1>1. /\ Append(s, e) \in Seq(S) /\ Len(Append(s, e)) = Len(s) + 1 /\ Len(s) \in Nat
      /\ Append(s, e)[Len(s) + 1] = e /\ \A i \in 1..Len(s) : Append(s, e)[i] = s[i] /\ s[i] \in S
  OBVIOUS
<1>2. \A i \in 1..Len(Append(s, e)) : i \in 1..Len(s) \/ i = Len(s) + 1
  BY <1>1
<1>3. Rising(Append(s, e))
  BY <1>1, <1>2 DEF Rising
<1>4. UpTo(Append(s, e), n)
  BY <1>1, <1>2 DEF UpTo
<1>5. QED
  BY <1>1, <1>2, <1>3, <1>4 DEF Before

(* A frame goes from the head of a younger sequence behind an older one. *)
LEMMA PassOn ==
    ASSUME NEW S \in SUBSET Nat, NEW s \in Seq(S), NEW x \in Seq(S), x # <<>>, NEW n \in Nat,
           Rising(s), Rising(x), Before(s, x), UpTo(s, n), UpTo(x, n)
    PROVE  /\ Append(s, Head(x)) \in Seq(S) /\ Rising(Append(s, Head(x))) /\ UpTo(Append(s, Head(x)), n)
           /\ Before(Append(s, Head(x)), Tail(x))
           /\ \A z \in Seq(S) : /\ Before(s, z) /\ Before(x, z) => Before(Append(s, Head(x)), z)
                                /\ Before(z, s) /\ Before(z, x) => Before(z, Append(s, Head(x)))
<1>1. /\ Head(x) \in S /\ Tail(x) \in Seq(S) /\ Len(x) \in Nat \ {0} /\ Head(x) = x[1] /\ 1 \in 1..Len(x)
      /\ \A i \in 1..Len(Tail(x)) : Tail(x)[i] = x[i + 1] /\ i + 1 \in 1..Len(x)
  BY Frontmost
<1>2. /\ \A i \in 1..Len(s) : s[i] < Head(x)
      /\ Head(x) <= n
      /\ \A j \in 1..Len(Tail(x)) : Head(x) < Tail(x)[j]
  BY <1>1 DEF Before, UpTo, Rising
<1>3. Before(s, Tail(x))
  BY TailOrder
<1>4. \A z \in Seq(S) : /\ Before(x, z) => \A j \in 1..Len(z) : Head(x) < z[j]
                        /\ Before(z, x) => \A j \in 1..Len(z) : z[j] < Head(x)
  BY <1>1 DEF Before
<1>5. /\ Append(s, Head(x)) \in Seq(S) /\ Rising(Append(s, Head(x))) /\ UpTo(Append(s, Head(x)), n)
      /\ Before(Append(s, Head(x)), Tail(x))
  BY <1>1, <1>2, <1>3, AppendOrder
<1>6. ASSUME NEW z \in Seq(S)
      PROVE  /\ Before(s, z) /\ Before(x, z) => Before(Append(s, Head(x)), z)
             /\ Before(z, s) /\ Before(z, x) => Before(z, Append(s, Head(x)))
  BY <1>1, <1>2, <1>4, AppendOrder
<1>7. QED
  BY <1>5, <1>6

LEMMA EmptyOrder ==
    ASSUME NEW x, NEW n
    PROVE  Rising(<<>>) /\ Before(x, <<>>) /\ Before(<<>>, x) /\ UpTo(<<>>, n)
BY DEF Rising, Before, UpTo

(* Frames stay in order on their way to the guest. *)
LEMMA OrderStep ==
    FlagType /\ PageType /\ WorkType /\ WorkInv /\ FrameType /\ OrderInv /\ [Next]_vars
        => (FrameType /\ OrderInv)'
<1> SUFFICES ASSUME FlagType, PageType, WorkType, WorkInv, FrameType, OrderInv, [Next]_vars PROVE (FrameType /\ OrderInv)'
  OBVIOUS
<1> USE DEF machine, transport, rings, line, guest, frames, pages, limiter, Goto
<1>k. ASSUME UNCHANGED <<tap, backlog, got, arrived>> PROVE (FrameType /\ OrderInv)'
  BY <1>k DEF FrameType, OrderInv
<1>1. ASSUME NEW q \in Queues, SetReady(q) PROVE (FrameType /\ OrderInv)'
  BY <1>1, <1>k DEF SetReady
<1>2. ASSUME NEW q \in Queues, Post(q) PROVE (FrameType /\ OrderInv)'
  BY <1>2, <1>k DEF Post
<1>3. ASSUME NEW q \in Queues, Notify(q) PROVE (FrameType /\ OrderInv)'
  BY <1>3, <1>k DEF Notify
<1>4. ASSUME Probe PROVE (FrameType /\ OrderInv)'
  BY <1>4, <1>k DEF Probe
<1>5. ASSUME DriverOk PROVE (FrameType /\ OrderInv)'
  BY <1>5, <1>k DEF DriverOk, Activate
<1>6. ASSUME Reset PROVE (FrameType /\ OrderInv)'
  BY <1>6, <1>k DEF Reset
<1>7. ASSUME IsrEnter PROVE (FrameType /\ OrderInv)'
  BY <1>7, <1>k DEF IsrEnter
<1>8. ASSUME IsrAck PROVE (FrameType /\ OrderInv)'
  BY <1>8, <1>k DEF IsrAck
<1>9. ASSUME IsrReap PROVE (FrameType /\ OrderInv)'
  BY <1>9, <1>k DEF IsrReap
<1>10. ASSUME NEW t \in Threads, NEW q \in AllQueues, Poll(t, q) PROVE (FrameType /\ OrderInv)'
  BY <1>10, <1>k DEF Poll
<1>11. ASSUME NEW t \in Threads, Pop(t) PROVE (FrameType /\ OrderInv)'
  BY <1>11, <1>k DEF Pop
<1>12. ASSUME NEW t \in Threads, Serve(t) PROVE (FrameType /\ OrderInv)'
  BY <1>12, <1>k DEF Serve
<1>13. ASSUME NEW t \in Threads, Publish(t) PROVE (FrameType /\ OrderInv)'
  BY <1>13, <1>k DEF Publish
<1>14. ASSUME NEW t \in Threads, Flag(t) PROVE (FrameType /\ OrderInv)'
  BY <1>14, <1>k DEF Flag
<1>15. ASSUME NEW t \in Threads, RaiseIrq(t) PROVE (FrameType /\ OrderInv)'
  BY <1>15, <1>k DEF RaiseIrq
<1>16. ASSUME NEW t \in Threads, Inflate(t) PROVE (FrameType /\ OrderInv)'
  BY <1>16, <1>k DEF Inflate
<1>17. ASSUME NEW t \in Threads, Load(t) PROVE (FrameType /\ OrderInv)'
  BY <1>17, <1>k DEF Load
<1>18. ASSUME NEW t \in Threads, CompareExchange(t) PROVE (FrameType /\ OrderInv)'
  BY <1>18, <1>k DEF CompareExchange
<1>19. ASSUME NEW t \in Threads, TryAdmit(t) PROVE (FrameType /\ OrderInv)'
  BY <1>19, <1>k DEF TryAdmit, Spend
<1>20. ASSUME NEW t \in Threads, RxDrain(t) PROVE (FrameType /\ OrderInv)'
  <2>0. /\ 1..MaxFrames \in SUBSET Nat /\ arrived \in Nat /\ BacklogMax \in Nat \ {0}
        /\ tap \in Seq(1..MaxFrames) /\ backlog \in Seq(1..MaxFrames) /\ got \in Seq(1..MaxFrames)
    BY VirtioAssumption DEF FrameType
  <2>1. UNCHANGED <<tap, arrived>>
    BY <1>20 DEF RxDrain
  <2>2. CASE UNCHANGED <<got, backlog>>
    BY <1>k, <2>1, <2>2
  <2>3. CASE backlog # <<>> /\ Deliver(Head(backlog)) /\ backlog' = Tail(backlog)
    <3>1. got' = Append(got, Head(backlog))
      BY <2>3 DEF Deliver
    <3>2. /\ Append(got, Head(backlog)) \in Seq(1..MaxFrames) /\ Rising(Append(got, Head(backlog)))
          /\ UpTo(Append(got, Head(backlog)), arrived) /\ Before(Append(got, Head(backlog)), Tail(backlog))
          /\ Before(Append(got, Head(backlog)), tap)
      BY <2>0, <2>3, PassOn DEF OrderInv
    <3>3. /\ Tail(backlog) \in Seq(1..MaxFrames) /\ Len(Tail(backlog)) = Len(backlog) - 1 /\ Len(backlog) \in Nat
      BY <2>0, <2>3, Frontmost
    <3>4. Rising(Tail(backlog)) /\ Before(Tail(backlog), tap) /\ UpTo(Tail(backlog), arrived)
      BY <2>0, <2>3, TailOrder DEF OrderInv
    <3>5. OrderInv'
      BY <2>1, <2>3, <3>1, <3>2, <3>4 DEF OrderInv
    <3>6. QED
      BY <2>0, <2>1, <2>3, <3>1, <3>2, <3>3, <3>5 DEF FrameType
  <2>4. QED
    BY <1>20, <2>2, <2>3, RxDrainMoves
<1>21. ASSUME NEW t \in Threads, RxRead(t) PROVE (FrameType /\ OrderInv)'
  <2>0. /\ 1..MaxFrames \in SUBSET Nat /\ arrived \in Nat /\ BacklogMax \in Nat \ {0}
        /\ tap \in Seq(1..MaxFrames) /\ backlog \in Seq(1..MaxFrames) /\ got \in Seq(1..MaxFrames)
    BY VirtioAssumption DEF FrameType
  <2>1. UNCHANGED arrived
    BY <1>21 DEF RxRead
  <2>2. CASE UNCHANGED <<got, backlog, tap>>
    BY <1>k, <2>1, <2>2
  <2>3. CASE tap # <<>> /\ tap' = Tail(tap)
    <3>1. /\ Tail(tap) \in Seq(1..MaxFrames) /\ Head(tap) \in 1..MaxFrames /\ Rising(Tail(tap)) /\ UpTo(Tail(tap), arrived)
          /\ Before(got, Tail(tap)) /\ Before(backlog, Tail(tap))
      BY <2>0, <2>3, Frontmost, TailOrder DEF OrderInv
    <3>2. CASE backlog = <<>> /\ Deliver(Head(tap)) /\ UNCHANGED backlog
      <4>1. got' = Append(got, Head(tap))
        BY <3>2 DEF Deliver
      <4>2. /\ Append(got, Head(tap)) \in Seq(1..MaxFrames) /\ Rising(Append(got, Head(tap)))
            /\ UpTo(Append(got, Head(tap)), arrived) /\ Before(Append(got, Head(tap)), Tail(tap))
        BY <2>0, <2>3, PassOn DEF OrderInv
      <4>3. OrderInv'
        BY <2>1, <2>3, <3>1, <3>2, <4>1, <4>2, EmptyOrder DEF OrderInv
      <4>4. QED
        BY <2>0, <2>1, <2>3, <3>1, <3>2, <4>1, <4>2, <4>3 DEF FrameType
    <3>3. CASE Enqueue(Head(tap)) /\ UNCHANGED got
      <4> DEFINE b == IF Len(backlog) >= BacklogMax THEN Tail(backlog) ELSE backlog
      <4>1. backlog' = Append(b, Head(tap))
        BY <3>3 DEF Enqueue
      <4>2. /\ b \in Seq(1..MaxFrames) /\ Rising(b) /\ UpTo(b, arrived) /\ Before(got, b) /\ Before(b, tap)
            /\ Len(b) \in Nat /\ Len(b) < BacklogMax
        <5>1. CASE Len(backlog) >= BacklogMax
          <6>1. backlog # <<>>
            BY <2>0, <5>1
          <6>2. /\ Tail(backlog) \in Seq(1..MaxFrames) /\ Rising(Tail(backlog)) /\ UpTo(Tail(backlog), arrived)
                /\ Before(got, Tail(backlog)) /\ Before(Tail(backlog), tap)
            BY <2>0, <6>1, Frontmost, TailOrder DEF OrderInv
          <6>3. Len(Tail(backlog)) = Len(backlog) - 1 /\ Len(backlog) \in Nat /\ Len(backlog) <= BacklogMax
            BY <2>0, <6>1, Frontmost DEF FrameType
          <6>4. QED
            BY <2>0, <5>1, <6>2, <6>3
        <5>2. CASE ~(Len(backlog) >= BacklogMax)
          BY <2>0, <5>2 DEF OrderInv, FrameType
        <5>3. QED
          BY <5>1, <5>2
      <4> HIDE DEF b
      <4>3. /\ Append(b, Head(tap)) \in Seq(1..MaxFrames) /\ Rising(Append(b, Head(tap)))
            /\ UpTo(Append(b, Head(tap)), arrived) /\ Before(Append(b, Head(tap)), Tail(tap))
            /\ Before(got, Append(b, Head(tap)))
        BY <2>0, <2>3, <4>2, PassOn DEF OrderInv
      <4>4. OrderInv'
        BY <2>1, <2>3, <3>1, <3>3, <4>1, <4>3 DEF OrderInv
      <4>5. Len(Append(b, Head(tap))) = Len(b) + 1
        BY <3>1, <4>2
      <4>6. QED
        BY <2>0, <2>1, <2>3, <3>1, <3>3, <4>1, <4>2, <4>3, <4>4, <4>5 DEF FrameType
    <3>4. QED
      BY <1>21, <2>3, <3>2, <3>3, RxReadMoves
  <2>4. QED
    BY <1>21, <2>2, <2>3, RxReadMoves
<1>22. ASSUME Tick PROVE (FrameType /\ OrderInv)'
  BY <1>22, <1>k DEF Tick
<1>23. ASSUME FrameArrives PROVE (FrameType /\ OrderInv)'
  <2>0. /\ 1..MaxFrames \in SUBSET Nat /\ arrived \in Nat /\ BacklogMax \in Nat \ {0}
        /\ tap \in Seq(1..MaxFrames) /\ backlog \in Seq(1..MaxFrames) /\ got \in Seq(1..MaxFrames)
    BY VirtioAssumption DEF FrameType
  <2>1. tap' = Append(tap, arrived + 1) /\ arrived' = arrived + 1 /\ UNCHANGED <<backlog, got>> /\ arrived < MaxFrames
    BY <1>23 DEF FrameArrives
  <2>2. /\ arrived + 1 \in 1..MaxFrames /\ arrived + 1 \in Nat
    BY <2>0, <2>1, VirtioAssumption
  <2>3. ASSUME NEW x \in Seq(1..MaxFrames), UpTo(x, arrived)
        PROVE  UpTo(x, arrived + 1) /\ \A i \in 1..Len(x) : x[i] < arrived + 1
    <3>1. \A i \in 1..Len(x) : x[i] \in Nat /\ x[i] <= arrived
      BY <2>3, VirtioAssumption DEF UpTo
    <3>2. QED
      BY <2>0, <3>1 DEF UpTo
  <2>4. /\ Append(tap, arrived + 1) \in Seq(1..MaxFrames) /\ Rising(Append(tap, arrived + 1))
        /\ UpTo(Append(tap, arrived + 1), arrived + 1)
        /\ Before(got, Append(tap, arrived + 1)) /\ Before(backlog, Append(tap, arrived + 1))
    <3>1. /\ Rising(tap) /\ UpTo(tap, arrived + 1) /\ Before(got, tap) /\ Before(backlog, tap)
          /\ \A i \in 1..Len(tap) : tap[i] < arrived + 1
          /\ \A i \in 1..Len(got) : got[i] < arrived + 1
          /\ \A i \in 1..Len(backlog) : backlog[i] < arrived + 1
      BY <2>0, <2>3 DEF OrderInv
    <3>2. arrived + 1 <= arrived + 1
      BY <2>2
    <3>3. QED
      BY <2>0, <2>2, <3>1, <3>2, AppendOrder
  <2>5. OrderInv'
    BY <2>0, <2>1, <2>3, <2>4 DEF OrderInv
  <2>6. QED
    BY <2>0, <2>1, <2>2, <2>4, <2>5 DEF FrameType
<1>24. ASSUME AttachBooted PROVE (FrameType /\ OrderInv)'
  BY <1>24, <1>k DEF AttachBooted, attach_virtio
<1>25. ASSUME StartVcpus PROVE (FrameType /\ OrderInv)'
  BY <1>25, <1>k DEF StartVcpus
<1>26. ASSUME Snapshot PROVE (FrameType /\ OrderInv)'
  <2>1. backlog' = <<>> /\ tap' = <<>> /\ UNCHANGED <<got, arrived>>
    BY <1>26 DEF Snapshot
  <2>2. OrderInv'
    BY <2>1, EmptyOrder DEF OrderInv
  <2>3. QED
    BY <2>1, <2>2, VirtioAssumption DEF FrameType
<1>27. ASSUME AttachRestored PROVE (FrameType /\ OrderInv)'
  BY <1>27, <1>k DEF AttachRestored, attach_virtio, restore_activate, Activate
<1>28. ASSUME RestoreIrqchip PROVE (FrameType /\ OrderInv)'
  BY <1>28, <1>k DEF RestoreIrqchip
<1>29. ASSUME ResumeVcpus PROVE (FrameType /\ OrderInv)'
  BY <1>29, <1>k DEF ResumeVcpus
<1>30. CASE UNCHANGED vars
  BY <1>k, <1>30 DEF vars
<1>31. QED
  BY <1>1, <1>2, <1>3, <1>4, <1>5, <1>6, <1>7, <1>8, <1>9, <1>10, <1>11, <1>12, <1>13, <1>14, <1>15, <1>16, <1>17, <1>18, <1>19, <1>20, <1>21, <1>22, <1>23, <1>24, <1>25, <1>26, <1>27, <1>28, <1>29, <1>30 DEF Next, Step, Handler

LEMMA OrderSeen == FrameType /\ OrderInv => RxInOrder
<1> SUFFICES ASSUME FrameType, OrderInv PROVE RxInOrder
  OBVIOUS
<1> DEFINE lg == Len(got)   lb == Len(backlog)   lt == Len(tap)   all == got \o backlog \o tap
<1>1. /\ got \in Seq(Nat) /\ backlog \in Seq(Nat) /\ tap \in Seq(Nat)
      /\ lg \in Nat /\ lb \in Nat /\ lt \in Nat
  BY VirtioAssumption DEF FrameType
<1>2. /\ got \o backlog \in Seq(Nat) /\ Len(got \o backlog) = lg + lb
      /\ \A i \in 1..(lg + lb) : (got \o backlog)[i] = IF i <= lg THEN got[i] ELSE backlog[i - lg]
  BY <1>1
<1>3. /\ Len(all) = lg + lb + lt
      /\ \A i \in 1..(lg + lb + lt) : all[i] = IF i <= lg + lb THEN (got \o backlog)[i] ELSE tap[i - (lg + lb)]
  BY <1>1, <1>2
<1> HIDE DEF all, lg, lb, lt
<1>s. ASSUME NEW i \in 1..(lg + lb + lt)
      PROVE  /\ i <= lg => all[i] = got[i]
             /\ i > lg /\ i <= lg + lb => all[i] = backlog[i - lg]
             /\ i > lg + lb => all[i] = tap[i - (lg + lb)]
  <2>1. i \in Nat /\ i >= 1 /\ (i <= lg + lb => i \in 1..(lg + lb))
    BY <1>1
  <2>2. i <= lg + lb => all[i] = (got \o backlog)[i]
    BY <1>3
  <2>3. i <= lg => i <= lg + lb
    BY <1>1, <2>1
  <2>4. i <= lg + lb => (got \o backlog)[i] = IF i <= lg THEN got[i] ELSE backlog[i - lg]
    BY <1>2, <2>1
  <2>5. i > lg + lb => all[i] = tap[i - (lg + lb)]
    BY <1>1, <1>3, <2>1
  <2>6. i > lg => ~(i <= lg)
    BY <1>1, <2>1
  <2>7. QED
    BY <2>2, <2>3, <2>4, <2>5, <2>6
<1>4. ASSUME NEW i \in 1..(Len(all) - 1) PROVE all[i] < all[i + 1]
  <2>1. i \in Nat /\ i >= 1 /\ i + 1 <= lg + lb + lt
    BY <1>1, <1>3
  <2>0. i \in 1..(lg + lb + lt) /\ i + 1 \in 1..(lg + lb + lt)
    BY <1>1, <2>1
  <2>2. CASE i + 1 <= lg
    <3>1. i <= lg /\ i \in 1..lg /\ i + 1 \in 1..lg
      BY <1>1, <2>1, <2>2
    <3>2. all[i] = got[i] /\ all[i + 1] = got[i + 1]
      BY <1>1, <1>s, <2>0, <2>1, <2>2, <3>1
    <3>3. QED
      BY <2>1, <3>1, <3>2 DEF OrderInv, Rising, lg
  <2>3. CASE i = lg /\ i + 1 <= lg + lb
    <3>1. i <= lg /\ i \in 1..lg /\ 1 \in 1..lb /\ i + 1 > lg /\ i + 1 - lg = 1
      BY <1>1, <2>1, <2>3
    <3>2. all[i] = got[i] /\ all[i + 1] = backlog[i + 1 - lg]
      BY <1>1, <1>s, <2>0, <2>1, <2>3, <3>1
    <3>3. QED
      BY <3>1, <3>2 DEF OrderInv, Before, lg, lb
  <2>4. CASE i = lg /\ lb = 0
    <3>1. i <= lg /\ i \in 1..lg /\ 1 \in 1..lt /\ i + 1 > lg + lb /\ i + 1 - (lg + lb) = 1
      BY <1>1, <2>1, <2>4
    <3>2. all[i] = got[i] /\ all[i + 1] = tap[i + 1 - (lg + lb)]
      BY <1>1, <1>s, <2>0, <2>1, <3>1
    <3>3. QED
      BY <3>1, <3>2 DEF OrderInv, Before, lg, lt
  <2>5. CASE i > lg /\ i + 1 <= lg + lb
    <3>1. /\ i <= lg + lb /\ i + 1 > lg
          /\ i - lg \in 1..lb /\ i + 1 - lg \in 1..lb /\ i - lg < i + 1 - lg
      BY <1>1, <2>1, <2>5
    <3>2. all[i] = backlog[i - lg] /\ all[i + 1] = backlog[i + 1 - lg]
      BY <1>1, <1>s, <2>0, <2>1, <2>5, <3>1
    <3>3. QED
      BY <3>1, <3>2 DEF OrderInv, Rising, lb
  <2>6. CASE i > lg /\ i = lg + lb
    <3>1. i + 1 - (lg + lb) = 1 /\ i + 1 > lg + lb /\ i <= lg + lb /\ i - lg \in 1..lb /\ 1 \in 1..lt
      BY <1>1, <2>1, <2>6
    <3>2. all[i] = backlog[i - lg] /\ all[i + 1] = tap[i + 1 - (lg + lb)]
      BY <1>s, <2>0, <2>6, <3>1
    <3>3. QED
      BY <3>1, <3>2 DEF OrderInv, Before, lb, lt
  <2>7. CASE i > lg + lb
    <3>1. /\ i + 1 > lg + lb
          /\ i - (lg + lb) \in 1..lt /\ i + 1 - (lg + lb) \in 1..lt /\ i - (lg + lb) < i + 1 - (lg + lb)
      BY <1>1, <2>1, <2>7
    <3>2. all[i] = tap[i - (lg + lb)] /\ all[i + 1] = tap[i + 1 - (lg + lb)]
      BY <1>1, <1>s, <2>0, <2>1, <2>7, <3>1
    <3>3. QED
      BY <3>1, <3>2 DEF OrderInv, Rising, lt
  <2>8. QED
    BY <1>1, <2>1, <2>2, <2>3, <2>4, <2>5, <2>6, <2>7
<1>5. QED
  BY <1>4 DEF RxInOrder, all

(* Whole milliseconds and the ticks left over. *)
LEMMA WholeMs ==
    ASSUME NEW n \in Nat, NEW k \in Nat \ {0}
    PROVE  /\ n \div k \in Nat /\ (n \div k) * k <= n
           /\ n \div k = 0 => n < k
OBVIOUS

LEMMA Products ==
    ASSUME NEW a \in Nat, NEW b \in Nat, NEW c \in Nat
    PROVE  /\ a * b \in Nat
           /\ a <= b => a * c <= b * c
           /\ (a + b) * c = a * c + b * c
           /\ a >= b => (a - b) * c = a * c - b * c
OBVIOUS

(* A turn of the loop refills by the whole milliseconds and takes n of what  *)
(* there is; the ideal bucket is ahead of it before and after.               *)
LEMMA BucketSpend ==
    ASSUME NEW k \in Nat, NEW s \in Nat, NEW r \in Nat, NEW cap \in Nat, NEW i \in Nat, NEW n \in Nat,
           k <= cap, Owed(k, s, r, cap) <= i,
           NEW f \in Nat, f = Least(k + (s \div TicksPerMs) * r, cap), n <= f,
           NEW z \in Nat, z = IF s \div TicksPerMs > 0 THEN 0 ELSE s,
           NEW g \in Nat, g = f - n
    PROVE  Owed(g, z, r, cap) <= Taken(i, n)
<1> DEFINE T == TicksPerMs   m == s \div T
<1>1. T \in Nat \ {0}
  BY VirtioAssumption
<1>2. m \in Nat /\ m * T <= s /\ (m = 0 => s < T)
  BY <1>1, WholeMs
<1>3. /\ k * T \in Nat /\ s * r \in Nat /\ m * r \in Nat /\ cap * T \in Nat /\ r * T \in Nat /\ f * T \in Nat /\ n * T \in Nat
      /\ (m * r) * T \in Nat /\ z * r \in Nat
  BY <1>1, <1>2, Products
<1>4. (cap + r) * T = cap * T + r * T /\ (f - n) * T = f * T - n * T /\ (k + m * r) * T = k * T + (m * r) * T
  BY <1>1, <1>2, <1>3, Products
<1>5. k * T <= cap * T /\ n * T <= f * T /\ f * T <= cap * T
  <2>1. f <= cap
    BY <1>3 DEF Least
  <2>2. QED
    BY <1>1, <2>1, Products
<1>6. f * T <= k * T + (m * r) * T
  <2>1. f <= k + m * r
    BY <1>3 DEF Least
  <2>2. k + m * r \in Nat
    BY <1>3
  <2>3. f * T <= (k + m * r) * T
    BY <1>1, <2>1, <2>2, Products
  <2>4. QED
    BY <1>4, <2>3
<1>7. (m * r) * T <= s * r
  <2>1. (m * T) * r <= s * r /\ m * T \in Nat
    BY <1>1, <1>2, Products
  <2>2. (m * T) * r = (m * r) * T
    BY <1>1, <1>2
  <2>3. QED
    BY <2>1, <2>2
<1>8. f * T + z * r <= i
  <2>1. CASE m > 0
    <3>1. z = 0 /\ z * r = 0
      BY <2>1
    <3>2. f * T <= k * T + s * r /\ f * T <= cap * T + r * T
      BY <1>3, <1>5, <1>6, <1>7
    <3>3. f * T <= i
      BY <1>3, <1>4, <3>2 DEF Owed, Least
    <3>4. QED
      BY <1>3, <3>1, <3>3
  <2>2. CASE m = 0
    <3>1. z = s /\ s <= T
      BY <1>1, <1>2, <2>2
    <3>2. s * r <= T * r /\ T * r = r * T
      BY <1>1, <3>1, Products
    <3>3. m * r = 0 /\ f = k
      BY <2>2 DEF Least
    <3>4. k * T + s * r <= cap * T + r * T
      BY <1>3, <1>5, <3>2
    <3>5. k * T + s * r <= i
      BY <1>3, <1>4, <3>4 DEF Owed, Least
    <3>6. QED
      BY <3>1, <3>3, <3>5
  <2>3. QED
    BY <1>2, <2>1, <2>2
<1>9. Owed(g, z, r, cap) <= f * T - n * T + z * r /\ Owed(g, z, r, cap) \in Int
  BY <1>3, <1>4 DEF Owed, Least
<1>10. QED
  BY <1>3, <1>5, <1>8, <1>9 DEF Taken

(* A tick. *)
LEMMA BucketTick ==
    ASSUME NEW k \in Nat, NEW s \in Nat, NEW r \in Nat, NEW cap \in Nat, NEW i \in Nat,
           Owed(k, s, r, cap) <= i
    PROVE  /\ Owed(k, s + 1, r, cap) <= Least(i + r, (cap + r) * TicksPerMs)
           /\ Owed(k, s, r, cap) <= Least(i + r, (cap + r) * TicksPerMs)
<1>1. TicksPerMs \in Nat /\ k * TicksPerMs \in Nat /\ s * r \in Nat /\ (cap + r) * TicksPerMs \in Nat
  BY VirtioAssumption, Products
<1>2. (s + 1) * r = s * r + r
  OBVIOUS
<1>3. QED
  BY <1>1, <1>2 DEF Owed, Least

LEMMA BucketKept ==
    ASSUME NEW k \in Nat, NEW s \in Nat, NEW r \in Nat, NEW cap \in Nat, NEW i \in Nat,
           k <= cap, Owed(k, s, r, cap) <= i
    PROVE  k * TicksPerMs <= i
<1>1. TicksPerMs \in Nat /\ k * TicksPerMs \in Nat /\ s * r \in Nat /\ cap * TicksPerMs \in Nat /\ r * TicksPerMs \in Nat
  BY VirtioAssumption, Products
<1>2. k * TicksPerMs <= cap * TicksPerMs /\ (cap + r) * TicksPerMs = cap * TicksPerMs + r * TicksPerMs
  BY <1>1, Products
<1>3. QED
  BY <1>1, <1>2 DEF Owed, Least

LEMMA BucketFull ==
    ASSUME NEW r \in Nat, NEW cap \in Nat
    PROVE  Owed(cap, 0, r, cap) <= (cap + r) * TicksPerMs /\ (cap + r) * TicksPerMs \in Nat
<1>1. TicksPerMs \in Nat /\ cap * TicksPerMs \in Nat /\ (cap + r) * TicksPerMs \in Nat
  BY VirtioAssumption, Products
<1>2. QED
  BY <1>1 DEF Owed, Least

(* The buckets stay behind the ideal ones. *)
LEMMA BudgetStep == BudgetType /\ BudgetInv /\ [Next]_vars => (BudgetType /\ BudgetInv)'
<1> SUFFICES ASSUME BudgetType, BudgetInv, [Next]_vars PROVE (BudgetType /\ BudgetInv)'
  OBVIOUS
<1> USE DEF machine, transport, rings, line, guest, frames, pages, limiter, Goto
<1>k. ASSUME UNCHANGED <<tokens, since, nap, waited, ideal>> PROVE (BudgetType /\ BudgetInv)'
  BY <1>k DEF BudgetType, BudgetInv, Owed
<1>1. ASSUME NEW q \in Queues, SetReady(q) PROVE (BudgetType /\ BudgetInv)'
  BY <1>1, <1>k DEF SetReady
<1>2. ASSUME NEW q \in Queues, Post(q) PROVE (BudgetType /\ BudgetInv)'
  BY <1>2, <1>k DEF Post
<1>3. ASSUME NEW q \in Queues, Notify(q) PROVE (BudgetType /\ BudgetInv)'
  BY <1>3, <1>k DEF Notify
<1>4. ASSUME Probe PROVE (BudgetType /\ BudgetInv)'
  BY <1>4, <1>k DEF Probe
<1>5. ASSUME DriverOk PROVE (BudgetType /\ BudgetInv)'
  BY <1>5, <1>k DEF DriverOk, Activate
<1>6. ASSUME Reset PROVE (BudgetType /\ BudgetInv)'
  BY <1>6, <1>k DEF Reset
<1>7. ASSUME IsrEnter PROVE (BudgetType /\ BudgetInv)'
  BY <1>7, <1>k DEF IsrEnter
<1>8. ASSUME IsrAck PROVE (BudgetType /\ BudgetInv)'
  BY <1>8, <1>k DEF IsrAck
<1>9. ASSUME IsrReap PROVE (BudgetType /\ BudgetInv)'
  BY <1>9, <1>k DEF IsrReap
<1>10. ASSUME NEW t \in Threads, NEW q \in AllQueues, Poll(t, q) PROVE (BudgetType /\ BudgetInv)'
  BY <1>10, <1>k DEF Poll
<1>11. ASSUME NEW t \in Threads, Pop(t) PROVE (BudgetType /\ BudgetInv)'
  <2>1. UNCHANGED <<tokens, since, ideal>> /\ waited' = 0 /\ nap' = 0
    BY <1>11 DEF Pop
  <2>2. QED
    BY <2>1, VirtioAssumption DEF BudgetType, BudgetInv
<1>12. ASSUME NEW t \in Threads, Serve(t) PROVE (BudgetType /\ BudgetInv)'
  BY <1>12, <1>k DEF Serve
<1>13. ASSUME NEW t \in Threads, Publish(t) PROVE (BudgetType /\ BudgetInv)'
  BY <1>13, <1>k DEF Publish
<1>14. ASSUME NEW t \in Threads, Flag(t) PROVE (BudgetType /\ BudgetInv)'
  BY <1>14, <1>k DEF Flag
<1>15. ASSUME NEW t \in Threads, RaiseIrq(t) PROVE (BudgetType /\ BudgetInv)'
  BY <1>15, <1>k DEF RaiseIrq
<1>16. ASSUME NEW t \in Threads, Inflate(t) PROVE (BudgetType /\ BudgetInv)'
  BY <1>16, <1>k DEF Inflate
<1>17. ASSUME NEW t \in Threads, Load(t) PROVE (BudgetType /\ BudgetInv)'
  BY <1>17, <1>k DEF Load
<1>18. ASSUME NEW t \in Threads, CompareExchange(t) PROVE (BudgetType /\ BudgetInv)'
  BY <1>18, <1>k DEF CompareExchange
<1>19. ASSUME NEW t \in Threads, TryAdmit(t) PROVE (BudgetType /\ BudgetInv)'
  <2>0. \A d \in Dims : Capacity[d] \in Nat /\ Refill[d] \in Nat
    BY VirtioAssumption
  <2>a. TicksPerMs \in Nat \ {0} /\ MaxWait \in Nat /\ SinceMax \in Nat /\ since \in Nat
    BY VirtioAssumption DEF BudgetType
  <2> DEFINE Z(c) == IF c THEN [d \in Dims |-> Least(Need[d], Refilled[d])] ELSE [d \in Dims |-> 0]
  <2>1. \A d \in Dims : Need[d] \in Nat
    BY <2>0, VirtioAssumption DEF Need, Least
  <2>2. \A d \in Dims : tokens[d] \in Nat /\ tokens[d] <= Capacity[d] /\ ideal[d] \in Nat
    BY DEF BudgetType
  <2>3. \A d \in Dims : (since \div TicksPerMs) * Refill[d] \in Nat
    BY <2>0, <2>a, WholeMs, Products
  <2>4. \A d \in Dims : /\ Refilled[d] = Least(tokens[d] + (since \div TicksPerMs) * Refill[d], Capacity[d])
                        /\ Refilled[d] \in Nat /\ Refilled[d] <= Capacity[d]
    BY <2>0, <2>2, <2>3 DEF Refilled, Least
  <2>5. PICK c \in BOOLEAN : /\ tokens' = [d \in Dims |-> Refilled[d] - Z(c)[d]]
                             /\ ideal' = [d \in Dims |-> IF ideal[d] >= Z(c)[d] * TicksPerMs
                                                         THEN ideal[d] - Z(c)[d] * TicksPerMs ELSE 0]
    BY <1>19 DEF TryAdmit, Spend
  <2>6. since' = (IF since \div TicksPerMs > 0 THEN 0 ELSE since) /\ nap' \in {0, TicksPerMs} /\ UNCHANGED waited
    BY <1>19 DEF TryAdmit, SinceAfter
  <2>7. \A d \in Dims : Z(c)[d] \in Nat /\ Z(c)[d] <= Refilled[d]
    BY <2>1, <2>4 DEF Least
  <2> HIDE DEF Z
  <2>8. since' \in 0..SinceMax /\ nap' \in 0..TicksPerMs
    BY <2>a, <2>6 DEF BudgetType
  <2>9. ASSUME NEW d \in Dims
        PROVE  /\ tokens'[d] \in Nat /\ tokens'[d] <= Capacity[d] /\ ideal'[d] \in Nat
               /\ Owed(tokens'[d], since', Refill[d], Capacity[d]) <= ideal'[d]
    <3> DEFINE n == Z(c)[d]   f == Refilled[d]
    <3>1. tokens'[d] = f - n /\ ideal'[d] = IF ideal[d] >= n * TicksPerMs THEN ideal[d] - n * TicksPerMs ELSE 0
      BY <2>5
    <3>2. n \in Nat /\ n <= f /\ f \in Nat /\ f <= Capacity[d] /\ Capacity[d] \in Nat /\ Refill[d] \in Nat /\ tokens[d] \in Nat /\ ideal[d] \in Nat
          /\ f = Least(tokens[d] + (since \div TicksPerMs) * Refill[d], Capacity[d])
          /\ Owed(tokens[d], since, Refill[d], Capacity[d]) <= ideal[d] /\ tokens[d] <= Capacity[d]
      BY <2>0, <2>2, <2>4, <2>7 DEF BudgetInv
    <3> HIDE DEF n, f
    <3>3. n * TicksPerMs \in Nat
      BY <2>a, <3>2, Products
    <3>4. since' \in Nat
      BY <2>a, <2>6
    <3>5. Owed(f - n, since', Refill[d], Capacity[d]) <= ideal'[d]
      <4> DEFINE k == tokens[d]   r == Refill[d]   cap == Capacity[d]   i == ideal[d]   g == f - n
                 z == since'
      <4>1. /\ k \in Nat /\ r \in Nat /\ cap \in Nat /\ i \in Nat /\ g \in Nat /\ z \in Nat /\ n \in Nat /\ f \in Nat
            /\ since \in Nat /\ k <= cap /\ Owed(k, since, r, cap) <= i /\ n <= f /\ g = f - n
            /\ f = Least(k + (since \div TicksPerMs) * r, cap)
            /\ z = IF since \div TicksPerMs > 0 THEN 0 ELSE since
        BY <2>a, <2>6, <3>2, <3>4
      <4>2. ideal'[d] = Taken(i, n)
        BY <3>1 DEF Taken
      <4> HIDE DEF k, r, cap, i, g, z
      <4>3. Owed(g, z, r, cap) <= Taken(i, n)
        BY <4>1, BucketSpend, ZenonT(40)
      <4>4. QED
        BY <4>2, <4>3 DEF g, z, r, cap
    <3>6. tokens'[d] \in Nat /\ tokens'[d] <= Capacity[d] /\ ideal'[d] \in Nat
      BY <3>1, <3>2, <3>3
    <3>7. QED
      BY <3>1, <3>5, <3>6
  <2>10. BudgetType'
    BY <2>5, <2>6, <2>8, <2>9 DEF BudgetType
  <2>11. QED
    BY <2>9, <2>10 DEF BudgetInv, Owed
<1>20. ASSUME NEW t \in Threads, RxDrain(t) PROVE (BudgetType /\ BudgetInv)'
  BY <1>20, <1>k DEF RxDrain, Deliver
<1>21. ASSUME NEW t \in Threads, RxRead(t) PROVE (BudgetType /\ BudgetInv)'
  BY <1>21, <1>k DEF RxRead, Deliver, Enqueue, Direct
<1>22. ASSUME Tick PROVE (BudgetType /\ BudgetInv)'
  <2>0. \A d \in Dims : Capacity[d] \in Nat /\ Refill[d] \in Nat
    BY VirtioAssumption
  <2>a. TicksPerMs \in Nat \ {0} /\ MaxWait \in Nat /\ SinceMax \in Nat /\ since \in Nat
    BY VirtioAssumption DEF BudgetType
  <2>1. /\ since' = Least(since + 1, SinceMax) /\ nap' = (IF nap > 0 THEN nap - 1 ELSE 0)
        /\ waited' \in {waited, Least(waited + 1, MaxWait)} /\ UNCHANGED tokens
        /\ ideal' = [d \in Dims |-> Least(ideal[d] + Refill[d], FullIdeal[d])]
    BY <1>22 DEF Tick
  <2>2. since' \in {since, since + 1} /\ since' \in 0..SinceMax
    BY <2>a, <2>1 DEF BudgetType, Least
  <2>3. nap' \in 0..TicksPerMs /\ waited' \in 0..MaxWait
    BY <2>a, <2>1 DEF BudgetType, Least
  <2>4. ASSUME NEW d \in Dims
        PROVE  ideal'[d] \in Nat /\ Owed(tokens[d], since', Refill[d], Capacity[d]) <= ideal'[d]
    <3>1. ideal'[d] = Least(ideal[d] + Refill[d], (Capacity[d] + Refill[d]) * TicksPerMs)
      BY <2>1 DEF FullIdeal
    <3>2. tokens[d] \in Nat /\ ideal[d] \in Nat /\ Owed(tokens[d], since, Refill[d], Capacity[d]) <= ideal[d]
      BY DEF BudgetType, BudgetInv
    <3>3. (Capacity[d] + Refill[d]) * TicksPerMs \in Nat
      BY <2>0, BucketFull
    <3>4. ideal'[d] \in Nat
      BY <2>0, <3>1, <3>2, <3>3 DEF Least
    <3>5. CASE since' = since + 1
      <4>1. Owed(tokens[d], since + 1, Refill[d], Capacity[d])
              <= Least(ideal[d] + Refill[d], (Capacity[d] + Refill[d]) * TicksPerMs)
        BY <2>0, <2>a, <3>2, BucketTick
      <4>2. QED
        BY <3>1, <3>4, <3>5, <4>1
    <3>6. CASE since' = since
      <4>1. Owed(tokens[d], since, Refill[d], Capacity[d])
              <= Least(ideal[d] + Refill[d], (Capacity[d] + Refill[d]) * TicksPerMs)
        BY <2>0, <2>a, <3>2, BucketTick
      <4>2. QED
        BY <3>1, <3>4, <3>6, <4>1
    <3>7. QED
      BY <2>2, <3>5, <3>6
  <2>5. BudgetType'
    BY <2>1, <2>2, <2>3, <2>4 DEF BudgetType
  <2>6. QED
    BY <2>1, <2>4, <2>5 DEF BudgetInv, Owed
<1>23. ASSUME FrameArrives PROVE (BudgetType /\ BudgetInv)'
  BY <1>23, <1>k DEF FrameArrives
<1>24. ASSUME AttachBooted PROVE (BudgetType /\ BudgetInv)'
  BY <1>24, <1>k DEF AttachBooted, attach_virtio
<1>25. ASSUME StartVcpus PROVE (BudgetType /\ BudgetInv)'
  BY <1>25, <1>k DEF StartVcpus
<1>26. ASSUME Snapshot PROVE (BudgetType /\ BudgetInv)'
  <2>0. \A d \in Dims : Capacity[d] \in Nat /\ Refill[d] \in Nat
    BY VirtioAssumption
  <2>a. TicksPerMs \in Nat \ {0} /\ MaxWait \in Nat /\ SinceMax \in Nat /\ since \in Nat
    BY VirtioAssumption DEF BudgetType
  <2>1. tokens' = Full /\ since' = 0 /\ nap' = 0 /\ waited' = 0 /\ ideal' = FullIdeal
    BY <1>26 DEF Snapshot
  <2>2. \A d \in Dims : (Capacity[d] + Refill[d]) * TicksPerMs \in Nat
    BY <2>0, BucketFull
  <2>3. BudgetType'
    BY <2>0, <2>a, <2>1, <2>2 DEF BudgetType, Full, FullIdeal
  <2>4. ASSUME NEW d \in Dims PROVE Owed(tokens[d], since, Refill[d], Capacity[d])' <= ideal'[d]
    <3>1. tokens'[d] = Capacity[d] /\ ideal'[d] = (Capacity[d] + Refill[d]) * TicksPerMs
      BY <2>1 DEF Full, FullIdeal
    <3>2. Owed(Capacity[d], 0, Refill[d], Capacity[d]) <= (Capacity[d] + Refill[d]) * TicksPerMs
      BY <2>0, BucketFull
    <3>3. QED
      BY <2>1, <3>1, <3>2 DEF Owed
  <2>5. QED
    BY <2>3, <2>4 DEF BudgetInv
<1>27. ASSUME AttachRestored PROVE (BudgetType /\ BudgetInv)'
  BY <1>27, <1>k DEF AttachRestored, attach_virtio, restore_activate, Activate
<1>28. ASSUME RestoreIrqchip PROVE (BudgetType /\ BudgetInv)'
  BY <1>28, <1>k DEF RestoreIrqchip
<1>29. ASSUME ResumeVcpus PROVE (BudgetType /\ BudgetInv)'
  BY <1>29, <1>k DEF ResumeVcpus
<1>30. CASE UNCHANGED vars
  BY <1>k, <1>30 DEF vars
<1>31. QED
  BY <1>1, <1>2, <1>3, <1>4, <1>5, <1>6, <1>7, <1>8, <1>9, <1>10, <1>11, <1>12, <1>13, <1>14, <1>15, <1>16, <1>17, <1>18, <1>19, <1>20, <1>21, <1>22, <1>23, <1>24, <1>25, <1>26, <1>27, <1>28, <1>29, <1>30 DEF Next, Step, Handler

LEMMA BudgetSeen == BudgetType /\ BudgetInv => BudgetKept
<1> SUFFICES ASSUME BudgetType, BudgetInv, NEW d \in Dims PROVE tokens[d] * TicksPerMs <= ideal[d]
  BY DEF BudgetKept
<1>1. /\ Capacity[d] \in Nat /\ Refill[d] \in Nat /\ tokens[d] \in Nat /\ ideal[d] \in Nat /\ since \in Nat
      /\ tokens[d] <= Capacity[d] /\ Owed(tokens[d], since, Refill[d], Capacity[d]) <= ideal[d]
  BY VirtioAssumption DEF BudgetType, BudgetInv
<1>2. QED
  BY <1>1, BucketKept

(* Workers that start wait for a notification; those that run go on. *)
LEMMA ActivateRests ==
    ASSUME Activate, WorkInv
    PROVE  UNCHANGED work \/ \A t \in Threads : work[t].pc = "none" /\ work'[t].pc \in {"none", "poll"}
<1>1. CASE moved
  BY <1>1 DEF Activate
<1>2. CASE ~moved
  <2>1. \A t \in Threads : work[t].pc = "none"
    BY <1>2 DEF WorkInv, WorkAt
  <2>2. \A t \in Threads : work'[t].pc \in {"none", "poll"}
    BY <1>2, <2>1 DEF Activate, Idle
  <2>3. QED
    BY <2>1, <2>2
<1>3. QED
  BY <1>1, <1>2

(* A machine that is being assembled rests, if it was quiet in its image. *)
LEMMA RestStep ==
    ~Unacked /\ ~Early /\ FlagType /\ WorkType /\ WorkInv /\ RestInv /\ [Next]_vars
        => RestInv'
<1> SUFFICES ASSUME ~Unacked, ~Early, FlagType, WorkType, WorkInv, RestInv, [Next]_vars PROVE RestInv'
  OBVIOUS
<1> USE DEF machine, transport, rings, line, guest, frames, pages, limiter, Goto
<1>k. ASSUME UNCHANGED <<vm, saved, isr, irq, driver, tap, work, evt>> PROVE RestInv'
  BY <1>k DEF RestInv
<1>1. ASSUME NEW q \in Queues, SetReady(q) PROVE RestInv'
  <2>1. vm = "run" /\ UNCHANGED <<vm, saved>>
    BY <1>1 DEF SetReady
  <2>2. QED
    BY <2>1 DEF RestInv
<1>2. ASSUME NEW q \in Queues, Post(q) PROVE RestInv'
  <2>1. vm = "run" /\ UNCHANGED <<vm, saved>>
    BY <1>2 DEF Post
  <2>2. QED
    BY <2>1 DEF RestInv
<1>3. ASSUME NEW q \in Queues, Notify(q) PROVE RestInv'
  <2>1. vm = "run" /\ UNCHANGED <<vm, saved>>
    BY <1>3 DEF Notify
  <2>2. QED
    BY <2>1 DEF RestInv
<1>4. ASSUME Probe PROVE RestInv'
  <2>1. vm = "run" /\ UNCHANGED <<vm, saved>>
    BY <1>4 DEF Probe
  <2>2. QED
    BY <2>1 DEF RestInv
<1>5. ASSUME DriverOk PROVE RestInv'
  <2>1. UNCHANGED <<vm, saved>> /\ vm = "run"
    BY <1>5 DEF DriverOk
  <2>2. QED
    BY <2>1 DEF RestInv
<1>6. ASSUME Reset PROVE RestInv'
  <2>1. vm = "run" /\ UNCHANGED <<vm, saved>>
    BY <1>6 DEF Reset
  <2>2. QED
    BY <2>1 DEF RestInv
<1>7. ASSUME IsrEnter PROVE RestInv'
  <2>1. vm = "run" /\ UNCHANGED <<vm, saved>>
    BY <1>7 DEF IsrEnter
  <2>2. QED
    BY <2>1 DEF RestInv
<1>8. ASSUME IsrAck PROVE RestInv'
  <2>1. vm = "run" /\ UNCHANGED <<vm, saved>>
    BY <1>8 DEF IsrAck
  <2>2. QED
    BY <2>1 DEF RestInv
<1>9. ASSUME IsrReap PROVE RestInv'
  <2>1. vm = "run" /\ UNCHANGED <<vm, saved>>
    BY <1>9 DEF IsrReap
  <2>2. QED
    BY <2>1 DEF RestInv
<1>10. ASSUME NEW t \in Threads, NEW q \in AllQueues, Poll(t, q) PROVE RestInv'
  <2>1. UNCHANGED <<vm, saved>> /\ (evt[q] \/ tap # <<>>)
    BY <1>10 DEF Poll
  <2>2. vm = "run"
    BY <2>1 DEF RestInv
  <2>3. QED
    BY <2>1, <2>2 DEF RestInv
<1>11. ASSUME NEW t \in Threads, Pop(t) PROVE RestInv'
  <2>1. UNCHANGED <<vm, saved>> /\ work[t].pc \notin {"none", "poll"}
    BY <1>11 DEF Pop
  <2>2. QED
    BY <2>1 DEF RestInv
<1>12. ASSUME NEW t \in Threads, Serve(t) PROVE RestInv'
  <2>1. UNCHANGED <<vm, saved>> /\ work[t].pc \notin {"none", "poll"}
    BY <1>12 DEF Serve
  <2>2. QED
    BY <2>1 DEF RestInv
<1>13. ASSUME NEW t \in Threads, Publish(t) PROVE RestInv'
  <2>1. UNCHANGED <<vm, saved>> /\ work[t].pc \notin {"none", "poll"}
    BY <1>13 DEF Publish
  <2>2. QED
    BY <2>1 DEF RestInv
<1>14. ASSUME NEW t \in Threads, Flag(t) PROVE RestInv'
  <2>1. UNCHANGED <<vm, saved>> /\ work[t].pc \notin {"none", "poll"}
    BY <1>14 DEF Flag
  <2>2. QED
    BY <2>1 DEF RestInv
<1>15. ASSUME NEW t \in Threads, RaiseIrq(t) PROVE RestInv'
  <2>1. UNCHANGED <<vm, saved>> /\ work[t].pc \notin {"none", "poll"}
    BY <1>15 DEF RaiseIrq
  <2>2. QED
    BY <2>1 DEF RestInv
<1>16. ASSUME NEW t \in Threads, Inflate(t) PROVE RestInv'
  <2>1. UNCHANGED <<vm, saved>> /\ work[t].pc \notin {"none", "poll"}
    BY <1>16 DEF Inflate
  <2>2. QED
    BY <2>1 DEF RestInv
<1>17. ASSUME NEW t \in Threads, Load(t) PROVE RestInv'
  <2>1. UNCHANGED <<vm, saved>> /\ work[t].pc \notin {"none", "poll"}
    BY <1>17 DEF Load
  <2>2. QED
    BY <2>1 DEF RestInv
<1>18. ASSUME NEW t \in Threads, CompareExchange(t) PROVE RestInv'
  <2>1. UNCHANGED <<vm, saved>> /\ work[t].pc \notin {"none", "poll"}
    BY <1>18 DEF CompareExchange
  <2>2. QED
    BY <2>1 DEF RestInv
<1>19. ASSUME NEW t \in Threads, TryAdmit(t) PROVE RestInv'
  <2>1. UNCHANGED <<vm, saved>> /\ work[t].pc \notin {"none", "poll"}
    BY <1>19 DEF TryAdmit
  <2>2. QED
    BY <2>1 DEF RestInv
<1>20. ASSUME NEW t \in Threads, RxDrain(t) PROVE RestInv'
  <2>1. UNCHANGED <<vm, saved>> /\ work[t].pc \notin {"none", "poll"}
    BY <1>20 DEF RxDrain
  <2>2. QED
    BY <2>1 DEF RestInv
<1>21. ASSUME NEW t \in Threads, RxRead(t) PROVE RestInv'
  <2>1. UNCHANGED <<vm, saved>> /\ work[t].pc \notin {"none", "poll"}
    BY <1>21 DEF RxRead
  <2>2. QED
    BY <2>1 DEF RestInv
<1>22. ASSUME Tick PROVE RestInv'
  BY <1>22, <1>k DEF Tick
<1>23. ASSUME FrameArrives PROVE RestInv'
  <2>1. UNCHANGED <<vm, saved>> /\ vm = "run"
    BY <1>23 DEF FrameArrives
  <2>2. QED
    BY <2>1 DEF RestInv
<1>24. ASSUME AttachBooted PROVE RestInv'
  <2>1. vm # "run" /\ UNCHANGED <<saved, isr, irq, driver, tap, work, evt>>
    BY <1>24 DEF AttachBooted, attach_virtio
  <2>2. QED
    BY <2>1 DEF RestInv
<1>25. ASSUME StartVcpus PROVE RestInv'
  <2>1. vm # "run" /\ UNCHANGED <<saved, isr, irq, driver, tap, work, evt>>
    BY <1>25 DEF StartVcpus, attach_virtio
  <2>2. QED
    BY <2>1 DEF RestInv
<1>26. ASSUME Snapshot PROVE RestInv'
  <2>1. ~isr /\ ~irq /\ driver = "run"
    BY <1>26 DEF Snapshot
  <2>2. /\ ~isr' /\ ~irq' /\ driver' = "run" /\ tap' = <<>> /\ saved' = FALSE
        /\ evt' = [q \in AllQueues |-> FALSE] /\ work' = [t \in Threads |-> Idle]
    BY <1>26, <2>1 DEF Snapshot, FlagType
  <2>3. \A t \in Threads : work'[t].pc = "none"
    BY <2>2 DEF Idle
  <2>4. QED
    BY <2>2, <2>3 DEF RestInv
<1>27. ASSUME AttachRestored PROVE RestInv'
  <2>1. vm # "run" /\ UNCHANGED <<saved, isr, irq, driver, tap, evt>> /\ (Activate \/ UNCHANGED work)
    BY <1>27 DEF AttachRestored, attach_virtio, restore_activate
  <2>2. \A t \in Threads : work[t].pc \in {"none", "poll"}
    BY <2>1 DEF RestInv
  <2>3. \A t \in Threads : work'[t].pc \in {"none", "poll"}
    BY <2>1, <2>2, ActivateRests
  <2>4. QED
    BY <2>1, <2>3 DEF RestInv
<1>28. ASSUME RestoreIrqchip PROVE RestInv'
  <2>1. vm # "run" /\ UNCHANGED <<saved, isr, driver, tap, work, evt>> /\ irq' = saved
    BY <1>28 DEF RestoreIrqchip
  <2>2. QED
    BY <2>1 DEF RestInv
<1>29. ASSUME ResumeVcpus PROVE RestInv'
  <2>1. vm # "run" /\ UNCHANGED <<saved, isr, irq, driver, tap, work, evt>>
    BY <1>29 DEF ResumeVcpus, attach_virtio
  <2>2. QED
    BY <2>1 DEF RestInv
<1>30. CASE UNCHANGED vars
  BY <1>k, <1>30 DEF vars
<1>31. QED
  BY <1>1, <1>2, <1>3, <1>4, <1>5, <1>6, <1>7, <1>8, <1>9, <1>10, <1>11, <1>12, <1>13, <1>14, <1>15, <1>16, <1>17, <1>18, <1>19, <1>20, <1>21, <1>22, <1>23, <1>24, <1>25, <1>26, <1>27, <1>28, <1>29, <1>30 DEF Next, Step, Handler

(* A step of worker t that publishes no chain and leaves none behind. *)
LEMMA AvailMove ==
    ASSUME AvailInv, UNCHANGED <<kind, bad, kick, evt>>, NEW t \in Threads, kind \in Kinds,
           \A u \in Threads \ {t} : work'[u] = work[u],
           \A q \in Queues \ {"rx"} : avail'[q] # <<>> => avail[q] # <<>>,
           Good /\ work[t].pc \in Holding \union {"drain"} =>
               work'[t].q = work[t].q /\ (work'[t].pc \in Holding \union {"drain"} \/ avail'[work[t].q] = <<>>)
    PROVE  AvailInv'
<1>1. Queues' = Queues /\ Good' = Good
  BY DEF Queues, Good
<1>2. SUFFICES ASSUME Good, NEW q \in Queues \ {"rx"}, avail'[q] # <<>>
      PROVE  \/ q \in kick \/ evt[q]
             \/ work'[Thread(q)].q = q /\ work'[Thread(q)].pc \in Holding \union {"drain"}
  BY <1>1 DEF AvailInv, Thread
<1>3. Thread(q) \in Threads
  BY QueuesOfKind, ThreadOf
<1>4. \/ q \in kick \/ evt[q]
      \/ work[Thread(q)].q = q /\ work[Thread(q)].pc \in Holding \union {"drain"}
  BY <1>2 DEF AvailInv
<1>5. QED
  BY <1>2, <1>3, <1>4

(* No published chain is left without a notification or a worker. *)
LEMMA AvailStep ==
    FlagType /\ PageType /\ RingType /\ WorkType /\ WorkInv /\ HandInv /\ AvailInv /\ [Next]_vars
        => AvailInv'
<1> SUFFICES ASSUME FlagType, PageType, RingType, WorkType, WorkInv, HandInv, AvailInv, [Next]_vars PROVE AvailInv'
  OBVIOUS
<1> USE DEF machine, transport, rings, line, guest, frames, pages, limiter, Goto
<1>k. ASSUME UNCHANGED <<kind, bad, kick, evt, avail, work>> PROVE AvailInv'
  BY <1>k DEF AvailInv, Good, Queues, Thread
<1>1. ASSUME NEW q \in Queues, SetReady(q) PROVE AvailInv'
  BY <1>1, <1>k DEF SetReady
<1>2. ASSUME NEW q \in Queues, Post(q) PROVE AvailInv'
  <2>1. /\ q \in AllQueues /\ UNCHANGED <<kind, evt, work>> /\ kick' = kick \union {q}
        /\ \E h : avail' = [avail EXCEPT ![q] = Append(@, h)]
        /\ \E h, b : bad' = [bad EXCEPT ![q] = IF b THEN @ \union {h} ELSE @]
    BY <1>2, QueuesOfKind DEF Post, FlagType
  <2>2. Queues' = Queues /\ (Good' => Good) /\ Queues \subseteq AllQueues
    BY <2>1, QueuesOfKind DEF Queues, Good, RingType, FlagType
  <2>3. \A r \in AllQueues \ {q} : avail'[r] = avail[r]
    BY <2>1 DEF RingType
  <2>4. QED
    BY <2>1, <2>2, <2>3 DEF AvailInv, Thread
<1>3. ASSUME NEW q \in Queues, Notify(q) PROVE AvailInv'
  <2>1. q \in AllQueues /\ UNCHANGED <<kind, avail, bad, work>> /\ kick' = kick \ {q} /\ evt' = [evt EXCEPT ![q] = TRUE]
    BY <1>3, QueuesOfKind DEF Notify, FlagType
  <2>2. Queues' = Queues /\ Good' = Good /\ Queues \subseteq AllQueues
    BY <2>1, QueuesOfKind DEF Queues, Good, FlagType
  <2>3. QED
    BY <2>1, <2>2 DEF AvailInv, FlagType, Thread
<1>4. ASSUME Probe PROVE AvailInv'
  BY <1>4, <1>k DEF Probe
<1>5. ASSUME DriverOk PROVE AvailInv'
  <2>1. UNCHANGED <<kind, bad, kick, evt, avail>> /\ (Activate \/ UNCHANGED work)
    BY <1>5 DEF DriverOk
  <2>2. CASE UNCHANGED work
    BY <1>k, <2>1, <2>2
  <2>3. CASE \A u \in Threads : work[u].pc = "none"
    <3>1. Queues' = Queues /\ Good' = Good /\ \A q \in Queues : Thread(q) \in Threads
      BY <2>1, QueuesOfKind, ThreadOf DEF Queues, Good, FlagType
    <3>2. QED
      BY <2>1, <2>3, <3>1 DEF AvailInv, Holding, Thread
  <2>4. QED
    BY <2>1, <2>2, <2>3, ActivateRests
<1>6. ASSUME Reset PROVE AvailInv'
  BY <1>6, <1>k DEF Reset
<1>7. ASSUME IsrEnter PROVE AvailInv'
  BY <1>7, <1>k DEF IsrEnter
<1>8. ASSUME IsrAck PROVE AvailInv'
  BY <1>8, <1>k DEF IsrAck
<1>9. ASSUME IsrReap PROVE AvailInv'
  BY <1>9, <1>k DEF IsrReap
<1>10. ASSUME NEW t \in Threads, NEW q \in AllQueues, Poll(t, q) PROVE AvailInv'
  <2>1. /\ UNCHANGED <<kind, avail, bad, kick>>
        /\ evt' = [evt EXCEPT ![q] = FALSE] \/ evt' = evt
    BY <1>10 DEF Poll
  <2>2. Queues' = Queues /\ Good' = Good /\ Queues \subseteq AllQueues
    BY <2>1, QueuesOfKind DEF Queues, Good, FlagType
  <2>3. /\ work[t].pc = "poll" /\ q \in Queues /\ Thread(q) = t
        /\ work'[t].pc = (IF q = "rx" THEN "rxdrain" ELSE "drain") /\ work'[t].q = q
        /\ \A u \in Threads \ {t} : work'[u] = work[u]
    BY <1>10, PollMoves
  <2>4. \A r \in AllQueues \ {q} : evt'[r] = evt[r]
    BY <2>1 DEF FlagType
  <2>5. ASSUME Good, NEW r \in Queues \ {"rx"}, avail[r] # <<>>
        PROVE  \/ r \in kick \/ evt'[r]
               \/ work'[Thread(r)].q = r /\ work'[Thread(r)].pc \in Holding \union {"drain"}
    <3>1. CASE r = q
      BY <2>3, <2>5, <3>1
    <3>2. CASE r # q
      <4>1. evt'[r] = evt[r] /\ Thread(r) \in Threads
        BY <2>2, <2>4, <2>5, <3>2, ThreadOf
      <4>2. \/ r \in kick \/ evt[r]
            \/ work[Thread(r)].q = r /\ work[Thread(r)].pc \in Holding \union {"drain"}
        BY <2>5 DEF AvailInv
      <4>3. Thread(r) = t => work[Thread(r)].pc \notin Holding \union {"drain"}
        BY <2>3 DEF Holding
      <4>4. QED
        BY <2>3, <4>1, <4>2, <4>3
    <3>3. QED
      BY <3>1, <3>2
  <2>6. QED
    BY <2>1, <2>2, <2>5 DEF AvailInv, Thread
<1>11. ASSUME NEW t \in Threads, Pop(t) PROVE AvailInv'
  <2>0. kind \in Kinds
    BY DEF FlagType
  <2>1. UNCHANGED <<kind, bad, kick, evt>>
    BY <1>11 DEF Pop
  <2>2. CASE avail[work[t].q] # <<>>
    <3>1. PICK x \in Holding \ {"cas", "publish"} : Moves(t, x, work[t].signalled)
      BY <1>11, <2>2, PopMoves
    <3>2. AtQueue(t, "drain") /\ avail' = [avail EXCEPT ![work[t].q] = Tail(@)]
      BY <1>11, <2>2, PopMoves
    <3>3. \A q \in Queues \ {"rx"} : avail'[q] # <<>> => avail[q] # <<>>
      BY <2>2, <3>2, QueuesOfKind DEF RingType, AtQueue, FlagType
    <3>4. QED
      BY <2>0, <2>1, <3>1, <3>3, AvailMove DEF Moves
  <2>3. CASE avail[work[t].q] = <<>>
    BY <1>11, <2>0, <2>1, <2>3, PopMoves, AvailMove DEF Moves
  <2>4. QED
    BY <2>2, <2>3
<1>12. ASSUME NEW t \in Threads, Serve(t) PROVE AvailInv'
  <2>0. kind \in Kinds
    BY DEF FlagType
  <2>1. UNCHANGED <<kind, bad, kick, evt, avail>>
    BY <1>12 DEF Serve
  <2>2. CASE hand[work[t].q] \in bad[work[t].q] /\ Moves(t, "poll", work[t].signalled)
    <3>1. ~Good
      BY <1>12, <2>2, ServeMoves DEF Good, AtQueue
    <3>2. QED
      BY <2>0, <2>1, <2>2, <3>1, AvailMove DEF Moves
  <2>3. CASE \E x \in {"admit", "publish"} : Moves(t, x, work[t].signalled)
    BY <2>0, <2>1, <2>3, AvailMove DEF Moves, Holding
  <2>4. QED
    BY <1>12, <2>2, <2>3, ServeMoves
<1>13. ASSUME NEW t \in Threads, Publish(t) PROVE AvailInv'
  <2>0. kind \in Kinds
    BY DEF FlagType
  <2>1. UNCHANGED <<kind, bad, kick, evt, avail>>
    BY <1>13 DEF Publish
  <2>2. QED
    BY <1>13, <2>0, <2>1, PublishMoves, AvailMove DEF Moves, AtQueue, Holding
<1>14. ASSUME NEW t \in Threads, Flag(t) PROVE AvailInv'
  <2>0. kind \in Kinds
    BY DEF FlagType
  <2>1. UNCHANGED <<kind, bad, kick, evt, avail>>
    BY <1>14 DEF Flag
  <2>2. QED
    BY <1>14, <2>0, <2>1, FlagMoves, AvailMove DEF Moves, AtQueue, Holding
<1>15. ASSUME NEW t \in Threads, RaiseIrq(t) PROVE AvailInv'
  <2>0. kind \in Kinds
    BY DEF FlagType
  <2>1. UNCHANGED <<kind, bad, kick, evt, avail>>
    BY <1>15 DEF RaiseIrq
  <2>2. QED
    BY <1>15, <2>0, <2>1, RaiseIrqMoves, AvailMove DEF Moves, AtQueue, Holding
<1>16. ASSUME NEW t \in Threads, Inflate(t) PROVE AvailInv'
  <2>0. kind \in Kinds
    BY DEF FlagType
  <2>1. UNCHANGED <<kind, bad, kick, evt, avail>>
    BY <1>16 DEF Inflate
  <2>2. QED
    BY <1>16, <2>0, <2>1, InflateMoves, AvailMove DEF Moves, AtQueue, Holding
<1>17. ASSUME NEW t \in Threads, Load(t) PROVE AvailInv'
  <2>0. kind \in Kinds
    BY DEF FlagType
  <2>1. UNCHANGED <<kind, bad, kick, evt, avail>>
    BY <1>17 DEF Load
  <2>2. QED
    BY <1>17, <2>0, <2>1, LoadMoves, AvailMove DEF Moves, AtQueue, Holding
<1>18. ASSUME NEW t \in Threads, CompareExchange(t) PROVE AvailInv'
  <2>0. kind \in Kinds
    BY DEF FlagType
  <2>1. UNCHANGED <<kind, bad, kick, evt, avail>>
    BY <1>18 DEF CompareExchange
  <2>2. QED
    BY <1>18, <2>0, <2>1, CompareExchangeMoves, AvailMove DEF Moves, AtQueue, Holding
<1>19. ASSUME NEW t \in Threads, TryAdmit(t) PROVE AvailInv'
  <2>0. kind \in Kinds
    BY DEF FlagType
  <2>1. UNCHANGED <<kind, bad, kick, evt, avail>>
    BY <1>19 DEF TryAdmit
  <2>2. QED
    BY <1>19, <2>0, <2>1, TryAdmitMoves, AvailMove DEF Moves, AtQueue, Holding
<1>20. ASSUME NEW t \in Threads, RxDrain(t) PROVE AvailInv'
  <2>0. kind \in Kinds
    BY DEF FlagType
  <2>1. UNCHANGED <<kind, bad, kick, evt>> /\ \A q \in AllQueues \ {"rx"} : avail'[q] = avail[q]
    BY <1>20 DEF RxDrain, Deliver, RingType
  <2>2. \A q \in Queues \ {"rx"} : avail'[q] = avail[q]
    BY <2>0, <2>1, QueuesOfKind
  <2>3. work[t].pc \notin Holding \union {"drain"} /\ \A u \in Threads \ {t} : work'[u] = work[u]
    BY <1>20, RxDrainMoves DEF Moves, Holding
  <2>4. QED
    BY <2>0, <2>1, <2>2, <2>3, AvailMove
<1>21. ASSUME NEW t \in Threads, RxRead(t) PROVE AvailInv'
  <2>0. kind \in Kinds
    BY DEF FlagType
  <2>1. UNCHANGED <<kind, bad, kick, evt>> /\ \A q \in AllQueues \ {"rx"} : avail'[q] = avail[q]
    BY <1>21 DEF RxRead, Deliver, RingType
  <2>2. \A q \in Queues \ {"rx"} : avail'[q] = avail[q]
    BY <2>0, <2>1, QueuesOfKind
  <2>3. work[t].pc \notin Holding \union {"drain"} /\ \A u \in Threads \ {t} : work'[u] = work[u]
    BY <1>21, RxReadMoves DEF Moves, Holding
  <2>4. QED
    BY <2>0, <2>1, <2>2, <2>3, AvailMove
<1>22. ASSUME Tick PROVE AvailInv'
  BY <1>22, <1>k DEF Tick
<1>23. ASSUME FrameArrives PROVE AvailInv'
  BY <1>23, <1>k DEF FrameArrives
<1>24. ASSUME AttachBooted PROVE AvailInv'
  BY <1>24, <1>k DEF AttachBooted, attach_virtio
<1>25. ASSUME StartVcpus PROVE AvailInv'
  BY <1>25, <1>k DEF StartVcpus
<1>26. ASSUME Snapshot PROVE AvailInv'
  <2>1. UNCHANGED <<kind, avail>> /\ \A q \in Queues \ {"rx"} : avail[q] = <<>>
    BY <1>26 DEF Snapshot
  <2>2. QED
    BY <2>1 DEF AvailInv, Queues
<1>27. ASSUME AttachRestored PROVE AvailInv'
  <2>1. UNCHANGED <<kind, bad, kick, evt, avail>> /\ (Activate \/ UNCHANGED work)
    BY <1>27 DEF AttachRestored, restore_activate
  <2>2. CASE UNCHANGED work
    BY <1>k, <2>1, <2>2
  <2>3. CASE \A u \in Threads : work[u].pc = "none"
    <3>1. Queues' = Queues /\ Good' = Good /\ \A q \in Queues : Thread(q) \in Threads
      BY <2>1, QueuesOfKind, ThreadOf DEF Queues, Good, FlagType
    <3>2. QED
      BY <2>1, <2>3, <3>1 DEF AvailInv, Holding, Thread
  <2>4. QED
    BY <2>1, <2>2, <2>3, ActivateRests
<1>28. ASSUME RestoreIrqchip PROVE AvailInv'
  BY <1>28, <1>k DEF RestoreIrqchip
<1>29. ASSUME ResumeVcpus PROVE AvailInv'
  BY <1>29, <1>k DEF ResumeVcpus
<1>30. CASE UNCHANGED vars
  BY <1>k, <1>30 DEF vars
<1>31. QED
  BY <1>1, <1>2, <1>3, <1>4, <1>5, <1>6, <1>7, <1>8, <1>9, <1>10, <1>11, <1>12, <1>13, <1>14, <1>15, <1>16, <1>17, <1>18, <1>19, <1>20, <1>21, <1>22, <1>23, <1>24, <1>25, <1>26, <1>27, <1>28, <1>29, <1>30 DEF Next, Step, Handler

(* A step of worker t that returns a chain only when it will signal it. *)
LEMMA UsedMove ==
    ASSUME UsedInv, UNCHANGED <<kind, bad, isr, irq, driver>>, NEW t \in Threads, kind \in Kinds,
           \A u \in Threads \ {t} : work'[u] = work[u],
           work[t].pc # "irq", Good /\ Owes(work[t]) => Owes(work'[t]),
           \A q \in Queues : used'[q] = used[q] \/ (Thread(q) = t /\ Owes(work'[t]))
    PROVE  UsedInv'
<1>1. Queues' = Queues /\ Good' = Good
  BY DEF Queues, Good
<1>2. SUFFICES ASSUME Good, NEW q \in Queues, used'[q] # <<>>
      PROVE  \/ Owes(work'[Thread(q)])
             \/ isr /\ (irq \/ \E u \in Threads : work'[u].pc = "irq")
             \/ driver \in {"ack", "reap"}
  BY <1>1 DEF UsedInv, Thread, Owes
<1>3. Thread(q) \in Threads
  BY QueuesOfKind, ThreadOf
<1>4. CASE Thread(q) = t /\ Owes(work'[t])
  BY <1>4
<1>5. CASE used'[q] = used[q]
  <2>1. \/ Owes(work[Thread(q)])
        \/ isr /\ (irq \/ \E u \in Threads : work[u].pc = "irq")
        \/ driver \in {"ack", "reap"}
    BY <1>2, <1>5 DEF UsedInv
  <2>2. CASE Owes(work[Thread(q)])
    BY <1>2, <1>3, <2>2
  <2>3. CASE \E u \in Threads : work[u].pc = "irq"
    <3>1. PICK u \in Threads : work[u].pc = "irq"
      BY <2>3
    <3>2. work'[u].pc = "irq"
      BY <3>1
    <3>3. QED
      BY <2>1, <3>2, <1>2, <1>3
  <2>4. QED
    BY <2>1, <2>2, <2>3
<1>6. QED
  BY <1>2, <1>4, <1>5

(* No returned chain is left without a signal. *)
LEMMA UsedStep ==
    ~Unacked /\ ~Early /\ FlagType /\ PageType /\ RingType /\ WorkType /\ WorkInv /\ HandInv /\ RestInv /\ UsedInv /\ [Next]_vars
        => UsedInv'
<1> SUFFICES ASSUME ~Unacked, ~Early, FlagType, PageType, RingType, WorkType, WorkInv, HandInv, RestInv, UsedInv, [Next]_vars PROVE UsedInv'
  OBVIOUS
<1> USE DEF machine, transport, rings, line, guest, frames, pages, limiter, Goto
<1>k. ASSUME UNCHANGED <<kind, bad, isr, irq, driver, used, work>> PROVE UsedInv'
  BY <1>k DEF UsedInv, Good, Queues, Thread, Owes
<1>1. ASSUME NEW q \in Queues, SetReady(q) PROVE UsedInv'
  BY <1>1, <1>k DEF SetReady
<1>2. ASSUME NEW q \in Queues, Post(q) PROVE UsedInv'
  <2>1. /\ q \in AllQueues /\ UNCHANGED <<kind, isr, irq, driver, work, used>>
        /\ \E h, b : bad' = [bad EXCEPT ![q] = IF b THEN @ \union {h} ELSE @]
    BY <1>2, QueuesOfKind DEF Post, FlagType
  <2>2. Queues' = Queues /\ (Good' => Good)
    BY <2>1, QueuesOfKind DEF Queues, Good, RingType, FlagType
  <2>3. QED
    BY <2>1, <2>2 DEF UsedInv, Thread, Owes
<1>3. ASSUME NEW q \in Queues, Notify(q) PROVE UsedInv'
  BY <1>3, <1>k DEF Notify
<1>4. ASSUME Probe PROVE UsedInv'
  BY <1>4, <1>k DEF Probe
<1>5. ASSUME DriverOk PROVE UsedInv'
  <2>1. UNCHANGED <<kind, bad, isr, irq, driver, used>> /\ (Activate \/ UNCHANGED work)
    BY <1>5 DEF DriverOk
  <2>2. CASE UNCHANGED work
    BY <1>k, <2>1, <2>2
  <2>3. CASE \A u \in Threads : work[u].pc = "none"
    <3>1. Queues' = Queues /\ Good' = Good /\ \A q \in Queues : Thread(q) \in Threads
      BY <2>1, QueuesOfKind, ThreadOf DEF Queues, Good, FlagType
    <3>2. \A u \in Threads : ~Owes(work[u]) /\ work[u].pc # "irq"
      BY <2>3 DEF Owes, Holding
    <3>3. ASSUME Good, NEW q \in Queues, used[q] # <<>> PROVE (isr /\ irq) \/ driver \in {"ack", "reap"}
      BY <3>1, <3>2, <3>3 DEF UsedInv
    <3>4. QED
      BY <2>1, <3>1, <3>3 DEF UsedInv
  <2>4. QED
    BY <2>1, <2>2, <2>3, ActivateRests
<1>6. ASSUME Reset PROVE UsedInv'
  BY <1>6, <1>k DEF Reset
<1>7. ASSUME IsrEnter PROVE UsedInv'
  <2>1. UNCHANGED <<kind, bad, isr, work, used>> /\ driver = "run" /\ driver' = IF isr THEN "ack" ELSE "run"
    BY <1>7 DEF IsrEnter
  <2>2. Queues' = Queues /\ Good' = Good
    BY <2>1 DEF Queues, Good
  <2>3. CASE isr
    BY <2>1, <2>3 DEF UsedInv
  <2>4. CASE ~isr
    BY <2>1, <2>2, <2>4 DEF UsedInv, Thread, Owes
  <2>5. QED
    BY <2>3, <2>4
<1>8. ASSUME IsrAck PROVE UsedInv'
  <2>1. driver' = "reap"
    BY <1>8 DEF IsrAck
  <2>2. QED
    BY <2>1 DEF UsedInv
<1>9. ASSUME IsrReap PROVE UsedInv'
  <2>1. UNCHANGED kind /\ used' = [q \in AllQueues |-> <<>>]
    BY <1>9 DEF IsrReap
  <2>2. QED
    BY <2>1, QueuesOfKind DEF UsedInv, Queues, FlagType
<1>10. ASSUME NEW t \in Threads, NEW q \in AllQueues, Poll(t, q) PROVE UsedInv'
  <2>0. kind \in Kinds
    BY DEF FlagType
  <2>1. UNCHANGED <<kind, bad, isr, irq, driver, used>>
    BY <1>10 DEF Poll
  <2>2. work[t].pc # "irq" /\ ~Owes(work[t]) /\ \A u \in Threads \ {t} : work'[u] = work[u]
    BY <1>10, PollMoves DEF Owes, Holding
  <2>3. QED
    BY <2>0, <2>1, <2>2, UsedMove
<1>11. ASSUME NEW t \in Threads, Pop(t) PROVE UsedInv'
  <2>0. kind \in Kinds
    BY DEF FlagType
  <2>1. UNCHANGED <<kind, bad, isr, irq, driver, used>>
    BY <1>11 DEF Pop
  <2>2. CASE \E x \in Holding \ {"cas", "publish"} : Moves(t, x, work[t].signalled)
    <3>1. work[t].pc = "drain"
      BY <1>11 DEF Pop
    <3>2. QED
      BY <2>0, <2>1, <2>2, <3>1, UsedMove DEF Moves, Owes, Holding
  <2>3. CASE Moves(t, IF work[t].signalled THEN "flag" ELSE "poll", work[t].signalled)
    <3>1. work[t].pc = "drain"
      BY <1>11 DEF Pop
    <3>2. QED
      BY <2>0, <2>1, <2>3, <3>1, UsedMove DEF Moves, Owes, Holding
  <2>4. QED
    BY <1>11, <2>2, <2>3, PopMoves
<1>12. ASSUME NEW t \in Threads, Serve(t) PROVE UsedInv'
  <2>0. kind \in Kinds
    BY DEF FlagType
  <2>1. UNCHANGED <<kind, bad, isr, irq, driver, used>>
    BY <1>12 DEF Serve
  <2>2. work[t].pc = "serve"
    BY <1>12 DEF Serve
  <2>3. CASE hand[work[t].q] \in bad[work[t].q] /\ Moves(t, "poll", work[t].signalled)
    <3>1. ~Good
      BY <1>12, <2>3, ServeMoves DEF Good, AtQueue
    <3>2. QED
      BY <2>0, <2>1, <2>2, <2>3, <3>1, UsedMove DEF Moves
  <2>4. CASE \E x \in {"admit", "publish"} : Moves(t, x, work[t].signalled)
    BY <2>0, <2>1, <2>2, <2>4, UsedMove DEF Moves, Owes, Holding
  <2>5. QED
    BY <1>12, <2>3, <2>4, ServeMoves
<1>13. ASSUME NEW t \in Threads, Publish(t) PROVE UsedInv'
  <2>0. kind \in Kinds
    BY DEF FlagType
  <2>1. /\ UNCHANGED <<kind, bad, isr, irq, driver>>
        /\ used' = [used EXCEPT ![work[t].q] = Append(@, hand[work[t].q])]
    BY <1>13 DEF Publish
  <2>2. /\ AtQueue(t, "publish") /\ Owes(work'[t]) /\ \A u \in Threads \ {t} : work'[u] = work[u]
    BY <1>13, PublishMoves DEF Moves, Owes
  <2>3. \A q \in Queues : used'[q] = used[q] \/ (Thread(q) = t /\ Owes(work'[t]))
    BY <2>0, <2>1, <2>2, QueuesOfKind DEF AtQueue, RingType
  <2>4. work[t].pc # "irq"
    BY <2>2 DEF AtQueue
  <2>5. QED
    BY <2>0, <2>1, <2>2, <2>3, <2>4, UsedMove
<1>14. ASSUME NEW t \in Threads, Flag(t) PROVE UsedInv'
  <2>1. isr' = TRUE /\ work'[t].pc = "irq"
    BY <1>14, FlagMoves DEF Flag, Moves
  <2>2. QED
    BY <2>1 DEF UsedInv
<1>15. ASSUME NEW t \in Threads, RaiseIrq(t) PROVE UsedInv'
  <2>0. kind \in Kinds
    BY DEF FlagType
  <2>1. UNCHANGED <<kind, bad, isr, driver, used>> /\ irq' = TRUE
    BY <1>15 DEF RaiseIrq
  <2>2. Queues' = Queues /\ Good' = Good /\ \A q \in Queues : Thread(q) \in Threads
    BY <2>0, <2>1, QueuesOfKind, ThreadOf DEF Queues, Good
  <2>3. ~Owes(work[t]) /\ \A u \in Threads \ {t} : work'[u] = work[u]
    BY <1>15, RaiseIrqMoves DEF Moves, Owes, Holding
  <2>4. ASSUME Good, NEW q \in Queues, used[q] # <<>>
        PROVE  Owes(work'[Thread(q)]) \/ isr \/ driver \in {"ack", "reap"}
    BY <2>2, <2>3, <2>4 DEF UsedInv
  <2>5. QED
    BY <2>1, <2>2, <2>4 DEF UsedInv, Thread, Owes
<1>16. ASSUME NEW t \in Threads, Inflate(t) PROVE UsedInv'
  <2>0. kind \in Kinds
    BY DEF FlagType
  <2>1. UNCHANGED <<kind, bad, isr, irq, driver, used>>
    BY <1>16 DEF Inflate
  <2>2. /\ work[t].pc # "irq" /\ (Owes(work[t]) => Owes(work'[t]))
        /\ \A u \in Threads \ {t} : work'[u] = work[u]
    BY <1>16, InflateMoves DEF Moves, AtQueue, Owes, Holding
  <2>3. QED
    BY <2>0, <2>1, <2>2, UsedMove
<1>17. ASSUME NEW t \in Threads, Load(t) PROVE UsedInv'
  <2>0. kind \in Kinds
    BY DEF FlagType
  <2>1. UNCHANGED <<kind, bad, isr, irq, driver, used>>
    BY <1>17 DEF Load
  <2>2. /\ work[t].pc # "irq" /\ (Owes(work[t]) => Owes(work'[t]))
        /\ \A u \in Threads \ {t} : work'[u] = work[u]
    BY <1>17, LoadMoves DEF Moves, AtQueue, Owes, Holding
  <2>3. QED
    BY <2>0, <2>1, <2>2, UsedMove
<1>18. ASSUME NEW t \in Threads, CompareExchange(t) PROVE UsedInv'
  <2>0. kind \in Kinds
    BY DEF FlagType
  <2>1. UNCHANGED <<kind, bad, isr, irq, driver, used>>
    BY <1>18 DEF CompareExchange
  <2>2. /\ work[t].pc # "irq" /\ (Owes(work[t]) => Owes(work'[t]))
        /\ \A u \in Threads \ {t} : work'[u] = work[u]
    BY <1>18, CompareExchangeMoves DEF Moves, AtQueue, Owes, Holding
  <2>3. QED
    BY <2>0, <2>1, <2>2, UsedMove
<1>19. ASSUME NEW t \in Threads, TryAdmit(t) PROVE UsedInv'
  <2>0. kind \in Kinds
    BY DEF FlagType
  <2>1. UNCHANGED <<kind, bad, isr, irq, driver, used>>
    BY <1>19 DEF TryAdmit
  <2>2. /\ work[t].pc # "irq" /\ (Owes(work[t]) => Owes(work'[t]))
        /\ \A u \in Threads \ {t} : work'[u] = work[u]
    BY <1>19, TryAdmitMoves DEF Moves, AtQueue, Owes, Holding
  <2>3. QED
    BY <2>0, <2>1, <2>2, UsedMove
<1>20. ASSUME NEW t \in Threads, RxDrain(t) PROVE UsedInv'
  <2>0. kind \in Kinds
    BY DEF FlagType
  <2>1. UNCHANGED <<kind, bad, isr, irq, driver>> /\ work[t].pc # "irq"
    BY <1>20 DEF RxDrain
  <2>2. CASE UNCHANGED used /\ (Owes(work[t]) => Owes(work'[t])) /\ \A u \in Threads \ {t} : work'[u] = work[u]
    BY <2>0, <2>1, <2>2, UsedMove
  <2>3. CASE Owes(work'[t]) /\ (\E n : Deliver(n)) /\ \A u \in Threads \ {t} : work'[u] = work[u]
    <3>1. t = "net" /\ \A q \in AllQueues \ {"rx"} : used'[q] = used[q]
      BY <1>20, <2>3, RxDrainMoves DEF Deliver, RingType
    <3>2. \A q \in Queues : used'[q] = used[q] \/ (Thread(q) = t /\ Owes(work'[t]))
      BY <2>0, <2>3, <3>1, QueuesOfKind, ThreadOf
    <3>3. QED
      BY <2>0, <2>1, <2>3, <3>2, UsedMove
  <2>4. QED
    BY <1>20, <2>2, <2>3, RxDrainMoves DEF Moves, Owes, Holding
<1>21. ASSUME NEW t \in Threads, RxRead(t) PROVE UsedInv'
  <2>0. kind \in Kinds
    BY DEF FlagType
  <2>1. UNCHANGED <<kind, bad, isr, irq, driver>> /\ work[t].pc # "irq"
    BY <1>21 DEF RxRead
  <2>2. CASE UNCHANGED used /\ (Owes(work[t]) => Owes(work'[t])) /\ \A u \in Threads \ {t} : work'[u] = work[u]
    BY <2>0, <2>1, <2>2, UsedMove
  <2>3. CASE Owes(work'[t]) /\ (\E n : Deliver(n)) /\ \A u \in Threads \ {t} : work'[u] = work[u]
    <3>1. t = "net" /\ \A q \in AllQueues \ {"rx"} : used'[q] = used[q]
      BY <1>21, <2>3, RxReadMoves DEF Deliver, RingType
    <3>2. \A q \in Queues : used'[q] = used[q] \/ (Thread(q) = t /\ Owes(work'[t]))
      BY <2>0, <2>3, <3>1, QueuesOfKind, ThreadOf
    <3>3. QED
      BY <2>0, <2>1, <2>3, <3>2, UsedMove
  <2>4. QED
    BY <1>21, <2>2, <2>3, RxReadMoves DEF Moves, Owes, Holding
<1>22. ASSUME Tick PROVE UsedInv'
  BY <1>22, <1>k DEF Tick
<1>23. ASSUME FrameArrives PROVE UsedInv'
  BY <1>23, <1>k DEF FrameArrives
<1>24. ASSUME AttachBooted PROVE UsedInv'
  BY <1>24, <1>k DEF AttachBooted, attach_virtio
<1>25. ASSUME StartVcpus PROVE UsedInv'
  BY <1>25, <1>k DEF StartVcpus
<1>26. ASSUME Snapshot PROVE UsedInv'
  <2>1. /\ UNCHANGED <<kind, bad, used>> /\ ~isr /\ driver = "run"
        /\ \A q \in Queues : work[Thread(q)].pc = "poll"
    BY <1>26 DEF Snapshot
  <2>2. \A q \in Queues : ~Owes(work[Thread(q)])
    BY <2>1 DEF Owes, Holding
  <2>3. Good => \A q \in Queues : used[q] = <<>>
    BY <2>1, <2>2 DEF UsedInv
  <2>4. Queues' = Queues /\ Good' = Good
    BY <2>1 DEF Queues, Good
  <2>5. QED
    BY <2>1, <2>3, <2>4 DEF UsedInv
<1>27. ASSUME AttachRestored PROVE UsedInv'
  <2>1. UNCHANGED <<kind, bad, isr, irq, driver, used>> /\ (Activate \/ UNCHANGED work)
    BY <1>27 DEF AttachRestored, restore_activate
  <2>2. CASE UNCHANGED work
    BY <1>k, <2>1, <2>2
  <2>3. CASE \A u \in Threads : work[u].pc = "none"
    <3>1. Queues' = Queues /\ Good' = Good /\ \A q \in Queues : Thread(q) \in Threads
      BY <2>1, QueuesOfKind, ThreadOf DEF Queues, Good, FlagType
    <3>2. \A u \in Threads : ~Owes(work[u]) /\ work[u].pc # "irq"
      BY <2>3 DEF Owes, Holding
    <3>3. ASSUME Good, NEW q \in Queues, used[q] # <<>> PROVE (isr /\ irq) \/ driver \in {"ack", "reap"}
      BY <3>1, <3>2, <3>3 DEF UsedInv
    <3>4. QED
      BY <2>1, <3>1, <3>3 DEF UsedInv
  <2>4. QED
    BY <2>1, <2>2, <2>3, ActivateRests
<1>28. ASSUME RestoreIrqchip PROVE UsedInv'
  <2>1. vm = "attached" /\ irq' = saved /\ UNCHANGED <<kind, bad, isr, driver, used, work>>
    BY <1>28 DEF RestoreIrqchip
  <2>2. irq = FALSE /\ saved = FALSE
    BY <2>1 DEF RestInv, FlagType
  <2>3. QED
    BY <1>k, <2>1, <2>2
<1>29. ASSUME ResumeVcpus PROVE UsedInv'
  BY <1>29, <1>k DEF ResumeVcpus
<1>30. CASE UNCHANGED vars
  BY <1>k, <1>30 DEF vars
<1>31. QED
  BY <1>1, <1>2, <1>3, <1>4, <1>5, <1>6, <1>7, <1>8, <1>9, <1>10, <1>11, <1>12, <1>13, <1>14, <1>15, <1>16, <1>17, <1>18, <1>19, <1>20, <1>21, <1>22, <1>23, <1>24, <1>25, <1>26, <1>27, <1>28, <1>29, <1>30 DEF Next, Step, Handler

(* No frame waits that has a buffer and nobody at it. *)
LEMMA BacklogStep ==
    FlagType /\ PageType /\ RingType /\ WorkType /\ WorkInv /\ HandInv /\ BacklogInv /\ [Next]_vars
        => BacklogInv'
<1> SUFFICES ASSUME FlagType, PageType, RingType, WorkType, WorkInv, HandInv, BacklogInv, [Next]_vars PROVE BacklogInv'
  OBVIOUS
<1> USE DEF machine, transport, rings, line, guest, frames, pages, limiter, Goto
<1>k. ASSUME UNCHANGED <<kind, kick, evt, avail, backlog, work>> PROVE BacklogInv'
  BY <1>k DEF BacklogInv, Queues
<1>1. ASSUME NEW q \in Queues, SetReady(q) PROVE BacklogInv'
  BY <1>1, <1>k DEF SetReady
<1>2. ASSUME NEW q \in Queues, Post(q) PROVE BacklogInv'
  <2>1. /\ q \in AllQueues /\ UNCHANGED <<kind, evt, work, backlog>> /\ kick' = kick \union {q}
        /\ \E h : avail' = [avail EXCEPT ![q] = Append(@, h)]
    BY <1>2, QueuesOfKind DEF Post, FlagType
  <2>2. "rx" \in AllQueues /\ (q # "rx" => avail'["rx"] = avail["rx"])
    BY <2>1, QueueSets DEF RingType
  <2>3. QED
    BY <2>1, <2>2 DEF BacklogInv, Queues
<1>3. ASSUME NEW q \in Queues, Notify(q) PROVE BacklogInv'
  <2>1. q \in AllQueues /\ UNCHANGED <<kind, avail, work, backlog>> /\ kick' = kick \ {q} /\ evt' = [evt EXCEPT ![q] = TRUE]
    BY <1>3, QueuesOfKind DEF Notify, FlagType
  <2>2. "rx" \in AllQueues /\ \A r \in AllQueues : evt'[r] = IF r = q THEN TRUE ELSE evt[r]
    BY <2>1, QueueSets DEF FlagType
  <2>3. QED
    BY <2>1, <2>2 DEF BacklogInv, Queues
<1>4. ASSUME Probe PROVE BacklogInv'
  BY <1>4, <1>k DEF Probe
<1>5. ASSUME DriverOk PROVE BacklogInv'
  <2>1. UNCHANGED <<kind, kick, evt, avail, backlog>> /\ (Activate \/ UNCHANGED work)
    BY <1>5 DEF DriverOk
  <2>2. CASE UNCHANGED work
    BY <1>k, <2>1, <2>2
  <2>3. CASE \A u \in Threads : work[u].pc = "none"
    BY <2>1, <2>3 DEF BacklogInv, Threads, Queues
  <2>4. QED
    BY <2>1, <2>2, <2>3, ActivateRests
<1>6. ASSUME Reset PROVE BacklogInv'
  BY <1>6, <1>k DEF Reset
<1>7. ASSUME IsrEnter PROVE BacklogInv'
  BY <1>7, <1>k DEF IsrEnter
<1>8. ASSUME IsrAck PROVE BacklogInv'
  BY <1>8, <1>k DEF IsrAck
<1>9. ASSUME IsrReap PROVE BacklogInv'
  BY <1>9, <1>k DEF IsrReap
<1>10. ASSUME NEW t \in Threads, NEW q \in AllQueues, Poll(t, q) PROVE BacklogInv'
  <2>1. /\ UNCHANGED <<kind, avail, kick, backlog>>
        /\ evt' = [evt EXCEPT ![q] = FALSE] \/ evt' = evt
    BY <1>10 DEF Poll
  <2>2. /\ \A r \in AllQueues : evt'[r] => evt[r]
        /\ \A r \in AllQueues \ {q} : evt'[r] = evt[r]
        /\ "rx" \in AllQueues /\ Thread("rx") = "net" /\ "net" \in Threads
    BY <2>1, QueueSets, ThreadOf DEF FlagType, Threads
  <2>3. CASE q = "rx"
    BY <1>10, <2>1, <2>2, <2>3, PollMoves, ZenonT(40) DEF BacklogInv, Queues
  <2>4. CASE q # "rx"
    <3>1. work["net"].pc = "rxdrain" => work'["net"] = work["net"]
      BY <1>10, <2>2, PollMoves
    <3>2. QED
      BY <2>1, <2>2, <2>4, <3>1 DEF BacklogInv, Queues
  <2>5. QED
    BY <2>3, <2>4
<1>11. ASSUME NEW t \in Threads, Pop(t) PROVE BacklogInv'
  <2>1. UNCHANGED <<kind, kick, evt, backlog>>
    BY <1>11 DEF Pop
  <2>2. "rx" \in AllQueues /\ "net" \in Threads
    BY QueueSets DEF Threads
  <2>3. avail'["rx"] = avail["rx"]
    BY <1>11, <2>2, PopMoves DEF AtQueue, RingType
  <2>4. work["net"].pc = "rxdrain" => work'["net"] = work["net"]
    BY <1>11, <2>2, PopMoves DEF AtQueue, Moves
  <2>5. QED
    BY <2>1, <2>3, <2>4 DEF BacklogInv, Queues
<1>12. ASSUME NEW t \in Threads, Serve(t) PROVE BacklogInv'
  <2>1. UNCHANGED <<kind, kick, evt, backlog, avail>> /\ "net" \in Threads
    BY <1>12 DEF Serve, Threads
  <2>2. work["net"].pc = "rxdrain" => work'["net"] = work["net"]
    BY <1>12, <2>1, ServeMoves DEF AtQueue, Moves
  <2>3. QED
    BY <2>1, <2>2 DEF BacklogInv, Queues
<1>13. ASSUME NEW t \in Threads, Publish(t) PROVE BacklogInv'
  <2>1. UNCHANGED <<kind, kick, evt, backlog, avail>> /\ "net" \in Threads
    BY <1>13 DEF Publish, Threads
  <2>2. work["net"].pc = "rxdrain" => work'["net"] = work["net"]
    BY <1>13, <2>1, PublishMoves DEF AtQueue, Moves
  <2>3. QED
    BY <2>1, <2>2 DEF BacklogInv, Queues
<1>14. ASSUME NEW t \in Threads, Flag(t) PROVE BacklogInv'
  <2>1. UNCHANGED <<kind, kick, evt, backlog, avail>> /\ "net" \in Threads
    BY <1>14 DEF Flag, Threads
  <2>2. work["net"].pc = "rxdrain" => work'["net"] = work["net"]
    BY <1>14, <2>1, FlagMoves DEF AtQueue, Moves
  <2>3. QED
    BY <2>1, <2>2 DEF BacklogInv, Queues
<1>15. ASSUME NEW t \in Threads, RaiseIrq(t) PROVE BacklogInv'
  <2>1. UNCHANGED <<kind, kick, evt, backlog, avail>> /\ "net" \in Threads
    BY <1>15 DEF RaiseIrq, Threads
  <2>2. work["net"].pc = "rxdrain" => work'["net"] = work["net"]
    BY <1>15, <2>1, RaiseIrqMoves DEF AtQueue, Moves
  <2>3. QED
    BY <2>1, <2>2 DEF BacklogInv, Queues
<1>16. ASSUME NEW t \in Threads, Inflate(t) PROVE BacklogInv'
  <2>1. UNCHANGED <<kind, kick, evt, backlog, avail>> /\ "net" \in Threads
    BY <1>16 DEF Inflate, Threads
  <2>2. work["net"].pc = "rxdrain" => work'["net"] = work["net"]
    BY <1>16, <2>1, InflateMoves DEF AtQueue, Moves
  <2>3. QED
    BY <2>1, <2>2 DEF BacklogInv, Queues
<1>17. ASSUME NEW t \in Threads, Load(t) PROVE BacklogInv'
  <2>1. UNCHANGED <<kind, kick, evt, backlog, avail>> /\ "net" \in Threads
    BY <1>17 DEF Load, Threads
  <2>2. work["net"].pc = "rxdrain" => work'["net"] = work["net"]
    BY <1>17, <2>1, LoadMoves DEF AtQueue, Moves
  <2>3. QED
    BY <2>1, <2>2 DEF BacklogInv, Queues
<1>18. ASSUME NEW t \in Threads, CompareExchange(t) PROVE BacklogInv'
  <2>1. UNCHANGED <<kind, kick, evt, backlog, avail>> /\ "net" \in Threads
    BY <1>18 DEF CompareExchange, Threads
  <2>2. work["net"].pc = "rxdrain" => work'["net"] = work["net"]
    BY <1>18, <2>1, CompareExchangeMoves DEF AtQueue, Moves
  <2>3. QED
    BY <2>1, <2>2 DEF BacklogInv, Queues
<1>19. ASSUME NEW t \in Threads, TryAdmit(t) PROVE BacklogInv'
  <2>1. UNCHANGED <<kind, kick, evt, backlog, avail>> /\ "net" \in Threads
    BY <1>19 DEF TryAdmit, Threads
  <2>2. work["net"].pc = "rxdrain" => work'["net"] = work["net"]
    BY <1>19, <2>1, TryAdmitMoves DEF AtQueue, Moves
  <2>3. QED
    BY <2>1, <2>2 DEF BacklogInv, Queues
<1>20. ASSUME NEW t \in Threads, RxDrain(t) PROVE BacklogInv'
  <2>1. UNCHANGED <<kind, kick, evt>>
    BY <1>20 DEF RxDrain
  <2>2. \/ work'["net"].q = "rx" /\ work'["net"].pc = "rxdrain"
        \/ (backlog = <<>> \/ avail["rx"] = <<>>) /\ UNCHANGED <<backlog, avail>>
    BY <1>20, RxDrainMoves DEF Moves
  <2>3. QED
    BY <2>1, <2>2 DEF BacklogInv, Queues
<1>21. ASSUME NEW t \in Threads, RxRead(t) PROVE BacklogInv'
  <2>1. UNCHANGED <<kind, kick, evt>> /\ work["net"].pc # "rxdrain"
    BY <1>21, RxReadMoves DEF RxRead
  <2>2. \/ UNCHANGED <<backlog, avail>>
        \/ UNCHANGED backlog /\ backlog = <<>>
        \/ UNCHANGED avail /\ (backlog # <<>> \/ avail["rx"] = <<>>)
    BY <1>21, RxReadMoves
  <2>3. QED
    BY <2>1, <2>2 DEF BacklogInv, Queues
<1>22. ASSUME Tick PROVE BacklogInv'
  BY <1>22, <1>k DEF Tick
<1>23. ASSUME FrameArrives PROVE BacklogInv'
  BY <1>23, <1>k DEF FrameArrives
<1>24. ASSUME AttachBooted PROVE BacklogInv'
  BY <1>24, <1>k DEF AttachBooted, attach_virtio
<1>25. ASSUME StartVcpus PROVE BacklogInv'
  BY <1>25, <1>k DEF StartVcpus
<1>26. ASSUME Snapshot PROVE BacklogInv'
  <2>1. UNCHANGED kind /\ backlog' = <<>> /\ evt' = [q \in AllQueues |-> FALSE]
    BY <1>26 DEF Snapshot
  <2>2. QED
    BY <2>1 DEF BacklogInv
<1>27. ASSUME AttachRestored PROVE BacklogInv'
  <2>1. UNCHANGED <<kind, kick, evt, avail, backlog>> /\ (Activate \/ UNCHANGED work)
    BY <1>27 DEF AttachRestored, restore_activate
  <2>2. CASE UNCHANGED work
    BY <1>k, <2>1, <2>2
  <2>3. CASE \A u \in Threads : work[u].pc = "none"
    BY <2>1, <2>3 DEF BacklogInv, Threads, Queues
  <2>4. QED
    BY <2>1, <2>2, <2>3, ActivateRests
<1>28. ASSUME RestoreIrqchip PROVE BacklogInv'
  BY <1>28, <1>k DEF RestoreIrqchip
<1>29. ASSUME ResumeVcpus PROVE BacklogInv'
  BY <1>29, <1>k DEF ResumeVcpus
<1>30. CASE UNCHANGED vars
  BY <1>k, <1>30 DEF vars
<1>31. QED
  BY <1>1, <1>2, <1>3, <1>4, <1>5, <1>6, <1>7, <1>8, <1>9, <1>10, <1>11, <1>12, <1>13, <1>14, <1>15, <1>16, <1>17, <1>18, <1>19, <1>20, <1>21, <1>22, <1>23, <1>24, <1>25, <1>26, <1>27, <1>28, <1>29, <1>30 DEF Next, Step, Handler

-------------------------------------------------------------------------------
(* The theorems. *)

IInv ==
    /\ FlagType /\ RingType /\ WorkType /\ FrameType /\ PageType /\ BudgetType
    /\ WorkInv /\ HandInv /\ CountInv /\ OrderInv /\ BudgetInv

WakeInv == RestInv /\ AvailInv /\ UsedInv /\ BacklogInv

LEMMA InitHolds == Init => IInv
<1> SUFFICES ASSUME Init PROVE IInv
  OBVIOUS
<1> USE DEF Init
<1>1. FlagType
  <2>1. restores \in 0..MaxRestores
    BY VirtioAssumption
  <2>2. ready \in [AllQueues -> BOOLEAN] /\ evt \in [AllQueues -> BOOLEAN]
    OBVIOUS
  <2>3. QED
    BY <2>1, <2>2 DEF FlagType
<1>2. RingType
  BY DEF RingType
<1>3. Idle \in Worker /\ Idle.pc = "none"
  BY VirtioAssumption, QueueSets DEF Idle, Worker, Pcs
<1>4. WorkType /\ \A t \in Threads : work[t].pc = "none"
  BY <1>3 DEF WorkType
<1>5. FrameType /\ PageType
  BY VirtioAssumption DEF FrameType, PageType
<1>6. OrderInv
  BY EmptyOrder DEF OrderInv
<1>7. WorkInv /\ HandInv
  BY <1>4, ThreadOf DEF WorkInv, WorkAt, HandInv, Holding
<1>8. CountInv
  <2>1. \A q \in {"inflate", "deflate"} : /\ Held(q) = 0 /\ Counted(q) = 0
                                         /\ Len(avail[q]) = 0 /\ Len(used[q]) = 0
    BY <1>4, QueueSets DEF Held, Counted, Threads
  <2>2. QED
    BY <2>1, VirtioAssumption DEF CountInv, Books
<1>9. \A d \in Dims : Capacity[d] \in Nat /\ Refill[d] \in Nat
  BY VirtioAssumption
<1>10. BudgetType
  <2>1. \A d \in Dims : (Capacity[d] + Refill[d]) * TicksPerMs \in Nat
    BY <1>9, BucketFull
  <2>2. QED
    BY <1>9, <2>1, VirtioAssumption DEF BudgetType, Full, FullIdeal
<1>11. BudgetInv
  <2>1. \A d \in Dims : Owed(Capacity[d], 0, Refill[d], Capacity[d]) <= (Capacity[d] + Refill[d]) * TicksPerMs
    BY <1>9, BucketFull
  <2>2. QED
    BY <2>1 DEF BudgetInv, Full, FullIdeal
<1>12. QED
  BY <1>1, <1>2, <1>4, <1>5, <1>6, <1>7, <1>8, <1>10, <1>11 DEF IInv

LEMMA InitRests == Init => WakeInv
<1> SUFFICES ASSUME Init PROVE WakeInv
  OBVIOUS
<1>1. \A t \in Threads : work[t].pc = "none"
  BY DEF Init, Idle
<1>2. RestInv /\ BacklogInv
  BY <1>1, QueueSets DEF Init, RestInv, BacklogInv
<1>3. \A q \in Queues : avail[q] = <<>> /\ used[q] = <<>>
  BY QueuesOfKind DEF Init
<1>4. QED
  BY <1>2, <1>3 DEF WakeInv, AvailInv, UsedInv

LEMMA StepHolds == IInv /\ [Next]_vars => IInv'
BY FlagStep, RingStep, WorkStep, HandStep, CountStep, OrderStep, BudgetStep DEF IInv

LEMMA StepWakes == ~Unacked /\ ~Early /\ IInv /\ WakeInv /\ [Next]_vars => WakeInv'
BY RestStep, AvailStep, UsedStep, BacklogStep DEF IInv, WakeInv

(* The invariant the others rest on: the types; every worker at a queue of   *)
(* its own with at most one chain in hand; the balloon's books, which charge *)
(* every request in flight; the order of the frames; and each bucket, with   *)
(* what it is still owed, below the ideal one.                               *)
THEOREM VirtioInvariant == Spec => []IInv
<1>1. Init => IInv
  BY InitHolds
<1>2. IInv /\ [Next]_vars => IInv'
  BY StepHolds
<1>3. QED
  BY <1>1, <1>2, PTL DEF Spec

(* Type correctness of the device, its rings, its workers and the limiter.   *)
(* In particular the backlog never exceeds RX_BACKLOG_MAX, `actual` stays    *)
(* within the pages there are though a worker decrements it without a lock,  *)
(* and the driver finds a free chain whenever a queue has room.              *)
THEOREM VirtioTyped == Spec => []TypeOK
<1>1. IInv => TypeOK
  BY TypeParts DEF IInv
<1>2. QED
  BY <1>1, VirtioInvariant, PTL

(* Frames reach the guest in the order the TAP gave them, through the        *)
(* backlog or past it, for any size of the backlog and any number of         *)
(* snapshots (process_rx, drain_backlog, enqueue_backlog).                   *)
THEOREM FramesInOrder == Spec => []RxInOrder
<1>1. IInv => RxInOrder
  BY OrderSeen DEF IInv
<1>2. QED
  BY <1>1, VirtioInvariant, PTL

(* Whatever the rate limit, the payload, the deadline and the length of a    *)
(* tick, the limiter never hands out more than a continuously refilled       *)
(* bucket with a millisecond's refill to spare (try_admit, wait_admit).      *)
THEOREM LimiterKeepsBudget == Spec => []BudgetKept
<1>1. IInv => BudgetKept
  BY BudgetSeen DEF IInv
<1>2. QED
  BY <1>1, VirtioInvariant, PTL

(* When both balloon queues are drained, `actual` is what the guest gave up, *)
(* whatever the interleaving of the inflating worker's fetch_add and the     *)
(* deflating worker's compare-and-exchange loop (balloon.rs process_queue).  *)
THEOREM BalloonCountsExactly == Spec => []BalloonExact
<1>1. IInv => BalloonExact
  <2> SUFFICES ASSUME IInv, \A q \in {"inflate", "deflate"} : avail[q] = <<>> /\ hand[q] = None /\ used[q] = <<>>
               PROVE  actual = owned
    BY DEF BalloonExact, QueuesOf
  <2>1. "inflate" \in AllQueues /\ "deflate" \in AllQueues
    BY QueueSets
  <2>2. ASSUME NEW q \in {"inflate", "deflate"} PROVE Counted(q) = 0
    <3>1. q \in AllQueues /\ Thread(q) = q /\ q \in Threads
      BY <2>1, ThreadOf
    <3>2. work[q].pc \in Holding => work[q].q = q
      <4>1. work[q].pc \in Holding => work[q].q \in Queues /\ Thread(work[q].q) = q
        BY <3>1 DEF IInv, WorkInv, WorkAt, Holding
      <4>2. QED
        BY <3>1, <4>1, QueuesOfKind, ThreadOf DEF IInv, FlagType
    <3>3. work[q].pc \notin Holding
      BY <3>1, <3>2 DEF IInv, HandInv
    <3>4. QED
      BY <3>3 DEF Counted, Holding
  <2>3. /\ Counted("inflate") = 0 /\ Counted("deflate") = 0
        /\ Len(used["inflate"]) = 0 /\ Len(used["deflate"]) = 0 /\ actual \in Nat /\ owned \in Nat
    BY <2>2 DEF IInv, PageType
  <2>4. QED
    BY <2>3 DEF IInv, CountInv, Books
<1>2. QED
  BY <1>1, VirtioInvariant, PTL

(* No wakeup is lost on the way from the driver to the worker and back, for  *)
(* any number of chains, notifications and interrupts, across boot,  *)
(* snapshot and restore, provided that a snapshot finds every interrupt      *)
(* acknowledged and that no frame arrives before the restored vCPUs run.     *)
(* Both provisos are needed: without them the code loses wakeups.            *)
THEOREM NoWakeupLost ==
    ASSUME ~Unacked, ~Early
    PROVE  Spec => []NoLostWakeup
<1>1. Init => IInv /\ WakeInv
  BY InitHolds, InitRests
<1>2. IInv /\ WakeInv /\ [Next]_vars => (IInv /\ WakeInv)'
  BY StepHolds, StepWakes
<1>3. IInv /\ WakeInv => NoLostWakeup
  <2> SUFFICES ASSUME IInv, WakeInv, Quiet, Good
               PROVE  /\ \A q \in Queues : used[q] = <<>> /\ (q = "rx" \/ avail[q] = <<>>)
                      /\ backlog = <<>> \/ avail["rx"] = <<>>
    BY DEF NoLostWakeup, Good
  <2>1. \A q \in Queues : Thread(q) \in Threads
    BY QueuesOfKind, ThreadOf DEF IInv, FlagType
  <2>2. \A t \in Threads : work[t].pc \in {"none", "poll"} /\ ~Owes(work[t])
    BY DEF Quiet, Owes, Holding
  <2>3. kick = {} /\ driver = "run" /\ ~irq /\ \A q \in Queues : ~evt[q]
    BY DEF Quiet
  <2>4. \A q \in Queues : used[q] = <<>>
    BY <2>1, <2>2, <2>3 DEF WakeInv, UsedInv
  <2>5. \A q \in Queues \ {"rx"} : avail[q] = <<>>
    BY <2>1, <2>2, <2>3 DEF WakeInv, AvailInv, Holding
  <2>6. backlog = <<>> \/ avail["rx"] = <<>>
    BY <2>2, <2>3, QueueSets DEF WakeInv, BacklogInv, Threads
  <2>7. QED
    BY <2>4, <2>5, <2>6
<1>4. QED
  BY <1>1, <1>2, <1>3, PTL DEF Spec
===============================================================================
