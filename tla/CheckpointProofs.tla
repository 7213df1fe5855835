---------------------------- MODULE CheckpointProofs ----------------------------
(***************************************************************************)
(* Checkpoint for any number of vCPUs, devices and operations, and for       *)
(* deadlines that pass at any time: types and the count; who survives a      *)
(* checkpoint; that a full barrier is quiescent and a frozen image whole     *)
(* where the history (missed, spoilt) does not say otherwise.                *)
(***************************************************************************)
EXTENDS Checkpoint, FiniteSetTheorems, TLAPS

(* The parked counter counts who is inside park. *)
CountInv == parked = Cardinality(Inside)

(* Where the orchestrator is, what it has published, what it is doing. *)
ControlInv ==
    /\ requested <=> orch \in {"wake", "waitParked", "quiesced", "release"}
    /\ orch \in {"request", "wake", "waitParked", "quiesced", "release", "released"}
            => ~released
    /\ orch \in {"request", "wake", "waitParked", "quiesced", "release",
                 "released", "waitResumed"} <=> op \in InPlace
    /\ orch = "idle" <=> op = "none"
    /\ orch \in {"freezeNext", "freezeWait", "frozen", "failed"} => op = "freeze"
    /\ pause <=> op = "freeze"

(* Until a round is cut short, a vCPU is anywhere near the barrier only      *)
(* while an operation wants it there, and nobody leaves before the release.  *)
VcpuInv ==
    missed = {} => \A v \in Vcpus :
        /\ op \notin InPlace \/ orch = "request"
                => pc[v] \in {"loop", "guest", "exited", "error"}
        /\ orch \in {"wake", "waitParked"} => pc[v] # "leaving"
        /\ orch = "quiesced" => pc[v] = "parked"
        /\ orch \in {"release", "released"} => pc[v] \in {"parked", "exited", "error"}
        /\ orch = "waitResumed" =>
                pc[v] \in {"parked", "leaving", "loop", "guest", "exited", "error"}
        /\ orch \in {"wake", "waitParked", "quiesced"}
                /\ pc[v] \in {"parking", "parked"} => slot[v] = "fresh"

(* A device whom no deadline overtook consumes the pause event it was sent   *)
(* before it parks, whatever became of the others.                           *)
DeviceInv ==
    \A d \in Devices \ missed :
        /\ op = "full" /\ orch = "waitParked" =>
                \/ evt[d] /\ pc[d] \in {"inactive", "serve", "busy", "busyPause", "pause"}
                \/ ~evt[d] /\ pc[d] \in {"draining", "filled", "parking", "parked"}
        /\ op = "full" /\ orch \in {"quiesced", "release", "released"} =>
                ~evt[d] /\ pc[d] = "parked"
        /\ op = "full" /\ orch = "waitResumed" =>
                ~evt[d] /\ pc[d] \in {"parked", "leaving", "serve", "busy"}
        /\ op = "full" /\ orch \in {"waitParked", "quiesced"}
                /\ pc[d] \in {"filled", "parking", "parked"} => slot[d] = "fresh"
        /\ op \in {"none", "vcpus", "shutdown"} \/ orch \in {"request", "wake"} =>
                ~evt[d] /\ pc[d] \in {"inactive", "serve", "busy"}
        /\ op = "freeze" => pc[d] \notin {"parking", "parked", "leaving"}

IInv == TypeOK /\ CountInv /\ ControlInv /\ VcpuInv /\ DeviceInv

-------------------------------------------------------------------------------
LEMMA ParticipantsFinite == IsFiniteSet(Participants)
BY ParticipantsAssumption, FS_Union DEF Participants

(* The count is a natural number bounded by the participants. *)
LEMMA InsideFinite ==
    /\ IsFiniteSet(Inside)
    /\ Inside \subseteq Participants
    /\ Cardinality(Inside) \in Nat
<1>1. Inside \subseteq Participants
  BY DEF Inside
<1>2. IsFiniteSet(Inside)
  BY <1>1, ParticipantsFinite, FS_Subset
<1>3. QED
  BY <1>1, <1>2, FS_CardinalityType

(* A finite set that holds a subset of at least its own size is that subset. *)
LEMMA FullCount ==
    ASSUME NEW S, NEW T, IsFiniteSet(S), T \subseteq S,
           Cardinality(T) >= Cardinality(S)
    PROVE  T = S
<1>1. IsFiniteSet(T) /\ Cardinality(T) <= Cardinality(S)
  BY FS_Subset
<1>2. Cardinality(T) \in Nat /\ Cardinality(S) \in Nat
  BY <1>1, FS_CardinalityType
<1>3. Cardinality(T) = Cardinality(S)
  BY <1>1, <1>2
<1>4. QED
  BY <1>3, FS_Subset

(* Going into the barrier and out of it changes the count by one; whoever   *)
(* moves between two places on the same side of it leaves it alone.         *)
LEMMA CountEnter ==
    ASSUME TypeOK, NEW p \in Participants,
           pc[p] \notin {"parked", "leaving"},
           pc' = [pc EXCEPT ![p] = "parked"]
    PROVE  Cardinality(Inside') = Cardinality(Inside) + 1
<1>1. Inside' = Inside \union {p} /\ p \notin Inside
  BY DEF Inside, TypeOK
<1>2. QED
  BY <1>1, InsideFinite, FS_AddElement

LEMMA CountLeave ==
    ASSUME TypeOK, NEW p \in Participants, NEW to,
           pc[p] = "leaving", to \notin {"parked", "leaving"},
           pc' = [pc EXCEPT ![p] = to]
    PROVE  /\ Cardinality(Inside') = Cardinality(Inside) - 1
           /\ Cardinality(Inside) > 0
<1>1. Inside' = Inside \ {p} /\ p \in Inside
  BY DEF Inside, TypeOK
<1>2. Cardinality(Inside') = Cardinality(Inside) - 1
  BY <1>1, InsideFinite, FS_RemoveElement
<1>3. Cardinality(Inside) # 0
  BY <1>1, InsideFinite, FS_EmptySet
<1>4. QED
  BY <1>2, <1>3, InsideFinite

LEMMA CountSame ==
    ASSUME TypeOK, NEW p \in Participants, NEW to,
           pc[p] \in {"parked", "leaving"} <=> to \in {"parked", "leaving"},
           pc' = [pc EXCEPT ![p] = to]
    PROVE  Inside' = Inside
BY DEF Inside, TypeOK

-------------------------------------------------------------------------------
LEMMA InitIInv == Init => IInv
<1> SUFFICES ASSUME Init PROVE IInv
  OBVIOUS
<1>0. PICK started \in {"inactive", "serve"} :
         pc = [p \in Participants |-> IF p \in Vcpus THEN "loop" ELSE started]
  BY DEF Init
<1>1. TypeOK
  <2>1. pc \in [Participants -> VcpuPcs \union DevicePcs]
    BY <1>0 DEF VcpuPcs, DevicePcs
  <2>2. /\ \A v \in Vcpus : pc[v] \in VcpuPcs
        /\ \A d \in Devices : pc[d] \in DevicePcs
    BY <1>0, ParticipantsAssumption DEF VcpuPcs, DevicePcs, Participants
  <2>3. /\ slot \in [Participants -> Captures]
        /\ image \in [Participants -> Captures]
        /\ about \in [Vcpus -> Devices \union {NoDevice}]
    BY DEF Init, Captures
  <2>4. /\ evt \in [Devices -> BOOLEAN]
        /\ notify \in [Devices -> BOOLEAN] /\ pending \in [Devices -> BOOLEAN]
    BY DEF Init
  <2>5. QED
    <3>1. parked \in Nat /\ ops \in 0..MaxOps
      BY BoundAssumption DEF Init
    <3>2. /\ requested \in BOOLEAN /\ released \in BOOLEAN
          /\ pause \in BOOLEAN /\ stop \in BOOLEAN
          /\ orch \in OrchPcs /\ op \in OpKinds \union {"none"}
          /\ todo \subseteq Devices /\ cur \in Devices \union {NoDevice}
          /\ missed \subseteq Participants /\ spoilt \subseteq Participants
      BY Zenon DEF Init, OrchPcs
    <3>3. QED
      BY <2>1, <2>2, <2>3, <2>4, <3>1, <3>2, Zenon DEF TypeOK
<1>2. Inside = {}
  BY <1>0, ParticipantsAssumption DEF Inside, Participants
<1>3. CountInv
  BY <1>2, FS_EmptySet DEF Init, CountInv
<1>4. ControlInv /\ VcpuInv /\ DeviceInv
  BY <1>0, ParticipantsAssumption
     DEF Init, ControlInv, VcpuInv, DeviceInv, InPlace, Participants
<1>5. QED
  BY <1>1, <1>3, <1>4 DEF IInv

(* Park: the only steps that move the counter. *)
LEMMA ParkPreserves ==
    ASSUME IInv, NEW p \in Participants, Park(p)
    PROVE  IInv'
<1> USE ParticipantsAssumption DEF IInv, Goto
<1>1. CASE ParkEnter(p)
  <2>1. CountInv'
    BY <1>1, CountEnter, InsideFinite DEF ParkEnter, CountInv
  <2>2. TypeOK'
    BY <1>1 DEF ParkEnter, TypeOK, VcpuPcs, DevicePcs, Participants,
                rings, orchVars, history, flags
  <2>3. ControlInv' /\ VcpuInv' /\ DeviceInv'
    BY <1>1 DEF ParkEnter, TypeOK, ControlInv, VcpuInv, DeviceInv,
                Participants, rings, orchVars, history, flags, InPlace
  <2>4. QED
    BY <2>1, <2>2, <2>3
<1>2. CASE ParkSeeReleased(p)
  <2>1. CountInv'
    BY <1>2, CountSame DEF ParkSeeReleased, CountInv, barrier
  <2>2. TypeOK'
    BY <1>2 DEF ParkSeeReleased, TypeOK, VcpuPcs, DevicePcs, Participants,
                rings, orchVars, history, flags, barrier
  <2>3. ControlInv' /\ VcpuInv' /\ DeviceInv'
    BY <1>2 DEF ParkSeeReleased, TypeOK, ControlInv, VcpuInv, DeviceInv,
                Participants, rings, orchVars, history, flags, barrier, InPlace
  <2>4. QED
    BY <2>1, <2>2, <2>3
<1>3. CASE ParkLeave(p)
  <2> DEFINE to == IF p \in Vcpus THEN "loop" ELSE "serve"
  <2>0. pc' = [pc EXCEPT ![p] = to] /\ pc[p] = "leaving" /\ parked' = parked - 1
    BY <1>3 DEF ParkLeave
  <2>1. CountInv' /\ parked' \in Nat
    <3>1. to \notin {"parked", "leaving"}
      OBVIOUS
    <3> HIDE DEF to
    <3>2. /\ Cardinality(Inside') = Cardinality(Inside) - 1
          /\ Cardinality(Inside) > 0
      BY <2>0, <3>1, CountLeave
    <3>3. QED
      BY <2>0, <3>2, InsideFinite DEF CountInv
  <2>2. TypeOK'
    BY <1>3, <2>1 DEF ParkLeave, TypeOK, VcpuPcs, DevicePcs, Participants,
                rings, orchVars, history, flags
  <2>3. ControlInv' /\ VcpuInv' /\ DeviceInv'
    BY <1>3 DEF ParkLeave, TypeOK, ControlInv, VcpuInv, DeviceInv,
                Participants, rings, orchVars, history, flags, InPlace
  <2>4. QED
    BY <2>1, <2>2, <2>3
<1>4. QED
  BY <1>1, <1>2, <1>3 DEF Park

(* The vCPU steps outside park. *)
LEMMA VcpuPreserves ==
    ASSUME IInv, NEW v \in Vcpus, 
           \/ VcpuStep(v) /\ ~Park(v)
           \/ GuestChoice(v) /\ ~(\E d \in Devices : GuestActivate(v, d) \/ GuestSubmit(v, d))
    PROVE  IInv'
<1> USE ParticipantsAssumption DEF IInv, Goto
<1>0. v \in Participants
  BY DEF Participants
<1>1. CASE VcpuStop(v)
  <2>1. CountInv'
    BY <1>0, <1>1, CountSame DEF VcpuStop, CountInv, barrier, TypeOK
  <2>2. TypeOK'
    BY <1>0, <1>1 DEF VcpuStop, TypeOK, VcpuPcs, DevicePcs, Participants, Captures,
                Fill, Outdate, rings, orchVars, history, flags, barrier
  <2>3. ControlInv' /\ VcpuInv' /\ DeviceInv'
    BY <1>0, <1>1 DEF VcpuStop, TypeOK, ControlInv, VcpuInv, DeviceInv, Participants,
                Fill, Outdate, rings, orchVars, history, flags, barrier, InPlace
  <2>4. QED
    BY <2>1, <2>2, <2>3
<1>2. CASE VcpuDoPause(v)
  <2>1. CountInv'
    BY <1>0, <1>2, CountSame DEF VcpuDoPause, CountInv, barrier, TypeOK
  <2>2. TypeOK'
    BY <1>0, <1>2 DEF VcpuDoPause, TypeOK, VcpuPcs, DevicePcs, Participants, Captures,
                Fill, Outdate, rings, orchVars, history, flags, barrier
  <2>3. ControlInv' /\ VcpuInv' /\ DeviceInv'
    BY <1>0, <1>2 DEF VcpuDoPause, TypeOK, ControlInv, VcpuInv, DeviceInv, Participants,
                Fill, Outdate, rings, orchVars, history, flags, barrier, InPlace
  <2>4. QED
    BY <2>1, <2>2, <2>3
<1>3. CASE VcpuObserve(v)
  <2>1. CountInv'
    BY <1>0, <1>3, CountSame DEF VcpuObserve, CountInv, barrier, TypeOK
  <2>2. TypeOK'
    BY <1>0, <1>3 DEF VcpuObserve, TypeOK, VcpuPcs, DevicePcs, Participants, Captures,
                Fill, Outdate, rings, orchVars, history, flags, barrier
  <2>3. ControlInv' /\ VcpuInv' /\ DeviceInv'
    BY <1>0, <1>3 DEF VcpuObserve, TypeOK, ControlInv, VcpuInv, DeviceInv, Participants,
                Fill, Outdate, rings, orchVars, history, flags, barrier, InPlace
  <2>4. QED
    BY <2>1, <2>2, <2>3
<1>4. CASE VcpuCapture(v)
  <2>1. CountInv'
    BY <1>0, <1>4, CountSame DEF VcpuCapture, CountInv, barrier, TypeOK
  <2>2. TypeOK'
    BY <1>0, <1>4 DEF VcpuCapture, TypeOK, VcpuPcs, DevicePcs, Participants, Captures,
                Fill, Outdate, rings, orchVars, history, flags, barrier
  <2>3. ControlInv' /\ VcpuInv' /\ DeviceInv'
    BY <1>0, <1>4 DEF VcpuCapture, TypeOK, ControlInv, VcpuInv, DeviceInv, Participants,
                Fill, Outdate, rings, orchVars, history, flags, barrier, InPlace
  <2>4. QED
    BY <2>1, <2>2, <2>3
<1>5. CASE VcpuCaptureFails(v)
  <2>1. CountInv'
    BY <1>0, <1>5, CountSame DEF VcpuCaptureFails, CountInv, barrier, TypeOK
  <2>2. TypeOK'
    BY <1>0, <1>5 DEF VcpuCaptureFails, TypeOK, VcpuPcs, DevicePcs, Participants, Captures,
                Fill, Outdate, rings, orchVars, history, flags, barrier
  <2>3. ControlInv' /\ VcpuInv' /\ DeviceInv'
    BY <1>0, <1>5 DEF VcpuCaptureFails, TypeOK, ControlInv, VcpuInv, DeviceInv,
       Participants,
                Fill, Outdate, rings, orchVars, history, flags, barrier, InPlace
  <2>4. QED
    BY <2>1, <2>2, <2>3
<1>6. CASE VcpuEnter(v)
  <2>1. CountInv'
    BY <1>0, <1>6, CountSame DEF VcpuEnter, CountInv, barrier, TypeOK
  <2>2. TypeOK'
    BY <1>0, <1>6 DEF VcpuEnter, TypeOK, VcpuPcs, DevicePcs, Participants, Captures,
                Fill, Outdate, rings, orchVars, history, flags, barrier
  <2>3. ControlInv' /\ VcpuInv' /\ DeviceInv'
    BY <1>0, <1>6 DEF VcpuEnter, TypeOK, ControlInv, VcpuInv, DeviceInv, Participants,
                Fill, Outdate, rings, orchVars, history, flags, barrier, InPlace
  <2>4. QED
    BY <2>1, <2>2, <2>3
<1>7. CASE VcpuExit(v)
  <2>1. CountInv'
    BY <1>0, <1>7, CountSame DEF VcpuExit, CountInv, barrier, TypeOK
  <2>2. TypeOK'
    BY <1>0, <1>7 DEF VcpuExit, TypeOK, VcpuPcs, DevicePcs, Participants, Captures,
                Fill, Outdate, rings, orchVars, history, flags, barrier
  <2>3. ControlInv' /\ VcpuInv' /\ DeviceInv'
    BY <1>0, <1>7 DEF VcpuExit, TypeOK, ControlInv, VcpuInv, DeviceInv, Participants,
                Fill, Outdate, rings, orchVars, history, flags, barrier, InPlace
  <2>4. QED
    BY <2>1, <2>2, <2>3
<1>8. CASE GuestNotify(v)
  <2>1. CountInv'
    BY <1>0, <1>8, CountSame DEF GuestNotify, CountInv, barrier, TypeOK
  <2>2. TypeOK'
    BY <1>0, <1>8 DEF GuestNotify, TypeOK, VcpuPcs, DevicePcs, Participants, Captures,
                Fill, Outdate, rings, orchVars, history, flags, barrier
  <2>3. ControlInv' /\ VcpuInv' /\ DeviceInv'
    BY <1>0, <1>8 DEF GuestNotify, TypeOK, ControlInv, VcpuInv, DeviceInv, Participants,
                Fill, Outdate, rings, orchVars, history, flags, barrier, InPlace
  <2>4. QED
    BY <2>1, <2>2, <2>3
<1>9. CASE GuestPowerOff(v)
  <2>1. CountInv'
    BY <1>0, <1>9, CountSame DEF GuestPowerOff, CountInv, barrier, TypeOK
  <2>2. TypeOK'
    BY <1>0, <1>9 DEF GuestPowerOff, TypeOK, VcpuPcs, DevicePcs, Participants, Captures,
                Fill, Outdate, rings, orchVars, history, flags, barrier
  <2>3. ControlInv' /\ VcpuInv' /\ DeviceInv'
    BY <1>0, <1>9 DEF GuestPowerOff, TypeOK, ControlInv, VcpuInv, DeviceInv, Participants,
                Fill, Outdate, rings, orchVars, history, flags, barrier, InPlace
  <2>4. QED
    BY <2>1, <2>2, <2>3
<1>10. QED
  BY <1>1, <1>2, <1>3, <1>4, <1>5, <1>6, <1>7, <1>8, <1>9 DEF VcpuStep, GuestChoice


LEMMA SubmitPreserves ==
    ASSUME IInv, NEW v \in Vcpus, NEW d \in Devices, GuestSubmit(v, d)
    PROVE  IInv'
<1>1. TypeOK'
  BY DEF IInv, GuestSubmit, TypeOK, rings, orchVars, history, flags, barrier
<1>2. CountInv' /\ ControlInv' /\ VcpuInv' /\ DeviceInv'
  BY DEF IInv, GuestSubmit, CountInv, Inside, ControlInv, VcpuInv, DeviceInv,
         orchVars, history, flags, barrier
<1>3. QED
  BY <1>1, <1>2 DEF IInv

(* DRIVER_OK moves the vCPU and starts the worker, both outside park. *)
LEMMA ActivatePreserves ==
    ASSUME IInv, NEW v \in Vcpus, NEW d \in Devices, GuestActivate(v, d)
    PROVE  IInv'
<1> USE ParticipantsAssumption DEF IInv
<1>0. v \in Participants /\ d \in Participants /\ v # d
  BY DEF Participants
<1>1. TypeOK'
  <2>1. /\ \A w \in Vcpus : w # v => pc'[w] = pc[w]
        /\ \A e \in Devices : e # d => pc'[e] = pc[e]
        /\ pc'[v] = "loop" /\ pc'[d] = "serve"
        /\ pc' \in [Participants -> VcpuPcs \union DevicePcs]
    BY <1>0 DEF GuestActivate, TypeOK, VcpuPcs, DevicePcs, Participants
  <2>2. /\ \A w \in Vcpus : pc'[w] \in VcpuPcs
        /\ \A e \in Devices : pc'[e] \in DevicePcs
    BY <2>1 DEF TypeOK, VcpuPcs, DevicePcs
  <2>3. UNCHANGED <<barrier, flags, slot, evt, rings, orchVars, history>>
    BY DEF GuestActivate
  <2>4. QED
    BY <2>1, <2>2, <2>3 DEF TypeOK, rings, orchVars, history, flags, barrier
<1>2. Inside' = Inside
  BY <1>0 DEF GuestActivate, Inside, TypeOK
<1>3. CountInv'
  BY <1>2 DEF GuestActivate, CountInv, barrier
<1>4. ControlInv' /\ VcpuInv' /\ DeviceInv'
  BY <1>0 DEF GuestActivate, TypeOK, ControlInv, VcpuInv, DeviceInv, Participants,
              orchVars, history, flags, barrier, InPlace
<1>5. QED
  BY <1>1, <1>3, <1>4

(* The device worker steps outside park. *)
LEMMA DevicePreserves ==
    ASSUME IInv, NEW d \in Devices, DeviceStep(d) /\ ~Park(d)
    PROVE  IInv'
<1> USE ParticipantsAssumption DEF IInv, Goto
<1>0. d \in Participants
  BY DEF Participants
<1>1. CASE DevicePoll(d)
  <2>1. CountInv'
    BY <1>0, <1>1, CountSame DEF DevicePoll, CountInv, barrier, TypeOK
  <2>2. TypeOK'
    BY <1>0, <1>1 DEF DevicePoll, TypeOK, VcpuPcs, DevicePcs, Participants, Captures,
                Fill, Outdate, rings, orchVars, history, flags, barrier
  <2>3. ControlInv' /\ VcpuInv' /\ DeviceInv'
    BY <1>0, <1>1 DEF DevicePoll, TypeOK, ControlInv, VcpuInv, DeviceInv, Participants,
                Fill, Outdate, rings, orchVars, history, flags, barrier, InPlace
  <2>4. QED
    BY <2>1, <2>2, <2>3
<1>2. CASE DeviceServe(d)
  <2>1. CountInv'
    BY <1>0, <1>2, CountSame DEF DeviceServe, CountInv, barrier, TypeOK
  <2>2. TypeOK'
    BY <1>0, <1>2 DEF DeviceServe, TypeOK, VcpuPcs, DevicePcs, Participants, Captures,
                Fill, Outdate, rings, orchVars, history, flags, barrier
  <2>3. ControlInv' /\ VcpuInv' /\ DeviceInv'
    BY <1>0, <1>2 DEF DeviceServe, TypeOK, ControlInv, VcpuInv, DeviceInv, Participants,
                Fill, Outdate, rings, orchVars, history, flags, barrier, InPlace
  <2>4. QED
    BY <2>1, <2>2, <2>3
<1>3. CASE DeviceReadPause(d)
  <2>1. CountInv'
    BY <1>0, <1>3, CountSame DEF DeviceReadPause, CountInv, barrier, TypeOK
  <2>2. TypeOK'
    BY <1>0, <1>3 DEF DeviceReadPause, TypeOK, VcpuPcs, DevicePcs, Participants, Captures,
                Fill, Outdate, rings, orchVars, history, flags, barrier
  <2>3. ControlInv' /\ VcpuInv' /\ DeviceInv'
    BY <1>0, <1>3 DEF DeviceReadPause, TypeOK, ControlInv, VcpuInv, DeviceInv, Participants,
                Fill, Outdate, rings, orchVars, history, flags, barrier, InPlace
  <2>4. QED
    BY <2>1, <2>2, <2>3
<1>4. CASE DeviceCapture(d)
  <2>1. CountInv'
    BY <1>0, <1>4, CountSame DEF DeviceCapture, CountInv, barrier, TypeOK
  <2>2. TypeOK'
    BY <1>0, <1>4 DEF DeviceCapture, TypeOK, VcpuPcs, DevicePcs, Participants, Captures,
                Fill, Outdate, rings, orchVars, history, flags, barrier
  <2>3. ControlInv' /\ VcpuInv' /\ DeviceInv'
    BY <1>0, <1>4 DEF DeviceCapture, TypeOK, ControlInv, VcpuInv, DeviceInv, Participants,
                Fill, Outdate, rings, orchVars, history, flags, barrier, InPlace
  <2>4. QED
    BY <2>1, <2>2, <2>3
<1>5. CASE DeviceParkOrExit(d)
  <2>1. CountInv'
    BY <1>0, <1>5, CountSame DEF DeviceParkOrExit, CountInv, barrier, TypeOK
  <2>2. TypeOK'
    BY <1>0, <1>5 DEF DeviceParkOrExit, TypeOK, VcpuPcs, DevicePcs, Participants, Captures,
                Fill, Outdate, rings, orchVars, history, flags, barrier
  <2>3. ControlInv' /\ VcpuInv' /\ DeviceInv'
    BY <1>0, <1>5 DEF DeviceParkOrExit, TypeOK, ControlInv, VcpuInv, DeviceInv,
       Participants,
                Fill, Outdate, rings, orchVars, history, flags, barrier, InPlace
  <2>4. QED
    BY <2>1, <2>2, <2>3
<1>6. CASE DeviceTrail(d)
  <2>1. CountInv'
    BY <1>0, <1>6, CountSame DEF DeviceTrail, CountInv, barrier, TypeOK
  <2>2. TypeOK'
    BY <1>0, <1>6 DEF DeviceTrail, TypeOK, VcpuPcs, DevicePcs, Participants, Captures,
                Outdate, rings, flags, barrier
  <2>3. ControlInv' /\ VcpuInv' /\ DeviceInv'
    BY <1>0, <1>6 DEF DeviceTrail, TypeOK, ControlInv, VcpuInv, DeviceInv, Participants,
                Outdate, rings, flags, barrier, InPlace
  <2>4. QED
    BY <2>1, <2>2, <2>3
<1>7. QED
  BY <1>1, <1>2, <1>3, <1>4, <1>5, <1>6 DEF DeviceStep

(* The orchestrator moves no participant, so Inside and the count stay. *)
LEMMA OrchCount == ASSUME CountInv, UNCHANGED <<pc, parked>> PROVE CountInv'
BY DEF CountInv, Inside

(* The two waits of the barrier.  AllParked: the count reached the size of  *)
(* the included set.  Of a full round nobody can be missing then; of a round *)
(* of vCPUs only if no late device is counted in the place of one.           *)
LEMMA WaitPreserves ==
    ASSUME IInv, AllParked \/ ParkDeadline
    PROVE  IInv'
<1> USE ParticipantsAssumption DEF IInv, At
<1>1. CountInv'
  BY OrchCount DEF AllParked, ParkDeadline, barrier
<1>2. TypeOK' /\ ControlInv'
  <2>1. TypeOK'
    BY DEF AllParked, ParkDeadline, TypeOK, OrchPcs, Captures, Included, Participants,
           barrier, flags, rings, history
  <2>2. ControlInv'
    BY DEF AllParked, ParkDeadline, ControlInv, InPlace, barrier, flags
  <2>3. QED
    BY <2>1, <2>2
<1>3. CASE AllParked
  <2>0. /\ UNCHANGED <<pc, evt, slot, op, missed>> /\ parked >= Total
        /\ orch = "waitParked" /\ orch' = "quiesced" /\ op \in {"vcpus", "full"}
    BY <1>3 DEF AllParked, history, ControlInv, InPlace
  <2>1. Inside \subseteq Participants /\ IsFiniteSet(Participants) /\ Vcpus \subseteq Participants
    BY ParticipantsFinite DEF Inside, Participants
  <2>2. op = "full" => Inside = Participants
    BY <2>0, <2>1, FullCount DEF CountInv, Total, Included
  <2>3. ASSUME op = "vcpus", missed = {} PROVE Inside = Vcpus
    <3>1. Inside \subseteq Vcpus
      BY <2>3 DEF Inside, Participants, DeviceInv
    <3>2. QED
      BY <2>0, <2>3, <3>1, FullCount DEF CountInv, Total, Included
  <2>4. DeviceInv'
    <3>1. \A d \in Devices \ missed : op = "full" => ~evt[d] /\ pc[d] = "parked" /\ slot[d] = "fresh"
      BY <2>0, <2>2 DEF DeviceInv, Inside, Participants
    <3>2. QED
      BY <2>0, <3>1 DEF DeviceInv
  <2>5. VcpuInv'
    <3>1. SUFFICES ASSUME missed = {}
                   PROVE  \A v \in Vcpus : pc[v] = "parked" /\ slot[v] = "fresh"
      BY <2>0 DEF VcpuInv, InPlace
    <3>2. Vcpus \subseteq Inside
      BY <2>0, <2>1, <2>2, <2>3, <3>1
    <3>3. \A v \in Vcpus : pc[v] = "parked"
      BY <2>0, <3>1, <3>2 DEF VcpuInv, Inside
    <3>4. QED
      BY <2>0, <3>1, <3>3 DEF VcpuInv
  <2>6. QED
    BY <1>1, <1>2, <2>4, <2>5
<1>4. CASE ParkDeadline
  <2>0. /\ UNCHANGED <<pc, evt, slot, op>>
        /\ orch = "waitParked" /\ orch' = "release" /\ op \in {"vcpus", "full"}
        /\ missed \subseteq missed'
        /\ \A p \in Included : p \notin missed' => pc[p] \in {"parked", "exited", "error"}
    BY <1>4 DEF ParkDeadline, ControlInv, InPlace
  <2>1. DeviceInv'
    <3>1. \A d \in Devices \ missed' : op = "full" => ~evt[d] /\ pc[d] = "parked"
      BY <2>0 DEF DeviceInv, Included, Participants
    <3>2. QED
      BY <2>0, <3>1 DEF DeviceInv
  <2>2. VcpuInv'
    BY <2>0 DEF VcpuInv, Included, Participants, InPlace
  <2>3. QED
    BY <1>1, <1>2, <2>1, <2>2
<1>5. QED
  BY <1>3, <1>4

(* wait_until_resumed returns: whoever it did not miss is outside. *)
LEMMA ResumedPreserves ==
    ASSUME IInv, Resumed
    PROVE  IInv'
<1> USE ParticipantsAssumption DEF IInv, At
<1>1. CountInv'
  BY OrchCount DEF Resumed, barrier
<1>2. TypeOK'
  BY DEF Resumed, TypeOK, OrchPcs, OpKinds, Inside, barrier, flags, rings
<1>3. \A p \in Participants \ missed' : pc[p] \notin {"parked", "leaving"}
  BY DEF Resumed, Inside
<1>4. ControlInv' /\ VcpuInv' /\ DeviceInv'
  BY <1>3 DEF Resumed, Participants, VcpuInv, DeviceInv,
                ControlInv, InPlace, TypeOK, barrier, flags, OpKinds
<1>5. QED
  BY <1>1, <1>2, <1>4

(* The other orchestrator steps. *)
LEMMA OrchPreserves ==
    ASSUME IInv,
           \/ BeginOp \/ RequestStore \/ WakeDevices \/ Collect \/ LeaveSlots
           \/ ReleaseRequest \/ ReleaseStore
           \/ Joined \/ FreezeNext \/ FreezeTake \/ FreezeDeadline
    PROVE  IInv'
<1> USE ParticipantsAssumption, BoundAssumption DEF IInv, At
<1>1. CASE (\E kind \in InPlace : BeginInPlace(kind))
  <2>1. CountInv'
    BY <1>1, OrchCount DEF BeginInPlace, barrier
  <2>2. TypeOK'
    <3>1. PICK kind \in InPlace : BeginInPlace(kind)
      BY <1>1
    <3>2. ops' \in 0..MaxOps
      BY <3>1 DEF BeginInPlace, TypeOK
    <3>3. op' \in OpKinds \union {"none"} /\ orch' \in OrchPcs
      BY <3>1 DEF BeginInPlace, OpKinds, OrchPcs
    <3>4. QED
      BY <3>1, <3>2, <3>3 DEF BeginInPlace, TypeOK, flags, rings, history
  <2>3. ControlInv' /\ VcpuInv' /\ DeviceInv'
    BY <1>1 DEF BeginInPlace, TypeOK, ControlInv, VcpuInv, DeviceInv, InPlace, Included,
                Participants, barrier, flags, history
  <2>4. QED
    BY <2>1, <2>2, <2>3
<1>2. CASE BeginFreeze
  <2>1. CountInv'
    BY <1>2, OrchCount DEF BeginFreeze, barrier
  <2>2. TypeOK'
    BY <1>2 DEF BeginFreeze, TypeOK, OrchPcs, OpKinds, InPlace, Captures, Included,
                Participants, barrier, flags, rings, history
  <2>3. ControlInv' /\ VcpuInv' /\ DeviceInv'
    BY <1>2 DEF BeginFreeze, TypeOK, ControlInv, VcpuInv, DeviceInv, InPlace, Included,
                Participants, barrier, flags, history
  <2>4. QED
    BY <2>1, <2>2, <2>3
<1>3. CASE BeginShutdown
  <2>1. CountInv'
    BY <1>3, OrchCount DEF BeginShutdown, barrier
  <2>2. TypeOK'
    BY <1>3 DEF BeginShutdown, TypeOK, OrchPcs, OpKinds, InPlace, Captures, Included,
                Participants, barrier, flags, rings, history
  <2>3. ControlInv' /\ VcpuInv' /\ DeviceInv'
    BY <1>3 DEF BeginShutdown, TypeOK, ControlInv, VcpuInv, DeviceInv, InPlace, Included,
                Participants, barrier, flags, history
  <2>4. QED
    BY <2>1, <2>2, <2>3
<1>4. CASE RequestStore
  <2>1. CountInv'
    BY <1>4, OrchCount DEF RequestStore, barrier
  <2>2. TypeOK'
    BY <1>4 DEF RequestStore, TypeOK, OrchPcs, OpKinds, InPlace, Captures, Included,
                Participants, barrier, flags, rings, history
  <2>3. ControlInv' /\ VcpuInv' /\ DeviceInv'
    BY <1>4 DEF RequestStore, TypeOK, ControlInv, VcpuInv, DeviceInv, InPlace, Included,
                Participants, barrier, flags, history
  <2>4. QED
    BY <2>1, <2>2, <2>3
<1>5. CASE WakeDevices
  <2>1. CountInv'
    BY <1>5, OrchCount DEF WakeDevices, barrier
  <2>2. TypeOK'
    BY <1>5 DEF WakeDevices, TypeOK, OrchPcs, OpKinds, InPlace, Captures, Included,
                Participants, barrier, flags, rings, history
  <2>3. ControlInv' /\ VcpuInv' /\ DeviceInv'
    BY <1>5 DEF WakeDevices, TypeOK, ControlInv, VcpuInv, DeviceInv, InPlace, Included,
                Participants, barrier, flags, history
  <2>4. QED
    BY <2>1, <2>2, <2>3
<1>6. CASE Collect
  <2>1. CountInv'
    BY <1>6, OrchCount DEF Collect, barrier
  <2>2. TypeOK'
    BY <1>6 DEF Collect, TypeOK, OrchPcs, OpKinds, InPlace, Captures, Included,
                Participants, barrier, flags, rings, history
  <2>3. ControlInv' /\ VcpuInv' /\ DeviceInv'
    BY <1>6 DEF Collect, TypeOK, ControlInv, VcpuInv, DeviceInv, InPlace, Included,
                Participants, barrier, flags, history
  <2>4. QED
    BY <2>1, <2>2, <2>3
<1>7. CASE ReleaseRequest
  <2>1. CountInv'
    BY <1>7, OrchCount DEF ReleaseRequest, barrier
  <2>2. TypeOK'
    BY <1>7 DEF ReleaseRequest, TypeOK, OrchPcs, OpKinds, InPlace, Captures, Included,
                Participants, barrier, flags, rings, history
  <2>3. ControlInv' /\ VcpuInv' /\ DeviceInv'
    BY <1>7 DEF ReleaseRequest, TypeOK, ControlInv, VcpuInv, DeviceInv, InPlace, Included,
                Participants, barrier, flags, history
  <2>4. QED
    BY <2>1, <2>2, <2>3
<1>8. CASE ReleaseStore
  <2>1. CountInv'
    BY <1>8, OrchCount DEF ReleaseStore, barrier
  <2>2. TypeOK'
    BY <1>8 DEF ReleaseStore, TypeOK, OrchPcs, OpKinds, InPlace, Captures, Included,
                Participants, barrier, flags, rings, history
  <2>3. ControlInv' /\ VcpuInv' /\ DeviceInv'
    BY <1>8 DEF ReleaseStore, TypeOK, ControlInv, VcpuInv, DeviceInv, InPlace, Included,
                Participants, barrier, flags, history
  <2>4. QED
    BY <2>1, <2>2, <2>3
<1>9. CASE Joined
  <2>1. CountInv'
    BY <1>9, OrchCount DEF Joined, barrier
  <2>2. TypeOK'
    BY <1>9 DEF Joined, TypeOK, OrchPcs, OpKinds, InPlace, Captures, Included,
                Participants, barrier, flags, rings, history
  <2>3. ControlInv' /\ VcpuInv' /\ DeviceInv'
    BY <1>9 DEF Joined, TypeOK, ControlInv, VcpuInv, DeviceInv, InPlace, Included,
                Participants, barrier, flags, history
  <2>4. QED
    BY <2>1, <2>2, <2>3
<1>10. CASE FreezeNext
  <2>1. CountInv'
    BY <1>10, OrchCount DEF FreezeNext, barrier
  <2>2. TypeOK'
    <3>1. /\ evt \in [Devices -> BOOLEAN] /\ todo \subseteq Devices
          /\ cur \in Devices \union {NoDevice}
      BY DEF TypeOK
    <3>2. /\ evt' \in [Devices -> BOOLEAN] /\ todo' \subseteq Devices
          /\ cur' \in Devices \union {NoDevice} /\ orch' \in OrchPcs
      BY <1>10, <3>1 DEF FreezeNext, OrchPcs
    <3>3. UNCHANGED <<barrier, flags, pc, slot, rings, op, ops, image, history>>
      BY <1>10 DEF FreezeNext
    <3> QED BY <3>2, <3>3 DEF TypeOK, barrier, flags, rings, history
  <2>3. ControlInv' /\ VcpuInv' /\ DeviceInv'
    BY <1>10 DEF FreezeNext, TypeOK, ControlInv, VcpuInv, DeviceInv, InPlace, Included,
                Participants, barrier, flags, history
  <2>4. QED
    BY <2>1, <2>2, <2>3
<1>11. CASE FreezeTake
  <2>1. CountInv'
    BY <1>11, OrchCount DEF FreezeTake, barrier
  <2>2. TypeOK'
    BY <1>11 DEF FreezeTake, TypeOK, OrchPcs, OpKinds, InPlace, Captures, Included,
                Participants, barrier, flags, rings, history
  <2>3. ControlInv' /\ VcpuInv' /\ DeviceInv'
    BY <1>11 DEF FreezeTake, TypeOK, ControlInv, VcpuInv, DeviceInv, InPlace, Included,
                Participants, barrier, flags, history
  <2>4. QED
    BY <2>1, <2>2, <2>3
<1>12. CASE FreezeDeadline
  <2>1. CountInv'
    BY <1>12, OrchCount DEF FreezeDeadline, barrier
  <2>2. TypeOK'
    BY <1>12 DEF FreezeDeadline, TypeOK, OrchPcs, OpKinds, InPlace, Captures, Included,
                Participants, barrier, flags, rings, history
  <2>3. ControlInv' /\ VcpuInv' /\ DeviceInv'
    BY <1>12 DEF FreezeDeadline, TypeOK, ControlInv, VcpuInv, DeviceInv, InPlace, Included,
                Participants, barrier, flags, history
  <2>4. QED
    BY <2>1, <2>2, <2>3
<1>13. CASE LeaveSlots
  <2>1. CountInv'
    BY <1>13, OrchCount DEF LeaveSlots, barrier
  <2>2. TypeOK'
    BY <1>13 DEF LeaveSlots, TypeOK, OrchPcs, OpKinds, InPlace, Captures, Included,
                Participants, barrier, flags, rings
  <2>3. ControlInv' /\ VcpuInv' /\ DeviceInv'
    BY <1>13 DEF LeaveSlots, TypeOK, ControlInv, VcpuInv, DeviceInv, InPlace, Included,
                Participants, barrier, flags
  <2>4. QED
    BY <2>1, <2>2, <2>3
<1>14. QED
  BY <1>1, <1>2, <1>3, <1>4, <1>5, <1>6, <1>7, <1>8, <1>9, <1>10, <1>11, <1>12, <1>13
     DEF BeginOp

-------------------------------------------------------------------------------
LEMMA NextPreserves == ASSUME IInv, [Next]_vars PROVE IInv'
<1>1. CASE BeginOp \/ OrchStep
  BY <1>1, OrchPreserves, WaitPreserves, ResumedPreserves DEF OrchStep
<1>2. CASE \E v \in Vcpus : VcpuStep(v) \/ GuestChoice(v)
  <2>1. PICK v \in Vcpus : VcpuStep(v) \/ GuestChoice(v)
    BY <1>2
  <2>2. v \in Participants
    BY DEF Participants
  <2>3. QED
    BY <2>1, <2>2, VcpuPreserves, SubmitPreserves, ActivatePreserves, ParkPreserves
       DEF GuestChoice
<1>3. CASE \E d \in Devices : DeviceStep(d)
  <2>1. PICK d \in Devices : DeviceStep(d)
    BY <1>3
  <2>2. d \in Participants
    BY DEF Participants
  <2>3. QED
    BY <2>1, <2>2, DevicePreserves, ParkPreserves
<1>4. CASE UNCHANGED vars
  BY <1>4 DEF vars, IInv, TypeOK, CountInv, Inside, ControlInv, VcpuInv, DeviceInv,
              barrier, flags, rings, orchVars, history
<1>5. QED
  BY <1>1, <1>2, <1>3, <1>4 DEF Next

-------------------------------------------------------------------------------
(* What a freeze takes. *)

(* The orchestrator has the vCPUs' final states. *)
Taken == orch \in {"freezeNext", "freezeWait", "frozen"}

(* Until a round is cut short, the slot of a participant that no release left *)
(* filled holds a state only between its capture and its collection, or the   *)
(* final one.                                                                *)
SlotInv ==
    missed = {} /\ ~Taken /\ orch # "failed" =>
        /\ \A v \in Vcpus \ spoilt : slot[v] # "none" =>
              \/ orch \in {"wake", "waitParked", "quiesced"} /\ pc[v] \in {"parking", "parked"}
              \/ op = "freeze" /\ pc[v] = "exited" /\ slot[v] = "fresh"
        /\ \A d \in Devices \ spoilt : slot[d] # "none" =>
              /\ op = "full" /\ orch \in {"waitParked", "quiesced"}
              /\ pc[d] \in {"filled", "parking", "parked"}

(* A chain that was not consumed is announced, or about to be. *)
RingInv == \A d \in Devices : pending[d] => notify[d] \/ RingCovered(d)

(* A device before, during and after its turn in pause_devices. *)
Waiting(d)  ==
    d \in todo /\ slot[d] = "none" /\ ~evt[d] /\ pc[d] \in {"inactive", "serve", "busy"}
Pausing(d)  ==
    /\ d \notin todo /\ orch = "freezeWait" /\ d = cur
    /\ \/ /\ evt[d] /\ slot[d] = "none"
          /\ pc[d] \in {"inactive", "serve", "busy", "busyPause", "pause"}
       \/ ~evt[d] /\ slot[d] = "none" /\ pc[d] = "draining"
       \/ ~evt[d] /\ slot[d] = "fresh" /\ pc[d] \in {"filled", "trailing", "exited"}
Captured(d) ==
    /\ d \notin todo /\ (orch = "freezeWait" => d # cur)
    /\ slot[d] = "none" /\ image[d] = "fresh" /\ ~evt[d]
    /\ pc[d] \in {"filled", "trailing", "exited"}

(* pause_devices works on a guest that is at rest. *)
FreezeInv ==
    /\ op = "freeze" => orch = "join" \/ Taken \/ orch = "failed"
    /\ orch = "freezeWait" => cur \in Devices
    /\ orch = "frozen" => todo = {}
    /\ Taken => \A v \in Vcpus : pc[v] = "exited"
    /\ missed = {} /\ op = "freeze" /\ orch = "join" =>
          \A d \in Devices : ~evt[d] /\ pc[d] \in {"inactive", "serve", "busy"}
    /\ missed = {} /\ Taken =>
          /\ \A v \in Vcpus \ spoilt : image[v] = "fresh"
          /\ \A d \in Devices \ spoilt :
                /\ Waiting(d) \/ Pausing(d) \/ Captured(d)
                /\ pc[d] \in {"pause", "draining", "filled", "trailing", "exited"} => ~notify[d]

(* Chains stay announced. *)
LEMMA RingStep ==
    ASSUME TypeOK, RingInv, [Next]_vars
    PROVE  RingInv'
<1> USE ParticipantsAssumption DEF barrier, flags, rings, orchVars, history, Goto, At, Participants
<1>k. ASSUME UNCHANGED <<pending, notify, about>> PROVE RingInv'
  BY <1>k DEF RingInv, RingCovered
<1>1. ASSUME NEW p \in Participants, ParkEnter(p) PROVE RingInv'
  BY <1>1, <1>k DEF ParkEnter
<1>2. ASSUME NEW p \in Participants, ParkSeeReleased(p) PROVE RingInv'
  BY <1>2, <1>k DEF ParkSeeReleased
<1>3. ASSUME NEW p \in Participants, ParkLeave(p) PROVE RingInv'
  BY <1>3, <1>k DEF ParkLeave
<1>4. ASSUME NEW v \in Vcpus, VcpuStop(v) PROVE RingInv'
  BY <1>4, <1>k DEF VcpuStop
<1>5. ASSUME NEW v \in Vcpus, VcpuDoPause(v) PROVE RingInv'
  BY <1>5, <1>k DEF VcpuDoPause
<1>6. ASSUME NEW v \in Vcpus, VcpuObserve(v) PROVE RingInv'
  BY <1>6, <1>k DEF VcpuObserve
<1>7. ASSUME NEW v \in Vcpus, VcpuCapture(v) PROVE RingInv'
  BY <1>7, <1>k DEF VcpuCapture
<1>8. ASSUME NEW v \in Vcpus, VcpuCaptureFails(v) PROVE RingInv'
  BY <1>8, <1>k DEF VcpuCaptureFails
<1>9. ASSUME NEW v \in Vcpus, VcpuEnter(v) PROVE RingInv'
  BY <1>9, <1>k DEF VcpuEnter
<1>10. ASSUME NEW v \in Vcpus, VcpuExit(v) PROVE RingInv'
  BY <1>10, <1>k DEF VcpuExit
<1>11. ASSUME NEW v \in Vcpus, NEW e \in Devices, GuestSubmit(v, e) PROVE RingInv'
  BY <1>11 DEF GuestSubmit, TypeOK, RingInv, RingCovered
<1>12. ASSUME NEW v \in Vcpus, GuestNotify(v) PROVE RingInv'
  BY <1>12 DEF GuestNotify, TypeOK, RingInv, RingCovered
<1>13. ASSUME NEW v \in Vcpus, GuestPowerOff(v) PROVE RingInv'
  BY <1>13, <1>k DEF GuestPowerOff
<1>14. ASSUME NEW e \in Devices, DevicePoll(e) PROVE RingInv'
  BY <1>14, <1>k DEF DevicePoll
<1>15. ASSUME NEW e \in Devices, DeviceServe(e) PROVE RingInv'
  BY <1>15 DEF DeviceServe, TypeOK, RingInv, RingCovered
<1>16. ASSUME NEW e \in Devices, DeviceReadPause(e) PROVE RingInv'
  BY <1>16, <1>k DEF DeviceReadPause
<1>17. ASSUME NEW e \in Devices, DeviceCapture(e) PROVE RingInv'
  BY <1>17 DEF DeviceCapture, TypeOK, RingInv, RingCovered
<1>18. ASSUME NEW e \in Devices, DeviceParkOrExit(e) PROVE RingInv'
  BY <1>18, <1>k DEF DeviceParkOrExit
<1>19. ASSUME NEW kind \in InPlace, BeginInPlace(kind) PROVE RingInv'
  BY <1>19, <1>k DEF BeginInPlace
<1>20. ASSUME BeginFreeze PROVE RingInv'
  BY <1>20, <1>k DEF BeginFreeze
<1>21. ASSUME BeginShutdown PROVE RingInv'
  BY <1>21, <1>k DEF BeginShutdown
<1>22. ASSUME RequestStore PROVE RingInv'
  BY <1>22, <1>k DEF RequestStore
<1>23. ASSUME WakeDevices PROVE RingInv'
  BY <1>23, <1>k DEF WakeDevices
<1>24. ASSUME AllParked PROVE RingInv'
  BY <1>24, <1>k DEF AllParked
<1>25. ASSUME ParkDeadline PROVE RingInv'
  BY <1>25, <1>k DEF ParkDeadline
<1>26. ASSUME Collect PROVE RingInv'
  BY <1>26, <1>k DEF Collect
<1>27. ASSUME ReleaseRequest PROVE RingInv'
  BY <1>27, <1>k DEF ReleaseRequest
<1>28. ASSUME ReleaseStore PROVE RingInv'
  BY <1>28, <1>k DEF ReleaseStore
<1>29. ASSUME Resumed PROVE RingInv'
  BY <1>29, <1>k DEF Resumed
<1>30. ASSUME Joined PROVE RingInv'
  BY <1>30, <1>k DEF Joined
<1>31. ASSUME FreezeNext PROVE RingInv'
  BY <1>31, <1>k DEF FreezeNext
<1>32. ASSUME FreezeTake PROVE RingInv'
  BY <1>32, <1>k DEF FreezeTake
<1>33. ASSUME FreezeDeadline PROVE RingInv'
  BY <1>33, <1>k DEF FreezeDeadline
<1>34. ASSUME NEW v \in Vcpus, NEW e \in Devices, GuestActivate(v, e) PROVE RingInv'
  BY <1>34, <1>k DEF GuestActivate
<1>35. ASSUME NEW e \in Devices, DeviceTrail(e) PROVE RingInv'
  BY <1>35, <1>k DEF DeviceTrail
<1>36. ASSUME LeaveSlots PROVE RingInv'
  BY <1>36, <1>k DEF LeaveSlots
<1>37. CASE UNCHANGED vars
  BY <1>k, <1>37 DEF vars
<1>38. QED
  BY <1>1, <1>2, <1>3, <1>4, <1>5, <1>6, <1>7, <1>8, <1>9, <1>10, <1>11,
     <1>12, <1>13, <1>14, <1>15, <1>16, <1>17, <1>18, <1>19, <1>20, <1>21,
     <1>22, <1>23, <1>24, <1>25, <1>26, <1>27, <1>28, <1>29, <1>30, <1>31,
     <1>32, <1>33, <1>34, <1>35, <1>36, <1>37
     DEF Next, BeginOp, OrchStep, VcpuStep, GuestChoice, DeviceStep, Park

(* Slots are empty between operations, but for what a release left in them. *)
LEMMA SlotStep ==
    ASSUME IInv, SlotInv, FreezeInv, [Next]_vars
    PROVE  SlotInv'
<1> USE ParticipantsAssumption DEF barrier, flags, rings, orchVars, history, Goto, At, Participants
<1>k. ASSUME UNCHANGED <<pc, slot, orch, op, history>> PROVE SlotInv'
  BY <1>k DEF SlotInv, Taken
<1>1. ASSUME NEW p \in Participants, ParkEnter(p) PROVE SlotInv'
  BY <1>1 DEF ParkEnter, SlotInv, Taken
<1>2. ASSUME NEW p \in Participants, ParkSeeReleased(p) PROVE SlotInv'
  BY <1>2 DEF ParkSeeReleased, SlotInv, Taken, ControlInv, IInv
<1>3. ASSUME NEW p \in Participants, ParkLeave(p) PROVE SlotInv'
  BY <1>3 DEF ParkLeave, SlotInv, Taken
<1>4. ASSUME NEW v \in Vcpus, VcpuStop(v) PROVE SlotInv'
  BY <1>4 DEF VcpuStop, SlotInv, Taken
<1>5. ASSUME NEW v \in Vcpus, VcpuDoPause(v) PROVE SlotInv'
  BY <1>5 DEF VcpuDoPause, TypeOK, SlotInv, Taken, ControlInv, IInv, Fill
<1>6. ASSUME NEW v \in Vcpus, VcpuObserve(v) PROVE SlotInv'
  BY <1>6 DEF VcpuObserve, SlotInv, Taken
<1>7. ASSUME NEW v \in Vcpus, VcpuCapture(v) PROVE SlotInv'
  BY <1>7 DEF VcpuCapture, TypeOK, SlotInv, Taken, VcpuInv, ControlInv, IInv, Fill
<1>8. ASSUME NEW v \in Vcpus, VcpuCaptureFails(v) PROVE SlotInv'
  BY <1>8 DEF VcpuCaptureFails, SlotInv, Taken
<1>9. ASSUME NEW v \in Vcpus, VcpuEnter(v) PROVE SlotInv'
  BY <1>9 DEF VcpuEnter, SlotInv, Taken, Outdate
<1>10. ASSUME NEW v \in Vcpus, VcpuExit(v) PROVE SlotInv'
  BY <1>10 DEF VcpuExit, SlotInv, Taken
<1>11. ASSUME NEW v \in Vcpus, NEW e \in Devices, GuestSubmit(v, e) PROVE SlotInv'
  BY <1>11, <1>k DEF GuestSubmit
<1>12. ASSUME NEW v \in Vcpus, GuestNotify(v) PROVE SlotInv'
  BY <1>12 DEF GuestNotify, SlotInv, Taken
<1>13. ASSUME NEW v \in Vcpus, GuestPowerOff(v) PROVE SlotInv'
  BY <1>13 DEF GuestPowerOff, TypeOK, SlotInv, Taken, IInv
<1>14. ASSUME NEW e \in Devices, DevicePoll(e) PROVE SlotInv'
  BY <1>14 DEF DevicePoll, SlotInv, Taken
<1>15. ASSUME NEW e \in Devices, DeviceServe(e) PROVE SlotInv'
  BY <1>15 DEF DeviceServe, SlotInv, Taken, Outdate
<1>16. ASSUME NEW e \in Devices, DeviceReadPause(e) PROVE SlotInv'
  BY <1>16 DEF DeviceReadPause, SlotInv, Taken
<1>17. ASSUME NEW e \in Devices, DeviceCapture(e) PROVE SlotInv'
  <2>1. /\ pc[e] = "draining" /\ pc' = [pc EXCEPT ![e] = "filled"] /\ slot' = [slot EXCEPT ![e] = "fresh"]
        /\ UNCHANGED <<orch, op, missed, spoilt>>
    BY <1>17 DEF DeviceCapture, Fill
  <2>m. SUFFICES ASSUME missed = {} PROVE SlotInv'
    BY <2>1 DEF SlotInv
  <2>2. CASE Taken \/ orch = "failed"
    BY <2>1, <2>2 DEF SlotInv, Taken
  <2>3. CASE ~Taken /\ orch # "failed"
    <3>1. op = "full" /\ orch = "waitParked"
      <4>1. op \in {"none", "vcpus", "full", "freeze", "shutdown"} /\ orch \in OrchPcs
        BY DEF IInv, TypeOK, OpKinds, InPlace
      <4>2. op \notin {"none", "vcpus", "shutdown"} /\ orch \notin {"request", "wake"}
        BY <2>1, <2>m DEF IInv, DeviceInv
      <4>3. op # "freeze"
        <5>1. op = "freeze" => orch = "join"
          BY <2>3 DEF FreezeInv
        <5>2. QED
          BY <2>1, <2>m, <5>1 DEF FreezeInv
      <4>4. QED
        BY <2>1, <2>m, <4>1, <4>2, <4>3 DEF IInv, DeviceInv, ControlInv, InPlace
    <3>2. /\ \A v \in Vcpus : pc'[v] = pc[v] /\ slot'[v] = slot[v]
          /\ \A d \in Devices : d # e => pc'[d] = pc[d] /\ slot'[d] = slot[d]
          /\ pc'[e] = "filled"
      BY <2>1 DEF IInv, TypeOK
    <3>3. QED
      BY <2>1, <2>3, <2>m, <3>1, <3>2 DEF SlotInv, Taken
  <2>4. QED
    BY <2>2, <2>3
<1>18. ASSUME NEW e \in Devices, DeviceParkOrExit(e) PROVE SlotInv'
  <2>1. PICK to \in {"parking", "trailing", "exited"} :
           /\ pc' = [pc EXCEPT ![e] = to] /\ (to = "parking" <=> requested)
           /\ pc[e] = "filled" /\ UNCHANGED <<slot, orch, op, missed, spoilt>>
    BY <1>18 DEF DeviceParkOrExit
  <2>2. /\ \A v \in Vcpus : pc'[v] = pc[v]
        /\ \A d \in Devices : d # e => pc'[d] = pc[d]
        /\ pc'[e] = to
    BY <2>1 DEF IInv, TypeOK
  <2>3. orch \in {"waitParked", "quiesced"} => requested
    BY DEF IInv, ControlInv
  <2>4. QED
    BY <2>1, <2>2, <2>3 DEF SlotInv, Taken
<1>19. ASSUME NEW kind \in InPlace, BeginInPlace(kind) PROVE SlotInv'
  BY <1>19 DEF BeginInPlace, SlotInv, Taken, ControlInv, IInv
<1>20. ASSUME BeginFreeze PROVE SlotInv'
  BY <1>20 DEF BeginFreeze, SlotInv, Taken
<1>21. ASSUME BeginShutdown PROVE SlotInv'
  BY <1>21 DEF BeginShutdown, SlotInv, Taken, ControlInv, IInv
<1>22. ASSUME RequestStore PROVE SlotInv'
  BY <1>22 DEF RequestStore, SlotInv, Taken, VcpuInv, IInv
<1>23. ASSUME WakeDevices PROVE SlotInv'
  BY <1>23 DEF WakeDevices, SlotInv, Taken
<1>24. ASSUME AllParked PROVE SlotInv'
  BY <1>24 DEF AllParked, SlotInv, Taken
<1>25. ASSUME ParkDeadline PROVE SlotInv'
  BY <1>25 DEF ParkDeadline, SlotInv, Taken, Included, IInv, ControlInv, InPlace
<1>26. ASSUME Collect PROVE SlotInv'
  <2>0. /\ orch = "quiesced" /\ orch' = "release" /\ UNCHANGED <<pc, op, missed>>
        /\ op \in {"vcpus", "full"}
    BY <1>26 DEF Collect, IInv, ControlInv, InPlace
  <2> SUFFICES ASSUME missed = {}
               PROVE  \A p \in Participants \ spoilt' : slot'[p] = "none"
    BY <2>0 DEF SlotInv
  <2>1. \A v \in Vcpus : slot[v] = "fresh"
    BY <2>0 DEF IInv, VcpuInv
  <2>2. op = "full" => \A d \in Devices : slot[d] = "fresh"
    BY <2>0 DEF IInv, DeviceInv
  <2>3. {p \in Included : slot[p] # "none"} = Included
    BY <2>0, <2>1, <2>2 DEF Included
  <2>4. /\ slot' = [p \in Participants |-> IF p \in Included THEN "none" ELSE slot[p]]
        /\ spoilt' = spoilt \ Included
    BY <1>26, <2>3 DEF Collect
  <2>5. \A d \in Devices \ spoilt : op = "vcpus" => slot[d] = "none"
    BY <2>0 DEF SlotInv, Taken
  <2>6. QED
    BY <2>0, <2>4, <2>5 DEF Included
<1>27. ASSUME ReleaseRequest PROVE SlotInv'
  BY <1>27 DEF ReleaseRequest, SlotInv, Taken
<1>28. ASSUME ReleaseStore PROVE SlotInv'
  BY <1>28 DEF ReleaseStore, SlotInv, Taken
<1>29. ASSUME Resumed PROVE SlotInv'
  BY <1>29 DEF Resumed, SlotInv, Taken, ControlInv, IInv, InPlace
<1>30. ASSUME Joined PROVE SlotInv'
  BY <1>30 DEF Joined, SlotInv, Taken
<1>31. ASSUME FreezeNext PROVE SlotInv'
  BY <1>31 DEF FreezeNext, SlotInv, Taken
<1>32. ASSUME FreezeTake PROVE SlotInv'
  BY <1>32 DEF FreezeTake, SlotInv, Taken
<1>33. ASSUME FreezeDeadline PROVE SlotInv'
  BY <1>33 DEF FreezeDeadline, SlotInv
<1>34. ASSUME NEW v \in Vcpus, NEW e \in Devices, GuestActivate(v, e) PROVE SlotInv'
  <2>1. /\ \A w \in Vcpus : w # v => pc'[w] = pc[w]
        /\ \A d \in Devices : d # e => pc'[d] = pc[d]
        /\ pc[v] = "guest" /\ pc[e] = "inactive"
        /\ UNCHANGED <<slot, orch, op, missed, spoilt>>
    BY <1>34 DEF GuestActivate, IInv, TypeOK
  <2>2. QED
    BY <2>1 DEF SlotInv, Taken
<1>35. ASSUME NEW e \in Devices, DeviceTrail(e) PROVE SlotInv'
  BY <1>35 DEF DeviceTrail, TypeOK, SlotInv, Taken, IInv, Outdate
<1>36. ASSUME LeaveSlots PROVE SlotInv'
  BY <1>36 DEF LeaveSlots, SlotInv, Taken, Included, IInv, TypeOK
<1>37. CASE UNCHANGED vars
  BY <1>k, <1>37 DEF vars
<1>38. QED
  BY <1>1, <1>2, <1>3, <1>4, <1>5, <1>6, <1>7, <1>8, <1>9, <1>10, <1>11,
     <1>12, <1>13, <1>14, <1>15, <1>16, <1>17, <1>18, <1>19, <1>20, <1>21,
     <1>22, <1>23, <1>24, <1>25, <1>26, <1>27, <1>28, <1>29, <1>30, <1>31,
     <1>32, <1>33, <1>34, <1>35, <1>36, <1>37
     DEF Next, BeginOp, OrchStep, VcpuStep, GuestChoice, DeviceStep, Park

(* pause_devices works on a guest at rest. *)
LEMMA FreezeStep ==
    ASSUME IInv, SlotInv, FreezeInv, [Next]_vars
    PROVE  FreezeInv'
<1> USE ParticipantsAssumption DEF barrier, flags, rings, orchVars, history, Goto, At, Participants
<1>k. ASSUME UNCHANGED <<pc, slot, orch, op, evt, notify, todo, cur, image, history>> PROVE FreezeInv'
  BY <1>k DEF FreezeInv, Waiting, Pausing, Captured, Taken
<1>1. ASSUME NEW p \in Participants, ParkEnter(p) PROVE FreezeInv'
  BY <1>1 DEF ParkEnter, FreezeInv, Waiting, Pausing, Captured, Taken
<1>2. ASSUME NEW p \in Participants, ParkSeeReleased(p) PROVE FreezeInv'
  BY <1>2 DEF ParkSeeReleased, FreezeInv, Waiting, Pausing, Captured, Taken
<1>3. ASSUME NEW p \in Participants, ParkLeave(p) PROVE FreezeInv'
  BY <1>3 DEF ParkLeave, FreezeInv, Waiting, Pausing, Captured, Taken
<1>4. ASSUME NEW v \in Vcpus, VcpuStop(v) PROVE FreezeInv'
  BY <1>4 DEF VcpuStop, FreezeInv, Taken
<1>5. ASSUME NEW v \in Vcpus, VcpuDoPause(v) PROVE FreezeInv'
  BY <1>5 DEF VcpuDoPause, FreezeInv, Taken
<1>6. ASSUME NEW v \in Vcpus, VcpuObserve(v) PROVE FreezeInv'
  BY <1>6 DEF VcpuObserve, FreezeInv, Taken
<1>7. ASSUME NEW v \in Vcpus, VcpuCapture(v) PROVE FreezeInv'
  BY <1>7 DEF VcpuCapture, FreezeInv, Taken
<1>8. ASSUME NEW v \in Vcpus, VcpuCaptureFails(v) PROVE FreezeInv'
  BY <1>8 DEF VcpuCaptureFails, FreezeInv, Taken
<1>9. ASSUME NEW v \in Vcpus, VcpuEnter(v) PROVE FreezeInv'
  BY <1>9 DEF VcpuEnter, FreezeInv, Taken
<1>10. ASSUME NEW v \in Vcpus, VcpuExit(v) PROVE FreezeInv'
  BY <1>10 DEF VcpuExit, FreezeInv, Taken
<1>11. ASSUME NEW v \in Vcpus, NEW e \in Devices, GuestSubmit(v, e) PROVE FreezeInv'
  BY <1>11, <1>k DEF GuestSubmit
<1>12. ASSUME NEW v \in Vcpus, GuestNotify(v) PROVE FreezeInv'
  BY <1>12 DEF GuestNotify, FreezeInv, Taken
<1>13. ASSUME NEW v \in Vcpus, GuestPowerOff(v) PROVE FreezeInv'
  BY <1>13 DEF GuestPowerOff, TypeOK, FreezeInv, Taken, IInv
<1>14. ASSUME NEW e \in Devices, DevicePoll(e) PROVE FreezeInv'
  BY <1>14 DEF DevicePoll, FreezeInv, Waiting, Pausing, Captured, Taken
<1>15. ASSUME NEW e \in Devices, DeviceServe(e) PROVE FreezeInv'
  BY <1>15 DEF DeviceServe, TypeOK, FreezeInv, Waiting, Pausing, Captured, Taken,
     IInv, Outdate
<1>16. ASSUME NEW e \in Devices, DeviceReadPause(e) PROVE FreezeInv'
  BY <1>16 DEF DeviceReadPause, TypeOK, FreezeInv, Waiting, Pausing, Captured, Taken, IInv
<1>17. ASSUME NEW e \in Devices, DeviceCapture(e) PROVE FreezeInv'
  BY <1>17 DEF DeviceCapture, TypeOK, FreezeInv, Waiting, Pausing, Captured, Taken,
     IInv, Fill
<1>18. ASSUME NEW e \in Devices, DeviceParkOrExit(e) PROVE FreezeInv'
  <2>1. PICK to \in {"parking", "trailing", "exited"} :
           /\ pc' = [pc EXCEPT ![e] = to] /\ (to = "parking" <=> requested)
           /\ pc[e] = "filled"
           /\ UNCHANGED <<slot, orch, op, evt, notify, todo, cur, image, missed, spoilt>>
    BY <1>18 DEF DeviceParkOrExit
  <2>2. /\ \A v \in Vcpus : pc'[v] = pc[v]
        /\ \A d \in Devices : d # e => pc'[d] = pc[d]
        /\ pc'[e] = to
    BY <2>1 DEF IInv, TypeOK
  <2>3. Taken => to \in {"trailing", "exited"}
    BY <2>1 DEF IInv, ControlInv, Taken
  <2>4. missed = {} /\ op = "freeze" => orch # "join"
    BY <2>1 DEF FreezeInv
  <2>5. ASSUME missed = {}, Taken, NEW d \in Devices \ spoilt
        PROVE  (Waiting(d) \/ Pausing(d) \/ Captured(d))' /\ (d = e => ~notify'[d])
    BY <2>1, <2>2, <2>3, <2>5 DEF FreezeInv, Waiting, Pausing, Captured
  <2>6. QED
    BY <2>1, <2>2, <2>4, <2>5 DEF FreezeInv, Taken
<1>19. ASSUME NEW kind \in InPlace, BeginInPlace(kind) PROVE FreezeInv'
  BY <1>19 DEF BeginInPlace, FreezeInv, Taken, InPlace
<1>20. ASSUME BeginFreeze PROVE FreezeInv'
  BY <1>20 DEF BeginFreeze, FreezeInv, Taken, DeviceInv, ControlInv, IInv
<1>21. ASSUME BeginShutdown PROVE FreezeInv'
  BY <1>21 DEF BeginShutdown, FreezeInv, Taken
<1>22. ASSUME RequestStore PROVE FreezeInv'
  BY <1>22 DEF RequestStore, FreezeInv, Taken
<1>23. ASSUME WakeDevices PROVE FreezeInv'
  BY <1>23 DEF WakeDevices, FreezeInv, Taken
<1>24. ASSUME AllParked PROVE FreezeInv'
  BY <1>24 DEF AllParked, FreezeInv, Taken
<1>25. ASSUME ParkDeadline PROVE FreezeInv'
  BY <1>25 DEF ParkDeadline, FreezeInv, Taken
<1>26. ASSUME Collect PROVE FreezeInv'
  BY <1>26 DEF Collect, FreezeInv, Taken
<1>27. ASSUME ReleaseRequest PROVE FreezeInv'
  BY <1>27 DEF ReleaseRequest, FreezeInv, Taken
<1>28. ASSUME ReleaseStore PROVE FreezeInv'
  BY <1>28 DEF ReleaseStore, FreezeInv, Taken
<1>29. ASSUME Resumed PROVE FreezeInv'
  BY <1>29 DEF Resumed, FreezeInv, Taken, IInv, ControlInv, InPlace
<1>30. ASSUME Joined PROVE FreezeInv'
  <2>1. CASE orch' # "freezeNext"
    BY <1>30, <2>1 DEF Joined, FreezeInv, Taken
  <2>2. CASE orch' = "freezeNext"
    <3>1. /\ orch = "join" /\ op = "freeze" /\ UNCHANGED <<pc, evt, notify, op, missed, spoilt>>
          /\ todo' = Devices
          /\ \A v \in Vcpus : pc[v] = "exited" /\ slot[v] # "none"
          /\ image' = [p \in Participants |-> IF p \in Vcpus THEN slot[p] ELSE "none"]
          /\ slot' = [p \in Participants |-> IF p \in Vcpus THEN "none" ELSE slot[p]]
      BY <1>30, <2>2 DEF Joined
    <3>2. SUFFICES ASSUME missed = {} PROVE FreezeInv'
      BY <1>30, <2>2, <3>1 DEF Joined, FreezeInv, Taken
    <3>3. /\ \A v \in Vcpus \ spoilt : slot[v] = "fresh"
          /\ \A d \in Devices \ spoilt : slot[d] = "none"
          /\ \A d \in Devices : ~evt[d] /\ pc[d] \in {"inactive", "serve", "busy"}
      BY <3>1, <3>2 DEF SlotInv, FreezeInv, Taken
    <3>4. \A d \in Devices \ spoilt : Waiting(d)' /\ pc'[d] \in {"inactive", "serve", "busy"}
      BY <3>1, <3>3 DEF Waiting
    <3>5. QED
      BY <2>2, <3>1, <3>3, <3>4 DEF FreezeInv, Taken
  <2>3. QED
    BY <2>1, <2>2
<1>31. ASSUME FreezeNext PROVE FreezeInv'
  BY <1>31 DEF FreezeNext, TypeOK, FreezeInv, Waiting, Pausing, Captured, Taken, IInv
<1>32. ASSUME FreezeTake PROVE FreezeInv'
  BY <1>32 DEF FreezeTake, TypeOK, FreezeInv, Waiting, Pausing, Captured, Taken, IInv
<1>33. ASSUME FreezeDeadline PROVE FreezeInv'
  BY <1>33 DEF FreezeDeadline, FreezeInv, Taken
<1>34. ASSUME NEW v \in Vcpus, NEW e \in Devices, GuestActivate(v, e) PROVE FreezeInv'
  <2>1. /\ \A d \in Devices : d # e => pc'[d] = pc[d]
        /\ pc[v] = "guest" /\ pc'[e] = "serve"
        /\ UNCHANGED <<slot, orch, op, evt, todo, cur, missed>>
    BY <1>34 DEF GuestActivate, IInv, TypeOK
  <2>2. QED
    BY <2>1 DEF FreezeInv, Taken
<1>35. ASSUME NEW e \in Devices, DeviceTrail(e) PROVE FreezeInv'
  BY <1>35 DEF DeviceTrail, TypeOK, FreezeInv, Waiting, Pausing, Captured, Taken, IInv, Outdate
<1>36. ASSUME LeaveSlots PROVE FreezeInv'
  BY <1>36 DEF LeaveSlots, FreezeInv, Taken
<1>37. CASE UNCHANGED vars
  BY <1>k, <1>37 DEF vars
<1>38. QED
  BY <1>1, <1>2, <1>3, <1>4, <1>5, <1>6, <1>7, <1>8, <1>9, <1>10, <1>11,
     <1>12, <1>13, <1>14, <1>15, <1>16, <1>17, <1>18, <1>19, <1>20, <1>21,
     <1>22, <1>23, <1>24, <1>25, <1>26, <1>27, <1>28, <1>29, <1>30, <1>31,
     <1>32, <1>33, <1>34, <1>35, <1>36, <1>37
     DEF Next, BeginOp, OrchStep, VcpuStep, GuestChoice, DeviceStep, Park

-------------------------------------------------------------------------------
(* For every number of vCPUs and devices, and deadlines that pass at any     *)
(* time: the types (TypeOK) of the protocol's state; with them, that parked  *)
(* counts the threads inside park, so that its fetch_sub never wraps.        *)
THEOREM CheckpointTyped == Spec => []TypeOK
<1>1. IInv /\ [Next]_vars => IInv'
  BY NextPreserves
<1>2. IInv => TypeOK
  BY DEF IInv
<1>3. QED
  BY <1>1, <1>2, InitIInv, PTL DEF Spec

(* quiesce_at_barrier: while no round has been cut short, "all parked" means *)
(* that every participant is parked with its present state in its slot       *)
(* (BarrierQuiescent).                                                       *)
THEOREM BarrierIsQuiescent == Spec => []BarrierQuiescent
<1>1. IInv /\ [Next]_vars => IInv'
  BY NextPreserves
<1>2. IInv => BarrierQuiescent
  BY ParticipantsAssumption
     DEF IInv, BarrierQuiescent, Included, Participants, VcpuInv, DeviceInv,
         ControlInv, InPlace
<1>3. QED
  BY <1>1, <1>2, InitIInv, PTL DEF Spec

(* Deadlines may pass at any time, workers start at any time: a checkpoint    *)
(* ends no device worker but one whom a deadline overtook (WorkersSurvive).  *)
THEOREM WorkersSurviveCheckpoints == Spec => []WorkersSurvive
<1>1. IInv /\ [Next]_vars => IInv'
  BY NextPreserves
<1>2. IInv => WorkersSurvive
  BY DEF IInv, WorkersSurvive, DeviceInv, ControlInv, InPlace, TypeOK, OpKinds,
         OrchPcs
<1>3. QED
  BY <1>1, <1>2, InitIInv, PTL DEF Spec

(* pause_and_capture_vcpus and pause_devices, after any sequence of earlier  *)
(* operations, branches that failed or left their slots filled included: a   *)
(* freeze that succeeds has the final state of everybody whose slot was      *)
(* collected and who stopped at its capture (FrozenImageComplete).           *)
THEOREM FrozenImageIsComplete == Spec => []FrozenImageComplete
<1> DEFINE J == IInv /\ RingInv /\ SlotInv /\ FreezeInv
<1>1. Init => J
  <2>1. Init => RingInv /\ SlotInv /\ FreezeInv
    BY ParticipantsAssumption
       DEF Init, RingInv, SlotInv, FreezeInv, Taken, Participants
  <2>2. QED
    BY <2>1, InitIInv
<1>2. J /\ [Next]_vars => J'
  BY NextPreserves, RingStep, SlotStep, FreezeStep DEF IInv
<1>3. J => FrozenImageComplete
  <2> SUFFICES ASSUME J, orch = "frozen", missed = {}, NEW p \in Participants \ spoilt
               PROVE  image[p] = "fresh" /\ (p \in Devices => RingCovered(p))
    BY DEF FrozenImageComplete, FrozenWhole
  <2>1. \A d \in Devices \ spoilt : Captured(d) /\ ~notify[d]
    BY DEF FreezeInv, Taken, Waiting, Pausing, Captured
  <2>2. image[p] = "fresh"
    BY <2>1 DEF FreezeInv, Taken, Captured, Participants
  <2>3. QED
    BY <2>1, <2>2 DEF RingInv, RingCovered
<1>4. QED
  BY <1>1, <1>2, <1>3, PTL DEF Spec
===============================================================================
