------------------------------ MODULE LiveBranch ------------------------------
(***************************************************************************)
(* Machine::branch and Machine::snapshot_in_place (mm-vmm, machine.rs) at  *)
(* the level of guest memory: the dirty-page logging, the live copy into   *)
(* memory.bin, the re-copy at the final barrier T2, the metadata that      *)
(* makes the directory a snapshot, and every early return.                 *)
(*                                                                         *)
(* The barrier itself is module Checkpoint; here it is the flag parked,    *)
(* which stops the vCPUs and the device workers that own a pause handle.   *)
(* The balloon workers own none (machine.rs:497-506).                      *)
(*                                                                         *)
(* Memory is a function on Words.  Copies move one word at a time, so a    *)
(* page can be torn; dirtiness is tracked per page.                        *)
(***************************************************************************)
EXTENDS Naturals

CONSTANTS
    Words, Vals,        \* addresses of guest RAM and their contents
    Pages, PageOf,      \* the 4 KiB page of each word
    Zero,               \* the content of a page after MADV_DONTNEED
    Hole, Nothing,      \* not yet written; no snapshot
    MaxOps,             \* bound: branches and snapshots attempted
    Balloon,            \* TRUE: a balloon device is configured
    InTime              \* TRUE: every participant reaches the barrier and
                        \* leaves it within the deadlines

ASSUME MemoryAssumption ==
    /\ Zero \in Vals /\ Hole \notin Vals
    /\ PageOf \in [Words -> Pages]
    /\ Nothing \notin [mem : [Words -> Vals], regs : Vals]

ASSUME BranchBoundAssumption ==
    MaxOps \in Nat /\ Balloon \in BOOLEAN /\ InTime \in BOOLEAN

VARIABLES
    mem, regs,          \* guest RAM; processor, device and clock state
    logging, kvmLog,    \* KVM_MEM_LOG_DIRTY_PAGES and its bitmap
    devLog,             \* vm-memory's per-region AtomicBitmap
    inflight,           \* pages a device wrote and has not marked yet
    reclaimed,          \* the same of the balloon worker
    parked,             \* every participant is at the checkpoint barrier
    late,               \* a barrier has timed out since boot
    phase, kind, ops,   \* where branch / snapshot_in_place is
    todo,               \* words not copied live yet
    redo,               \* words still to be copied at T2
    image, saved,       \* memory.bin; the VmState in memory
    state,              \* state.bin
    stored              \* the newest complete snapshot directory

guest   == <<mem, regs>>
logs    == <<logging, kvmLog, devLog>>
writers == <<inflight, reclaimed>>
files   == <<image, saved, state, stored>>
control == <<phase, kind, ops, todo, redo>>
vars    == <<guest, logs, writers, parked, late, control, files>>

Phases == {"idle", "barrier1", "arm", "armed", "copy", "barrierFail", "disarm",
           "barrier2", "capture", "dirty", "redo", "captured", "state",
           "manifest", "dead"}
Snapshots == [mem : [Words -> Vals], regs : Vals]

TypeOK ==
    /\ mem \in [Words -> Vals] /\ regs \in Vals
    /\ logging \in BOOLEAN /\ kvmLog \subseteq Pages /\ devLog \subseteq Pages
    /\ inflight \subseteq Pages /\ reclaimed \subseteq Pages
    /\ parked \in BOOLEAN /\ late \in BOOLEAN
    /\ phase \in Phases /\ kind \in {"branch", "snapshot"} /\ ops \in 0..MaxOps
    /\ todo \subseteq Words /\ redo \subseteq Words
    /\ image \in [Words -> Vals \union {Hole}]
    /\ saved \in Vals /\ state \in Vals
    /\ stored \in Snapshots \union {Nothing}

Init ==
    /\ mem \in [Words -> {Zero}] /\ regs = Zero
    /\ logging = FALSE /\ kvmLog = {} /\ devLog = {}
    /\ inflight = {} /\ reclaimed = {}
    /\ parked = FALSE /\ late = FALSE
    /\ phase = "idle" /\ kind = "branch" /\ ops = 0
    /\ todo = {} /\ redo = {}
    /\ image = [w \in Words |-> Hole] /\ saved = Zero /\ state = Zero
    /\ stored = Nothing

At(from, to) == phase = from /\ phase' = to
WordsOf(ps)  == {w \in Words : PageOf[w] \in ps}

-------------------------------------------------------------------------------
(* The parent, while it is not parked. *)

(* A vCPU, or KVM on its behalf, stores x; registers move on.  KVM marks the *)
(* page when it is logging.                                                  *)
GuestWrite(w, x, r) ==
    /\ ~parked /\ phase # "dead"
    /\ mem' = [mem EXCEPT ![w] = x] /\ regs' = r
    /\ kvmLog' = IF logging THEN kvmLog \union {PageOf[w]} ELSE kvmLog
    /\ UNCHANGED <<logging, devLog, writers, parked, late, control, files>>

(* Device DMA through the Bytes API: the store, then the mark. *)
DmaWrite(w, x) ==
    /\ ~parked /\ phase # "dead"
    /\ mem' = [mem EXCEPT ![w] = x]
    /\ inflight' = inflight \union {PageOf[w]}
    /\ UNCHANGED <<regs, logs, reclaimed, parked, late, control, files>>

DmaMark(p) ==
    /\ p \in inflight /\ phase # "dead"
    /\ devLog' = devLog \union {p}
    /\ inflight' = inflight \ {p}
    /\ UNCHANGED <<guest, logging, kvmLog, reclaimed, parked, late, control, files>>

(* advise_page: MADV_DONTNEED, then the explicit mark. *)
BalloonReclaim(p) ==
    /\ Balloon /\ phase # "dead"
    /\ mem' = [w \in Words |-> IF PageOf[w] = p THEN Zero ELSE mem[w]]
    /\ reclaimed' = reclaimed \union {p}
    /\ UNCHANGED <<regs, logs, inflight, parked, late, control, files>>

BalloonMark(p) ==
    /\ p \in reclaimed /\ phase # "dead"
    /\ devLog' = devLog \union {p}
    /\ reclaimed' = reclaimed \ {p}
    /\ UNCHANGED <<guest, logging, kvmLog, inflight, parked, late, control, files>>

Parent ==
    \/ \E w \in Words, x \in Vals :
           DmaWrite(w, x) \/ \E r \in Vals : GuestWrite(w, x, r)
    \/ \E p \in Pages : DmaMark(p) \/ BalloonReclaim(p) \/ BalloonMark(p)

-------------------------------------------------------------------------------
(* The barriers (module Checkpoint).  A worker parks only after its drain,   *)
(* so no mark is outstanding behind the barrier.  A participant that missed  *)
(* an earlier deadline may be counted in this round: after a timeout the     *)
(* barrier can report success with someone still running.                    *)

(* release_barrier where its error is ignored. *)
Release == parked' = FALSE /\ late' \in {late, late \/ ~InTime}

AfterQuiesce == [barrier1 |-> "arm", barrierFail |-> "disarm", barrier2 |-> "capture"]

Quiesce ==
    /\ phase \in DOMAIN AfterQuiesce
    /\ inflight = {}
    /\ parked' = TRUE
    /\ phase' = AfterQuiesce[phase]
    /\ UNCHANGED <<guest, logs, writers, late, kind, ops, todo, redo, files>>

QuiesceMiscounted ==
    /\ late
    /\ phase \in DOMAIN AfterQuiesce
    /\ phase' = AfterQuiesce[phase]
    /\ UNCHANGED <<guest, logs, writers, parked, late, kind, ops, todo, redo, files>>

(* Deadline: the barrier is released and the error returned at once. *)
QuiesceTimeout ==
    /\ ~InTime
    /\ phase \in DOMAIN AfterQuiesce
    /\ phase' = "idle" /\ late' = TRUE
    /\ UNCHANGED <<guest, logs, writers, parked, kind, ops, todo, redo, files>>

-------------------------------------------------------------------------------
(* Machine::branch, step by step. *)

Begin(k) ==
    /\ ops < MaxOps
    /\ At("idle", IF k = "branch" THEN "barrier1" ELSE "barrier2")
    /\ kind' = k /\ ops' = ops + 1
    /\ image' = [w \in Words |-> Hole]
    /\ UNCHANGED <<guest, logs, writers, parked, late, todo, redo, saved, state, stored>>

(* set_dirty_logging(true); collect_dirty_pages, discarded. *)
Arm ==
    /\ At("arm", "armed")
    /\ logging' = TRUE /\ kvmLog' = {} /\ devLog' = {}
    /\ UNCHANGED <<guest, writers, parked, late, kind, ops, todo, redo, files>>

\* Variant: the error return that forgets the barrier.
ArmFailsStillParked ==
    /\ At("arm", "idle")
    /\ logging' = FALSE /\ kvmLog' = {}
    /\ UNCHANGED <<guest, devLog, writers, parked, late, kind, ops, todo, redo, files>>

(* Either of the two failed: logging off, release, error. *)
ArmFails ==
    /\ At("arm", "idle")
    /\ logging' = FALSE /\ kvmLog' = {} /\ Release
    /\ UNCHANGED <<guest, devLog, writers, kind, ops, todo, redo, files>>

(* release_barrier; write_branch_image sizes the file and starts copying. *)
StartCopy ==
    /\ At("armed", "copy")
    /\ parked' = FALSE /\ todo' = Words
    /\ UNCHANGED <<guest, logs, writers, late, kind, ops, redo, files>>

(* The participants did not leave within 5 s: return, still logging. *)
StartTimeout ==
    /\ ~InTime
    /\ At("armed", "idle")
    /\ parked' = FALSE /\ late' = TRUE
    /\ UNCHANGED <<guest, logs, writers, kind, ops, todo, redo, files>>

LiveCopy(w) ==
    /\ phase = "copy" /\ w \in todo
    /\ image' = [image EXCEPT ![w] = mem[w]]
    /\ todo' = todo \ {w}
    /\ UNCHANGED <<guest, logs, writers, parked, late, phase, kind, ops, redo,
                   saved, state, stored>>

\* Variant: the copy reports success before the last region.
CopyDoneShort ==
    /\ At("copy", "barrier2")
    /\ UNCHANGED <<guest, logs, writers, parked, late, kind, ops, todo, redo, files>>

\* Variant: no second barrier.
CopyDoneNoBarrier ==
    /\ At("copy", "capture")
    /\ todo = {}
    /\ UNCHANGED <<guest, logs, writers, parked, late, kind, ops, todo, redo, files>>

CopyDone ==
    /\ At("copy", "barrier2")
    /\ todo = {}
    /\ UNCHANGED <<guest, logs, writers, parked, late, kind, ops, todo, redo, files>>

(* An I/O error: park once more to stop logging, then return it. *)
CopyFails ==
    /\ At("copy", "barrierFail")
    /\ UNCHANGED <<guest, logs, writers, parked, late, kind, ops, todo, redo, files>>

Disarm ==
    /\ At("disarm", "idle")
    /\ logging' = FALSE /\ kvmLog' = {} /\ Release
    /\ UNCHANGED <<guest, devLog, writers, kind, ops, todo, redo, files>>

(* T2: vCPU, device, clock and irqchip state. *)
Capture ==
    /\ At("capture", "dirty")
    /\ saved' = regs
    /\ UNCHANGED <<guest, logs, writers, parked, late, kind, ops, todo, redo,
                   image, state, stored>>

\* Variant: KVM's log alone.
CollectDirtyKvmOnly ==
    /\ At("dirty", "redo")
    /\ redo' = IF kind = "branch" THEN WordsOf(kvmLog) ELSE Words
    /\ kvmLog' = IF kind = "branch" THEN {} ELSE kvmLog
    /\ UNCHANGED <<guest, logging, devLog, writers, parked, late, kind, ops, todo, files>>

(* collect_dirty_pages: the union of both sources, both reset.  A snapshot  *)
(* has copied nothing yet and dumps everything.                             *)
CollectDirty ==
    /\ At("dirty", "redo")
    /\ IF kind = "branch"
       THEN /\ redo' = WordsOf(kvmLog \union devLog)
            /\ kvmLog' = {} /\ devLog' = {}
       ELSE /\ redo' = Words
            /\ UNCHANGED <<kvmLog, devLog>>
    /\ UNCHANGED <<guest, logging, writers, parked, late, kind, ops, todo, files>>

(* recopy_branch_pages / dump_guest_memory. *)
Recopy(w) ==
    /\ phase = "redo" /\ w \in redo
    /\ image' = [image EXCEPT ![w] = mem[w]]
    /\ redo' = redo \ {w}
    /\ UNCHANGED <<guest, logs, writers, parked, late, phase, kind, ops, todo,
                   saved, state, stored>>

(* Everything is copied; branch turns logging off. *)
Captured ==
    /\ At("redo", "captured")
    /\ redo = {}
    /\ logging' = (logging /\ kind # "branch")
    /\ kvmLog' = IF kind = "branch" THEN {} ELSE kvmLog
    /\ UNCHANGED <<guest, devLog, writers, parked, late, kind, ops, todo, redo, files>>

\* Variant: the error returned before logging is turned off.
CaptureFailsStillLogging ==
    /\ phase \in {"capture", "dirty", "redo"} /\ phase' = "idle"
    /\ Release
    /\ UNCHANGED <<guest, logs, writers, kind, ops, todo, redo, files>>

(* A capture, the log or a write failed: logging off, release, error. *)
CaptureFails ==
    /\ phase \in {"capture", "dirty", "redo"} /\ phase' = "idle"
    /\ logging' = (logging /\ kind # "branch")
    /\ kvmLog' = IF kind = "branch" THEN {} ELSE kvmLog
    /\ Release
    /\ UNCHANGED <<guest, devLog, writers, kind, ops, todo, redo, files>>

(* release_barrier; on its timeout the error is returned instead. *)
Resume ==
    /\ At("captured", "state")
    /\ parked' = FALSE
    /\ UNCHANGED <<guest, logs, writers, late, kind, ops, todo, redo, files>>

ResumeTimeout ==
    /\ ~InTime
    /\ At("captured", "idle")
    /\ parked' = FALSE /\ late' = TRUE
    /\ UNCHANGED <<guest, logs, writers, kind, ops, todo, redo, files>>

(* write_snapshot_metadata: state.bin, then manifest.json, which is what     *)
(* makes the directory a snapshot (SnapshotStore::list).                    *)
WriteState ==
    /\ At("state", "manifest")
    /\ state' = saved
    /\ UNCHANGED <<guest, logs, writers, parked, late, kind, ops, todo, redo,
                   image, saved, stored>>

WriteManifest ==
    /\ At("manifest", "idle")
    /\ stored' = [mem |-> image, regs |-> state]
    /\ UNCHANGED <<guest, logs, writers, parked, late, kind, ops, todo, redo,
                   image, saved, state>>

MetadataFails ==
    /\ phase \in {"state", "manifest"} /\ phase' = "idle"
    /\ UNCHANGED <<guest, logs, writers, parked, late, kind, ops, todo, redo, files>>

(* The worker process is killed (mm stop, host OOM): everything ends but     *)
(* the files.                                                               *)
Kill ==
    /\ phase # "dead" /\ phase' = "dead"
    /\ UNCHANGED <<guest, logs, writers, parked, late, kind, ops, todo, redo, files>>

OrchStep ==
    \/ QuiesceMiscounted \/ QuiesceTimeout
    \/ Arm \/ ArmFails \/ StartCopy \/ StartTimeout
    \/ (\E w \in Words : LiveCopy(w)) \/ CopyDone \/ CopyFails \/ Disarm
    \/ Capture \/ CollectDirty \/ (\E w \in Words : Recopy(w)) \/ Captured
    \/ CaptureFails \/ Resume \/ ResumeTimeout
    \/ WriteState \/ WriteManifest \/ MetadataFails

Next ==
    \/ (\E k \in {"branch", "snapshot"} : Begin(k))
    \/ Quiesce \/ OrchStep \/ Parent \/ Kill

Spec == Init /\ [][Next]_vars

(* The orchestrator thread keeps running; the pause event makes a worker     *)
(* park at the end of the DMA it is in, however often it starts another.     *)
FairSpec == Spec /\ WF_vars(OrchStep) /\ SF_vars(Quiesce)
                 /\ \A p \in Pages : WF_vars(DmaMark(p))

-------------------------------------------------------------------------------
(* branch and snapshot_in_place implement GuestSnapshot: between the last    *)
(* copy at T2 and the manifest, memory.bin and the saved state are one       *)
(* instant of the parent, and only such an instant ever becomes visible.     *)
Promise == INSTANCE GuestSnapshot WITH
    taken   <- IF phase \in {"captured", "state", "manifest"}
               THEN [mem |-> image, regs |-> saved] ELSE Nothing,
    visible <- stored

ImplementsSnapshot == Promise!ASpec

(* machine.rs:834-836: when the last page is copied, memory.bin and the       *)
(* captured state are the parked parent, "one coherent point-in-time         *)
(* (nothing mutates guest state while parked)".                              *)
ImageIsParent == phase = "captured" => image = mem /\ saved = regs

(* machine.rs:1009-1096: whichever way branch returns, it leaves the parent  *)
(* without dirty logging (each logged write costs a fault).                  *)
NoLoggingLeft == phase = "idle" => ~logging

(* machine.rs:775-780, 851-853: the parent is never left parked, on any path. *)
ParentResumes == parked ~> ~parked \/ phase = "dead"
===============================================================================
