--------------------------- MODULE LiveBranchProofs ---------------------------
(***************************************************************************)
(* LiveBranch for every guest memory: the type invariant; no dirty logging *)
(* left behind when every barrier is in time; and, when no balloon is      *)
(* configured either, the refinement of GuestSnapshot.                     *)
(***************************************************************************)
EXTENDS LiveBranch, TLAPS

(* Which words of memory.bin have been written, by phase. *)
WrittenInv ==
    \A w \in Words :
        \/ image[w] \in Vals
        \/ phase = "copy" /\ w \in todo
        \/ phase = "redo" /\ w \in redo
        \/ phase \in {"barrier2", "capture", "dirty"} /\ kind = "snapshot"
        \/ phase \in {"idle", "barrier1", "arm", "armed", "barrierFail",
                      "disarm", "dead"}

TypedInv == TypeOK /\ WrittenInv

(* Where logging may be on. *)
LoggingInv ==
    /\ phase \in {"barrier1", "arm", "armed", "copy"} => kind = "branch"
    /\ logging => \/ phase \in {"armed", "copy", "barrierFail", "disarm", "dead"}
                  \/ kind = "branch" /\ phase \in {"barrier2", "capture", "dirty", "redo"}

(* What a branch still owes the image, by phase. *)
Behind(w) == PageOf[w] \in kvmLog \union devLog \union inflight

CopyInv ==
    /\ phase \in {"barrier1", "arm", "armed", "copy"} => kind = "branch"
    /\ phase \in {"armed", "copy"} => logging
    /\ phase \in {"barrier2", "capture", "dirty"} /\ kind = "branch" => logging
    /\ \A w \in Words :
          /\ phase = "copy" => w \in todo \/ image[w] = mem[w] \/ Behind(w)
          /\ phase \in {"barrier2", "capture", "dirty"} /\ kind = "branch" =>
                 image[w] = mem[w] \/ Behind(w)
          /\ phase = "redo" => w \in redo \/ image[w] = mem[w]
          /\ phase = "captured" => image[w] = mem[w]

ParkInv ==
    /\ ~late /\ reclaimed = {}
    /\ phase \in {"arm", "armed", "disarm", "capture", "dirty", "redo", "captured"}
           => parked /\ inflight = {}

SavedInv ==
    /\ phase \in {"dirty", "redo", "captured"} => saved = regs
    /\ phase = "manifest" => state = saved

CoherentInv == TypedInv /\ ParkInv /\ CopyInv /\ SavedInv

-------------------------------------------------------------------------------
(* Every step keeps the types, whatever the constants. *)
LEMMA TypedStep == TypedInv /\ [Next]_vars => TypedInv'
<1> SUFFICES ASSUME TypedInv, [Next]_vars PROVE TypedInv'
  OBVIOUS
<1> USE MemoryAssumption, BranchBoundAssumption DEF TypedInv, TypeOK, WrittenInv, Phases, Snapshots,
        At, Release, AfterQuiesce, WordsOf, guest, logs, writers, files, control
<1>1. ASSUME NEW w \in Words, NEW x \in Vals, NEW r \in Vals, GuestWrite(w, x, r) PROVE TypedInv'
  BY <1>1 DEF GuestWrite
<1>2. ASSUME NEW w \in Words, NEW x \in Vals, DmaWrite(w, x) PROVE TypedInv'
  BY <1>2 DEF DmaWrite
<1>3. ASSUME NEW p \in Pages, DmaMark(p) PROVE TypedInv'
  BY <1>3 DEF DmaMark
<1>4. ASSUME NEW p \in Pages, BalloonReclaim(p) PROVE TypedInv'
  BY <1>4 DEF BalloonReclaim
<1>5. ASSUME NEW p \in Pages, BalloonMark(p) PROVE TypedInv'
  BY <1>5 DEF BalloonMark
<1>6. ASSUME NEW k \in {"branch", "snapshot"}, Begin(k) PROVE TypedInv'
  BY <1>6 DEF Begin
<1>7. ASSUME Quiesce PROVE TypedInv'
  BY <1>7 DEF Quiesce
<1>8. ASSUME QuiesceMiscounted PROVE TypedInv'
  BY <1>8 DEF QuiesceMiscounted
<1>9. ASSUME QuiesceTimeout PROVE TypedInv'
  BY <1>9 DEF QuiesceTimeout
<1>10. ASSUME Arm PROVE TypedInv'
  BY <1>10 DEF Arm
<1>11. ASSUME ArmFails PROVE TypedInv'
  BY <1>11 DEF ArmFails
<1>12. ASSUME StartCopy PROVE TypedInv'
  BY <1>12 DEF StartCopy
<1>13. ASSUME StartTimeout PROVE TypedInv'
  BY <1>13 DEF StartTimeout
<1>14. ASSUME NEW w \in Words, LiveCopy(w) PROVE TypedInv'
  BY <1>14 DEF LiveCopy
<1>15. ASSUME CopyDone PROVE TypedInv'
  BY <1>15 DEF CopyDone
<1>16. ASSUME CopyFails PROVE TypedInv'
  BY <1>16 DEF CopyFails
<1>17. ASSUME Disarm PROVE TypedInv'
  BY <1>17 DEF Disarm
<1>18. ASSUME Capture PROVE TypedInv'
  BY <1>18 DEF Capture
<1>19. ASSUME CollectDirty PROVE TypedInv'
  BY <1>19 DEF CollectDirty
<1>20. ASSUME NEW w \in Words, Recopy(w) PROVE TypedInv'
  BY <1>20 DEF Recopy
<1>21. ASSUME Captured PROVE TypedInv'
  BY <1>21 DEF Captured
<1>22. ASSUME CaptureFails PROVE TypedInv'
  BY <1>22 DEF CaptureFails
<1>23. ASSUME Resume PROVE TypedInv'
  BY <1>23 DEF Resume
<1>24. ASSUME ResumeTimeout PROVE TypedInv'
  BY <1>24 DEF ResumeTimeout
<1>25. ASSUME WriteState PROVE TypedInv'
  BY <1>25 DEF WriteState
<1>26. ASSUME WriteManifest PROVE TypedInv'
  BY <1>26 DEF WriteManifest
<1>27. ASSUME MetadataFails PROVE TypedInv'
  BY <1>27 DEF MetadataFails
<1>28. ASSUME Kill PROVE TypedInv'
  BY <1>28 DEF Kill
<1>90. CASE UNCHANGED vars
  BY <1>90 DEF vars
<1>91. QED
  BY <1>1, <1>2, <1>3, <1>4, <1>5, <1>6, <1>7, <1>8, <1>9, <1>10, <1>11,
     <1>12, <1>13, <1>14, <1>15, <1>16, <1>17, <1>18, <1>19, <1>20, <1>21,
     <1>22, <1>23, <1>24, <1>25, <1>26, <1>27, <1>28, <1>90 DEF Next,
     OrchStep, Parent

LEMMA TypedStart == Init => TypedInv
<1> SUFFICES ASSUME Init PROVE TypedInv
  OBVIOUS
<1>1. mem \in [Words -> Vals] /\ image \in [Words -> Vals \union {Hole}]
  BY MemoryAssumption DEF Init
<1>2. ops \in 0..MaxOps
  BY BranchBoundAssumption DEF Init
<1>3. QED
  BY <1>1, <1>2, MemoryAssumption
       DEF Init, TypedInv, TypeOK, WrittenInv, Phases, Snapshots

(* Every value of memory.bin a reader can find is a value of guest memory,   *)
(* and every variable keeps its type (machine.rs:828-872, 1009-1096).        *)
THEOREM BranchTyped == Spec => []TypeOK
<1>1. Init => TypedInv
  BY TypedStart
<1>2. TypedInv /\ [Next]_vars => TypedInv'
  BY TypedStep
<1>3. TypedInv => TypeOK
  BY DEF TypedInv
<1>4. QED
  BY <1>1, <1>2, <1>3, PTL DEF Spec

-------------------------------------------------------------------------------
(* Logging is on only between the two barriers of a branch. *)
LEMMA LoggingStep ==
    ASSUME InTime, LoggingInv, TypeOK, [Next]_vars PROVE LoggingInv'
<1> USE InTime, LoggingInv, TypeOK
    DEF LoggingInv, TypeOK,
        At, Release, AfterQuiesce, WordsOf, guest, logs, writers, files, control
<1>1. ASSUME NEW w \in Words, NEW x \in Vals, NEW r \in Vals, GuestWrite(w, x, r) PROVE LoggingInv'
  BY <1>1 DEF GuestWrite
<1>2. ASSUME NEW w \in Words, NEW x \in Vals, DmaWrite(w, x) PROVE LoggingInv'
  BY <1>2 DEF DmaWrite
<1>3. ASSUME NEW p \in Pages, DmaMark(p) PROVE LoggingInv'
  BY <1>3 DEF DmaMark
<1>4. ASSUME NEW p \in Pages, BalloonReclaim(p) PROVE LoggingInv'
  BY <1>4 DEF BalloonReclaim
<1>5. ASSUME NEW p \in Pages, BalloonMark(p) PROVE LoggingInv'
  BY <1>5 DEF BalloonMark
<1>6. ASSUME NEW k \in {"branch", "snapshot"}, Begin(k) PROVE LoggingInv'
  BY <1>6 DEF Begin
<1>7. ASSUME Quiesce PROVE LoggingInv'
  BY <1>7 DEF Quiesce
<1>8. ASSUME QuiesceMiscounted PROVE LoggingInv'
  BY <1>8 DEF QuiesceMiscounted
<1>9. ASSUME QuiesceTimeout PROVE LoggingInv'
  BY <1>9 DEF QuiesceTimeout
<1>10. ASSUME Arm PROVE LoggingInv'
  BY <1>10 DEF Arm
<1>11. ASSUME ArmFails PROVE LoggingInv'
  BY <1>11 DEF ArmFails
<1>12. ASSUME StartCopy PROVE LoggingInv'
  BY <1>12 DEF StartCopy
<1>13. ASSUME StartTimeout PROVE LoggingInv'
  BY <1>13 DEF StartTimeout
<1>14. ASSUME NEW w \in Words, LiveCopy(w) PROVE LoggingInv'
  BY <1>14 DEF LiveCopy
<1>15. ASSUME CopyDone PROVE LoggingInv'
  BY <1>15 DEF CopyDone
<1>16. ASSUME CopyFails PROVE LoggingInv'
  BY <1>16 DEF CopyFails
<1>17. ASSUME Disarm PROVE LoggingInv'
  BY <1>17 DEF Disarm
<1>18. ASSUME Capture PROVE LoggingInv'
  BY <1>18 DEF Capture
<1>19. ASSUME CollectDirty PROVE LoggingInv'
  BY <1>19 DEF CollectDirty
<1>20. ASSUME NEW w \in Words, Recopy(w) PROVE LoggingInv'
  BY <1>20 DEF Recopy
<1>21. ASSUME Captured PROVE LoggingInv'
  BY <1>21 DEF Captured
<1>22. ASSUME CaptureFails PROVE LoggingInv'
  BY <1>22 DEF CaptureFails
<1>23. ASSUME Resume PROVE LoggingInv'
  BY <1>23 DEF Resume
<1>24. ASSUME ResumeTimeout PROVE LoggingInv'
  BY <1>24 DEF ResumeTimeout
<1>25. ASSUME WriteState PROVE LoggingInv'
  BY <1>25 DEF WriteState
<1>26. ASSUME WriteManifest PROVE LoggingInv'
  BY <1>26 DEF WriteManifest
<1>27. ASSUME MetadataFails PROVE LoggingInv'
  BY <1>27 DEF MetadataFails
<1>28. ASSUME Kill PROVE LoggingInv'
  BY <1>28 DEF Kill
<1>90. CASE UNCHANGED vars
  BY <1>90 DEF vars
<1>91. QED
  BY <1>1, <1>2, <1>3, <1>4, <1>5, <1>6, <1>7, <1>8, <1>9, <1>10, <1>11,
     <1>12, <1>13, <1>14, <1>15, <1>16, <1>17, <1>18, <1>19, <1>20, <1>21,
     <1>22, <1>23, <1>24, <1>25, <1>26, <1>27, <1>28, <1>90 DEF Next,
     OrchStep, Parent

(* machine.rs:1009-1096: if no barrier times out, branch never returns with  *)
(* the parent still paying for dirty logging.                                *)
THEOREM BranchStopsLogging ==
    ASSUME InTime PROVE Spec => []NoLoggingLeft
<1>1. Init => LoggingInv
  BY DEF Init, LoggingInv
<1>2. InTime /\ LoggingInv /\ TypeOK /\ [Next]_vars => LoggingInv'
  BY LoggingStep
<1>3. LoggingInv => NoLoggingLeft
  BY DEF LoggingInv, NoLoggingLeft
<1>4. QED
  BY <1>1, <1>2, <1>3, InTime, BranchTyped, PTL DEF Spec

-------------------------------------------------------------------------------
(* What a page still owes the image is always in one of the logs, on its way *)
(* to one, or ahead of the copy.                                             *)
LEMMA CoherentStep ==
    ASSUME InTime, ~Balloon, CoherentInv, [Next]_vars PROVE ParkInv' /\ CopyInv' /\ SavedInv'
<1> USE InTime, ~Balloon, CoherentInv, MemoryAssumption
    DEF CoherentInv, TypedInv, TypeOK, ParkInv, CopyInv, SavedInv, Behind,
        At, Release, AfterQuiesce, WordsOf, guest, logs, writers, files, control
<1>1. ASSUME NEW w \in Words, NEW x \in Vals, NEW r \in Vals, GuestWrite(w, x, r) PROVE ParkInv' /\ CopyInv' /\ SavedInv'
  BY <1>1 DEF GuestWrite
<1>2. ASSUME NEW w \in Words, NEW x \in Vals, DmaWrite(w, x) PROVE ParkInv' /\ CopyInv' /\ SavedInv'
  BY <1>2 DEF DmaWrite
<1>3. ASSUME NEW p \in Pages, DmaMark(p) PROVE ParkInv' /\ CopyInv' /\ SavedInv'
  BY <1>3 DEF DmaMark
<1>4. ASSUME NEW p \in Pages, BalloonReclaim(p) PROVE ParkInv' /\ CopyInv' /\ SavedInv'
  BY <1>4 DEF BalloonReclaim
<1>5. ASSUME NEW p \in Pages, BalloonMark(p) PROVE ParkInv' /\ CopyInv' /\ SavedInv'
  BY <1>5 DEF BalloonMark
<1>6. ASSUME NEW k \in {"branch", "snapshot"}, Begin(k) PROVE ParkInv' /\ CopyInv' /\ SavedInv'
  BY <1>6 DEF Begin
<1>7. ASSUME Quiesce PROVE ParkInv' /\ CopyInv' /\ SavedInv'
  BY <1>7 DEF Quiesce
<1>8. ASSUME QuiesceMiscounted PROVE ParkInv' /\ CopyInv' /\ SavedInv'
  BY <1>8 DEF QuiesceMiscounted
<1>9. ASSUME QuiesceTimeout PROVE ParkInv' /\ CopyInv' /\ SavedInv'
  BY <1>9 DEF QuiesceTimeout
<1>10. ASSUME Arm PROVE ParkInv' /\ CopyInv' /\ SavedInv'
  BY <1>10 DEF Arm
<1>11. ASSUME ArmFails PROVE ParkInv' /\ CopyInv' /\ SavedInv'
  BY <1>11 DEF ArmFails
<1>12. ASSUME StartCopy PROVE ParkInv' /\ CopyInv' /\ SavedInv'
  BY <1>12 DEF StartCopy
<1>13. ASSUME StartTimeout PROVE ParkInv' /\ CopyInv' /\ SavedInv'
  BY <1>13 DEF StartTimeout
<1>14. ASSUME NEW w \in Words, LiveCopy(w) PROVE ParkInv' /\ CopyInv' /\ SavedInv'
  BY <1>14 DEF LiveCopy
<1>15. ASSUME CopyDone PROVE ParkInv' /\ CopyInv' /\ SavedInv'
  BY <1>15 DEF CopyDone
<1>16. ASSUME CopyFails PROVE ParkInv' /\ CopyInv' /\ SavedInv'
  BY <1>16 DEF CopyFails
<1>17. ASSUME Disarm PROVE ParkInv' /\ CopyInv' /\ SavedInv'
  BY <1>17 DEF Disarm
<1>18. ASSUME Capture PROVE ParkInv' /\ CopyInv' /\ SavedInv'
  BY <1>18 DEF Capture
<1>19. ASSUME CollectDirty PROVE ParkInv' /\ CopyInv' /\ SavedInv'
  BY <1>19 DEF CollectDirty
<1>20. ASSUME NEW w \in Words, Recopy(w) PROVE ParkInv' /\ CopyInv' /\ SavedInv'
  BY <1>20 DEF Recopy
<1>21. ASSUME Captured PROVE ParkInv' /\ CopyInv' /\ SavedInv'
  BY <1>21 DEF Captured
<1>22. ASSUME CaptureFails PROVE ParkInv' /\ CopyInv' /\ SavedInv'
  BY <1>22 DEF CaptureFails
<1>23. ASSUME Resume PROVE ParkInv' /\ CopyInv' /\ SavedInv'
  BY <1>23 DEF Resume
<1>24. ASSUME ResumeTimeout PROVE ParkInv' /\ CopyInv' /\ SavedInv'
  BY <1>24 DEF ResumeTimeout
<1>25. ASSUME WriteState PROVE ParkInv' /\ CopyInv' /\ SavedInv'
  BY <1>25 DEF WriteState
<1>26. ASSUME WriteManifest PROVE ParkInv' /\ CopyInv' /\ SavedInv'
  BY <1>26 DEF WriteManifest
<1>27. ASSUME MetadataFails PROVE ParkInv' /\ CopyInv' /\ SavedInv'
  BY <1>27 DEF MetadataFails
<1>28. ASSUME Kill PROVE ParkInv' /\ CopyInv' /\ SavedInv'
  BY <1>28 DEF Kill
<1>90. CASE UNCHANGED vars
  BY <1>90 DEF vars
<1>91. QED
  BY <1>1, <1>2, <1>3, <1>4, <1>5, <1>6, <1>7, <1>8, <1>9, <1>10, <1>11,
     <1>12, <1>13, <1>14, <1>15, <1>16, <1>17, <1>18, <1>19, <1>20, <1>21,
     <1>22, <1>23, <1>24, <1>25, <1>26, <1>27, <1>28, <1>90 DEF Next,
     OrchStep, Parent

LEMMA CoherentStart == Init => CoherentInv
<1>1. Init => TypedInv
  BY TypedStart
<1>2. Init => ParkInv /\ CopyInv /\ SavedInv
  BY DEF Init, ParkInv, CopyInv, SavedInv
<1>3. QED
  BY <1>1, <1>2 DEF CoherentInv

LEMMA StepRefines ==
    ASSUME InTime, ~Balloon, CoherentInv, CoherentInv', [Next]_vars
    PROVE  [Promise!ANext]_(Promise!avars)
<1> USE InTime, ~Balloon, MemoryAssumption, CoherentInv, CoherentInv'
    DEF CoherentInv, TypedInv, TypeOK, ParkInv, CopyInv, SavedInv, Snapshots,
        Promise!avars, Promise!ANext,
        At, Release, AfterQuiesce, WordsOf, guest, logs, writers, files, control
<1>1. ASSUME NEW w \in Words, NEW x \in Vals, NEW r \in Vals, GuestWrite(w, x, r) PROVE [Promise!ANext]_(Promise!avars)
  BY <1>1 DEF GuestWrite, Promise!Run
<1>2. ASSUME NEW w \in Words, NEW x \in Vals, DmaWrite(w, x) PROVE [Promise!ANext]_(Promise!avars)
  BY <1>2 DEF DmaWrite, Promise!Run
<1>3. ASSUME NEW p \in Pages, DmaMark(p) PROVE [Promise!ANext]_(Promise!avars)
  BY <1>3 DEF DmaMark
<1>4. ASSUME NEW p \in Pages, BalloonReclaim(p) PROVE [Promise!ANext]_(Promise!avars)
  BY <1>4 DEF BalloonReclaim
<1>5. ASSUME NEW p \in Pages, BalloonMark(p) PROVE [Promise!ANext]_(Promise!avars)
  BY <1>5 DEF BalloonMark
<1>6. ASSUME NEW k \in {"branch", "snapshot"}, Begin(k) PROVE [Promise!ANext]_(Promise!avars)
  BY <1>6 DEF Begin
<1>7. ASSUME Quiesce PROVE [Promise!ANext]_(Promise!avars)
  BY <1>7 DEF Quiesce
<1>8. ASSUME QuiesceMiscounted PROVE [Promise!ANext]_(Promise!avars)
  BY <1>8 DEF QuiesceMiscounted
<1>9. ASSUME QuiesceTimeout PROVE [Promise!ANext]_(Promise!avars)
  BY <1>9 DEF QuiesceTimeout
<1>10. ASSUME Arm PROVE [Promise!ANext]_(Promise!avars)
  BY <1>10 DEF Arm
<1>11. ASSUME ArmFails PROVE [Promise!ANext]_(Promise!avars)
  BY <1>11 DEF ArmFails
<1>12. ASSUME StartCopy PROVE [Promise!ANext]_(Promise!avars)
  BY <1>12 DEF StartCopy
<1>13. ASSUME StartTimeout PROVE [Promise!ANext]_(Promise!avars)
  BY <1>13 DEF StartTimeout
<1>14. ASSUME NEW w \in Words, LiveCopy(w) PROVE [Promise!ANext]_(Promise!avars)
  BY <1>14 DEF LiveCopy
<1>15. ASSUME CopyDone PROVE [Promise!ANext]_(Promise!avars)
  BY <1>15 DEF CopyDone
<1>16. ASSUME CopyFails PROVE [Promise!ANext]_(Promise!avars)
  BY <1>16 DEF CopyFails
<1>17. ASSUME Disarm PROVE [Promise!ANext]_(Promise!avars)
  BY <1>17 DEF Disarm
<1>18. ASSUME Capture PROVE [Promise!ANext]_(Promise!avars)
  BY <1>18 DEF Capture
<1>19. ASSUME CollectDirty PROVE [Promise!ANext]_(Promise!avars)
  BY <1>19 DEF CollectDirty
<1>20. ASSUME NEW w \in Words, Recopy(w) PROVE [Promise!ANext]_(Promise!avars)
  BY <1>20 DEF Recopy
<1>21. ASSUME Captured PROVE [Promise!ANext]_(Promise!avars)
  BY <1>21 DEF Captured, Promise!Take
<1>22. ASSUME CaptureFails PROVE [Promise!ANext]_(Promise!avars)
  BY <1>22 DEF CaptureFails
<1>23. ASSUME Resume PROVE [Promise!ANext]_(Promise!avars)
  BY <1>23 DEF Resume
<1>24. ASSUME ResumeTimeout PROVE [Promise!ANext]_(Promise!avars)
  BY <1>24 DEF ResumeTimeout
<1>25. ASSUME WriteState PROVE [Promise!ANext]_(Promise!avars)
  BY <1>25 DEF WriteState
<1>26. ASSUME WriteManifest PROVE [Promise!ANext]_(Promise!avars)
  <2>1. image \in [Words -> Vals]
    BY <1>26 DEF WriteManifest, WrittenInv
  <2>2. [mem |-> image, regs |-> saved] # Nothing
    BY <2>1
  <2>3. stored' = [mem |-> image, regs |-> saved]
    BY <1>26 DEF WriteManifest
  <2>4. QED
    BY <1>26, <2>2, <2>3 DEF WriteManifest, Promise!Publish
<1>27. ASSUME MetadataFails PROVE [Promise!ANext]_(Promise!avars)
  BY <1>27 DEF MetadataFails, Promise!Abandon
<1>28. ASSUME Kill PROVE [Promise!ANext]_(Promise!avars)
  BY <1>28 DEF Kill, Promise!Abandon
<1>90. CASE UNCHANGED vars
  BY <1>90 DEF vars
<1>91. QED
  BY <1>1, <1>2, <1>3, <1>4, <1>5, <1>6, <1>7, <1>8, <1>9, <1>10, <1>11,
     <1>12, <1>13, <1>14, <1>15, <1>16, <1>17, <1>18, <1>19, <1>20, <1>21,
     <1>22, <1>23, <1>24, <1>25, <1>26, <1>27, <1>28, <1>90 DEF Next,
     OrchStep, Parent

(* machine.rs:1009-1096, 828-872: without a balloon and with barriers in     *)
(* time, a branch or snapshot of a running guest is one instant of it.       *)
THEOREM BranchIsSnapshot ==
    ASSUME InTime, ~Balloon PROVE Spec => ImplementsSnapshot
<1>1. Init => CoherentInv
  BY CoherentStart
<1>2. CoherentInv /\ [Next]_vars => CoherentInv'
  BY TypedStep, CoherentStep, InTime, ~Balloon DEF CoherentInv
<1>3. CoherentInv /\ CoherentInv' /\ [Next]_vars => [Promise!ANext]_(Promise!avars)
  BY StepRefines, InTime, ~Balloon
<1>4. Init => Promise!AInit
  BY MemoryAssumption DEF Init, Promise!AInit
<1>5. QED
  BY <1>1, <1>2, <1>3, <1>4, PTL DEF Spec, ImplementsSnapshot, Promise!ASpec

(* machine.rs:834-836: under the same assumptions, the image is the parked   *)
(* parent when its last page has been copied.                                *)
THEOREM ImageIsTheParent ==
    ASSUME InTime, ~Balloon PROVE Spec => []ImageIsParent
<1>1. Init => CoherentInv
  BY CoherentStart
<1>2. CoherentInv /\ [Next]_vars => CoherentInv'
  BY TypedStep, CoherentStep, InTime, ~Balloon DEF CoherentInv
<1>3. CoherentInv => ImageIsParent
  BY DEF CoherentInv, TypedInv, TypeOK, CopyInv, SavedInv, ImageIsParent
<1>4. QED
  BY <1>1, <1>2, <1>3, PTL DEF Spec
===============================================================================
