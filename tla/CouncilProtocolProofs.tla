------------------------ MODULE CouncilProtocolProofs ------------------------
(***************************************************************************)
(* Theorems about CouncilProtocol, for every number of phases, every        *)
(* position of the gate and every bound.                                    *)
(***************************************************************************)
EXTENDS CouncilProtocol, TLAPS

(* What the operators that build state return. *)

LEMMA EmptyAccumulatorType == EmptyAccumulator \in Accumulator
  BY DEF EmptyAccumulator, Accumulator

LEMMA NoSnapshotsType == NoSnapshots \in Snapshots
  BY EmptyAccumulatorType DEF NoSnapshots, Snapshots

LEMMA NoCheckpointType == NoCheckpoint \in Checkpoint
  BY EmptyAccumulatorType, NoSnapshotsType, ProtocolAssumption
     DEF NoCheckpoint, Checkpoint

LEMMA NoRunType == NoRun \in Run
  BY EmptyAccumulatorType, NoSnapshotsType, ProtocolAssumption DEF NoRun, Run

LEMMA WithSlotType ==
  ASSUME NEW acc \in Accumulator, NEW p \in Phase,
         NEW why \in {"round_failed", "not_reached"}
  PROVE  WithSlot(acc, p, why) \in Accumulator
  BY DEF WithSlot, Accumulator, Slot

LEMMA RunningCheckpointType ==
  ASSUME NEW r \in Run
  PROVE  /\ RunningCheckpoint(r) \in Checkpoint
         /\ StoppedCheckpoint(r) \in Checkpoint
         /\ GateCheckpoint(r) \in Checkpoint
  <1>1. RunningCheckpoint(r) \in Checkpoint
    BY ProtocolAssumption DEF RunningCheckpoint, Run, Checkpoint
  <1>2. \A cp \in Checkpoint, b \in BOOLEAN :
           [cp EXCEPT !.gateReached = b] \in Checkpoint
    BY DEF Checkpoint
  <1>3. QED
    BY <1>1, <1>2 DEF StoppedCheckpoint, GateCheckpoint

LEMMA AfterPhaseType ==
  ASSUME NEW r \in Run, NEW p \in Phase, NEW acc \in Accumulator
  PROVE  AfterPhase(r, p, acc) \in Run
  <1>1. p + 1 \in 1 .. NPhases + 1
    BY ProtocolAssumption DEF Phase
  <1>2. [r.snapshots EXCEPT ![p] = acc] \in Snapshots
    BY DEF Run, Snapshots
  <1>3. QED
    BY <1>1, <1>2 DEF AfterPhase, Run

LEMMA AfterSkipType ==
  ASSUME NEW r \in Run, NEW p \in Phase
  PROVE  AfterSkip(r, p) \in Run
  <1>1. p + 1 \in 1 .. NPhases + 1
    BY ProtocolAssumption DEF Phase
  <1>2. WithSlot(r.acc, p, "not_reached") \in Accumulator
    BY WithSlotType DEF Run
  <1>3. QED
    BY <1>1, <1>2 DEF AfterSkip, Run

LEMMA ResumedStatesType ==
  ASSUME NEW cp \in Checkpoint
  PROVE  /\ Kept(cp) \subseteq cp.runPhases
         /\ Kept(cp) \subseteq Phase
         /\ ResumedStates(cp) \subseteq Accumulator
  <1>1. Kept(cp) \subseteq cp.runPhases /\ Kept(cp) \subseteq Phase
    BY DEF Kept, Checkpoint
  <1>2. \A p \in Kept(cp) : cp.snapshots[p] \in Accumulator
    BY <1>1 DEF Checkpoint, Snapshots
  <1>3. QED
    BY <1>1, <1>2, EmptyAccumulatorType DEF ResumedStates, Checkpoint
-----------------------------------------------------------------------------
(* Type correctness.  TypeOK is inductive; each action is a step. *)

LEMMA TypeInit == Init => TypeOK
  <1>1. EmptyLedger \in Ledger
    BY DEF EmptyLedger, Ledger
  <1>2. 0 \in 0 .. MaxInterruptions /\ 0 \in 0 .. MaxReruns
    BY ProtocolAssumption
  <1>3. QED
    BY <1>1, <1>2, NoCheckpointType, NoRunType DEF Init, TypeOK, Status, Failures

\* The three ways a pass ends leave values of the right types.
LEMMA FailTaskType ==
  ASSUME TypeOK, NEW why \in Failures, FailTask(why), UNCHANGED ledger
  PROVE  TypeOK'
  BY NoRunType DEF TypeOK, FailTask, Status, Finished

LEMMA EndCancelledType ==
  ASSUME TypeOK, EndCancelled, ledger' \in Ledger
  PROVE  TypeOK'
  BY NoRunType, RunningCheckpointType DEF TypeOK, EndCancelled, Status, Finished

LEMMA LedgerType ==
  ASSUME NEW l \in Ledger, NEW p \in Phase
  PROVE  /\ [l EXCEPT !.started = @ \cup {p}] \in Ledger
         /\ [l EXCEPT !.skipped = @ \cup {p}] \in Ledger
         /\ [l EXCEPT !.started = @ \cup {p}, !.completed = @ \cup {p}] \in Ledger
         /\ [l EXCEPT !.started = @ \cup {p}, !.failed = @ \cup {p}] \in Ledger
  BY DEF Ledger

LEMMA TypeStep == TypeOK /\ [Next]_vars => TypeOK'
  <1> SUFFICES ASSUME TypeOK, [Next]_vars
               PROVE  TypeOK'
    OBVIOUS
  <1>1. CASE Claim
    BY <1>1 DEF Claim, TypeOK, Status, Failures
  <1>2. CASE BeginPass
    <2>1. PICK acc \in ResumedStates(checkpoint) :
             run' = [at |-> "boundary", phase |-> 1,
                     kept |-> Kept(checkpoint), runPhases |-> Kept(checkpoint),
                     outOfOrder |-> FALSE, acc |-> acc,
                     snapshots |-> [p \in Phase |-> IF p \in Kept(checkpoint)
                                                    THEN checkpoint.snapshots[p]
                                                    ELSE EmptyAccumulator],
                     exhausted |-> FALSE, stopBefore |-> ~PastGate(checkpoint),
                     gateReached |-> checkpoint.gateReached,
                     guidance |-> ResumeGuidance(checkpoint)]
      BY <1>2 DEF BeginPass
    <2>2. acc \in Accumulator /\ Kept(checkpoint) \subseteq Phase
      BY ResumedStatesType DEF TypeOK
    <2>3. [p \in Phase |-> IF p \in Kept(checkpoint) THEN checkpoint.snapshots[p]
                                                     ELSE EmptyAccumulator] \in Snapshots
      BY EmptyAccumulatorType DEF TypeOK, Checkpoint, Snapshots
    <2>4. /\ PastGate(checkpoint) \in BOOLEAN
          /\ checkpoint.gateReached \in BOOLEAN
          /\ ResumeGuidance(checkpoint) \in Guidance \cup {NoGuidance}
      BY DEF TypeOK, Checkpoint, PastGate, ResumeGuidance
    <2>5. 1 \in 1 .. NPhases + 1
      BY ProtocolAssumption
    <2>6. run' \in Run
      BY <2>1, <2>2, <2>3, <2>4, <2>5 DEF Run
    <2>7. QED
      BY <1>2, <2>6 DEF BeginPass, TypeOK
  <1>3. CASE RejectPass
    BY <1>3, FailTaskType DEF RejectPass, Failures
  <1>4. CASE PassKept
    <2>1. run.phase \in Phase /\ run.phase + 1 \in 1 .. NPhases + 1
      BY <1>4, ProtocolAssumption DEF PassKept, AtPhase, Phase
    <2>2. run' \in Run
      BY <1>4, <2>1 DEF PassKept, TypeOK, Run
    <2>3. QED
      BY <1>4, <2>2 DEF PassKept, TypeOK
  <1>5. CASE StopAtBoundary
    BY <1>5, EndCancelledType DEF StopAtBoundary, TypeOK
  <1>6. CASE PassStopCheck
    BY <1>6 DEF PassStopCheck, TypeOK, Run
  <1>7. CASE HaltAtGate
    BY <1>7, RunningCheckpointType, NoRunType DEF HaltAtGate, TypeOK, Status
  <1>8. CASE SkipPhase
    <2>1. run.phase \in Phase
      BY <1>8 DEF SkipPhase, AtPhase
    <2>2. run' \in Run
      BY <1>8, <2>1, AfterSkipType DEF SkipPhase, TypeOK
    <2>3. ledger' \in Ledger
      BY <1>8, <2>1, LedgerType DEF SkipPhase, TypeOK
    <2>4. checkpoint' \in Checkpoint
      BY <1>8, <2>2, RunningCheckpointType DEF SkipPhase
    <2>5. QED
      BY <1>8, <2>2, <2>3, <2>4 DEF SkipPhase, TypeOK
  <1>9. CASE EnterPhase
    <2>1. PICK spent \in BOOLEAN :
             run' = [run EXCEPT !.at = "phase", !.exhausted = @ \/ spent]
      BY <1>9 DEF EnterPhase
    <2>2. run.exhausted \/ spent \in BOOLEAN
      OBVIOUS
    <2>3. run' \in Run
      BY <2>1, <2>2 DEF TypeOK, Run
    <2>4. QED
      BY <1>9, <2>3 DEF EnterPhase, TypeOK
  <1>10. CASE AuditCommit
    BY <1>10, LedgerType DEF AuditCommit, AtPhase, TypeOK
  <1>11. CASE CompletePhase
    <2>1. run.phase \in Phase
      BY <1>11 DEF CompletePhase, AtPhase
    <2>2. PICK gap \in BOOLEAN :
             run' = AfterPhase(run, run.phase,
                               [run.acc EXCEPT !.carried = @ \cup {run.phase},
                                               !.gaps = @ \/ gap])
      BY <1>11 DEF CompletePhase
    <2>3. [run.acc EXCEPT !.carried = @ \cup {run.phase}, !.gaps = @ \/ gap]
             \in Accumulator
      <3>1. run.acc \in Accumulator /\ (run.acc.gaps \/ gap) \in BOOLEAN
        BY DEF TypeOK, Run
      <3>2. QED
        BY <2>1, <3>1 DEF Accumulator
    <2>4. run' \in Run
      BY <2>1, <2>2, <2>3, AfterPhaseType DEF TypeOK
    <2>5. ledger' \in Ledger
      BY <1>11, <2>1, LedgerType DEF CompletePhase, TypeOK
    <2>6. checkpoint' \in Checkpoint
      BY <1>11, <2>4, RunningCheckpointType DEF CompletePhase
    <2>7. QED
      BY <1>11, <2>4, <2>5, <2>6 DEF CompletePhase, TypeOK
  <1>12. CASE ConflictingPhase
    BY <1>12, FailTaskType DEF ConflictingPhase, Failures
  <1>13. CASE FailPhase
    <2>1. run.phase \in Phase
      BY <1>13 DEF FailPhase, AtPhase
    <2>2. WithSlot(run.acc, run.phase, "round_failed") \in Accumulator
      BY <2>1, WithSlotType DEF TypeOK, Run
    <2>3. run' \in Run
      BY <1>13, <2>1, <2>2, AfterPhaseType DEF FailPhase, TypeOK
    <2>4. ledger' \in Ledger
      BY <1>13, <2>1, LedgerType DEF FailPhase, TypeOK
    <2>5. checkpoint' \in Checkpoint
      BY <1>13, <2>3, RunningCheckpointType DEF FailPhase
    <2>6. QED
      BY <1>13, <2>3, <2>4, <2>5 DEF FailPhase, TypeOK
  <1>14. CASE StopInPhase
    <2>1. ledger' \in Ledger
      BY <1>14, LedgerType DEF StopInPhase, AtPhase, TypeOK
    <2>2. QED
      BY <1>14, <2>1, EndCancelledType DEF StopInPhase
  <1>15. CASE FinishPass
    BY <1>15, RunningCheckpointType, NoRunType
       DEF FinishPass, TypeOK, Status, Finished
  <1>16. CASE Interrupt
    BY <1>16, NoRunType, ProtocolAssumption DEF Interrupt, TypeOK, Status
  <1>17. CASE Abort
    BY <1>17, FailTaskType DEF Abort, Failures
  <1>18. CASE RequestStop
    BY <1>18 DEF RequestStop, TypeOK, Status, Finished
  <1>19. CASE SubmitGuidance
    BY <1>19 DEF SubmitGuidance, TypeOK, Status, Checkpoint
  <1>20. CASE ExpireGate
    BY <1>20 DEF ExpireGate, TypeOK, Status
  <1>21. CASE ReResearch
    <2>1. PICK first \in Phase :
             checkpoint' = [checkpoint EXCEPT !.restartFrom = first]
      BY <1>21 DEF ReResearch
    <2>2. checkpoint' \in Checkpoint
      BY <2>1, ProtocolAssumption DEF TypeOK, Checkpoint, Phase
    <2>3. reruns' \in 0 .. MaxReruns
      BY <1>21, ProtocolAssumption DEF ReResearch, TypeOK
    <2>4. QED
      BY <1>21, <2>2, <2>3 DEF ReResearch, TypeOK, Status
  <1>22. CASE UNCHANGED vars
    BY <1>22 DEF vars, TypeOK
  <1>23. QED
    BY <1>1, <1>2, <1>3, <1>4, <1>5, <1>6, <1>7, <1>8, <1>9, <1>10, <1>11,
       <1>12, <1>13, <1>14, <1>15, <1>16, <1>17, <1>18, <1>19, <1>20, <1>21,
       <1>22 DEF Next, Pass

\* Every variable always holds a value of its type.
THEOREM TypeCorrect == Spec => []TypeOK
  <1>1. QED
    BY TypeInit, TypeStep, PTL DEF Spec
-----------------------------------------------------------------------------
(***************************************************************************)
(* The gate.  The program never stores "this task was parked"; it infers it *)
(* from gate_reached and from joint modeling being among run_phases.  The   *)
(* strengthening says that every place that could make a pass believe it is *)
(* past the gate -- the checkpoint, the pass, the ledger -- is one that only *)
(* a parked task can have got into.                                         *)
(***************************************************************************)
GateInv ==
    /\ PastGate(checkpoint) => gateOffered
    /\ run.at # "none" => run.stopBefore \/ gateOffered
    /\ run.gateReached \/ JointModeling \in run.runPhases => gateOffered
    /\ GateNotBypassed

LEMMA GateInit == Init => GateInv
  <1>1. JointModeling \notin {}
    OBVIOUS
  <1>2. QED
    BY <1>1 DEF Init, GateInv, GateNotBypassed, PastGate, NoCheckpoint, NoRun,
                EmptyLedger

\* What the checkpoints a pass writes say about the gate.
LEMMA GateOfCheckpoints ==
  ASSUME NEW r
  PROVE  /\ PastGate(RunningCheckpoint(r)) <=>
               (r.gateReached \/ JointModeling \in r.runPhases)
         /\ PastGate(StoppedCheckpoint(r)) => JointModeling \in r.runPhases
  BY DEF PastGate, RunningCheckpoint, StoppedCheckpoint

LEMMA GateStep == TypeOK /\ GateInv /\ [Next]_vars => GateInv'
  <1> SUFFICES ASSUME TypeOK, GateInv, [Next]_vars
               PROVE  GateInv'
    OBVIOUS
  <1> USE DEF GateInv, GateNotBypassed
  <1>1. CASE Claim
    BY <1>1 DEF Claim, PastGate
  <1>2. CASE BeginPass
    <2>1. /\ run'.at = "boundary"
          /\ run'.runPhases = Kept(checkpoint)
          /\ run'.gateReached = checkpoint.gateReached
          /\ run'.stopBefore = ~PastGate(checkpoint)
      BY <1>2 DEF BeginPass
    <2>2. Kept(checkpoint) \subseteq checkpoint.runPhases
      BY ResumedStatesType DEF TypeOK
    <2>3. QED
      BY <1>2, <2>1, <2>2 DEF BeginPass, PastGate
  <1>3. CASE RejectPass
    BY <1>3 DEF RejectPass, FailTask, NoRun, PastGate
  <1>4. CASE PassKept
    BY <1>4 DEF PassKept, AtPhase, PastGate, TypeOK, Run
  <1>5. CASE StopAtBoundary
    BY <1>5, GateOfCheckpoints DEF StopAtBoundary, EndCancelled, NoRun
  <1>6. CASE PassStopCheck
    BY <1>6 DEF PassStopCheck, AtPhase, PastGate, TypeOK, Run
  <1>7. CASE HaltAtGate
    BY <1>7 DEF HaltAtGate, NoRun
  <1>8. CASE SkipPhase
    <2>1. /\ run'.at = "boundary"
          /\ run'.runPhases = run.runPhases
          /\ run'.gateReached = run.gateReached
          /\ run'.stopBefore = run.stopBefore
      BY <1>8 DEF SkipPhase, AfterSkip, TypeOK, Run
    <2>2. /\ ledger'.started = ledger.started
          /\ ledger'.completed = ledger.completed
          /\ ledger'.failed = ledger.failed
      BY <1>8 DEF SkipPhase, TypeOK, Ledger
    <2>3. QED
      BY <1>8, <2>1, <2>2, GateOfCheckpoints DEF SkipPhase, AtPhase
  <1>9. CASE EnterPhase
    <2>1. /\ run'.runPhases = run.runPhases
          /\ run'.gateReached = run.gateReached
          /\ run'.stopBefore = run.stopBefore
          /\ run'.phase = run.phase
      BY <1>9 DEF EnterPhase, TypeOK, Run
    \* The one way into joint modeling of a pass that should halt before it
    \* would be an exhausted budget, and then the phase is skipped.
    <2>2. run.phase = JointModeling => gateOffered
      BY <1>9, ProtocolAssumption DEF EnterPhase, AtPhase, AtGate
    <2>3. QED
      BY <1>9, <2>1, <2>2 DEF EnterPhase, AtPhase, PastGate
  <1>10. CASE AuditCommit
    <2>1. /\ ledger'.started = ledger.started \cup {run.phase}
          /\ ledger'.completed = ledger.completed
          /\ ledger'.failed = ledger.failed
      BY <1>10 DEF AuditCommit, TypeOK, Ledger
    <2>2. QED
      BY <1>10, <2>1 DEF AuditCommit, AtPhase, PastGate
  <1>11. CASE CompletePhase
    <2>1. PICK acc : run' = AfterPhase(run, run.phase, acc)
      BY <1>11 DEF CompletePhase
    <2>2. /\ run'.at = "boundary"
          /\ run'.runPhases = run.runPhases \cup {run.phase}
          /\ run'.gateReached = run.gateReached
          /\ run'.stopBefore = run.stopBefore
      BY <2>1 DEF AfterPhase, TypeOK, Run
    <2>3. /\ ledger'.started = ledger.started \cup {run.phase}
          /\ ledger'.completed = ledger.completed \cup {run.phase}
          /\ ledger'.failed = ledger.failed
      BY <1>11 DEF CompletePhase, TypeOK, Ledger
    <2>4. QED
      BY <1>11, <2>2, <2>3, GateOfCheckpoints DEF CompletePhase, AtPhase
  <1>12. CASE ConflictingPhase
    BY <1>12 DEF ConflictingPhase, FailTask, NoRun, PastGate
  <1>13. CASE FailPhase
    <2>1. /\ run'.at = "boundary"
          /\ run'.runPhases = run.runPhases \cup {run.phase}
          /\ run'.gateReached = run.gateReached
          /\ run'.stopBefore = run.stopBefore
      BY <1>13 DEF FailPhase, AfterPhase, TypeOK, Run
    <2>2. /\ ledger'.started = ledger.started \cup {run.phase}
          /\ ledger'.completed = ledger.completed
          /\ ledger'.failed = ledger.failed \cup {run.phase}
      BY <1>13 DEF FailPhase, TypeOK, Ledger
    <2>3. QED
      BY <1>13, <2>1, <2>2, GateOfCheckpoints DEF FailPhase, AtPhase
  <1>14. CASE StopInPhase
    <2>1. /\ ledger'.started = ledger.started \cup {run.phase}
          /\ ledger'.completed = ledger.completed
          /\ ledger'.failed = ledger.failed
      BY <1>14 DEF StopInPhase, TypeOK, Ledger
    <2>2. QED
      BY <1>14, <2>1, GateOfCheckpoints DEF StopInPhase, AtPhase, EndCancelled, NoRun
  <1>15. CASE FinishPass
    BY <1>15, GateOfCheckpoints DEF FinishPass, NoRun
  <1>16. CASE Interrupt
    BY <1>16 DEF Interrupt, NoRun, PastGate
  <1>17. CASE Abort
    BY <1>17 DEF Abort, FailTask, NoRun, PastGate
  <1>18. CASE RequestStop
    BY <1>18 DEF RequestStop, PastGate
  <1>19. CASE SubmitGuidance
    BY <1>19 DEF SubmitGuidance, PastGate, TypeOK, Checkpoint
  <1>20. CASE ExpireGate
    BY <1>20 DEF ExpireGate, PastGate
  <1>21. CASE ReResearch
    <2>1. /\ checkpoint'.gateReached = checkpoint.gateReached
          /\ checkpoint'.runPhases = checkpoint.runPhases
      BY <1>21 DEF ReResearch, TypeOK, Checkpoint
    <2>2. QED
      BY <1>21, <2>1 DEF ReResearch, PastGate
  <1>22. CASE UNCHANGED vars
    BY <1>22 DEF vars, PastGate
  <1>23. QED
    BY <1>1, <1>2, <1>3, <1>4, <1>5, <1>6, <1>7, <1>8, <1>9, <1>10, <1>11,
       <1>12, <1>13, <1>14, <1>15, <1>16, <1>17, <1>18, <1>19, <1>20, <1>21,
       <1>22 DEF Next, Pass

\* No pass starts joint modeling on a task that was never parked at the gate.
THEOREM GateIsOffered == Spec => []GateNotBypassed
  <1>1. Spec => []GateInv
    BY GateInit, GateStep, TypeCorrect, PTL DEF Spec
  <1>2. GateInv => GateNotBypassed
    BY DEF GateInv
  <1>3. QED
    BY <1>1, <1>2, PTL
-----------------------------------------------------------------------------
(***************************************************************************)
(* The checkpoint and the ledger.  An accumulator accounts for a phase by   *)
(* its carry or by a slot.  CpInv(cp, l) says that the pass cp could start  *)
(* stands where the ledger l stands: what cp accounts for is on l, what l   *)
(* holds for good is among cp's phases, with its carry, and -- when the     *)
(* state machine would accept the replay of cp -- each snapshot is itself a *)
(* place to start from.  The last part is what makes a rewind safe, and it  *)
(* only survives passes that append their phases in order.                  *)
(***************************************************************************)
FailedIn(acc) == {p \in Phase : [phase |-> p, kind |-> "round_failed"] \in acc.slots}

SkippedIn(acc) == {p \in Phase : [phase |-> p, kind |-> "not_reached"] \in acc.slots}

Accounted(acc) == acc.carried \cup FailedIn(acc) \cup SkippedIn(acc)

Within(a, b) == a.carried \subseteq b.carried /\ a.slots \subseteq b.slots

\* The phases whose events are committed and that were never skipped.
Lasting(l) == l.completed \ l.skipped

AccountInv(phases, acc, l) ==
    /\ acc.carried \subseteq l.completed
    /\ FailedIn(acc) \subseteq l.failed
    /\ SkippedIn(acc) \subseteq l.skipped
    /\ phases \subseteq Accounted(acc)
    /\ Lasting(l) \subseteq phases
    /\ Lasting(l) \subseteq acc.carried

Layered(phases, snapshots) ==
    \A q, r \in phases :
       q <= r => Within(snapshots[q], snapshots[r]) /\ q \in Accounted(snapshots[r])

ReplayInv(phases, acc, snapshots, l) ==
    /\ FailedIn(acc) \subseteq phases
    /\ FailedIn(acc) \cap Lasting(l) = {}
    /\ \A r \in phases : Within(snapshots[r], acc)
    /\ \A r \in phases : \A p \in FailedIn(snapshots[r]) : p <= r
    /\ Layered(phases, snapshots)

CpInv(cp, l) ==
    /\ AccountInv(cp.runPhases, cp.acc, l)
    /\ CanFastForward(cp) => ReplayInv(cp.runPhases, cp.acc, cp.snapshots, l)

\* A larger accumulator accounts for more.
LEMMA WithinGrows ==
  ASSUME NEW a, NEW b, Within(a, b)
  PROVE  /\ FailedIn(a) \subseteq FailedIn(b)
         /\ SkippedIn(a) \subseteq SkippedIn(b)
         /\ Accounted(a) \subseteq Accounted(b)
  BY DEF Within, FailedIn, SkippedIn, Accounted

LEMMA WithinIsTransitive ==
  ASSUME NEW a, NEW b, NEW c, Within(a, b), Within(b, c)
  PROVE  Within(a, c)
  BY DEF Within

LEMMA WithinIsReflexive ==
  ASSUME NEW a
  PROVE  Within(a, a)
  BY DEF Within

\* The slots of an accumulator are its failed and its skipped phases.
LEMMA SlotsAreFailedOrSkipped ==
  ASSUME NEW acc \in Accumulator
  PROVE  {s.phase : s \in acc.slots} = FailedIn(acc) \cup SkippedIn(acc)
  <1>1. \A s \in acc.slots : s \in Slot
    BY DEF Accumulator
  <1>2. \A s \in acc.slots :
           /\ s = [phase |-> s.phase, kind |-> s.kind]
           /\ s.phase \in Phase
           /\ s.kind = "round_failed" \/ s.kind = "not_reached"
    BY <1>1 DEF Slot
  <1>3. ASSUME NEW s \in acc.slots
        PROVE  s.phase \in FailedIn(acc) \cup SkippedIn(acc)
    <2>1. CASE s.kind = "round_failed"
      BY <1>2, <2>1 DEF FailedIn
    <2>2. CASE s.kind = "not_reached"
      BY <1>2, <2>2 DEF SkippedIn
    <2>3. QED
      BY <1>2, <2>1, <2>2
  <1>4. ASSUME NEW p \in FailedIn(acc) \cup SkippedIn(acc)
        PROVE  \E s \in acc.slots : s.phase = p
    <2>1. CASE p \in FailedIn(acc)
      BY <2>1 DEF FailedIn
    <2>2. CASE p \in SkippedIn(acc)
      BY <2>2 DEF SkippedIn
    <2>3. QED
      BY <2>1, <2>2
  <1>5. QED
    BY <1>3, <1>4

\* What a slot adds.
LEMMA WithSlotAccounts ==
  ASSUME NEW acc \in Accumulator, NEW p \in Phase
  PROVE  /\ Within(acc, WithSlot(acc, p, "round_failed"))
         /\ WithSlot(acc, p, "round_failed").carried = acc.carried
         /\ FailedIn(WithSlot(acc, p, "round_failed")) = FailedIn(acc) \cup {p}
         /\ SkippedIn(WithSlot(acc, p, "round_failed")) = SkippedIn(acc)
         /\ Within(acc, WithSlot(acc, p, "not_reached"))
         /\ WithSlot(acc, p, "not_reached").carried = acc.carried
         /\ FailedIn(WithSlot(acc, p, "not_reached")) = FailedIn(acc)
         /\ SkippedIn(WithSlot(acc, p, "not_reached")) = SkippedIn(acc) \cup {p}
  <1>1. \A why \in {"round_failed", "not_reached"} :
           /\ WithSlot(acc, p, why).slots = acc.slots \cup {[phase |-> p, kind |-> why]}
           /\ WithSlot(acc, p, why).carried = acc.carried
    BY DEF WithSlot, Accumulator
  <1>2. \A q, why, other :
           [phase |-> q, kind |-> why] = [phase |-> p, kind |-> other] <=>
              q = p /\ why = other
    OBVIOUS
  <1>3. "round_failed" # "not_reached"
    OBVIOUS
  <1>4. /\ Within(acc, WithSlot(acc, p, "round_failed"))
        /\ Within(acc, WithSlot(acc, p, "not_reached"))
    BY <1>1 DEF Within
  <1>5. /\ FailedIn(WithSlot(acc, p, "round_failed")) = FailedIn(acc) \cup {p}
        /\ SkippedIn(WithSlot(acc, p, "round_failed")) = SkippedIn(acc)
    BY <1>1, <1>2, <1>3 DEF FailedIn, SkippedIn
  <1>6. /\ FailedIn(WithSlot(acc, p, "not_reached")) = FailedIn(acc)
        /\ SkippedIn(WithSlot(acc, p, "not_reached")) = SkippedIn(acc) \cup {p}
    BY <1>1, <1>2, <1>3 DEF FailedIn, SkippedIn
  <1>7. QED
    BY <1>1, <1>4, <1>5, <1>6

\* A pass that resumes stands where its checkpoint stands, also after a rewind.
LEMMA ResumeKeepsTheLedger ==
  ASSUME NEW cp \in Checkpoint, NEW l \in Ledger, CpInv(cp, l), CanFastForward(cp),
         NEW acc \in ResumedStates(cp), NEW snapshots,
         \A p \in Kept(cp) : snapshots[p] = cp.snapshots[p]
  PROVE  /\ AccountInv(Kept(cp), acc, l)
         /\ (\A p \in Kept(cp) : 1 .. p \subseteq Kept(cp)) =>
               ReplayInv(Kept(cp), acc, snapshots, l)
         /\ \A p \in FailedIn(acc) : \E q \in Kept(cp) : p <= q
  <1> DEFINE K == Kept(cp)
  <1>1. /\ K \subseteq cp.runPhases
        /\ K \subseteq Phase
        /\ acc \in Accumulator
        /\ cp.acc \in Accumulator
        /\ FailedPhases(cp) = FailedIn(cp.acc) \cup SkippedIn(cp.acc)
    BY ResumedStatesType, SlotsAreFailedOrSkipped DEF FailedPhases, Checkpoint
  <1>2. /\ AccountInv(cp.runPhases, cp.acc, l)
        /\ ReplayInv(cp.runPhases, cp.acc, cp.snapshots, l)
    BY DEF CpInv
  <1>3. Lasting(l) \subseteq K
    <2>1. SUFFICES ASSUME NEW p \in Lasting(l) PROVE p \in K
      OBVIOUS
    <2>2. p \in cp.runPhases /\ p \notin FailedPhases(cp)
      BY <1>1, <1>2 DEF AccountInv, ReplayInv, Lasting
    <2>3. QED
      BY <2>2 DEF Kept, Checkpoint
  <1>4. Layered(K, snapshots) /\ \A r \in K : \A p \in FailedIn(snapshots[r]) : p <= r
    BY <1>1, <1>2 DEF Layered, ReplayInv
  <1>5. CASE cp.restartFrom = 0
    <2>1. acc = cp.acc /\ K = cp.runPhases
      BY <1>5 DEF ResumedStates, Kept
    <2>2. ReplayInv(K, acc, snapshots, l)
      BY <1>2, <1>4, <2>1 DEF ReplayInv
    <2>3. \A p \in FailedIn(acc) : \E q \in K : p <= q
      BY <2>2 DEF ReplayInv, FailedIn, Phase
    <2>4. QED
      BY <1>2, <2>1, <2>2, <2>3
  <1>6. CASE cp.restartFrom # 0 /\ K = {}
    <2>1. acc = EmptyAccumulator
      BY <1>6 DEF ResumedStates
    <2>2. acc.carried = {} /\ FailedIn(acc) = {} /\ SkippedIn(acc) = {}
      BY <2>1 DEF EmptyAccumulator, FailedIn, SkippedIn
    <2>3. AccountInv(K, acc, l)
      BY <1>3, <1>6, <2>2 DEF AccountInv
    <2>4. ReplayInv(K, acc, snapshots, l)
      BY <1>6, <2>2 DEF ReplayInv, Layered
    <2>5. QED
      BY <2>2, <2>3, <2>4
  <1>7. CASE cp.restartFrom # 0 /\ K # {}
    <2>1. PICK last \in K : acc = cp.snapshots[last] /\ \A r \in K : r <= last
      BY <1>7 DEF ResumedStates
    <2>2. /\ Within(acc, cp.acc)
          /\ \A p \in FailedIn(acc) : p <= last
          /\ \A r \in K : Within(snapshots[r], acc) /\ r \in Accounted(acc)
      BY <1>1, <1>2, <2>1 DEF ReplayInv, Layered
    <2>3. /\ acc.carried \subseteq cp.acc.carried
          /\ FailedIn(acc) \subseteq FailedIn(cp.acc)
          /\ SkippedIn(acc) \subseteq SkippedIn(cp.acc)
      BY <2>2, WithinGrows DEF Within
    <2>4. Lasting(l) \subseteq acc.carried
      <3>1. SUFFICES ASSUME NEW p \in Lasting(l) PROVE p \in acc.carried
        OBVIOUS
      <3>2. p \in Accounted(acc)
        BY <1>3, <2>2
      <3>3. p \notin FailedIn(cp.acc) /\ p \notin SkippedIn(cp.acc)
        BY <1>2 DEF ReplayInv, AccountInv, Lasting
      <3>4. QED
        BY <2>3, <3>2, <3>3 DEF Accounted
    <2>5. AccountInv(K, acc, l)
      BY <1>2, <1>3, <2>2, <2>3, <2>4 DEF AccountInv
    <2>6. ASSUME \A p \in K : 1 .. p \subseteq K
          PROVE  ReplayInv(K, acc, snapshots, l)
      <3>1. FailedIn(acc) \subseteq K
        <4>1. SUFFICES ASSUME NEW p \in FailedIn(acc) PROVE p \in K
          OBVIOUS
        <4>2. p \in 1 .. last
          BY <1>1, <2>1, <2>2, ProtocolAssumption DEF FailedIn, Phase
        <4>3. QED
          BY <2>1, <2>6, <4>2
      <3>2. FailedIn(acc) \cap Lasting(l) = {}
        BY <1>2, <2>3 DEF ReplayInv
      <3>3. QED
        BY <1>4, <2>2, <3>1, <3>2 DEF ReplayInv
    <2>7. QED
      BY <2>1, <2>2, <2>5, <2>6
  <1>8. QED
    BY <1>5, <1>6, <1>7

\* A phase that is not among the pass's phases and is appended in order is the
\* one after them.
LEMMA AppendedInOrder ==
  ASSUME NEW r \in Run, NEW p \in Phase, p \notin r.runPhases, NEW acc,
         CanFastForward(RunningCheckpoint(AfterPhase(r, p, acc)))
  PROVE  /\ CanFastForward(RunningCheckpoint(r))
         /\ r.runPhases = 1 .. p - 1
  <1>1. /\ r.runPhases \subseteq Phase
        /\ AfterPhase(r, p, acc).runPhases = r.runPhases \cup {p}
        /\ AfterPhase(r, p, acc).outOfOrder = (r.outOfOrder \/ \E q \in r.runPhases : q > p)
    BY DEF AfterPhase, Run
  <1>2. /\ ~r.outOfOrder
        /\ \A q \in r.runPhases : ~(q > p)
        /\ \A q \in r.runPhases \cup {p} : 1 .. q \subseteq r.runPhases \cup {p}
    BY <1>1 DEF CanFastForward, RunningCheckpoint
  <1>3. \A q \in r.runPhases : q \in 1 .. p - 1
    BY <1>1, <1>2, ProtocolAssumption DEF Phase
  <1>4. \A q \in 1 .. p - 1 : q \in 1 .. p /\ q # p
    BY ProtocolAssumption DEF Phase
  <1>5. r.runPhases = 1 .. p - 1
    BY <1>2, <1>3, <1>4
  <1>6. \A q \in r.runPhases : 1 .. q \subseteq r.runPhases
    BY <1>5, ProtocolAssumption DEF Phase
  <1>7. QED
    BY <1>2, <1>5, <1>6 DEF CanFastForward, RunningCheckpoint

\* A phase that executed: `acc' is what it left behind and `m' the ledger with
\* its events.
LEMMA AfterPhaseKeepsTheLedger ==
  ASSUME NEW r \in Run, NEW p \in Phase, p \notin r.runPhases,
         NEW l \in Ledger, NEW m \in Ledger, NEW acc \in Accumulator,
         CpInv(RunningCheckpoint(r), l),
         \A q \in FailedIn(r.acc) : \E s \in r.runPhases : q <= s,
         AccountInv(r.runPhases \cup {p}, acc, m),
         Within(r.acc, acc),
         FailedIn(acc) \subseteq FailedIn(r.acc) \cup {p},
         Lasting(m) \subseteq Lasting(l) \cup {p},
         p \in FailedIn(acc) => p \in FailedIn(r.acc) \/ p \notin Lasting(m)
  PROVE  /\ CpInv(RunningCheckpoint(AfterPhase(r, p, acc)), m)
         /\ \A q \in FailedIn(acc) : \E s \in r.runPhases \cup {p} : q <= s
  <1> DEFINE R == r.runPhases
             after == AfterPhase(r, p, acc)
             snaps == [r.snapshots EXCEPT ![p] = acc]
  <1>1. /\ R \subseteq Phase
        /\ after.runPhases = R \cup {p}
        /\ after.acc = acc
        /\ after.snapshots = snaps
    BY DEF AfterPhase, Run
  <1>2. /\ snaps[p] = acc
        /\ \A q \in R : snaps[q] = r.snapshots[q]
    BY <1>1 DEF Run, Snapshots
  <1>3. \A q \in FailedIn(acc) : \E s \in R \cup {p} : q <= s
    BY ProtocolAssumption DEF Phase
  <1>4. ASSUME CanFastForward(RunningCheckpoint(after))
        PROVE  ReplayInv(R \cup {p}, acc, snaps, m)
    <2>1. CanFastForward(RunningCheckpoint(r)) /\ R = 1 .. p - 1
      BY <1>4, AppendedInOrder
    <2>2. ReplayInv(R, r.acc, r.snapshots, l) /\ AccountInv(R, r.acc, l)
      BY <2>1 DEF CpInv, RunningCheckpoint
    <2>3. \A q \in R : q <= p /\ ~(p <= q)
      BY <2>1, ProtocolAssumption DEF Phase
    <2>4. p \notin FailedIn(r.acc)
      BY <2>2 DEF ReplayInv
    <2>5. FailedIn(acc) \subseteq R \cup {p}
      BY <2>2 DEF ReplayInv
    <2>6. FailedIn(acc) \cap Lasting(m) = {}
      BY <2>2, <2>4 DEF ReplayInv
    <2>7. \A q \in R : Within(snaps[q], acc)
      BY <1>2, <2>2, WithinIsTransitive DEF ReplayInv
    <2>8. \A q \in R \cup {p} : Within(snaps[q], acc)
      BY <1>2, <2>7, WithinIsReflexive
    <2>9. \A q \in R \cup {p} : \A f \in FailedIn(snaps[q]) : f <= q
      BY <1>2, <2>2, <2>3, <2>5, ProtocolAssumption DEF ReplayInv, Phase
    <2>10. \A q \in R \cup {p} : q \in Accounted(acc)
      BY DEF AccountInv
    <2>11. Layered(R \cup {p}, snaps)
      BY <1>2, <2>2, <2>3, <2>8, <2>10 DEF ReplayInv, Layered
    <2>12. QED
      BY <2>5, <2>6, <2>8, <2>9, <2>11 DEF ReplayInv
  <1>5. QED
    BY <1>1, <1>3, <1>4 DEF CpInv, RunningCheckpoint

\* A phase that completed, failed or was skipped.
LEMMA CompletedPhaseOnTheLedger ==
  ASSUME NEW r \in Run, NEW p \in Phase, p \notin r.runPhases, NEW l \in Ledger,
         NEW m \in Ledger, NEW acc \in Accumulator,
         CpInv(RunningCheckpoint(r), l),
         \A q \in FailedIn(r.acc) : \E s \in r.runPhases : q <= s,
         m.completed = l.completed \cup {p},
         m.failed = l.failed,
         m.skipped = l.skipped,
         acc.carried = r.acc.carried \cup {p},
         acc.slots = r.acc.slots
  PROVE  /\ CpInv(RunningCheckpoint(AfterPhase(r, p, acc)), m)
         /\ \A q \in FailedIn(acc) : \E s \in r.runPhases \cup {p} : q <= s
  <1>1. /\ FailedIn(acc) = FailedIn(r.acc)
        /\ SkippedIn(acc) = SkippedIn(r.acc)
        /\ Within(r.acc, acc)
    BY DEF FailedIn, SkippedIn, Within
  <1>2. AccountInv(r.runPhases, r.acc, l)
    BY DEF CpInv, RunningCheckpoint
  <1>3. AccountInv(r.runPhases \cup {p}, acc, m)
    BY <1>1, <1>2 DEF AccountInv, Accounted, Lasting
  <1>4. QED
    BY <1>1, <1>3, AfterPhaseKeepsTheLedger DEF Lasting

LEMMA FailedPhaseOnTheLedger ==
  ASSUME NEW r \in Run, NEW p \in Phase, p \notin r.runPhases, NEW l \in Ledger,
         NEW m \in Ledger,
         CpInv(RunningCheckpoint(r), l),
         \A q \in FailedIn(r.acc) : \E s \in r.runPhases : q <= s,
         m.completed = l.completed,
         m.failed = l.failed \cup {p},
         m.skipped = l.skipped
  PROVE  LET acc == WithSlot(r.acc, p, "round_failed")
         IN  /\ CpInv(RunningCheckpoint(AfterPhase(r, p, acc)), m)
             /\ \A q \in FailedIn(acc) : \E s \in r.runPhases \cup {p} : q <= s
  <1> DEFINE acc == WithSlot(r.acc, p, "round_failed")
  <1>1. r.acc \in Accumulator
    BY DEF Run
  <1>2. /\ acc \in Accumulator
        /\ Within(r.acc, acc)
        /\ acc.carried = r.acc.carried
        /\ FailedIn(acc) = FailedIn(r.acc) \cup {p}
        /\ SkippedIn(acc) = SkippedIn(r.acc)
    BY <1>1, WithSlotType, WithSlotAccounts
  <1> HIDE DEF acc
  <1>3. AccountInv(r.runPhases, r.acc, l)
    BY DEF CpInv, RunningCheckpoint
  <1>4. p \notin Lasting(m)
    BY <1>3 DEF AccountInv, Lasting
  <1>5. AccountInv(r.runPhases \cup {p}, acc, m)
    BY <1>2, <1>3 DEF AccountInv, Accounted, Lasting
  <1>6. /\ CpInv(RunningCheckpoint(AfterPhase(r, p, acc)), m)
        /\ \A q \in FailedIn(acc) : \E s \in r.runPhases \cup {p} : q <= s
    BY <1>2, <1>4, <1>5, AfterPhaseKeepsTheLedger DEF Lasting
  <1>7. QED
    BY <1>6 DEF acc

LEMMA SkippedPhaseOnTheLedger ==
  ASSUME NEW r \in Run, NEW p \in Phase, NEW l \in Ledger, NEW m \in Ledger,
         CpInv(RunningCheckpoint(r), l),
         m.completed = l.completed,
         m.failed = l.failed,
         m.skipped = l.skipped \cup {p}
  PROVE  CpInv(RunningCheckpoint(AfterSkip(r, p)), m)
  <1> DEFINE acc == WithSlot(r.acc, p, "not_reached")
  <1>1. r.acc \in Accumulator
    BY DEF Run
  <1>2. /\ Within(r.acc, acc)
        /\ acc.carried = r.acc.carried
        /\ FailedIn(acc) = FailedIn(r.acc)
        /\ SkippedIn(acc) = SkippedIn(r.acc) \cup {p}
    BY <1>1, WithSlotAccounts
  <1>3. /\ AfterSkip(r, p).acc = acc
        /\ AfterSkip(r, p).runPhases = r.runPhases
        /\ AfterSkip(r, p).outOfOrder = r.outOfOrder
        /\ AfterSkip(r, p).snapshots = r.snapshots
    BY DEF AfterSkip, Run
  <1> HIDE DEF acc
  <1>4. AccountInv(r.runPhases, acc, m)
    BY <1>2 DEF CpInv, RunningCheckpoint, AccountInv, Accounted, Lasting
  <1>5. ASSUME ReplayInv(r.runPhases, r.acc, r.snapshots, l)
        PROVE  ReplayInv(r.runPhases, acc, r.snapshots, m)
    <2>1. \A q \in r.runPhases : Within(r.snapshots[q], acc)
      BY <1>2, <1>5, WithinIsTransitive DEF ReplayInv
    <2>2. Lasting(m) \subseteq Lasting(l)
      BY DEF Lasting
    <2>3. QED
      BY <1>2, <1>5, <2>1, <2>2 DEF ReplayInv
  <1>6. QED
    BY <1>3, <1>4, <1>5 DEF CpInv, RunningCheckpoint, CanFastForward

\* CpInv looks at these fields of a checkpoint and of the ledger only.
LEMMA CpInvDependsOn ==
  ASSUME NEW cp, NEW dp, NEW l, NEW m, CpInv(cp, l),
         dp.runPhases = cp.runPhases,
         dp.outOfOrder = cp.outOfOrder,
         dp.acc = cp.acc,
         dp.snapshots = cp.snapshots,
         m.completed = l.completed,
         m.failed = l.failed,
         m.skipped = l.skipped
  PROVE  CpInv(dp, m)
  BY DEF CpInv, AccountInv, ReplayInv, CanFastForward, Lasting

LEMMA PassCheckpoints ==
  ASSUME NEW r, NEW l, CpInv(RunningCheckpoint(r), l)
  PROVE  /\ CpInv(StoppedCheckpoint(r), l)
         /\ CpInv(GateCheckpoint(r), l)
  <1>1. /\ RunningCheckpoint(r).runPhases = r.runPhases
        /\ RunningCheckpoint(r).outOfOrder = r.outOfOrder
        /\ RunningCheckpoint(r).acc = r.acc
        /\ RunningCheckpoint(r).snapshots = r.snapshots
    BY DEF RunningCheckpoint
  <1>2. /\ StoppedCheckpoint(r).runPhases = r.runPhases
        /\ StoppedCheckpoint(r).outOfOrder = r.outOfOrder
        /\ StoppedCheckpoint(r).acc = r.acc
        /\ StoppedCheckpoint(r).snapshots = r.snapshots
    BY DEF StoppedCheckpoint, RunningCheckpoint
  <1>3. /\ GateCheckpoint(r).runPhases = r.runPhases
        /\ GateCheckpoint(r).outOfOrder = r.outOfOrder
        /\ GateCheckpoint(r).acc = r.acc
        /\ GateCheckpoint(r).snapshots = r.snapshots
    BY DEF GateCheckpoint, RunningCheckpoint
  <1>4. CpInv(StoppedCheckpoint(r), l)
    BY <1>1, <1>2, CpInvDependsOn
  <1>5. CpInv(GateCheckpoint(r), l)
    BY <1>1, <1>3, CpInvDependsOn
  <1>6. QED
    BY <1>4, <1>5
-----------------------------------------------------------------------------
(* The inductive invariant: the stored checkpoint and the pass in progress both *)
(* stand where the ledger stands, and the pass has accounted for every phase    *)
(* its loop has left behind.                                                    *)

RunInv ==
    run.at # "none" =>
       /\ status = "RUNNING"
       /\ CpInv(RunningCheckpoint(run), ledger)
       /\ \A p \in FailedIn(run.acc) : \E q \in run.runPhases : p <= q
       /\ run.kept \subseteq run.runPhases
       /\ \A p \in run.runPhases : p \in run.kept \/ p < run.phase
       /\ run.at \in {"checked", "phase"} => run.phase \in Phase \ run.kept
       /\ \A p \in Phase : p < run.phase => p \in Accounted(run.acc)

LedgerInv ==
    /\ CpInv(checkpoint, ledger)
    /\ RunInv
    /\ CompletionIsHonest

LEMMA LedgerInit == Init => LedgerInv
  <1> SUFFICES ASSUME Init PROVE LedgerInv
    OBVIOUS
  <1>1. /\ FailedIn(EmptyAccumulator) = {}
        /\ SkippedIn(EmptyAccumulator) = {}
    BY DEF FailedIn, SkippedIn, EmptyAccumulator
  <1>2. CpInv(NoCheckpoint, EmptyLedger)
    BY <1>1 DEF NoCheckpoint, CpInv, AccountInv, ReplayInv, Layered, Lasting,
                EmptyLedger, EmptyAccumulator
  <1>3. QED
    BY <1>2 DEF Init, LedgerInv, RunInv, NoRun, CompletionIsHonest

\* A pass that is over leaves nothing but its checkpoint.
LEMMA PassEnds ==
  ASSUME LedgerInv, run' = NoRun, CpInv(checkpoint, ledger)', CompletionIsHonest'
  PROVE  LedgerInv'
  BY DEF LedgerInv, RunInv, NoRun

LEMMA FailTaskKeepsTheLedger ==
  ASSUME LedgerInv, NEW why, FailTask(why), UNCHANGED ledger
  PROVE  LedgerInv'
  <1>1. CompletionIsHonest'
    BY DEF FailTask, CompletionIsHonest
  <1>2. QED
    BY <1>1, PassEnds DEF FailTask, LedgerInv

LEMMA EndCancelledKeepsTheLedger ==
  ASSUME LedgerInv, run.at # "none", EndCancelled,
         ledger'.completed = ledger.completed,
         ledger'.failed = ledger.failed,
         ledger'.skipped = ledger.skipped
  PROVE  LedgerInv'
  <1>1. CpInv(StoppedCheckpoint(run), ledger)
    BY PassCheckpoints DEF LedgerInv, RunInv
  <1>2. CpInv(StoppedCheckpoint(run), ledger')
    BY <1>1, CpInvDependsOn
  <1>3. CompletionIsHonest'
    BY DEF EndCancelled, CompletionIsHonest
  <1>4. QED
    BY <1>2, <1>3, PassEnds DEF EndCancelled

\* A pass that has just started.
LEMMA BeginPassKeepsTheLedger ==
  ASSUME TypeOK, LedgerInv, BeginPass
  PROVE  LedgerInv'
  <1>1. /\ run'.at = "boundary"
        /\ run'.phase = 1
        /\ run'.kept = Kept(checkpoint)
        /\ run'.runPhases = Kept(checkpoint)
        /\ run'.acc \in ResumedStates(checkpoint)
        /\ \A p \in Kept(checkpoint) : run'.snapshots[p] = checkpoint.snapshots[p]
    BY ResumedStatesType DEF BeginPass, TypeOK
  <1>2. /\ checkpoint \in Checkpoint
        /\ ledger \in Ledger
        /\ CpInv(checkpoint, ledger)
        /\ CanFastForward(checkpoint)
    BY DEF TypeOK, LedgerInv, BeginPass
  <1>3. /\ AccountInv(Kept(checkpoint), run'.acc, ledger)
        /\ (\A p \in Kept(checkpoint) : 1 .. p \subseteq Kept(checkpoint)) =>
              ReplayInv(Kept(checkpoint), run'.acc, run'.snapshots, ledger)
        /\ \A p \in FailedIn(run'.acc) : \E q \in Kept(checkpoint) : p <= q
    BY <1>1, <1>2, ResumeKeepsTheLedger
  <1>4. CpInv(RunningCheckpoint(run'), ledger)
    BY <1>1, <1>3 DEF CpInv, RunningCheckpoint, CanFastForward
  <1>5. \A p \in Phase : ~(p < 1)
    BY ProtocolAssumption DEF Phase
  <1>6. RunInv'
    BY <1>1, <1>3, <1>4, <1>5 DEF RunInv, BeginPass
  <1>7. QED
    BY <1>6 DEF BeginPass, LedgerInv, CompletionIsHonest

\* A step of the loop that neither executes nor skips a phase.
LEMMA LoopKeepsTheLedger ==
  ASSUME TypeOK, LedgerInv, run.at # "none",
         UNCHANGED <<status, checkpoint, ledger>>,
         run'.at # "none",
         run'.kept = run.kept,
         run'.runPhases = run.runPhases,
         run'.outOfOrder = run.outOfOrder,
         run'.acc = run.acc,
         run'.snapshots = run.snapshots,
         run'.at \in {"checked", "phase"} => run'.phase \in Phase \ run.kept,
         \/ run'.phase = run.phase
         \/ run.phase \in run.kept /\ run'.phase = run.phase + 1
  PROVE  LedgerInv'
  <1>1. /\ CpInv(RunningCheckpoint(run), ledger)
        /\ \A p \in FailedIn(run.acc) : \E q \in run.runPhases : p <= q
        /\ run.kept \subseteq run.runPhases
        /\ \A p \in run.runPhases : p \in run.kept \/ p < run.phase
        /\ \A p \in Phase : p < run.phase => p \in Accounted(run.acc)
    BY DEF LedgerInv, RunInv
  <1>2. CpInv(RunningCheckpoint(run'), ledger)
    BY <1>1, CpInvDependsOn DEF RunningCheckpoint
  <1>3. /\ run.phase \in Nat
        /\ run.runPhases \subseteq Phase
    BY ProtocolAssumption DEF TypeOK, Run
  <1>4. \A p \in run.runPhases : p \in run.kept \/ p < run'.phase
    BY <1>1, <1>3, ProtocolAssumption DEF Phase
  <1>5. ASSUME NEW p \in Phase, p < run'.phase
        PROVE  p \in Accounted(run.acc)
    <2>1. CASE p < run.phase
      BY <1>1, <2>1
    <2>2. CASE p = run.phase /\ run.phase \in run.kept
      BY <1>1, <2>2 DEF CpInv, AccountInv, RunningCheckpoint
    <2>3. QED
      BY <1>3, <1>5, <2>1, <2>2, ProtocolAssumption DEF Phase
  <1>6. RunInv'
    BY <1>1, <1>2, <1>4, <1>5 DEF LedgerInv, RunInv
  <1>7. QED
    BY <1>6 DEF LedgerInv, CompletionIsHonest

\* A phase the pass has left behind, executed or skipped.
LEMMA PhaseKeepsTheLedger ==
  ASSUME TypeOK, LedgerInv, run.at # "none", run.phase \in Phase, run' \in Run,
         status' = status,
         checkpoint' = RunningCheckpoint(run'),
         run'.at = "boundary",
         run'.phase = run.phase + 1,
         run'.kept = run.kept,
         run'.runPhases = run.runPhases
            \/ run'.runPhases = run.runPhases \cup {run.phase},
         CpInv(RunningCheckpoint(run'), ledger'),
         \A p \in FailedIn(run'.acc) : \E q \in run'.runPhases : p <= q,
         Accounted(run.acc) \cup {run.phase} \subseteq Accounted(run'.acc)
  PROVE  LedgerInv'
  <1>1. /\ status = "RUNNING"
        /\ run.kept \subseteq run.runPhases
        /\ \A p \in run.runPhases : p \in run.kept \/ p < run.phase
        /\ \A p \in Phase : p < run.phase => p \in Accounted(run.acc)
    BY DEF LedgerInv, RunInv
  <1>2. run.runPhases \subseteq Phase
    BY DEF TypeOK, Run
  <1>3. \A p \in Phase : p < run.phase + 1 <=> p < run.phase \/ p = run.phase
    BY ProtocolAssumption DEF Phase
  <1>4. \A p \in run'.runPhases : p \in run'.kept \/ p < run'.phase
    BY <1>1, <1>2, <1>3
  <1>5. \A p \in Phase : p < run'.phase => p \in Accounted(run'.acc)
    BY <1>1, <1>3
  <1>6. run'.kept \subseteq run'.runPhases
    BY <1>1
  <1>7. RunInv'
    BY <1>1, <1>4, <1>5, <1>6 DEF RunInv
  <1>8. QED
    BY <1>1, <1>7 DEF LedgerInv, CompletionIsHonest

LEMMA LedgerStep == TypeOK /\ LedgerInv /\ [Next]_vars => LedgerInv'
  <1> SUFFICES ASSUME TypeOK, LedgerInv, [Next]_vars
               PROVE  LedgerInv'
    OBVIOUS
  <1>1. CASE Claim
    BY <1>1 DEF Claim, LedgerInv, RunInv, CompletionIsHonest
  <1>2. CASE BeginPass
    BY <1>2, BeginPassKeepsTheLedger
  <1>3. CASE RejectPass
    BY <1>3, FailTaskKeepsTheLedger DEF RejectPass
  <1>4. CASE PassKept
    BY <1>4, LoopKeepsTheLedger DEF PassKept, AtPhase, TypeOK, Run
  <1>5. CASE StopAtBoundary
    BY <1>5, EndCancelledKeepsTheLedger DEF StopAtBoundary, AtPhase
  <1>6. CASE PassStopCheck
    BY <1>6, LoopKeepsTheLedger DEF PassStopCheck, AtPhase, TypeOK, Run
  <1>7. CASE HaltAtGate
    <2>1. CpInv(GateCheckpoint(run), ledger)
      BY <1>7, PassCheckpoints DEF HaltAtGate, AtPhase, LedgerInv, RunInv
    <2>2. CompletionIsHonest'
      BY <1>7 DEF HaltAtGate, CompletionIsHonest
    <2>3. QED
      BY <1>7, <2>1, <2>2, PassEnds DEF HaltAtGate
  <1>8. CASE SkipPhase
    <2>1. /\ run.at = "checked"
          /\ run.phase \in Phase
          /\ run' = AfterSkip(run, run.phase)
          /\ run.acc \in Accumulator
      BY <1>8 DEF SkipPhase, AtPhase, TypeOK, Run
    <2>2. /\ CpInv(RunningCheckpoint(run), ledger)
          /\ \A p \in FailedIn(run.acc) : \E q \in run.runPhases : p <= q
      BY <2>1 DEF LedgerInv, RunInv
    <2>3. /\ run'.at = "boundary"
          /\ run'.phase = run.phase + 1
          /\ run'.kept = run.kept
          /\ run'.runPhases = run.runPhases
          /\ run'.acc = WithSlot(run.acc, run.phase, "not_reached")
      BY <2>1 DEF AfterSkip, TypeOK, Run
    <2>4. /\ ledger'.completed = ledger.completed
          /\ ledger'.failed = ledger.failed
          /\ ledger'.skipped = ledger.skipped \cup {run.phase}
      BY <1>8 DEF SkipPhase, TypeOK, Ledger
    <2>5. /\ ledger \in Ledger /\ ledger' \in Ledger
          /\ run \in Run /\ run' \in Run
      BY TypeStep DEF TypeOK
    <2>6. CpInv(RunningCheckpoint(run'), ledger')
      BY <2>1, <2>2, <2>4, <2>5, SkippedPhaseOnTheLedger
    <2>7. /\ run'.acc.carried = run.acc.carried
          /\ FailedIn(run'.acc) = FailedIn(run.acc)
          /\ SkippedIn(run'.acc) = SkippedIn(run.acc) \cup {run.phase}
      BY <2>1, <2>3, WithSlotAccounts
    <2>8. Accounted(run.acc) \cup {run.phase} \subseteq Accounted(run'.acc)
      BY <2>7 DEF Accounted
    <2>9. status' = status /\ checkpoint' = RunningCheckpoint(run')
      BY <1>8 DEF SkipPhase
    <2>10. QED
      BY <2>1, <2>2, <2>3, <2>5, <2>6, <2>7, <2>8, <2>9, PhaseKeepsTheLedger
  <1>9. CASE EnterPhase
    <2>1. /\ run'.at = "phase"
          /\ run'.phase = run.phase
          /\ run'.kept = run.kept
          /\ run'.runPhases = run.runPhases
          /\ run'.outOfOrder = run.outOfOrder
          /\ run'.acc = run.acc
          /\ run'.snapshots = run.snapshots
      BY <1>9 DEF EnterPhase, TypeOK, Run
    <2>2. run.at = "checked" /\ UNCHANGED <<status, checkpoint, ledger>>
      BY <1>9 DEF EnterPhase, AtPhase
    <2>3. run.phase \in Phase \ run.kept
      BY <2>2 DEF LedgerInv, RunInv
    <2>4. QED
      BY <2>1, <2>2, <2>3, LoopKeepsTheLedger
  <1>10. CASE AuditCommit
    <2>1. /\ ledger'.completed = ledger.completed
          /\ ledger'.failed = ledger.failed
          /\ ledger'.skipped = ledger.skipped
      BY <1>10 DEF AuditCommit, TypeOK, Ledger
    <2>2. UNCHANGED <<status, checkpoint, run>> /\ run.at # "none"
      BY <1>10 DEF AuditCommit, AtPhase
    <2>3. CpInv(checkpoint, ledger') /\ CpInv(RunningCheckpoint(run), ledger')
      BY <2>1, <2>2, CpInvDependsOn DEF LedgerInv, RunInv
    <2>4. QED
      BY <2>1, <2>2, <2>3 DEF LedgerInv, RunInv, CompletionIsHonest
  <1>11. CASE CompletePhase
    <2>1. /\ run.at = "phase"
          /\ run.phase \in Phase
          /\ run.acc \in Accumulator
      BY <1>11 DEF CompletePhase, AtPhase, TypeOK, Run
    <2>2. PICK gap \in BOOLEAN :
             run' = AfterPhase(run, run.phase,
                               [run.acc EXCEPT !.carried = @ \cup {run.phase},
                                               !.gaps = @ \/ gap])
      BY <1>11 DEF CompletePhase
    <2> DEFINE acc == [run.acc EXCEPT !.carried = @ \cup {run.phase},
                                      !.gaps = @ \/ gap]
    <2>3. /\ acc \in Accumulator
          /\ acc.carried = run.acc.carried \cup {run.phase}
          /\ acc.slots = run.acc.slots
      <3>1. (run.acc.gaps \/ gap) \in BOOLEAN
        OBVIOUS
      <3>2. QED
        BY <2>1, <3>1 DEF Accumulator
    <2>4. run' = AfterPhase(run, run.phase, acc)
      BY <2>2
    <2> HIDE DEF acc
    <2>5. /\ CpInv(RunningCheckpoint(run), ledger)
          /\ \A p \in FailedIn(run.acc) : \E q \in run.runPhases : p <= q
          /\ run.phase \notin run.runPhases
      BY <2>1, ProtocolAssumption DEF LedgerInv, RunInv, Phase
    <2>6. /\ run'.at = "boundary"
          /\ run'.phase = run.phase + 1
          /\ run'.kept = run.kept
          /\ run'.runPhases = run.runPhases \cup {run.phase}
          /\ run'.acc = acc
      BY <2>4 DEF AfterPhase, TypeOK, Run
    <2>7. /\ ledger'.completed = ledger.completed \cup {run.phase}
          /\ ledger'.failed = ledger.failed
          /\ ledger'.skipped = ledger.skipped
      BY <1>11 DEF CompletePhase, TypeOK, Ledger
    <2>8. /\ ledger \in Ledger /\ ledger' \in Ledger
          /\ run \in Run /\ run' \in Run
      BY TypeStep DEF TypeOK
    <2>9. /\ CpInv(RunningCheckpoint(run'), ledger')
          /\ \A p \in FailedIn(run'.acc) : \E q \in run'.runPhases : p <= q
      BY <2>1, <2>3, <2>4, <2>5, <2>6, <2>7, <2>8, CompletedPhaseOnTheLedger
    <2>10. Accounted(run.acc) \cup {run.phase} \subseteq Accounted(run'.acc)
      BY <2>3, <2>6 DEF Accounted, FailedIn, SkippedIn
    <2>11. status' = status /\ checkpoint' = RunningCheckpoint(run')
      BY <1>11 DEF CompletePhase
    <2>12. QED
      BY <2>1, <2>6, <2>8, <2>9, <2>10, <2>11, PhaseKeepsTheLedger
  <1>12. CASE ConflictingPhase
    BY <1>12, FailTaskKeepsTheLedger DEF ConflictingPhase
  <1>13. CASE FailPhase
    <2> DEFINE acc == WithSlot(run.acc, run.phase, "round_failed")
    <2>1. /\ run.at = "phase"
          /\ run.phase \in Phase
          /\ run.acc \in Accumulator
          /\ run' = AfterPhase(run, run.phase, acc)
      BY <1>13 DEF FailPhase, AtPhase, TypeOK, Run
    <2>2. /\ acc.carried = run.acc.carried
          /\ FailedIn(acc) = FailedIn(run.acc) \cup {run.phase}
          /\ SkippedIn(acc) = SkippedIn(run.acc)
      BY <2>1, WithSlotAccounts
    <2>3. /\ CpInv(RunningCheckpoint(run), ledger)
          /\ \A p \in FailedIn(run.acc) : \E q \in run.runPhases : p <= q
          /\ run.phase \notin run.runPhases
      BY <2>1, ProtocolAssumption DEF LedgerInv, RunInv, Phase
    <2>4. /\ run'.at = "boundary"
          /\ run'.phase = run.phase + 1
          /\ run'.kept = run.kept
          /\ run'.runPhases = run.runPhases \cup {run.phase}
          /\ run'.acc = acc
      <3> HIDE DEF acc
      <3>1. QED
        BY <2>1 DEF AfterPhase, TypeOK, Run
    <2>5. /\ ledger'.completed = ledger.completed
          /\ ledger'.failed = ledger.failed \cup {run.phase}
          /\ ledger'.skipped = ledger.skipped
      BY <1>13 DEF FailPhase, TypeOK, Ledger
    <2>6. /\ ledger \in Ledger /\ ledger' \in Ledger
          /\ run \in Run /\ run' \in Run
      BY TypeStep DEF TypeOK
    <2>7. /\ CpInv(RunningCheckpoint(AfterPhase(run, run.phase, acc)), ledger')
          /\ \A p \in FailedIn(acc) : \E q \in run.runPhases \cup {run.phase} : p <= q
      BY <2>1, <2>3, <2>5, <2>6, FailedPhaseOnTheLedger
    <2> HIDE DEF acc
    <2>8. Accounted(run.acc) \cup {run.phase} \subseteq Accounted(run'.acc)
      BY <2>2, <2>4 DEF Accounted
    <2>9. status' = status /\ checkpoint' = RunningCheckpoint(run')
      BY <1>13 DEF FailPhase
    <2>10. QED
      BY <2>1, <2>4, <2>6, <2>7, <2>8, <2>9, PhaseKeepsTheLedger
  <1>14. CASE StopInPhase
    <2>1. /\ ledger'.completed = ledger.completed
          /\ ledger'.failed = ledger.failed
          /\ ledger'.skipped = ledger.skipped
      BY <1>14 DEF StopInPhase, TypeOK, Ledger
    <2>2. QED
      BY <1>14, <2>1, EndCancelledKeepsTheLedger DEF StopInPhase, AtPhase
  <1>15. CASE FinishPass
    <2>1. /\ run.acc \in Accumulator
          /\ run.at # "none"
          /\ run.phase = NPhases + 1
      BY <1>15 DEF FinishPass, TypeOK, Run
    <2>2. /\ CpInv(RunningCheckpoint(run), ledger)
          /\ \A p \in Phase : p < run.phase => p \in Accounted(run.acc)
      BY <2>1 DEF LedgerInv, RunInv
    <2>3. Phase \subseteq Accounted(run.acc)
      BY <2>1, <2>2, ProtocolAssumption DEF Phase
    <2>4. run.acc.carried \subseteq ledger.completed
      BY <2>2 DEF CpInv, AccountInv, RunningCheckpoint
    <2>5. FailedPhases(checkpoint') = FailedIn(run.acc) \cup SkippedIn(run.acc)
      BY <1>15, <2>1, SlotsAreFailedOrSkipped
         DEF FinishPass, RunningCheckpoint, FailedPhases
    <2>6. Phase \subseteq ledger.completed \cup FailedPhases(checkpoint')
      BY <2>3, <2>4, <2>5 DEF Accounted
    <2>7. ASSUME run.acc.slots = {}
          PROVE  ledger.completed = Phase
      <3>1. FailedIn(run.acc) = {} /\ SkippedIn(run.acc) = {}
        BY <2>7 DEF FailedIn, SkippedIn
      <3>2. ledger.completed \subseteq Phase
        BY DEF TypeOK, Ledger
      <3>3. QED
        BY <2>3, <2>4, <3>1, <3>2 DEF Accounted
    <2>8. CompletionIsHonest'
      BY <1>15, <2>6, <2>7 DEF FinishPass, CompletionIsHonest, HasGaps
    <2>9. QED
      BY <1>15, <2>2, <2>8, PassEnds DEF FinishPass
  <1>16. CASE Interrupt
    <2>1. CompletionIsHonest'
      BY <1>16 DEF Interrupt, CompletionIsHonest
    <2>2. QED
      BY <1>16, <2>1, PassEnds DEF Interrupt, LedgerInv
  <1>17. CASE Abort
    BY <1>17, FailTaskKeepsTheLedger DEF Abort
  <1>18. CASE RequestStop
    BY <1>18 DEF RequestStop, LedgerInv, RunInv, CompletionIsHonest
  <1>19. CASE SubmitGuidance
    <2>1. /\ checkpoint'.runPhases = checkpoint.runPhases
          /\ checkpoint'.outOfOrder = checkpoint.outOfOrder
          /\ checkpoint'.acc = checkpoint.acc
          /\ checkpoint'.snapshots = checkpoint.snapshots
      BY <1>19 DEF SubmitGuidance, TypeOK, Checkpoint
    <2>2. CpInv(checkpoint', ledger)
      BY <2>1, CpInvDependsOn DEF LedgerInv
    <2>3. QED
      BY <1>19, <2>2 DEF SubmitGuidance, LedgerInv, RunInv, CompletionIsHonest
  <1>20. CASE ExpireGate
    BY <1>20 DEF ExpireGate, LedgerInv, RunInv, CompletionIsHonest
  <1>21. CASE ReResearch
    <2>1. /\ checkpoint'.runPhases = checkpoint.runPhases
          /\ checkpoint'.outOfOrder = checkpoint.outOfOrder
          /\ checkpoint'.acc = checkpoint.acc
          /\ checkpoint'.snapshots = checkpoint.snapshots
      BY <1>21 DEF ReResearch, TypeOK, Checkpoint
    <2>2. CpInv(checkpoint', ledger)
      BY <2>1, CpInvDependsOn DEF LedgerInv
    <2>3. run.at = "none"
      BY <1>21 DEF ReResearch, LedgerInv, RunInv, Finished
    <2>4. QED
      BY <1>21, <2>2, <2>3 DEF ReResearch, LedgerInv, RunInv, CompletionIsHonest
  <1>22. CASE UNCHANGED vars
    BY <1>22 DEF vars, LedgerInv, RunInv, CompletionIsHonest
  <1>23. QED
    BY <1>1, <1>2, <1>3, <1>4, <1>5, <1>6, <1>7, <1>8, <1>9, <1>10, <1>11,
       <1>12, <1>13, <1>14, <1>15, <1>16, <1>17, <1>18, <1>19, <1>20, <1>21,
       <1>22 DEF Next, Pass

LEMMA LedgerInvariance == Spec => []LedgerInv
  <1>1. QED
    BY LedgerInit, LedgerStep, TypeCorrect, PTL DEF Spec

\* The checkpoint and the ledger agree at every instant a crash could strike.
THEOREM CheckpointAgreesWithLedger == Spec => []CheckpointCoversLedger
  <1>1. LedgerInv => CheckpointCoversLedger
    BY DEF LedgerInv, CpInv, AccountInv, CheckpointCoversLedger, Lasting
  <1>2. QED
    BY <1>1, LedgerInvariance, PTL

\* A status that reports completion is honest.
THEOREM CompletionIsAlwaysHonest == Spec => []CompletionIsHonest
  <1>1. LedgerInv => CompletionIsHonest
    BY DEF LedgerInv
  <1>2. QED
    BY <1>1, LedgerInvariance, PTL

\* A pass that is inside a phase got there by EnterPhase and has not moved.
LEMMA StepsIntoAPhase ==
  ASSUME TypeOK, [Next]_vars, run'.at = "phase"
  PROVE  \/ /\ EnterPhase
            /\ run.at = "checked"
            /\ run'.phase = run.phase
         \/ run.at = "phase" /\ run'.phase = run.phase
  <1>1. CASE EnterPhase
    BY <1>1 DEF EnterPhase, AtPhase, TypeOK, Run
  <1>2. CASE run' = run
    BY <1>2
  <1>3. CASE run' = NoRun
    BY <1>3 DEF NoRun
  <1>4. CASE BeginPass
    BY <1>4 DEF BeginPass
  <1>5. CASE PassKept \/ PassStopCheck
    BY <1>5 DEF PassKept, PassStopCheck, AtPhase, TypeOK, Run
  <1>6. CASE SkipPhase \/ CompletePhase \/ FailPhase
    BY <1>6 DEF SkipPhase, CompletePhase, FailPhase, AfterSkip, AfterPhase, TypeOK, Run
  <1>7. QED
    BY <1>1, <1>2, <1>3, <1>4, <1>5, <1>6
       DEF Next, Pass, vars, Claim, RejectPass, FailTask, StopAtBoundary, EndCancelled,
           HaltAtGate, AuditCommit, ConflictingPhase, StopInPhase, FinishPass,
           Interrupt, Abort, RequestStop, SubmitGuidance, ExpireGate, ReResearch

\* Phases start in protocol order, over all passes of the task.
THEOREM PhasesStartInProtocolOrder == Spec => PhasesInProtocolOrder
  <1>1. ASSUME TypeOK, LedgerInv, [Next]_vars, NEW p \in Phase,
               run'.at = "phase", run'.phase = p
        PROVE  1 .. p - 1 \subseteq ledger.completed \cup ledger.failed \cup ledger.skipped
    <2>1. run.at # "none" /\ run.phase = p
      BY <1>1, StepsIntoAPhase
    <2>2. /\ \A q \in Phase : q < p => q \in Accounted(run.acc)
          /\ AccountInv(run.runPhases, run.acc, ledger)
      BY <1>1, <2>1 DEF LedgerInv, RunInv, CpInv, RunningCheckpoint
    <2>3. \A q \in 1 .. p - 1 : q \in Phase /\ q < p
      BY ProtocolAssumption DEF Phase
    <2>4. QED
      BY <2>2, <2>3 DEF AccountInv, Accounted
  <1>2. TypeOK /\ LedgerInv /\ [Next]_vars =>
           [ \A p \in Phase :
                (run'.at = "phase" /\ run'.phase = p /\ p \notin ledger.started) =>
                   1 .. p - 1 \subseteq ledger.completed \cup ledger.failed
                                           \cup ledger.skipped ]_vars
    BY <1>1
  <1>3. QED
    BY <1>2, TypeCorrect, LedgerInvariance, PTL DEF Spec, PhasesInProtocolOrder

\* Rewinds and resumes never poll the seats twice on a phase whose events are
\* committed, unless the ledger also says it was skipped.
THEOREM CompletedPhaseIsKept == Spec => CompletedPhaseNotRepolled
  <1>1. ASSUME TypeOK, LedgerInv, [Next]_vars, run.at # "phase", run'.at = "phase"
        PROVE  run'.phase \notin ledger.completed \ ledger.skipped
    <2>1. run.at = "checked" /\ run'.phase = run.phase
      BY <1>1, StepsIntoAPhase
    <2>2. /\ run.phase \in Phase \ run.kept
          /\ \A p \in run.runPhases : p \in run.kept \/ p < run.phase
          /\ AccountInv(run.runPhases, run.acc, ledger)
      BY <1>1, <2>1 DEF LedgerInv, RunInv, CpInv, RunningCheckpoint
    <2>3. run.phase \notin run.runPhases
      BY <2>2, ProtocolAssumption DEF Phase
    <2>4. QED
      BY <2>1, <2>2, <2>3 DEF AccountInv, Lasting
  <1>2. TypeOK /\ LedgerInv /\ [Next]_vars =>
           [ (run.at # "phase" /\ run'.at = "phase") =>
                run'.phase \notin ledger.completed \ ledger.skipped ]_vars
    BY <1>1
  <1>3. QED
    BY <1>2, TypeCorrect, LedgerInvariance, PTL DEF Spec, CompletedPhaseNotRepolled
-----------------------------------------------------------------------------
(***************************************************************************)
(* The researcher's answer.  Between the gate and the first joint modeling  *)
(* the answer is in the checkpoint, and a pass past the gate has nothing    *)
(* left to execute before joint modeling: that is why no checkpoint written *)
(* on the way (they carry no guidance) can lose it.  All of it holds until  *)
(* a re-research, or until joint modeling is accounted for on the ledger.   *)
(***************************************************************************)
BeforeJointModeling == 1 .. JointModeling - 1

JointModelingPending ==
    /\ reruns = 0
    /\ JointModeling \notin ledger.completed \cup ledger.failed \cup ledger.skipped

PassPlace ==
    run.at # "none" =>
       /\ ~run.exhausted => \A p \in Phase : p < run.phase => p \in run.runPhases
       /\ run.at = "phase" /\ run.phase = JointModeling => ~run.stopBefore
       /\ run.stopBefore => ~run.gateReached

AnswerInCheckpoint ==
    PastGate(checkpoint) /\ status \notin Finished =>
       checkpoint.guidance = answer /\ BeforeJointModeling \subseteq checkpoint.runPhases

AnswerInPass ==
    run.at # "none" /\ ~run.stopBefore =>
       run.guidance = answer /\ BeforeJointModeling \subseteq run.kept

GuidanceInv ==
    /\ PassPlace
    /\ checkpoint.guidance \in {answer, NoGuidance}
    /\ run.at # "none" => run.guidance \in {answer, NoGuidance}
    /\ reruns = 0 => checkpoint.restartFrom = 0
    /\ JointModelingPending => AnswerInCheckpoint /\ AnswerInPass

LEMMA GuidanceInit == Init => GuidanceInv
  <1>1. JointModeling \notin {}
    OBVIOUS
  <1>2. QED
    BY <1>1 DEF Init, GuidanceInv, PassPlace, AnswerInCheckpoint, AnswerInPass,
                NoRun, NoCheckpoint, PastGate

\* What is among the phases of a pass, or behind its loop, is accounted for.
LEMMA PendingMeansBefore ==
  ASSUME TypeOK, LedgerInv, JointModelingPending, run.at # "none"
  PROVE  /\ JointModeling \notin run.runPhases
         /\ run.phase <= JointModeling
         /\ JointModeling \notin checkpoint.runPhases
  <1>1. /\ AccountInv(run.runPhases, run.acc, ledger)
        /\ AccountInv(checkpoint.runPhases, checkpoint.acc, ledger)
        /\ \A p \in Phase : p < run.phase => p \in Accounted(run.acc)
    BY DEF LedgerInv, RunInv, CpInv, RunningCheckpoint
  <1>2. JointModeling \notin Accounted(run.acc) /\ JointModeling \notin Accounted(checkpoint.acc)
    BY <1>1 DEF AccountInv, Accounted, JointModelingPending
  <1>3. JointModeling \in Phase /\ run.phase \in Nat
    BY ProtocolAssumption DEF TypeOK, Run
  <1>4. ~(JointModeling < run.phase)
    BY <1>1, <1>2, <1>3
  <1>5. run.phase <= JointModeling
    BY <1>3, <1>4, ProtocolAssumption DEF Phase
  <1>6. QED
    BY <1>1, <1>2, <1>5 DEF AccountInv

\* A pass ends and its checkpoint, without guidance, is not past the gate or
\* the task is finished.
LEMMA PassEndsForGuidance ==
  ASSUME GuidanceInv, run' = NoRun, UNCHANGED <<answer, reruns>>,
         \/ UNCHANGED <<checkpoint, ledger>> /\ (status' \in Finished \/ status \notin Finished)
         \/ /\ checkpoint'.guidance = NoGuidance
            /\ checkpoint'.restartFrom = 0
            /\ status' \in Finished
  PROVE  GuidanceInv'
  <1>1. run'.at = "none"
    BY DEF NoRun
  <1>2. PassPlace' /\ AnswerInPass'
    BY <1>1 DEF PassPlace, AnswerInPass
  <1>3. QED
    BY <1>1, <1>2 DEF GuidanceInv, AnswerInCheckpoint, JointModelingPending, PastGate

\* A checkpoint written on the way, after a phase that ran or was skipped.
LEMMA PhaseEndsForGuidance ==
  ASSUME TypeOK, LedgerInv, GuidanceInv, run.at \in {"checked", "phase"},
         UNCHANGED <<status, answer, reruns>>,
         checkpoint' = RunningCheckpoint(run'),
         run'.at = "boundary",
         run'.phase = run.phase + 1,
         run'.gateReached = run.gateReached,
         run'.stopBefore = run.stopBefore,
         run'.guidance = run.guidance,
         run'.kept = run.kept,
         run'.exhausted \/ /\ run'.exhausted = run.exhausted
                           /\ run'.runPhases = run.runPhases \cup {run.phase},
         run'.runPhases \subseteq run.runPhases \cup {run.phase},
         ledger.completed \subseteq ledger'.completed,
         ledger.failed \subseteq ledger'.failed,
         ledger.skipped \subseteq ledger'.skipped,
         run.phase \in ledger'.completed \cup ledger'.failed \cup ledger'.skipped
  PROVE  GuidanceInv'
  <1>1. run.phase \in Phase \ run.kept
    BY DEF LedgerInv, RunInv
  <1>2. PassPlace'
    <2>1. ASSUME ~run'.exhausted, NEW p \in Phase, p < run.phase + 1
          PROVE  p \in run'.runPhases
      <3>1. CASE p < run.phase
        BY <2>1, <3>1 DEF GuidanceInv, PassPlace
      <3>2. CASE p = run.phase
        BY <2>1, <3>2
      <3>3. QED
        BY <1>1, <2>1, <3>1, <3>2, ProtocolAssumption DEF Phase
    <2>2. QED
      BY <2>1 DEF GuidanceInv, PassPlace
  <1>3. /\ checkpoint'.guidance = NoGuidance
        /\ checkpoint'.restartFrom = 0
        /\ PastGate(checkpoint') => run'.gateReached \/ JointModeling \in run'.runPhases
    BY DEF RunningCheckpoint, PastGate
  <1>4. ASSUME JointModelingPending'
        PROVE  AnswerInCheckpoint' /\ AnswerInPass'
    <2>1. JointModelingPending /\ run.phase # JointModeling
      BY <1>4 DEF JointModelingPending
    <2>2. JointModeling \notin run.runPhases /\ run.phase <= JointModeling
      BY <2>1, PendingMeansBefore
    <2>3. run.phase \in BeforeJointModeling
      BY <1>1, <2>1, <2>2, ProtocolAssumption DEF BeforeJointModeling, Phase
    \* A pass past the gate keeps every phase before joint modeling.
    <2>4. run.stopBefore
      BY <1>1, <2>1, <2>3 DEF GuidanceInv, AnswerInPass
    <2>5. ~run.gateReached
      BY <2>4 DEF GuidanceInv, PassPlace
    <2>6. ~PastGate(checkpoint')
      BY <1>3, <2>1, <2>2, <2>5
    <2>7. QED
      BY <2>4, <2>6 DEF AnswerInCheckpoint, AnswerInPass
  <1>5. QED
    BY <1>2, <1>3, <1>4 DEF GuidanceInv

LEMMA GuidanceStep == TypeOK /\ LedgerInv /\ GuidanceInv /\ [Next]_vars => GuidanceInv'
  <1> SUFFICES ASSUME TypeOK, LedgerInv, GuidanceInv, [Next]_vars
               PROVE  GuidanceInv'
    OBVIOUS
  <1> USE DEF GuidanceInv, PassPlace, AnswerInCheckpoint, AnswerInPass,
              JointModelingPending
  <1>1. CASE Claim
    BY <1>1 DEF Claim, PastGate, Finished
  <1>2. CASE BeginPass
    <2>1. /\ run'.at = "boundary"
          /\ run'.phase = 1
          /\ run'.kept = Kept(checkpoint)
          /\ run'.stopBefore = ~PastGate(checkpoint)
          /\ run'.gateReached = checkpoint.gateReached
          /\ run'.guidance = ResumeGuidance(checkpoint)
      BY <1>2 DEF BeginPass
    <2>2. UNCHANGED <<status, checkpoint, ledger, answer, reruns>> /\ status \notin Finished
      BY <1>2 DEF BeginPass, Finished
    <2>3. \A p \in Phase : ~(p < 1)
      BY ProtocolAssumption DEF Phase
    <2>4. PassPlace'
      BY <2>1, <2>3 DEF PastGate
    <2>5. run'.guidance \in {answer, NoGuidance}
      BY <2>1 DEF ResumeGuidance
    <2>6. ASSUME JointModelingPending, PastGate(checkpoint)
          PROVE  run'.guidance = answer /\ BeforeJointModeling \subseteq run'.kept
      <3>1. checkpoint.guidance = answer /\ BeforeJointModeling \subseteq checkpoint.runPhases
        BY <2>2, <2>6
      <3>2. Kept(checkpoint) = checkpoint.runPhases
        BY <2>6 DEF Kept
      <3>3. QED
        BY <2>1, <2>6, <3>1, <3>2 DEF ResumeGuidance
    <2>7. QED
      BY <2>1, <2>2, <2>4, <2>5, <2>6 DEF PastGate
  <1>3. CASE RejectPass
    BY <1>3, PassEndsForGuidance DEF RejectPass, FailTask, Finished
  <1>4. CASE PassKept
    <2>1. /\ run.phase \in Phase
          /\ run.phase \in run.runPhases
          /\ run'.phase = run.phase + 1
          /\ run'.at = "boundary"
      BY <1>4 DEF PassKept, AtPhase, LedgerInv, RunInv, TypeOK, Run
    <2>2. \A p \in Phase : p < run.phase + 1 <=> p < run.phase \/ p = run.phase
      BY <2>1, ProtocolAssumption DEF Phase
    <2>3. QED
      BY <1>4, <2>1, <2>2 DEF PassKept, AtPhase, PastGate, TypeOK, Run
  <1>5. CASE StopAtBoundary
    BY <1>5, PassEndsForGuidance
       DEF StopAtBoundary, EndCancelled, Finished, StoppedCheckpoint, RunningCheckpoint
  <1>6. CASE PassStopCheck
    BY <1>6 DEF PassStopCheck, AtPhase, PastGate, TypeOK, Run
  <1>7. CASE HaltAtGate
    <2>1. /\ run.phase = JointModeling
          /\ ~run.exhausted
          /\ run.at # "none"
      BY <1>7 DEF HaltAtGate, AtPhase, AtGate
    <2>2. BeforeJointModeling \subseteq run.runPhases
      BY <2>1, ProtocolAssumption DEF BeforeJointModeling, Phase
    <2>3. /\ checkpoint'.runPhases = run.runPhases
          /\ checkpoint'.guidance = NoGuidance
          /\ checkpoint'.restartFrom = 0
      BY <1>7 DEF HaltAtGate, GateCheckpoint, RunningCheckpoint
    <2>4. run'.at = "none" /\ answer' = NoGuidance
      BY <1>7 DEF HaltAtGate, NoRun
    <2>5. QED
      BY <2>2, <2>3, <2>4
  <1>8. CASE SkipPhase
    <2>1. /\ run.at = "checked"
          /\ run' = AfterSkip(run, run.phase)
          /\ UNCHANGED <<status, answer, reruns>>
          /\ checkpoint' = RunningCheckpoint(run')
      BY <1>8 DEF SkipPhase, AtPhase
    <2>2. /\ run'.at = "boundary"
          /\ run'.phase = run.phase + 1
          /\ run'.gateReached = run.gateReached
          /\ run'.stopBefore = run.stopBefore
          /\ run'.guidance = run.guidance
          /\ run'.kept = run.kept
          /\ run'.runPhases = run.runPhases
          /\ run'.exhausted
      BY <2>1 DEF AfterSkip, TypeOK, Run
    <2>3. /\ ledger'.completed = ledger.completed
          /\ ledger'.failed = ledger.failed
          /\ ledger'.skipped = ledger.skipped \cup {run.phase}
      BY <1>8 DEF SkipPhase, TypeOK, Ledger
    <2>4. QED
      BY <2>1, <2>2, <2>3, PhaseEndsForGuidance
  <1>9. CASE EnterPhase
    <2>1. /\ run'.at = "phase"
          /\ run'.phase = run.phase
          /\ run'.kept = run.kept
          /\ run'.runPhases = run.runPhases
          /\ run'.stopBefore = run.stopBefore
          /\ run'.gateReached = run.gateReached
          /\ run'.guidance = run.guidance
          /\ run.exhausted => run'.exhausted
      BY <1>9 DEF EnterPhase, TypeOK, Run
    <2>2. run.at = "checked" /\ UNCHANGED <<status, checkpoint, ledger, answer, reruns>>
      BY <1>9 DEF EnterPhase, AtPhase
    <2>3. run.phase = JointModeling => ~run.stopBefore
      BY <1>9, ProtocolAssumption DEF EnterPhase, AtGate
    <2>4. QED
      BY <2>1, <2>2, <2>3 DEF PastGate
  <1>10. CASE AuditCommit
    <2>1. /\ ledger'.completed = ledger.completed
          /\ ledger'.failed = ledger.failed
          /\ ledger'.skipped = ledger.skipped
      BY <1>10 DEF AuditCommit, TypeOK, Ledger
    <2>2. QED
      BY <1>10, <2>1 DEF AuditCommit, PastGate
  <1>11. CASE CompletePhase
    <2>1. PICK acc : run' = AfterPhase(run, run.phase, acc)
      BY <1>11 DEF CompletePhase
    <2>2. /\ run'.at = "boundary"
          /\ run'.phase = run.phase + 1
          /\ run'.gateReached = run.gateReached
          /\ run'.stopBefore = run.stopBefore
          /\ run'.guidance = run.guidance
          /\ run'.kept = run.kept
          /\ run'.exhausted = run.exhausted
          /\ run'.runPhases = run.runPhases \cup {run.phase}
      BY <2>1 DEF AfterPhase, TypeOK, Run
    <2>3. /\ ledger'.completed = ledger.completed \cup {run.phase}
          /\ ledger'.failed = ledger.failed
          /\ ledger'.skipped = ledger.skipped
      BY <1>11 DEF CompletePhase, TypeOK, Ledger
    <2>4. /\ run.at = "phase"
          /\ UNCHANGED <<status, answer, reruns>>
          /\ checkpoint' = RunningCheckpoint(run')
      BY <1>11 DEF CompletePhase, AtPhase
    <2>5. QED
      BY <2>2, <2>3, <2>4, PhaseEndsForGuidance
  <1>12. CASE ConflictingPhase
    BY <1>12, PassEndsForGuidance DEF ConflictingPhase, FailTask, Finished
  <1>13. CASE FailPhase
    <2>1. /\ run'.at = "boundary"
          /\ run'.phase = run.phase + 1
          /\ run'.gateReached = run.gateReached
          /\ run'.stopBefore = run.stopBefore
          /\ run'.guidance = run.guidance
          /\ run'.kept = run.kept
          /\ run'.exhausted = run.exhausted
          /\ run'.runPhases = run.runPhases \cup {run.phase}
      BY <1>13 DEF FailPhase, AfterPhase, TypeOK, Run
    <2>2. /\ ledger'.completed = ledger.completed
          /\ ledger'.failed = ledger.failed \cup {run.phase}
          /\ ledger'.skipped = ledger.skipped
      BY <1>13 DEF FailPhase, TypeOK, Ledger
    <2>3. /\ run.at = "phase"
          /\ UNCHANGED <<status, answer, reruns>>
          /\ checkpoint' = RunningCheckpoint(run')
      BY <1>13 DEF FailPhase, AtPhase
    <2>4. QED
      BY <2>1, <2>2, <2>3, PhaseEndsForGuidance
  <1>14. CASE StopInPhase
    BY <1>14, PassEndsForGuidance
       DEF StopInPhase, EndCancelled, Finished, StoppedCheckpoint, RunningCheckpoint
  <1>15. CASE FinishPass
    BY <1>15, PassEndsForGuidance DEF FinishPass, Finished, RunningCheckpoint
  <1>16. CASE Interrupt
    <2>1. status \notin Finished
      BY <1>16 DEF Interrupt, LedgerInv, RunInv, Finished
    <2>2. QED
      BY <1>16, <2>1, PassEndsForGuidance DEF Interrupt
  <1>17. CASE Abort
    BY <1>17, PassEndsForGuidance DEF Abort, FailTask, Finished
  <1>18. CASE RequestStop
    BY <1>18 DEF RequestStop, PastGate, Finished
  <1>19. CASE SubmitGuidance
    <2>1. PICK text \in Guidance :
             checkpoint' = [checkpoint EXCEPT !.guidance = text] /\ answer' = text
      BY <1>19 DEF SubmitGuidance
    <2>2. /\ checkpoint'.guidance = answer'
          /\ checkpoint'.restartFrom = checkpoint.restartFrom
          /\ checkpoint'.runPhases = checkpoint.runPhases
          /\ checkpoint'.gateReached = checkpoint.gateReached
      BY <2>1 DEF TypeOK, Checkpoint
    <2>3. run.at = "none"
      BY <1>19 DEF SubmitGuidance, LedgerInv, RunInv
    <2>4. QED
      BY <1>19, <2>2, <2>3 DEF SubmitGuidance, PastGate, Finished
  <1>20. CASE ExpireGate
    BY <1>20 DEF ExpireGate, PastGate, Finished
  <1>21. CASE ReResearch
    <2>1. /\ checkpoint'.guidance = checkpoint.guidance
          /\ reruns' # 0
      BY <1>21 DEF ReResearch, TypeOK, Checkpoint
    <2>2. QED
      BY <1>21, <2>1 DEF ReResearch
  <1>22. CASE UNCHANGED vars
    BY <1>22 DEF vars, PastGate
  <1>23. QED
    BY <1>1, <1>2, <1>3, <1>4, <1>5, <1>6, <1>7, <1>8, <1>9, <1>10, <1>11,
       <1>12, <1>13, <1>14, <1>15, <1>16, <1>17, <1>18, <1>19, <1>20, <1>21,
       <1>22 DEF Next, Pass

\* Joint modeling reads the researcher's answer to the latest gate or none, and
\* its first execution reads that answer.
THEOREM AnswerReachesJointModeling == Spec => []GuidanceIsTheAnswer
  <1>1. Spec => []GuidanceInv
    BY GuidanceInit, GuidanceStep, TypeCorrect, LedgerInvariance, PTL DEF Spec
  <1>2. GuidanceInv => GuidanceIsTheAnswer
    BY DEF GuidanceInv, PassPlace, AnswerInPass, JointModelingPending,
           GuidanceIsTheAnswer, FirstJointModeling
  <1>3. QED
    BY <1>1, <1>2, PTL
=============================================================================
