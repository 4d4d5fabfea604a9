--------------------------- MODULE CouncilProtocol ---------------------------
(***************************************************************************)
(* One research task and the council passes that run it.                   *)
(*                                                                         *)
(* CouncilOrchestrator.run() walks the phases of PHASE_SEQUENCE, writes    *)
(* events to the ledger, and after every phase commits a CouncilCheckpoint *)
(* through the worker's hook.  A pass ends at the researcher gate, at the  *)
(* end, on a stop request, on an error, or because its process or its      *)
(* database connection died; a later pass starts from the checkpoint.      *)
(*                                                                         *)
(* `status', `checkpoint', `ledger' and `stopRequest' are rows of          *)
(* PostgreSQL.  `run' is the memory of the pass in progress.  One worker   *)
(* runs the task: several workers and API calls that overlap a worker's    *)
(* transaction are the subject of TaskLifecycle.                           *)
(***************************************************************************)
EXTENDS Integers, FiniteSets

CONSTANTS
    NPhases,           \* length of PHASE_SEQUENCE
    JointModeling,     \* position of the phase behind the researcher gate
    AlwaysRun,         \* ALWAYS_RUN_PHASES: run even without budget
    Guidance,          \* the texts a researcher may submit at the gate
    NoGuidance,        \* guidance = None
    MaxInterruptions,  \* bound: passes that die with their process or connection
    MaxReruns          \* bound: calls of POST /re-research

Phase == 1 .. NPhases

ASSUME ProtocolAssumption ==
    /\ NPhases \in Nat
    /\ JointModeling \in Phase
    /\ AlwaysRun \subseteq Phase \ {JointModeling}
    /\ NoGuidance \notin Guidance
    /\ MaxInterruptions \in Nat
    /\ MaxReruns \in Nat

VARIABLES
    status,         \* research_tasks.status
    checkpoint,     \* research_tasks.council_checkpoint
    ledger,         \* per event type, the phases with a committed event of it
    stopRequest,    \* whether task_cancel_requests has a row for the task
    run,            \* the pass in progress, NoRun when there is none
    failure,        \* history: why the latest claim of the task ended FAILED
    gateOffered,    \* history: the task was parked at the gate
    answer,         \* history: what the researcher answered at the last gate
    interruptions,  \* passes lost so far
    reruns          \* re-researches so far

vars == <<status, checkpoint, ledger, stopRequest, run, failure,
          gateOffered, answer, interruptions, reruns>>

-----------------------------------------------------------------------------
(* Data *)

Finished == {"COMPLETED", "COMPLETED_WITH_GAPS", "FAILED", "CANCELLED"}

Status == Finished \cup {"QUEUED", "RUNNING", "AWAITING_COUNCIL_INPUT"}

Failures == {"none", "InvalidTransition", "EventConflict", "aborted"}

\* A `{phase}:round_failed' or `{phase}:not_reached' entry of `unfilled'.
Slot == [phase : Phase, kind : {"round_failed", "not_reached"}]

\* What the phases so far left behind: whose carry is in `carried', which
\* phases failed or were skipped, and whether a seat was absent or an evidence
\* slot stayed empty (gaps that are not failures).
Accumulator == [carried : SUBSET Phase, slots : SUBSET Slot, gaps : BOOLEAN]

EmptyAccumulator == [carried |-> {}, slots |-> {}, gaps |-> FALSE]

\* run_phases is a sequence without repetition.  All the program asks of its
\* order is whether the phases can be replayed by steps of "current + 1", so
\* the model keeps the set and whether some phase was appended after a later
\* one.  phase_snapshots has one entry per member of run_phases, in its order.
Snapshots == [Phase -> Accumulator]

NoSnapshots == [p \in Phase |-> EmptyAccumulator]

Checkpoint ==
    [runPhases : SUBSET Phase, outOfOrder : BOOLEAN, acc : Accumulator,
     snapshots : Snapshots, restartFrom : 0 .. NPhases,
     guidance : Guidance \cup {NoGuidance}, gateReached : BOOLEAN]

\* council_checkpoint = NULL.  A pass from an empty checkpoint is a first pass
\* in every respect, so the two are one value here.
NoCheckpoint ==
    [runPhases |-> {}, outOfOrder |-> FALSE, acc |-> EmptyAccumulator,
     snapshots |-> NoSnapshots, restartFrom |-> 0,
     guidance |-> NoGuidance, gateReached |-> FALSE]

Ledger == [started : SUBSET Phase, completed : SUBSET Phase,
           failed : SUBSET Phase, skipped : SUBSET Phase]

EmptyLedger == [started |-> {}, completed |-> {}, failed |-> {}, skipped |-> {}]

\* The local variables of run().  `at' says where the loop stands in the
\* iteration of `phase': before the stop check, after it, or inside the phase.
Run == [at : {"none", "boundary", "checked", "phase"}, phase : 1 .. NPhases + 1,
        kept : SUBSET Phase, runPhases : SUBSET Phase, outOfOrder : BOOLEAN,
        acc : Accumulator, snapshots : Snapshots, exhausted : BOOLEAN,
        stopBefore : BOOLEAN, gateReached : BOOLEAN,
        guidance : Guidance \cup {NoGuidance}]

NoRun == [at |-> "none", phase |-> 1, kept |-> {}, runPhases |-> {},
          outOfOrder |-> FALSE, acc |-> EmptyAccumulator,
          snapshots |-> NoSnapshots, exhausted |-> FALSE, stopBefore |-> FALSE,
          gateReached |-> FALSE, guidance |-> NoGuidance]

-----------------------------------------------------------------------------
(* Reading a checkpoint *)

FailedPhases(cp) == {s.phase : s \in cp.acc.slots}

Unfinished(cp) == {p \in Phase : p \in FailedPhases(cp) \/ p \notin cp.runPhases}

FirstUnfinished(cp, p) == p \in Unfinished(cp) /\ \A q \in Unfinished(cp) : p <= q

\* TaskStateMachine accepts the replay of run_phases.
CanFastForward(cp) ==
    /\ ~cp.outOfOrder
    /\ \A p \in cp.runPhases : 1 .. p \subseteq cp.runPhases

\* A mistake: everything from the first failed phase on runs again.
KeptBeforeRestart(cp) ==
    IF cp.restartFrom = 0
    THEN cp.runPhases
    ELSE {p \in cp.runPhases : p < cp.restartFrom}

\* The phases a pass from cp does not execute again.
Kept(cp) ==
    IF cp.restartFrom = 0
    THEN cp.runPhases
    ELSE {p \in cp.runPhases : p \in FailedPhases(cp) => p < cp.restartFrom}

\* The state a pass from cp starts with; on a rewind, the snapshot of the last
\* kept phase.
ResumedStates(cp) ==
    IF cp.restartFrom = 0 THEN {cp.acc}
    ELSE IF Kept(cp) = {} THEN {EmptyAccumulator}
    ELSE {cp.snapshots[p] : p \in {q \in Kept(cp) : \A r \in Kept(cp) : r <= q}}

\* A mistake: any stored checkpoint counts as one written at the gate.
PastGateOnAnyCheckpoint(cp) == cp # NoCheckpoint

PastGate(cp) == cp.gateReached \/ JointModeling \in cp.runPhases

\* A mistake: the answer is read only once joint modeling has run.
ResumeGuidanceTooLate(cp) ==
    IF JointModeling \in cp.runPhases THEN cp.guidance ELSE NoGuidance

ResumeGuidance(cp) == IF PastGate(cp) THEN cp.guidance ELSE NoGuidance

-----------------------------------------------------------------------------
(* Writing a checkpoint *)

\* _running_checkpoint: after a phase that ran or was skipped, and at the end.
RunningCheckpoint(r) ==
    [runPhases |-> r.runPhases, outOfOrder |-> r.outOfOrder, acc |-> r.acc,
     snapshots |-> r.snapshots, restartFrom |-> 0,
     guidance |-> NoGuidance, gateReached |-> r.gateReached]

\* The checkpoint of a report whose gate_reached is left at its default.
StoppedCheckpoint(r) == [RunningCheckpoint(r) EXCEPT !.gateReached = FALSE]

\* A mistake: the halt forgets to mark its checkpoint.
GateCheckpointUnmarked(r) == RunningCheckpoint(r)

GateCheckpoint(r) == [RunningCheckpoint(r) EXCEPT !.gateReached = TRUE]

WithSlot(acc, p, why) ==
    [acc EXCEPT !.slots = @ \cup {[phase |-> p, kind |-> why]}]

\* run() after a phase that executed: run_phases and phase_snapshots get it.
AfterPhase(r, p, acc) ==
    [r EXCEPT !.at = "boundary", !.phase = p + 1, !.acc = acc,
              !.runPhases = @ \cup {p},
              !.outOfOrder = @ \/ \E q \in r.runPhases : q > p,
              !.snapshots = [@ EXCEPT ![p] = acc]]

\* A mistake: a skipped phase leaves no slot.
AfterSilentSkip(r, p) ==
    [r EXCEPT !.at = "boundary", !.phase = p + 1, !.exhausted = TRUE]

\* run() after a skipped phase.
AfterSkip(r, p) ==
    [r EXCEPT !.at = "boundary", !.phase = p + 1, !.exhausted = TRUE,
              !.acc = WithSlot(r.acc, p, "not_reached")]

HasGaps(acc) == acc.slots # {} \/ acc.gaps

-----------------------------------------------------------------------------
Init ==
    /\ status = "QUEUED"
    /\ checkpoint = NoCheckpoint
    /\ ledger = EmptyLedger
    /\ stopRequest = FALSE
    /\ run = NoRun
    /\ failure = "none"
    /\ gateOffered = FALSE
    /\ answer = NoGuidance
    /\ interruptions = 0
    /\ reruns = 0

(***************************************************************************)
(* A pass: claim, prologue, loop.                                          *)
(***************************************************************************)

\* claim_queued_tasks.
Claim ==
    /\ status = "QUEUED"
    /\ status' = "RUNNING"
    /\ failure' = "none"
    /\ UNCHANGED <<checkpoint, ledger, stopRequest, run, gateOffered, answer,
                   interruptions, reruns>>

\* deliberate() up to the loop of run(): the checkpoint decides what is kept,
\* which state the pass starts from and whether it halts at the gate.
BeginPass ==
    /\ status = "RUNNING"
    /\ run.at = "none"
    /\ CanFastForward(checkpoint)
    /\ \E acc \in ResumedStates(checkpoint) :
          run' = [at |-> "boundary", phase |-> 1,
                  kept |-> Kept(checkpoint), runPhases |-> Kept(checkpoint),
                  outOfOrder |-> FALSE, acc |-> acc,
                  snapshots |-> [p \in Phase |-> IF p \in Kept(checkpoint)
                                                 THEN checkpoint.snapshots[p]
                                                 ELSE EmptyAccumulator],
                  exhausted |-> FALSE, stopBefore |-> ~PastGate(checkpoint),
                  gateReached |-> checkpoint.gateReached,
                  guidance |-> ResumeGuidance(checkpoint)]
    /\ UNCHANGED <<status, checkpoint, ledger, stopRequest, failure,
                   gateOffered, answer, interruptions, reruns>>

\* The run ends FAILED: emergency_finalize_task, _mark_failed.  The checkpoint
\* stays, a stop request that was left for the run goes.
FailTask(why) ==
    /\ status' = "FAILED"
    /\ failure' = why
    /\ stopRequest' = FALSE
    /\ run' = NoRun
    /\ UNCHANGED <<checkpoint, gateOffered, answer, interruptions, reruns>>

\* The fast-forward of run() raises InvalidTransition.
RejectPass ==
    /\ status = "RUNNING"
    /\ run.at = "none"
    /\ ~CanFastForward(checkpoint)
    /\ FailTask("InvalidTransition")
    /\ UNCHANGED ledger

\* A mistake: the loop does not know where the sequence ends.
AtPhaseUnbounded(where) == status = "RUNNING" /\ run.at = where

AtPhase(where) == status = "RUNNING" /\ run.at = where /\ run.phase \in Phase

\* `if phase in kept: continue'.
PassKept ==
    /\ AtPhase("boundary")
    /\ run.phase \in run.kept
    /\ run' = [run EXCEPT !.phase = @ + 1]
    /\ UNCHANGED <<status, checkpoint, ledger, stopRequest, failure,
                   gateOffered, answer, interruptions, reruns>>

\* The pass ends CANCELLED; a terminal status ends the stop request too.
EndCancelled ==
    /\ status' = "CANCELLED"
    /\ checkpoint' = StoppedCheckpoint(run)
    /\ stopRequest' = FALSE
    /\ run' = NoRun
    /\ UNCHANGED <<failure, gateOffered, answer, interruptions, reruns>>

\* The side channel is asked, except before a phase that would be skipped.
StopChecked == ~run.exhausted \/ run.phase \in AlwaysRun

StopAtBoundary ==
    /\ AtPhase("boundary")
    /\ run.phase \notin run.kept
    /\ StopChecked
    /\ stopRequest
    /\ EndCancelled
    /\ UNCHANGED ledger

PassStopCheck ==
    /\ AtPhase("boundary")
    /\ run.phase \notin run.kept
    /\ StopChecked => ~stopRequest
    /\ run' = [run EXCEPT !.at = "checked"]
    /\ UNCHANGED <<status, checkpoint, ledger, stopRequest, failure,
                   gateOffered, answer, interruptions, reruns>>

AtGate == run.stopBefore /\ run.phase = JointModeling /\ ~run.exhausted

\* The pass parks the task for the researcher.
HaltAtGate ==
    /\ AtPhase("checked")
    /\ AtGate
    /\ status' = "AWAITING_COUNCIL_INPUT"
    /\ checkpoint' = GateCheckpoint(run)
    /\ run' = NoRun
    /\ gateOffered' = TRUE
    /\ answer' = NoGuidance
    /\ UNCHANGED <<ledger, stopRequest, failure, interruptions, reruns>>

\* _check_budget: the wall clock of the pass.  It starts with the pass, so it is
\* not spent before the pass has executed a phase.
ClockMayBeSpent == run.runPhases # run.kept

\* A mistake: the skip is not put on the ledger.
SkipPhaseUnrecorded ==
    /\ AtPhase("checked")
    /\ ~AtGate
    /\ run.exhausted \/ ClockMayBeSpent
    /\ run.phase \notin AlwaysRun
    /\ run' = AfterSkip(run, run.phase)
    /\ checkpoint' = RunningCheckpoint(run')
    /\ UNCHANGED <<status, ledger, stopRequest, failure, gateOffered, answer,
                   interruptions, reruns>>

\* The wall clock is spent (now or earlier in the pass) and the phase is not
\* one that always runs.  Event, slot and checkpoint commit together.
SkipPhase ==
    /\ AtPhase("checked")
    /\ ~AtGate
    /\ run.exhausted \/ ClockMayBeSpent
    /\ run.phase \notin AlwaysRun
    /\ run' = AfterSkip(run, run.phase)
    /\ ledger' = [ledger EXCEPT !.skipped = @ \cup {run.phase}]
    /\ checkpoint' = RunningCheckpoint(run')
    /\ UNCHANGED <<status, stopRequest, failure, gateOffered, answer,
                   interruptions, reruns>>

\* _run_phase starts.  The budget check may find the wall clock spent before a
\* phase that always runs.
EnterPhase ==
    /\ AtPhase("checked")
    /\ ~AtGate
    /\ run.exhausted => run.phase \in AlwaysRun
    /\ \E spent \in BOOLEAN :
          /\ spent => run.phase \in AlwaysRun /\ ClockMayBeSpent
          /\ run' = [run EXCEPT !.at = "phase", !.exhausted = @ \/ spent]
    /\ UNCHANGED <<status, checkpoint, ledger, stopRequest, failure,
                   gateOffered, answer, interruptions, reruns>>

\* A mistake: the seats' memories are written, through audited model calls,
\* after the phase's events instead of before them.
AuditCommitAfterEmit ==
    /\ AtPhase("phase")
    /\ run.phase \notin ledger.completed
    /\ ledger' = [ledger EXCEPT !.started = @ \cup {run.phase},
                                !.completed = @ \cup {run.phase}]
    /\ UNCHANGED <<status, checkpoint, stopRequest, run, failure, gateOffered,
                   answer, interruptions, reruns>>

\* The audit row of a model call commits the session, and with it whatever the
\* phase has appended so far: its PHASE_STARTED event.
AuditCommit ==
    /\ AtPhase("phase")
    /\ run.phase \notin ledger.started
    /\ ledger' = [ledger EXCEPT !.started = @ \cup {run.phase}]
    /\ UNCHANGED <<status, checkpoint, stopRequest, run, failure, gateOffered,
                   answer, interruptions, reruns>>

\* The phase's events, PHASE_COMPLETED and the checkpoint commit together.
CompletePhase ==
    /\ AtPhase("phase")
    /\ \E gap \in BOOLEAN :
          run' = AfterPhase(run, run.phase,
                            [run.acc EXCEPT !.carried = @ \cup {run.phase},
                                            !.gaps = @ \/ gap])
    /\ ledger' = [ledger EXCEPT !.started = @ \cup {run.phase},
                                !.completed = @ \cup {run.phase}]
    /\ checkpoint' = RunningCheckpoint(run')
    /\ UNCHANGED <<status, stopRequest, failure, gateOffered, answer,
                   interruptions, reruns>>

\* The ledger already holds this phase's events with other payloads (a model
\* rarely answers twice alike): EventConflict, rolled back, task FAILED.
ConflictingPhase ==
    /\ AtPhase("phase")
    /\ run.phase \in ledger.completed
    /\ FailTask("EventConflict")
    /\ UNCHANGED ledger

\* The phase's runner raised: PHASE_FAILED and a slot, and the run goes on.
FailPhase ==
    /\ AtPhase("phase")
    /\ run' = AfterPhase(run, run.phase,
                         WithSlot(run.acc, run.phase, "round_failed"))
    /\ ledger' = [ledger EXCEPT !.started = @ \cup {run.phase},
                                !.failed = @ \cup {run.phase}]
    /\ checkpoint' = RunningCheckpoint(run')
    /\ UNCHANGED <<status, stopRequest, failure, gateOffered, answer,
                   interruptions, reruns>>

\* A model call in flight sees the stop request: CouncilCancelled.
StopInPhase ==
    /\ AtPhase("phase")
    /\ stopRequest
    /\ EndCancelled
    /\ ledger' = [ledger EXCEPT !.started = @ \cup {run.phase}]

\* The loop is done: final checkpoint, final status, stop request cleared.
FinishPass ==
    /\ status = "RUNNING"
    /\ run.at = "boundary"
    /\ run.phase = NPhases + 1
    /\ status' = IF HasGaps(run.acc) THEN "COMPLETED_WITH_GAPS" ELSE "COMPLETED"
    /\ checkpoint' = RunningCheckpoint(run)
    /\ stopRequest' = FALSE
    /\ run' = NoRun
    /\ UNCHANGED <<ledger, failure, gateOffered, answer, interruptions, reruns>>

(***************************************************************************)
(* What can happen to a pass.                                              *)
(***************************************************************************)

\* The process dies or the connection is lost: the open transaction rolls
\* back.  run_task tries again itself (the row stays RUNNING) or the task is
\* put back in the queue.
Interrupt ==
    /\ run.at # "none"
    /\ interruptions < MaxInterruptions
    /\ interruptions' = interruptions + 1
    /\ status' \in {"RUNNING", "QUEUED"}
    /\ run' = NoRun
    /\ UNCHANGED <<checkpoint, ledger, stopRequest, failure, gateOffered,
                   answer, reruns>>

\* The watchdog fires, or the pass dies of an unexpected exception.
Abort ==
    /\ run.at # "none"
    /\ FailTask("aborted")
    /\ UNCHANGED ledger

(***************************************************************************)
(* The researcher.                                                         *)
(***************************************************************************)

\* POST /cancel: a running task gets a row in task_cancel_requests, a waiting
\* one is flipped to CANCELLED.
RequestStop ==
    /\ \/ /\ status = "RUNNING"
          /\ stopRequest' = TRUE
          /\ UNCHANGED status
       \/ /\ status \in {"QUEUED", "AWAITING_COUNCIL_INPUT"}
          /\ status' = "CANCELLED"
          /\ UNCHANGED stopRequest
    /\ UNCHANGED <<checkpoint, ledger, run, failure, gateOffered, answer,
                   interruptions, reruns>>

\* POST /council-guidance.
SubmitGuidance ==
    /\ status = "AWAITING_COUNCIL_INPUT"
    /\ \E text \in Guidance :
          /\ checkpoint' = [checkpoint EXCEPT !.guidance = text]
          /\ answer' = text
    /\ status' = "QUEUED"
    /\ UNCHANGED <<ledger, stopRequest, run, failure, gateOffered,
                   interruptions, reruns>>

\* resume_expired_council_inputs: nobody answered within the grace period.
ExpireGate ==
    /\ status = "AWAITING_COUNCIL_INPUT"
    /\ status' = "QUEUED"
    /\ UNCHANGED <<checkpoint, ledger, stopRequest, run, failure, gateOffered,
                   answer, interruptions, reruns>>

\* POST /re-research, mode first_gap, when there is a phase to go back to.
\* Without one the service creates another task and leaves this one alone.
ReResearch ==
    /\ status \in Finished
    /\ reruns < MaxReruns
    /\ reruns' = reruns + 1
    /\ \E first \in Phase :
          /\ FirstUnfinished(checkpoint, first)
          /\ first \in checkpoint.runPhases \/ first # 1
          /\ checkpoint' = [checkpoint EXCEPT !.restartFrom = first]
    /\ stopRequest' = FALSE
    /\ status' = "QUEUED"
    /\ UNCHANGED <<ledger, run, failure, gateOffered, answer, interruptions>>

-----------------------------------------------------------------------------
Pass ==
    \/ Claim \/ BeginPass \/ RejectPass
    \/ PassKept \/ StopAtBoundary \/ PassStopCheck \/ HaltAtGate
    \/ SkipPhase \/ EnterPhase
    \/ CompletePhase \/ ConflictingPhase \/ FailPhase \/ StopInPhase
    \/ FinishPass

Next ==
    \/ Pass \/ AuditCommit
    \/ Interrupt \/ Abort
    \/ RequestStop \/ SubmitGuidance \/ ExpireGate \/ ReResearch

Spec == Init /\ [][Next]_vars

\* The worker polls for ever, every phase ends (seat deadlines, watchdog), and
\* the grace period of a parked task runs out.
FairSpec == Spec /\ WF_vars(Pass) /\ WF_vars(ExpireGate)
-----------------------------------------------------------------------------
(* Properties *)

\* Every variable holds a value of its type.
TypeOK ==
    /\ status \in Status
    /\ checkpoint \in Checkpoint
    /\ ledger \in Ledger
    /\ stopRequest \in BOOLEAN
    /\ run \in Run
    /\ failure \in Failures
    /\ gateOffered \in BOOLEAN
    /\ answer \in Guidance \cup {NoGuidance}
    /\ interruptions \in 0 .. MaxInterruptions
    /\ reruns \in 0 .. MaxReruns

\* The researcher is always offered the gate: no pass, however the task got
\* back into the queue, starts joint modeling on a task that was never parked.
GateNotBypassed ==
    (\/ JointModeling \in ledger.started \cup ledger.completed \cup ledger.failed
     \/ run.at = "phase" /\ run.phase = JointModeling) => gateOffered

FirstJointModeling ==
    /\ run.at = "phase"
    /\ run.phase = JointModeling
    /\ JointModeling \notin ledger.completed \cup ledger.failed

\* Joint modeling never reads a text that is not the researcher's answer to the
\* latest gate (an expired gate stays unanswered), and its first execution does
\* read that answer, through crashes and lost connections, as long as neither a
\* re-research nor a skip has rewritten the checkpoint.
GuidanceIsTheAnswer ==
    /\ FirstJointModeling => run.guidance \in {answer, NoGuidance}
    /\ FirstJointModeling /\ reruns = 0 /\ JointModeling \notin ledger.skipped =>
          run.guidance = answer

\* jobs.py: the guidance of the checkpoint reaches joint modeling's prompt.
GuidanceReachesJointModeling == FirstJointModeling => run.guidance = answer

\* The checkpoint and the ledger agree at every instant a crash could strike: a
\* phase whose events are committed is one a resumed pass keeps, with its carry.
\* Phases with a PHASE_SKIPPED are left out: a skipped phase that runs after all,
\* in a pass that is then lost, is on the ledger but not in the checkpoint.
CheckpointCoversLedger ==
    /\ ledger.completed \ ledger.skipped
          \subseteq checkpoint.runPhases \cap checkpoint.acc.carried
    /\ checkpoint.acc.carried \subseteq ledger.completed

\* A status that reports completion is honest: COMPLETED means every phase's
\* events are on the ledger, COMPLETED_WITH_GAPS that each missing one is a
\* recorded gap of the checkpoint.
CompletionIsHonest ==
    /\ status = "COMPLETED" => ledger.completed = Phase
    /\ status = "COMPLETED_WITH_GAPS" =>
          Phase \subseteq ledger.completed \cup FailedPhases(checkpoint)

\* Phases start in protocol order, over all passes of the task: when one first
\* starts, each earlier one has completed, failed or been skipped.
PhasesInProtocolOrder ==
    [][ \A p \in Phase :
          (run'.at = "phase" /\ run'.phase = p /\ p \notin ledger.started) =>
             1 .. p - 1 \subseteq ledger.completed \cup ledger.failed \cup ledger.skipped
      ]_vars

\* A phase whose events are committed is polled again only if the ledger also
\* says it was skipped: rewinds and resumes never spend the models twice on it.
CompletedPhaseNotRepolled ==
    [][ (run.at # "phase" /\ run'.at = "phase") =>
           run'.phase \notin ledger.completed \ ledger.skipped ]_vars

\* A queued task finishes, whatever fails on the way: the gate, the rewinds and
\* the resumes are not loops.
QueuedTaskFinishes == status = "QUEUED" ~> status \in Finished

\* orchestrator.py: the fast-forward keeps the state machine's rule, so a
\* stored checkpoint can always be resumed.
FastForwardIsLegal == failure # "InvalidTransition"
=============================================================================
