---------------------------- MODULE TaskLifecycle ----------------------------
(***************************************************************************)
(* One research task, the workers that may run it and the API calls that   *)
(* change it: the claim queue, the liveness lease, the row lock of the     *)
(* deliberation transaction, crash recovery, watchdog, synthesis and       *)
(* projection around a run (apps/worker), and the read-then-write calls of *)
(* ResearchService (packages/research/service.py).                         *)
(*                                                                         *)
(* A council pass is reduced to what the lifecycle depends on: which phases *)
(* ran, which of those failed, where the gate is.  Budget skips, guidance  *)
(* texts and the exact state a rewind restores are CouncilProtocol's.      *)
(***************************************************************************)
EXTENDS Integers, FiniteSets

CONSTANTS
    Worker,      \* worker processes
    Client,      \* concurrent API requests
    Nobody,      \* no holder of a lock
    NPhases,     \* length of PHASE_SEQUENCE
    GatePhase,   \* JOINT_MODELING: the phase behind the researcher gate
    MaxRetries,  \* len(DATABASE_RECOVERY_BACKOFF_SECONDS)
    Fault,       \* what goes wrong: "crash", "connection", "abort", "blip"
    MaxFaults,   \* bound: faults in a behaviour
    MaxReruns    \* bound: no re-research is begun after so many

Phase == 1 .. NPhases

ASSUME LifecycleAssumption ==
    /\ Nobody \notin Worker
    /\ NPhases \in Nat
    /\ GatePhase \in Phase
    /\ MaxRetries \in Nat
    /\ Fault \subseteq {"crash", "connection", "abort", "blip"}
    /\ MaxFaults \in Nat
    /\ MaxReruns \in Nat

VARIABLES
    status,       \* research_tasks.status
    aged,         \* updated_at is older than the grace that goes with status
    checkpoint,   \* research_tasks.council_checkpoint
    ledger,       \* phases whose events are committed
    papers,       \* idempotency keys of the committed FINAL_PAPER_DRAFTED events
    pending,      \* the ledger has events nobody has projected
    stopRequest,  \* task_cancel_requests has a row for the task
    rowLock,      \* whose deliberation transaction holds the task row
    lease,        \* who holds the advisory lock of task_lease
    worker,       \* what each worker is doing
    request,      \* the API call each client has in flight
    faults,       \* faults so far
    reruns        \* re-researches so far

row == <<status, aged, checkpoint>>
locks == <<rowLock, lease>>
counters == <<faults, reruns>>
vars == <<row, ledger, papers, pending, stopRequest, locks, worker, request,
          counters>>

-----------------------------------------------------------------------------
(* Data *)

Completed == {"COMPLETED", "COMPLETED_WITH_GAPS"}

Finished == Completed \cup {"FAILED", "CANCELLED"}

\* Where no worker has anything to do: finished, or waiting for the researcher.
AtRest == Finished \cup {"AWAITING_CLAIM_CONFIRMATION", "AWAITING_COUNCIL_INPUT",
                         "PAUSED"}

Status == AtRest \cup {"QUEUED", "RUNNING"}

\* _UNATTENDED_STATUSES: what the projection sweep looks after.
Unattended == AtRest \ {"AWAITING_CLAIM_CONFIRMATION"}

Checkpoint == [ran : SUBSET Phase, failed : SUBSET Phase, restart : BOOLEAN,
               gateReached : BOOLEAN]

NoCheckpoint == [ran |-> {}, failed |-> {}, restart |-> FALSE,
                 gateReached |-> FALSE]

\* A worker: where it is in run_one, how often it has recovered its database
\* connection, and the memory of its council pass.
WorkerState ==
    [at : {"idle", "claimed", "starting", "boundary", "phase", "synthesis",
           "projecting", "requeueing", "finalizing"},
     retries : 0 .. MaxRetries, cp : Checkpoint, todo : SUBSET Phase,
     stopBefore : BOOLEAN]

Idle == [at |-> "idle", retries |-> 0, cp |-> NoCheckpoint, todo |-> {},
         stopBefore |-> FALSE]

\* An API call between its read and its write: cancel is "stop" or "withdraw",
\* depending on the status it read.
Request ==
    [op : {"none", "queue", "pause", "resume", "withdraw", "stop", "guidance",
           "rerun"},
     cp : Checkpoint]

NoRequest == [op |-> "none", cp |-> NoCheckpoint]

Init ==
    /\ status = "AWAITING_CLAIM_CONFIRMATION"
    /\ aged = FALSE
    /\ checkpoint = NoCheckpoint
    /\ ledger = {} /\ papers = {} /\ pending = FALSE
    /\ stopRequest = FALSE
    /\ rowLock = Nobody /\ lease = Nobody
    /\ worker = [w \in Worker |-> Idle]
    /\ request = [c \in Client |-> NoRequest]
    /\ faults = 0 /\ reruns = 0

-----------------------------------------------------------------------------
(* Writing the row, holding the locks *)

\* set_status and the workers' status updates refresh updated_at, set_checkpoint
\* does not.
SetStatus(s) == status' = s /\ aged' = FALSE

\* A write to the row waits for the transaction that has it locked.
RowFreeFor(w) == rowLock \in {w, Nobody}

UnlockRow(w) == rowLock' = IF rowLock = w THEN Nobody ELSE rowLock

\* A mistake: the lock outlives its session, as a lock row in a table would.
DropLeaseNever(w) == UNCHANGED lease

DropLease(w) == lease' = IF lease = w THEN Nobody ELSE lease

Goto(w, where) == worker' = [worker EXCEPT ![w].at = where]

\* The pass is over and its memory gone; the rest of run_one goes on.
Leave(w, where) ==
    worker' = [worker EXCEPT ![w] = [Idle EXCEPT !.at = where,
                                                 !.retries = worker[w].retries]]

GoIdle(w) == worker' = [worker EXCEPT ![w] = Idle]

Strike(kind) ==
    /\ kind \in Fault
    /\ faults < MaxFaults
    /\ faults' = faults + 1
    /\ UNCHANGED reruns

(***************************************************************************)
(* A worker: claim, lease, deliberate, project.                            *)
(***************************************************************************)

\* claim_queued_tasks: SKIP LOCKED, and RUNNING in the same transaction.
Claim(w) ==
    /\ worker[w].at = "idle"
    /\ status = "QUEUED"
    /\ rowLock = Nobody
    /\ SetStatus("RUNNING")
    /\ Goto(w, "claimed")
    /\ UNCHANGED <<checkpoint, ledger, papers, pending, stopRequest, locks,
                   request, counters>>

\* task_lease: not getting the lease never stops the run.
TakeLease(w) ==
    /\ worker[w].at = "claimed"
    /\ Goto(w, "starting")
    /\ \/ /\ lease' = IF lease = Nobody THEN w ELSE lease
          /\ UNCHANGED counters
       \/ /\ Strike("blip")
          /\ UNCHANGED lease
    /\ UNCHANGED <<row, ledger, papers, pending, stopRequest, rowLock, request>>

\* _claim: a retry also accepts a completed task that has no paper yet.
Runnable(w) ==
    \/ status \in {"QUEUED", "RUNNING"}
    \/ /\ worker[w].retries > 0
       /\ status \in Completed
       /\ papers = {}

\* A mistake: a rewind starts from nothing.
KeptAfresh(cp) == IF cp.restart THEN {} ELSE cp.ran

\* The phases a pass from cp does not execute again.
Kept(cp) == IF cp.restart THEN cp.ran \ cp.failed ELSE cp.ran

\* The gate a pass from cp halts at is behind it.
PastGate(cp) == cp.gateReached \/ GatePhase \in cp.ran

\* deliberate(): lock the row, read the checkpoint, begin the pass.  On a rewind
\* the failed phases run again, and the restored snapshot may still list some
\* of the old failures.
BeginPass(w) ==
    /\ worker[w].at = "starting"
    /\ rowLock = Nobody
    /\ Runnable(w)
    /\ rowLock' = w
    /\ \E old \in SUBSET checkpoint.failed :
          /\ ~checkpoint.restart => old = checkpoint.failed
          /\ worker' = [worker EXCEPT ![w] =
                [at |-> "boundary", retries |-> @.retries,
                 cp |-> [ran |-> Kept(checkpoint), failed |-> old,
                         restart |-> FALSE,
                         gateReached |-> checkpoint.gateReached],
                 todo |-> Phase \ Kept(checkpoint),
                 stopBefore |-> ~PastGate(checkpoint)]]
    /\ UNCHANGED <<row, ledger, papers, pending, stopRequest, lease, request,
                   counters>>

\* TaskNotRunnable.
Refuse(w) ==
    /\ worker[w].at = "starting"
    /\ rowLock = Nobody
    /\ ~Runnable(w)
    /\ GoIdle(w)
    /\ DropLease(w)
    /\ UNCHANGED <<row, ledger, papers, pending, stopRequest, rowLock, request,
                   counters>>

\* The next phase of w's pass.
IsNext(w, p) == p \in worker[w].todo /\ \A q \in worker[w].todo : p <= q

AtGate(w) == worker[w].stopBefore /\ IsNext(w, GatePhase)

\* The stop check before a phase.
EnterPhase(w) ==
    /\ worker[w].at = "boundary"
    /\ worker[w].todo # {}
    /\ ~stopRequest
    /\ Goto(w, "phase")
    /\ UNCHANGED <<row, ledger, papers, pending, stopRequest, locks, request,
                   counters>>

\* A mistake: the running checkpoint is saved when the phase starts.
AuditCommitWithCheckpoint(w) ==
    /\ worker[w].at = "phase"
    /\ rowLock = w
    /\ rowLock' = Nobody
    /\ pending' = TRUE
    /\ checkpoint' = [worker[w].cp EXCEPT
                         !.ran = @ \cup {p \in Phase : IsNext(w, p)}]
    /\ UNCHANGED <<status, aged, ledger, papers, stopRequest, lease, worker,
                   request, counters>>

\* The audit row of a model call commits the deliberation transaction, which
\* gives the row lock up in the middle of the run.
AuditCommit(w) ==
    /\ worker[w].at = "phase"
    /\ rowLock = w
    /\ rowLock' = Nobody
    /\ pending' = TRUE
    /\ UNCHANGED <<row, ledger, papers, stopRequest, lease, worker, request,
                   counters>>

\* The phase is over: events and running checkpoint commit together.
EndPhase(w, p, failed) ==
    LET cp == [worker[w].cp EXCEPT !.ran = @ \cup {p}, !.failed = @ \cup failed]
    IN  /\ worker[w].at = "phase"
        /\ IsNext(w, p)
        /\ ~AtGate(w)
        /\ RowFreeFor(w)
        /\ worker' = [worker EXCEPT ![w].at = "boundary", ![w].cp = cp,
                                    ![w].todo = @ \ {p}]
        /\ checkpoint' = cp
        /\ UnlockRow(w)
        /\ pending' = TRUE
        /\ UNCHANGED <<status, aged, papers, stopRequest, lease, request, counters>>

\* PHASE_COMPLETED, unless another pass has committed the phase: the ledger
\* refuses its events then, see EventConflict.
CompletePhase(w) ==
    \E p \in Phase \ ledger :
        EndPhase(w, p, {}) /\ ledger' = ledger \cup {p}

\* A mistake: the failure leaves no slot.
FailPhaseSilently(w) ==
    \E p \in Phase : EndPhase(w, p, {}) /\ UNCHANGED ledger

\* The phase's runner raised: PHASE_FAILED, and the run goes on.
FailPhase(w) ==
    \E p \in Phase : EndPhase(w, p, {p}) /\ UNCHANGED ledger

\* A pass that ends sets its status whatever the row says by now.
EndPass(w, s, cp, where) ==
    /\ RowFreeFor(w)
    /\ SetStatus(s)
    /\ checkpoint' = cp
    /\ UnlockRow(w)
    /\ Leave(w, where)
    /\ UNCHANGED <<ledger, papers, lease, request, counters>>

\* stop_before: the pass parks the task.
Park(w) ==
    /\ worker[w].at = "phase"
    /\ AtGate(w)
    /\ EndPass(w, "AWAITING_COUNCIL_INPUT",
               [worker[w].cp EXCEPT !.gateReached = TRUE], "projecting")
    /\ UNCHANGED <<pending, stopRequest>>

\* The stop request is seen, at a boundary or by a model call in flight.
Stop(w) ==
    /\ worker[w].at \in {"boundary", "phase"}
    /\ worker[w].todo # {}
    /\ worker[w].at = "phase" => ~AtGate(w)
    /\ stopRequest
    /\ EndPass(w, "CANCELLED", [worker[w].cp EXCEPT !.gateReached = FALSE],
               "projecting")
    /\ stopRequest' = FALSE
    /\ pending' = TRUE

\* Every phase is done.  The audit row of the synthesis call commits the final
\* status before there is a paper.
Finish(w) ==
    /\ worker[w].at = "boundary"
    /\ worker[w].todo = {}
    /\ \E s \in Completed :
          /\ worker[w].cp.failed # {} => s = "COMPLETED_WITH_GAPS"
          /\ EndPass(w, s, worker[w].cp, "synthesis")
    /\ stopRequest' = FALSE
    /\ UNCHANGED pending

\* The paper is written, by the model or deterministically: one event under one
\* key.
DraftPaper(w) ==
    /\ worker[w].at = "synthesis"
    /\ papers' = papers \cup {"final"}
    /\ pending' = TRUE
    /\ Goto(w, "projecting")
    /\ UNCHANGED <<row, ledger, stopRequest, locks, request, counters>>

\* run_task's projection, then the end of run_one.
Project(w) ==
    /\ worker[w].at = "projecting"
    /\ pending' = FALSE
    /\ GoIdle(w)
    /\ DropLease(w)
    /\ UNCHANGED <<row, ledger, papers, stopRequest, rowLock, request, counters>>

\* The deterministic fallback paper of a failed run, if it can be written.
EmergencyPaper ==
    /\ papers' \in {papers, papers \cup {"emergency"}}
    /\ pending' = (pending \/ papers' # papers)

\* The events of a phase, or the paper, were already committed with another
\* payload: roll back, _mark_failed, and the exception ends the run.
EventConflict(w) ==
    /\ \/ worker[w].at = "phase" /\ \E p \in ledger : IsNext(w, p)
       \/ worker[w].at = "synthesis" /\ "final" \in papers
    /\ ~(worker[w].at = "phase" /\ AtGate(w))
    /\ RowFreeFor(w)
    /\ SetStatus("FAILED")
    /\ stopRequest' = FALSE
    /\ EmergencyPaper
    /\ UnlockRow(w) /\ DropLease(w)
    /\ Leave(w, "finalizing")
    /\ UNCHANGED <<checkpoint, ledger, request, counters>>

(***************************************************************************)
(* What goes wrong with a worker, and how it is repaired.                  *)
(***************************************************************************)

\* The process dies: PostgreSQL rolls back and drops its locks.
Crash(w) ==
    /\ Strike("crash")
    /\ worker[w].at # "idle"
    /\ GoIdle(w)
    /\ UnlockRow(w) /\ DropLease(w)
    /\ UNCHANGED <<row, ledger, papers, pending, stopRequest, request>>

\* A mistake: one attempt too many.
CanRecoverOnceMore(w) == worker[w].retries <= MaxRetries

\* _may_recover.
CanRecover(w) == worker[w].retries < MaxRetries

\* A database connection is lost, the lease's own connection with it or not:
\* recover in a fresh session, or give up and requeue.
LoseConnection(w) ==
    /\ Strike("connection")
    /\ worker[w].at \in {"starting", "boundary", "phase", "synthesis"}
    /\ UnlockRow(w)
    /\ IF CanRecover(w)
       THEN /\ worker' = [worker EXCEPT ![w] =
                             [Idle EXCEPT !.at = "starting",
                                          !.retries = worker[w].retries + 1]]
            /\ UNCHANGED lease \/ DropLease(w)
       ELSE /\ worker' = [worker EXCEPT ![w] = [Idle EXCEPT !.at = "requeueing"]]
            /\ DropLease(w)
    /\ UNCHANGED <<row, ledger, papers, pending, stopRequest, request>>

\* A mistake: whatever the status.
RequeueAlways(w) ==
    /\ worker[w].at = "requeueing"
    /\ rowLock = Nobody
    /\ SetStatus("QUEUED")
    /\ GoIdle(w)
    /\ UNCHANGED <<checkpoint, ledger, papers, pending, stopRequest, locks,
                   request, counters>>

\* requeue_task, the lease already released.
Requeue(w) ==
    /\ worker[w].at = "requeueing"
    /\ rowLock = Nobody
    /\ IF status = "RUNNING" THEN SetStatus("QUEUED") ELSE UNCHANGED <<status, aged>>
    /\ GoIdle(w)
    /\ UNCHANGED <<checkpoint, ledger, papers, pending, stopRequest, locks,
                   request, counters>>

\* The watchdog fires, or an unexpected exception ends the run.
Abort(w) ==
    /\ Strike("abort")
    /\ worker[w].at \in {"starting", "boundary", "phase", "synthesis", "projecting"}
    /\ Leave(w, "finalizing")
    /\ UnlockRow(w) /\ DropLease(w)
    /\ UNCHANGED <<row, ledger, papers, pending, stopRequest, request>>

\* emergency_finalize_task, the lease already released.
Finalize(w) ==
    /\ worker[w].at = "finalizing"
    /\ rowLock = Nobody
    /\ GoIdle(w)
    /\ IF status = "RUNNING"
       THEN SetStatus("FAILED") /\ stopRequest' = FALSE /\ EmergencyPaper
       ELSE UNCHANGED <<status, aged, stopRequest, papers, pending>>
    /\ UNCHANGED <<checkpoint, ledger, locks, request, counters>>

\* recover_stale_running: a RUNNING row that is old enough, and whose row lock
\* and lease are free.
Recover(w) ==
    /\ worker[w].at = "idle"
    /\ status = "RUNNING" /\ aged
    /\ rowLock = Nobody /\ lease = Nobody
    /\ SetStatus("QUEUED")
    /\ UNCHANGED <<checkpoint, ledger, papers, pending, stopRequest, locks,
                   worker, request, counters>>

\* resume_expired_council_inputs.
ExpireGate(w) ==
    /\ worker[w].at = "idle"
    /\ status = "AWAITING_COUNCIL_INPUT" /\ aged
    /\ rowLock = Nobody
    /\ SetStatus("QUEUED")
    /\ UNCHANGED <<checkpoint, ledger, papers, pending, stopRequest, locks,
                   worker, request, counters>>

\* A mistake: only finished tasks are looked at.
SweepFinished(w) ==
    /\ worker[w].at = "idle"
    /\ pending /\ status \in Finished
    /\ pending' = FALSE
    /\ UNCHANGED <<row, ledger, papers, stopRequest, locks, worker, request,
                   counters>>

\* backfill_projections.
Sweep(w) ==
    /\ worker[w].at = "idle"
    /\ pending /\ status \in Unattended
    /\ pending' = FALSE
    /\ UNCHANGED <<row, ledger, papers, stopRequest, locks, worker, request,
                   counters>>

\* Time passes, where anybody looks at it.  LEASE_CLAIM_GRACE_SECONDS covers the
\* instant between a claim and its lease.
Age ==
    /\ ~aged
    /\ status \in {"RUNNING", "AWAITING_COUNCIL_INPUT"}
    /\ \A w \in Worker : worker[w].at # "claimed"
    /\ aged' = TRUE
    /\ UNCHANGED <<status, checkpoint, ledger, papers, pending, stopRequest,
                   locks, worker, request, counters>>

(***************************************************************************)
(* The API: a call reads the row, decides, and writes.  The write waits for *)
(* the row lock and does not look at the row again.                        *)
(***************************************************************************)

\* first_unfinished_phase of a stored checkpoint is one the task can be rewound
\* to; otherwise the service creates another task.
CanRewind(cp) ==
    /\ cp.failed # {} \/ cp.ran # Phase
    /\ 1 \in cp.ran

\* The status each call must find.
Admits(op) ==
    CASE op = "queue"    -> {"AWAITING_CLAIM_CONFIRMATION"}
      [] op = "pause"    -> {"QUEUED"}
      [] op = "resume"   -> {"PAUSED"}
      [] op = "withdraw" -> {"QUEUED", "PAUSED", "AWAITING_COUNCIL_INPUT"}
      [] op = "stop"     -> {"RUNNING"}
      [] op = "guidance" -> {"AWAITING_COUNCIL_INPUT"}
      [] op = "rerun"    -> Finished

Read(c) ==
    /\ request[c] = NoRequest
    /\ \E op \in {"queue", "pause", "resume", "withdraw", "stop", "guidance",
                  "rerun"} :
          /\ status \in Admits(op)
          /\ op = "rerun" => CanRewind(checkpoint) /\ reruns < MaxReruns
          /\ request' = [request EXCEPT ![c] =
                [op |-> op, cp |-> IF op \in {"guidance", "rerun"}
                                   THEN checkpoint ELSE NoCheckpoint]]
    /\ UNCHANGED <<row, ledger, papers, pending, stopRequest, locks, worker,
                   counters>>

\* The status a call leaves behind; a stop only leaves its request.
WriteStatus(op) ==
    CASE op \in {"queue", "resume", "guidance", "rerun"} -> SetStatus("QUEUED")
      [] op = "pause"    -> SetStatus("PAUSED")
      [] op = "withdraw" -> SetStatus("CANCELLED")
      [] OTHER           -> UNCHANGED <<status, aged>>

Write(c) ==
    LET op == request[c].op
    IN  /\ op # "none"
        /\ rowLock = Nobody
        /\ WriteStatus(op)
        /\ checkpoint' = IF op \in {"guidance", "rerun"}
                         THEN [request[c].cp EXCEPT !.restart = @ \/ op = "rerun"]
                         ELSE checkpoint
        /\ stopRequest' = ((stopRequest \/ op = "stop") /\ op # "rerun")
        /\ reruns' = IF op = "rerun" THEN reruns + 1 ELSE reruns
        /\ request' = [request EXCEPT ![c] = NoRequest]
        /\ UNCHANGED <<ledger, papers, pending, locks, worker, faults>>

-----------------------------------------------------------------------------
\* What a worker does with the task it has claimed.
Work(w) ==
    \/ TakeLease(w) \/ BeginPass(w) \/ Refuse(w)
    \/ EnterPhase(w) \/ CompletePhase(w) \/ FailPhase(w)
    \/ Park(w) \/ Stop(w) \/ Finish(w) \/ DraftPaper(w) \/ EventConflict(w)
    \/ Project(w) \/ Requeue(w) \/ Finalize(w)

Mishap(w) == Crash(w) \/ LoseConnection(w) \/ Abort(w)

Next ==
    \/ \E w \in Worker :
          \/ Claim(w) \/ Work(w) \/ AuditCommit(w) \/ Mishap(w)
          \/ Recover(w) \/ ExpireGate(w) \/ Sweep(w)
    \/ Age
    \/ \E c \in Client : Read(c) \/ Write(c)

Spec == Init /\ [][Next]_vars

\* The calls do not overlap anything: a read is followed by its write at once.
CallOpen == \E c \in Client : request[c].op # "none"

SerialNext ==
    IF CallOpen
    THEN \E c \in Client : Write(c)
    ELSE /\ Next
         /\ request' # request => rowLock = Nobody

SerialSpec == Init /\ [][SerialNext]_vars

\* A worker polls and works for ever (the loop survives its exceptions, a dead
\* process is restarted), time passes, and a call that has read also writes.
Fairness ==
    /\ \A w \in Worker : WF_vars(Work(w))
    /\ WF_vars(\E w \in Worker : Claim(w))
    /\ WF_vars(\E w \in Worker : Recover(w))
    /\ WF_vars(\E w \in Worker : ExpireGate(w))
    /\ WF_vars(\E w \in Worker : Sweep(w))
    /\ WF_vars(Age)
    /\ \A c \in Client : WF_vars(Write(c))

FairSpec == Spec /\ Fairness
-----------------------------------------------------------------------------
(* Properties *)

\* Every variable holds a value of its type.
TypeOK ==
    /\ status \in Status
    /\ aged \in BOOLEAN
    /\ checkpoint \in Checkpoint
    /\ ledger \subseteq Phase
    /\ papers \subseteq {"final", "emergency"}
    /\ pending \in BOOLEAN
    /\ stopRequest \in BOOLEAN
    /\ rowLock \in Worker \cup {Nobody}
    /\ lease \in Worker \cup {Nobody}
    /\ worker \in [Worker -> WorkerState]
    /\ request \in [Client -> Request]
    /\ faults \in 0 .. MaxFaults
    /\ reruns \in Nat

\* No checkpoint, stored or about to be, claims work that is not on the ledger:
\* not when two runs of the task overlap, nor when an API call puts back the
\* checkpoint it read before.
CheckpointIsBacked ==
    \A cp \in {checkpoint} \cup {worker[w].cp : w \in Worker}
                \cup {request[c].cp : c \in Client} :
        cp.ran \ cp.failed \subseteq ledger

\* COMPLETED means every phase is on the ledger, whoever wrote the status last.
CompletionIsBacked == status = "COMPLETED" => ledger = Phase

Deliberating(w) == worker[w].at \in {"boundary", "phase", "synthesis"}

\* jobs.py: a task is never run twice at the same time.
AtMostOneRun ==
    \A v, w \in Worker : Deliberating(v) /\ Deliberating(w) => v = w

\* A finished task stays finished until the researcher restarts it: no reclaim,
\* requeue, gate expiry, late watchdog or late pass brings it back.  Only a task that
\* was withdrawn while a pass of it was still going may be parked by that pass.
Resurrection ==
    /\ status \in Finished /\ status' \notin Finished /\ reruns' = reruns
    /\ ~(status = "CANCELLED" /\ \E w \in Worker : Deliberating(w))

FinishedStaysFinished == [][ ~Resurrection ]_vars

\* Crashes, lost connections, reclaims and rewinds never lose a phase that the
\* checkpoint records as done.
CompletedWorkIsKept ==
    [][ checkpoint.ran \ checkpoint.failed \subseteq checkpoint'.ran ]_vars

\* A queued task comes to rest, whatever fails and whoever races.
QueuedTaskComesToRest == status = "QUEUED" ~> status \in AtRest

\* What a run left unprojected is projected, unless the task runs again.
EventsAreProjected ==
    (status \in Unattended /\ pending) ~> (~pending \/ status \notin Unattended)

\* service.py: a rewound task redoes what never reached the ledger, so it cannot
\* collide with what did, and its completion is not taken back.
CompletionIsNotRevoked ==
    [][ ~(status \in Completed /\ status' = "FAILED") ]_vars
=============================================================================
