------------------------- MODULE TaskLifecycleProofs -------------------------
(***************************************************************************)
(* Theorems about TaskLifecycle, for any number of workers and of           *)
(* overlapping API calls, any faults and any bounds.                        *)
(***************************************************************************)
EXTENDS TaskLifecycle, TLAPS

(* What the operators that build state return. *)

LEMMA NoCheckpointType == NoCheckpoint \in Checkpoint
  BY DEF NoCheckpoint, Checkpoint

LEMMA IdleType ==
  ASSUME NEW n \in 0 .. MaxRetries,
         NEW where \in {"idle", "claimed", "starting", "boundary", "phase",
                        "synthesis", "projecting", "requeueing", "finalizing"}
  PROVE  [[Idle EXCEPT !.at = where] EXCEPT !.retries = n] \in WorkerState
  BY NoCheckpointType DEF Idle, WorkerState

LEMMA IdleIsAState ==
  /\ Idle \in WorkerState
  /\ [Idle EXCEPT !.at = "requeueing"] \in WorkerState
  <1>1. 0 \in 0 .. MaxRetries
    BY LifecycleAssumption
  <1>2. QED
    BY <1>1, NoCheckpointType DEF Idle, WorkerState

\* A change of place, and nothing else, keeps the type of the workers.
LEMMA GotoType ==
  ASSUME TypeOK, NEW w \in Worker,
         NEW where \in {"claimed", "starting", "phase", "projecting"},
         Goto(w, where)
  PROVE  worker' \in [Worker -> WorkerState]
  BY DEF TypeOK, Goto, WorkerState

LEMMA GoIdleType ==
  ASSUME TypeOK, NEW w \in Worker, GoIdle(w)
  PROVE  worker' \in [Worker -> WorkerState]
  BY IdleIsAState DEF TypeOK, GoIdle

LEMMA LeaveType ==
  ASSUME TypeOK, NEW w \in Worker,
         NEW where \in {"synthesis", "projecting", "finalizing"},
         Leave(w, where)
  PROVE  worker' \in [Worker -> WorkerState]
  <1>1. worker[w].retries \in 0 .. MaxRetries
    BY DEF TypeOK, WorkerState
  <1>2. [Idle EXCEPT !.at = where, !.retries = worker[w].retries] \in WorkerState
    BY <1>1, IdleType DEF Idle
  <1>3. QED
    BY <1>2 DEF TypeOK, Leave

LEMMA LockType ==
  ASSUME TypeOK, NEW w \in Worker
  PROVE  /\ UnlockRow(w) => rowLock' \in Worker \cup {Nobody}
         /\ DropLease(w) => lease' \in Worker \cup {Nobody}
  BY DEF TypeOK, UnlockRow, DropLease

LEMMA StrikeType ==
  ASSUME TypeOK, NEW kind, Strike(kind)
  PROVE  faults' \in 0 .. MaxFaults /\ reruns' \in Nat
  BY LifecycleAssumption DEF TypeOK, Strike

LEMMA EndPassType ==
  ASSUME TypeOK, NEW w \in Worker, NEW s \in Status, NEW cp \in Checkpoint,
         NEW where \in {"synthesis", "projecting"}, EndPass(w, s, cp, where),
         stopRequest' \in BOOLEAN, pending' \in BOOLEAN
  PROVE  TypeOK'
  <1>1. worker' \in [Worker -> WorkerState]
    BY LeaveType DEF EndPass
  <1>2. rowLock' \in Worker \cup {Nobody}
    BY LockType DEF EndPass
  <1>3. QED
    BY <1>1, <1>2 DEF EndPass, SetStatus, TypeOK, counters

LEMMA EndPhaseType ==
  ASSUME TypeOK, NEW w \in Worker, NEW p \in Phase, NEW failed \in SUBSET Phase,
         EndPhase(w, p, failed), ledger' \subseteq Phase
  PROVE  TypeOK'
  <1> DEFINE cp == [worker[w].cp EXCEPT !.ran = @ \cup {p},
                                        !.failed = @ \cup failed]
  <1>1. worker[w] \in WorkerState
    BY DEF TypeOK
  <1>2. cp \in Checkpoint
    BY <1>1 DEF WorkerState, Checkpoint
  <1>3. checkpoint' = cp
    BY DEF EndPhase
  <1>4. worker' = [worker EXCEPT ![w].at = "boundary", ![w].cp = cp,
                                 ![w].todo = @ \ {p}]
    BY DEF EndPhase
  <1> HIDE DEF cp
  <1>5. worker' \in [Worker -> WorkerState]
    BY <1>1, <1>2, <1>4 DEF WorkerState, TypeOK
  <1>6. rowLock' \in Worker \cup {Nobody}
    BY LockType DEF EndPhase
  <1>7. QED
    BY <1>2, <1>3, <1>5, <1>6 DEF EndPhase, TypeOK, counters
-----------------------------------------------------------------------------
(* Type correctness.  TypeOK is inductive; each action is a step. *)

LEMMA TypeInit == Init => TypeOK
  <1> SUFFICES ASSUME Init
               PROVE  TypeOK
    OBVIOUS
  <1>1. faults \in 0 .. MaxFaults /\ reruns \in Nat
    BY LifecycleAssumption DEF Init
  <1>2. NoRequest \in Request
    BY NoCheckpointType DEF NoRequest, Request
  <1>3. /\ worker \in [Worker -> WorkerState]
        /\ request \in [Client -> Request]
    BY <1>2, IdleIsAState DEF Init
  <1>4. status \in Status /\ checkpoint \in Checkpoint
    BY NoCheckpointType DEF Init, Status, AtRest
  <1>5. QED
    BY <1>1, <1>3, <1>4 DEF Init, TypeOK

LEMMA TypeStep == TypeOK /\ [Next]_vars => TypeOK'
  <1> SUFFICES ASSUME TypeOK, [Next]_vars
               PROVE  TypeOK'
    OBVIOUS
  <1> USE DEF row, locks, counters
  <1>1. ASSUME NEW w \in Worker, Claim(w)
        PROVE  TypeOK'
    BY <1>1, GotoType DEF Claim, SetStatus, TypeOK, Status
  <1>2. ASSUME NEW w \in Worker, TakeLease(w)
        PROVE  TypeOK'
    <2>1. worker' \in [Worker -> WorkerState]
      BY <1>2, GotoType DEF TakeLease
    <2>2. faults' \in 0 .. MaxFaults /\ reruns' \in Nat
      BY <1>2, StrikeType DEF TakeLease, TypeOK
    <2>3. QED
      BY <1>2, <2>1, <2>2 DEF TakeLease, TypeOK
  <1>3. ASSUME NEW w \in Worker, BeginPass(w)
        PROVE  TypeOK'
    <2>1. PICK old \in SUBSET checkpoint.failed :
             worker' = [worker EXCEPT ![w] =
                [at |-> "boundary", retries |-> @.retries,
                 cp |-> [ran |-> Kept(checkpoint), failed |-> old,
                         restart |-> FALSE,
                         gateReached |-> checkpoint.gateReached],
                 todo |-> Phase \ Kept(checkpoint),
                 stopBefore |-> ~PastGate(checkpoint)]]
      BY <1>3 DEF BeginPass
    <2>2. /\ Kept(checkpoint) \subseteq Phase /\ old \subseteq Phase
          /\ checkpoint.gateReached \in BOOLEAN
          /\ PastGate(checkpoint) \in BOOLEAN
      BY DEF TypeOK, Checkpoint, Kept, PastGate
    <2>3. worker' \in [Worker -> WorkerState]
      BY <2>1, <2>2 DEF TypeOK, WorkerState, Checkpoint
    <2>4. QED
      BY <1>3, <2>3 DEF BeginPass, TypeOK
  <1>4. ASSUME NEW w \in Worker, Refuse(w)
        PROVE  TypeOK'
    BY <1>4, GoIdleType, LockType DEF Refuse, TypeOK
  <1>5. ASSUME NEW w \in Worker, EnterPhase(w)
        PROVE  TypeOK'
    BY <1>5, GotoType DEF EnterPhase, TypeOK
  <1>6. ASSUME NEW w \in Worker, AuditCommit(w)
        PROVE  TypeOK'
    BY <1>6 DEF AuditCommit, TypeOK
  <1>7. ASSUME NEW w \in Worker, CompletePhase(w)
        PROVE  TypeOK'
    <2>1. PICK p \in Phase \ ledger :
             EndPhase(w, p, {}) /\ ledger' = ledger \cup {p}
      BY <1>7 DEF CompletePhase
    <2>2. QED
      BY <2>1, EndPhaseType DEF TypeOK
  <1>8. ASSUME NEW w \in Worker, FailPhase(w)
        PROVE  TypeOK'
    <2>1. PICK p \in Phase : EndPhase(w, p, {p}) /\ UNCHANGED ledger
      BY <1>8 DEF FailPhase
    <2>2. QED
      BY <2>1, EndPhaseType DEF TypeOK
  <1>9. ASSUME NEW w \in Worker, Park(w)
        PROVE  TypeOK'
    <2>1. [worker[w].cp EXCEPT !.gateReached = TRUE] \in Checkpoint
      BY <1>9 DEF TypeOK, WorkerState, Checkpoint
    <2>2. QED
      BY <1>9, <2>1, EndPassType DEF Park, TypeOK, Status, AtRest
  <1>10. ASSUME NEW w \in Worker, Stop(w)
         PROVE  TypeOK'
    <2>1. [worker[w].cp EXCEPT !.gateReached = FALSE] \in Checkpoint
      BY <1>10 DEF TypeOK, WorkerState, Checkpoint
    <2>2. QED
      BY <1>10, <2>1, EndPassType DEF Stop, Status, AtRest, Finished
  <1>11. ASSUME NEW w \in Worker, Finish(w)
         PROVE  TypeOK'
    <2>1. PICK s \in Completed : EndPass(w, s, worker[w].cp, "synthesis")
      BY <1>11 DEF Finish
    <2>2. worker[w].cp \in Checkpoint /\ s \in Status
      BY <1>11 DEF TypeOK, WorkerState, Status, AtRest, Finished
    <2>3. QED
      BY <1>11, <2>1, <2>2, EndPassType DEF Finish, TypeOK
  <1>12. ASSUME NEW w \in Worker, DraftPaper(w)
         PROVE  TypeOK'
    BY <1>12, GotoType DEF DraftPaper, TypeOK
  <1>13. ASSUME NEW w \in Worker, Project(w)
         PROVE  TypeOK'
    BY <1>13, GoIdleType, LockType DEF Project, TypeOK
  <1>14. ASSUME NEW w \in Worker, EventConflict(w)
         PROVE  TypeOK'
    <2>1. worker' \in [Worker -> WorkerState]
      BY <1>14, LeaveType DEF EventConflict
    <2>2. QED
      BY <1>14, <2>1, LockType DEF EventConflict, EmergencyPaper, SetStatus,
                                   TypeOK, Status, AtRest, Finished
  <1>15. ASSUME NEW w \in Worker, Crash(w)
         PROVE  TypeOK'
    BY <1>15, GoIdleType, LockType, StrikeType DEF Crash, TypeOK
  <1>16. ASSUME NEW w \in Worker, LoseConnection(w)
         PROVE  TypeOK'
    <2>1. lease' \in Worker \cup {Nobody}
      BY <1>16, LockType DEF LoseConnection, TypeOK
    <2>2. worker' \in [Worker -> WorkerState]
      <3>1. CASE CanRecover(w)
        <4>1. worker[w].retries + 1 \in 0 .. MaxRetries
          BY <1>16, <3>1, LifecycleAssumption DEF CanRecover, TypeOK, WorkerState
        <4>2. [Idle EXCEPT !.at = "starting",
                           !.retries = worker[w].retries + 1] \in WorkerState
          BY <4>1, NoCheckpointType DEF Idle, WorkerState
        <4>3. QED
          BY <1>16, <3>1, <4>2 DEF LoseConnection, TypeOK
      <3>2. CASE ~CanRecover(w)
        BY <1>16, <3>2, IdleIsAState DEF LoseConnection, TypeOK
      <3>3. QED
        BY <3>1, <3>2
    <2>3. QED
      BY <1>16, <2>1, <2>2, LockType, StrikeType DEF LoseConnection, TypeOK
  <1>17. ASSUME NEW w \in Worker, Requeue(w)
         PROVE  TypeOK'
    BY <1>17, GoIdleType DEF Requeue, SetStatus, TypeOK, Status
  <1>18. ASSUME NEW w \in Worker, Abort(w)
         PROVE  TypeOK'
    <2>1. worker' \in [Worker -> WorkerState]
      BY <1>18, LeaveType DEF Abort
    <2>2. QED
      BY <1>18, <2>1, LockType, StrikeType DEF Abort, TypeOK
  <1>19. ASSUME NEW w \in Worker, Finalize(w)
         PROVE  TypeOK'
    BY <1>19, GoIdleType DEF Finalize, SetStatus, EmergencyPaper, TypeOK, Status,
                             AtRest, Finished
  <1>20. ASSUME NEW w \in Worker, Recover(w) \/ ExpireGate(w)
         PROVE  TypeOK'
    BY <1>20 DEF Recover, ExpireGate, SetStatus, TypeOK, Status
  <1>21. ASSUME NEW w \in Worker, Sweep(w)
         PROVE  TypeOK'
    BY <1>21 DEF Sweep, TypeOK
  <1>22. CASE Age
    BY <1>22 DEF Age, TypeOK
  <1>23. ASSUME NEW c \in Client, Read(c)
         PROVE  TypeOK'
    BY <1>23, NoCheckpointType DEF Read, TypeOK, Request
  <1>24. ASSUME NEW c \in Client, Write(c)
         PROVE  TypeOK'
    <2>1. status' \in Status /\ aged' \in BOOLEAN
      BY <1>24 DEF Write, WriteStatus, SetStatus, TypeOK, Status, AtRest, Finished
    <2>2. request[c].cp \in Checkpoint
      BY DEF TypeOK, Request
    <2>3. checkpoint' \in Checkpoint
      BY <1>24, <2>2 DEF Write, TypeOK, Checkpoint
    <2>4. reruns' \in Nat
      BY <1>24 DEF Write, TypeOK
    <2>5. request' \in [Client -> Request]
      BY <1>24, NoCheckpointType DEF Write, TypeOK, Request, NoRequest
    <2>6. QED
      BY <1>24, <2>1, <2>3, <2>4, <2>5 DEF Write, TypeOK
  <1>25. CASE UNCHANGED vars
    BY <1>25 DEF vars, TypeOK
  <1>26. QED
    BY <1>1, <1>2, <1>3, <1>4, <1>5, <1>6, <1>7, <1>8, <1>9, <1>10, <1>11,
       <1>12, <1>13, <1>14, <1>15, <1>16, <1>17, <1>18, <1>19, <1>20, <1>21,
       <1>22, <1>23, <1>24, <1>25 DEF Next, Work, Mishap

\* Every variable of the task's row, its locks, its workers and its API calls
\* holds a value of its type, however they interleave.
THEOREM TypeCorrect == Spec => []TypeOK
  BY TypeInit, TypeStep, PTL DEF Spec
-----------------------------------------------------------------------------
(* What the ledger backs.  The invariant speaks of every place a checkpoint *)
(* can be: the row, the memory of a pass, the hands of an API call; and it  *)
(* needs that a pass has recorded each phase it no longer has to do.        *)

\* The phases cp records as done are on the ledger.
Backed(cp) == cp.ran \ cp.failed \subseteq ledger

PassesAreBacked == \A w \in Worker : Backed(worker[w].cp)

CallsAreBacked == \A c \in Client : Backed(request[c].cp)

Executing(w) == worker[w].at \in {"boundary", "phase"}

PassesAccountForAll ==
    \A w \in Worker : Executing(w) => Phase \subseteq worker[w].todo \cup worker[w].cp.ran

IInv ==
    /\ TypeOK
    /\ Backed(checkpoint)
    /\ PassesAreBacked
    /\ CallsAreBacked
    /\ PassesAccountForAll
    /\ CompletionIsBacked

LEMMA IInvInit == Init => IInv
  <1> SUFFICES ASSUME Init
               PROVE  IInv
    OBVIOUS
  <1>1. Backed(NoCheckpoint)
    BY DEF Backed, NoCheckpoint
  <1>2. PassesAreBacked /\ CallsAreBacked /\ PassesAccountForAll
    BY <1>1 DEF Init, PassesAreBacked, CallsAreBacked, PassesAccountForAll,
                Executing, Idle, NoRequest
  <1>3. QED
    BY <1>1, <1>2, TypeInit DEF Init, IInv, CompletionIsBacked

\* The ledger only grows.
LEMMA LedgerGrows == [Next]_vars => ledger \subseteq ledger'
  <1> SUFFICES ASSUME [Next]_vars
               PROVE  ledger \subseteq ledger'
    OBVIOUS
  <1>1. ASSUME NEW w \in Worker,
               Claim(w) \/ TakeLease(w) \/ BeginPass(w) \/ Refuse(w)
                 \/ EnterPhase(w) \/ AuditCommit(w) \/ Recover(w)
                 \/ ExpireGate(w) \/ Sweep(w)
        PROVE  ledger' = ledger
    BY <1>1 DEF Claim, TakeLease, BeginPass, Refuse, EnterPhase, AuditCommit,
                Recover, ExpireGate, Sweep
  <1>2. ASSUME NEW w \in Worker, CompletePhase(w) \/ FailPhase(w)
        PROVE  ledger \subseteq ledger'
    BY <1>2 DEF CompletePhase, FailPhase
  <1>3. ASSUME NEW w \in Worker, Park(w) \/ Stop(w) \/ Finish(w)
        PROVE  ledger' = ledger
    BY <1>3 DEF Park, Stop, Finish, EndPass
  <1>4. ASSUME NEW w \in Worker,
               DraftPaper(w) \/ EventConflict(w) \/ Project(w) \/ Requeue(w)
                 \/ Finalize(w) \/ Mishap(w)
        PROVE  ledger' = ledger
    BY <1>4 DEF DraftPaper, EventConflict, Project, Requeue, Finalize, Mishap,
                Crash, LoseConnection, Abort
  <1>5. ASSUME Age \/ \E c \in Client : Read(c) \/ Write(c)
        PROVE  ledger' = ledger
    BY <1>5 DEF Age, Read, Write
  <1>6. QED
    BY <1>1, <1>2, <1>3, <1>4, <1>5 DEF Next, Work, vars

\* A step that leaves every checkpoint where it is, or drops it, keeps them all
\* backed, and a step that starts no pass accounts for every phase.
LEMMA QuietStep ==
  ASSUME IInv, ledger \subseteq ledger', UNCHANGED <<checkpoint, request>>,
         NEW w \in Worker, NEW s \in WorkerState,
         worker' = [worker EXCEPT ![w] = s],
         s.cp \in {worker[w].cp, NoCheckpoint},
         s.at \in {"boundary", "phase"} =>
            Executing(w) /\ s.todo = worker[w].todo /\ s.cp = worker[w].cp
  PROVE  /\ Backed(checkpoint)' /\ PassesAreBacked' /\ CallsAreBacked'
         /\ PassesAccountForAll'
  <1>1. ~(s.at \in {"boundary", "phase"}) \/ Phase \subseteq s.todo \cup s.cp.ran
    BY DEF IInv, PassesAccountForAll
  <1>2. s.cp.ran \ s.cp.failed \subseteq ledger
    BY DEF IInv, PassesAreBacked, Backed, NoCheckpoint
  <1>3. \A v \in Worker : worker'[v] = IF v = w THEN s ELSE worker[v]
    BY DEF IInv, TypeOK
  <1>4. PassesAreBacked'
    BY <1>2, <1>3 DEF IInv, PassesAreBacked, Backed
  <1>5. PassesAccountForAll'
    BY <1>1, <1>3 DEF IInv, PassesAccountForAll, Executing
  <1>6. Backed(checkpoint)' /\ CallsAreBacked'
    BY DEF IInv, CallsAreBacked, Backed
  <1>7. QED
    BY <1>4, <1>5, <1>6

\* A pass that ends leaves its checkpoint in the row and nothing in memory.
LEMMA EndPassStep ==
  ASSUME IInv, ledger \subseteq ledger', UNCHANGED request,
         NEW w \in Worker, NEW cp, NEW s,
         NEW where \in {"synthesis", "projecting"},
         EndPass(w, s, cp, where),
         cp.ran = worker[w].cp.ran, cp.failed = worker[w].cp.failed
  PROVE  /\ Backed(checkpoint)' /\ PassesAreBacked' /\ CallsAreBacked'
         /\ PassesAccountForAll'
  <1> DEFINE idle == [Idle EXCEPT !.at = where, !.retries = worker[w].retries]
  <1>1. worker' = [worker EXCEPT ![w] = idle] /\ checkpoint' = cp
    BY DEF EndPass, Leave
  <1>2. idle.at = where /\ idle.cp.ran = {}
    BY DEF Idle, NoCheckpoint
  <1> HIDE DEF idle
  <1>3. \A v \in Worker : worker'[v] = IF v = w THEN idle ELSE worker[v]
    BY <1>1 DEF IInv, TypeOK
  <1>4. PassesAreBacked'
    BY <1>2, <1>3 DEF IInv, PassesAreBacked, Backed
  <1>5. PassesAccountForAll'
    BY <1>2, <1>3 DEF IInv, PassesAccountForAll, Executing
  <1>6. Backed(checkpoint)'
    BY <1>1 DEF IInv, PassesAreBacked, Backed
  <1>7. CallsAreBacked'
    BY DEF IInv, CallsAreBacked, Backed
  <1>8. QED
    BY <1>4, <1>5, <1>6, <1>7

\* A phase that ends is on the ledger, or recorded as failed.
LEMMA EndPhaseStep ==
  ASSUME IInv, ledger \subseteq ledger', NEW w \in Worker, NEW p \in Phase,
         NEW failed \in SUBSET Phase, EndPhase(w, p, failed),
         p \in ledger' \cup failed
  PROVE  /\ Backed(checkpoint)' /\ PassesAreBacked' /\ CallsAreBacked'
         /\ PassesAccountForAll'
  <1> DEFINE cp == [worker[w].cp EXCEPT !.ran = @ \cup {p},
                                        !.failed = @ \cup failed]
  <1>1. /\ worker' = [worker EXCEPT ![w].at = "boundary", ![w].cp = cp,
                                    ![w].todo = @ \ {p}]
        /\ checkpoint' = cp
        /\ UNCHANGED request
        /\ worker[w].at = "phase"
    BY DEF EndPhase
  <1>2. worker[w] \in WorkerState /\ worker[w].cp \in Checkpoint
    BY DEF IInv, TypeOK, WorkerState
  <1>3. /\ cp.ran = worker[w].cp.ran \cup {p}
        /\ cp.failed = worker[w].cp.failed \cup failed
    BY <1>2 DEF Checkpoint
  <1> HIDE DEF cp
  <1>4. /\ worker'[w].at = "boundary" /\ worker'[w].cp = cp
        /\ worker'[w].todo = worker[w].todo \ {p}
        /\ \A v \in Worker \ {w} : worker'[v] = worker[v]
    BY <1>1, <1>2 DEF IInv, TypeOK, WorkerState
  <1>5. cp.ran \ cp.failed \subseteq ledger'
    BY <1>3 DEF IInv, PassesAreBacked, Backed
  <1>6. PassesAreBacked'
    BY <1>4, <1>5 DEF IInv, PassesAreBacked, Backed
  <1>7. Phase \subseteq worker[w].todo \cup worker[w].cp.ran
    BY <1>1 DEF IInv, PassesAccountForAll, Executing
  <1>8. PassesAccountForAll'
    BY <1>3, <1>4, <1>7 DEF IInv, PassesAccountForAll, Executing
  <1>9. Backed(checkpoint)' /\ CallsAreBacked'
    BY <1>1, <1>5 DEF IInv, CallsAreBacked, Backed
  <1>10. QED
    BY <1>6, <1>8, <1>9

\* A pass that begins keeps what its checkpoint backs and takes on the rest.
LEMMA BeginPassStep ==
  ASSUME IInv, NEW w \in Worker, BeginPass(w)
  PROVE  /\ Backed(checkpoint)' /\ PassesAreBacked' /\ CallsAreBacked'
         /\ PassesAccountForAll'
  <1>1. PICK old \in SUBSET checkpoint.failed :
           /\ ~checkpoint.restart => old = checkpoint.failed
           /\ worker' = [worker EXCEPT ![w] =
                [at |-> "boundary", retries |-> @.retries,
                 cp |-> [ran |-> Kept(checkpoint), failed |-> old,
                         restart |-> FALSE,
                         gateReached |-> checkpoint.gateReached],
                 todo |-> Phase \ Kept(checkpoint),
                 stopBefore |-> ~PastGate(checkpoint)]]
    BY DEF BeginPass
  <1>2. /\ worker'[w].at = "boundary"
        /\ worker'[w].cp.ran = Kept(checkpoint) /\ worker'[w].cp.failed = old
        /\ worker'[w].todo = Phase \ Kept(checkpoint)
        /\ \A v \in Worker \ {w} : worker'[v] = worker[v]
    BY <1>1 DEF IInv, TypeOK
  <1>3. Kept(checkpoint) \ old \subseteq ledger
    BY <1>1 DEF IInv, Backed, Kept
  <1>4. UNCHANGED <<checkpoint, ledger, request>>
    BY DEF BeginPass, row
  <1>5. PassesAreBacked'
    BY <1>2, <1>3, <1>4 DEF IInv, PassesAreBacked, Backed
  <1>6. PassesAccountForAll'
    BY <1>2 DEF IInv, PassesAccountForAll, Executing
  <1>7. Backed(checkpoint)' /\ CallsAreBacked'
    BY <1>4 DEF IInv, CallsAreBacked, Backed
  <1>8. QED
    BY <1>5, <1>6, <1>7

\* An API call puts back the checkpoint it read, however old, and that is still
\* backed.
LEMMA CallStep ==
  ASSUME IInv, NEW c \in Client, Read(c) \/ Write(c)
  PROVE  /\ Backed(checkpoint)' /\ PassesAreBacked' /\ CallsAreBacked'
         /\ PassesAccountForAll'
  <1>1. UNCHANGED <<ledger, worker>>
    BY DEF Read, Write
  <1>2. PassesAreBacked' /\ PassesAccountForAll'
    BY <1>1 DEF IInv, PassesAreBacked, PassesAccountForAll, Backed, Executing
  <1>3. request[c].cp \in Checkpoint
    BY DEF IInv, TypeOK, Request
  <1>4. checkpoint'.ran \ checkpoint'.failed \subseteq ledger
    <2>1. CASE Read(c)
      BY <2>1 DEF Read, row, IInv, Backed
    <2>2. CASE Write(c)
      BY <2>2, <1>3 DEF Write, IInv, Backed, CallsAreBacked, Checkpoint
    <2>3. QED
      BY <2>1, <2>2
  <1>5. \A d \in Client : request'[d].cp \in {request[d].cp, checkpoint, NoCheckpoint}
    <2>1. CASE Read(c)
      BY <2>1 DEF Read, IInv, TypeOK
    <2>2. CASE Write(c)
      BY <2>2 DEF Write, IInv, TypeOK, NoRequest
    <2>3. QED
      BY <2>1, <2>2
  <1>6. NoCheckpoint.ran = {}
    BY DEF NoCheckpoint
  <1>7. CallsAreBacked'
    BY <1>1, <1>5, <1>6 DEF IInv, CallsAreBacked, Backed
  <1>8. QED
    BY <1>1, <1>2, <1>4, <1>7 DEF Backed

\* Nothing else touches a checkpoint.
LEMMA BackedStep ==
  ASSUME IInv, [Next]_vars
  PROVE  /\ Backed(checkpoint)' /\ PassesAreBacked' /\ CallsAreBacked'
         /\ PassesAccountForAll'
  <1> DEFINE Goal == /\ Backed(checkpoint)' /\ PassesAreBacked' /\ CallsAreBacked'
                     /\ PassesAccountForAll'
  <1> SUFFICES Goal
    OBVIOUS
  <1> HIDE DEF Goal
  <1>0. ledger \subseteq ledger'
    BY LedgerGrows
  <1>a. ASSUME NEW w \in Worker, UNCHANGED <<checkpoint, request>>,
               NEW where \in {"idle", "claimed", "starting", "phase",
                              "projecting"},
               Goto(w, where), where = "phase" => worker[w].at = "boundary"
        PROVE  Goal
    <2>1. worker' = [worker EXCEPT ![w] = [worker[w] EXCEPT !.at = where]]
      BY <1>a DEF Goto
    <2>2. /\ [worker[w] EXCEPT !.at = where] \in WorkerState
          /\ [worker[w] EXCEPT !.at = where].at = where
          /\ [worker[w] EXCEPT !.at = where].cp = worker[w].cp
          /\ [worker[w] EXCEPT !.at = where].todo = worker[w].todo
      BY DEF IInv, TypeOK, WorkerState
    <2>3. QED
      BY <1>0, <1>a, <2>1, <2>2, QuietStep DEF Executing, Goal
  <1>b. ASSUME NEW w \in Worker, UNCHANGED <<checkpoint, request>>,
               GoIdle(w)
        PROVE  Goal
    <2>1. Idle.at = "idle" /\ Idle.cp = NoCheckpoint
      BY DEF Idle
    <2>2. worker' = [worker EXCEPT ![w] = Idle]
      BY <1>b DEF GoIdle
    <2>3. QED
      BY <1>0, <1>b, <2>1, <2>2, IdleIsAState, QuietStep DEF Goal
  <1>c. ASSUME NEW w \in Worker, UNCHANGED <<checkpoint, request>>,
               NEW where \in {"starting", "finalizing"},
               NEW n \in 0 .. MaxRetries,
               worker' = [worker EXCEPT ![w] = [Idle EXCEPT !.at = where,
                                                            !.retries = n]]
        PROVE  Goal
    <2> DEFINE s == [Idle EXCEPT !.at = where, !.retries = n]
    <2>1. s \in WorkerState /\ s.at = where /\ s.cp = NoCheckpoint
      BY NoCheckpointType DEF Idle, WorkerState
    <2>2. QED
      BY <1>0, <1>c, <2>1, QuietStep DEF Goal
  <1>1. ASSUME NEW w \in Worker, Claim(w) \/ TakeLease(w) \/ EnterPhase(w)
                                   \/ DraftPaper(w)
        PROVE  Goal
    BY <1>1, <1>a DEF Claim, TakeLease, EnterPhase, DraftPaper, row
  <1>2. ASSUME NEW w \in Worker, BeginPass(w)
        PROVE  Goal
    BY <1>2, BeginPassStep DEF Goal
  <1>3. ASSUME NEW w \in Worker,
               Refuse(w) \/ Project(w) \/ Crash(w) \/ Requeue(w) \/ Finalize(w)
        PROVE  Goal
    BY <1>3, <1>b DEF Refuse, Project, Crash, Requeue, Finalize, row
  <1>4. ASSUME NEW w \in Worker, CompletePhase(w)
        PROVE  Goal
    <2>1. PICK p \in Phase \ ledger :
             EndPhase(w, p, {}) /\ ledger' = ledger \cup {p}
      BY <1>4 DEF CompletePhase
    <2>2. QED
      BY <1>0, <2>1, EndPhaseStep DEF Goal
  <1>5. ASSUME NEW w \in Worker, FailPhase(w)
        PROVE  Goal
    <2>1. PICK p \in Phase : EndPhase(w, p, {p})
      BY <1>5 DEF FailPhase
    <2>2. QED
      BY <1>0, <2>1, EndPhaseStep DEF Goal
  <1>6. ASSUME NEW w \in Worker, Park(w) \/ Stop(w) \/ Finish(w)
        PROVE  Goal
    <2>1. worker[w].cp \in Checkpoint
      BY DEF IInv, TypeOK, WorkerState
    <2>2. \A b \in BOOLEAN : /\ [worker[w].cp EXCEPT !.gateReached = b].ran = worker[w].cp.ran
                             /\ [worker[w].cp EXCEPT !.gateReached = b].failed = worker[w].cp.failed
      BY <2>1 DEF Checkpoint
    <2>3. UNCHANGED request
      BY <1>6 DEF Park, Stop, Finish, EndPass
    <2>4. CASE Park(w)
      <3>1. EndPass(w, "AWAITING_COUNCIL_INPUT",
                    [worker[w].cp EXCEPT !.gateReached = TRUE], "projecting")
        BY <2>4 DEF Park
      <3>2. QED
        BY <1>0, <2>2, <2>3, <3>1, EndPassStep DEF Goal
    <2>5. CASE Stop(w)
      <3>1. EndPass(w, "CANCELLED",
                    [worker[w].cp EXCEPT !.gateReached = FALSE], "projecting")
        BY <2>5 DEF Stop
      <3>2. QED
        BY <1>0, <2>2, <2>3, <3>1, EndPassStep DEF Goal
    <2>6. CASE Finish(w)
      <3>1. PICK s \in Completed : EndPass(w, s, worker[w].cp, "synthesis")
        BY <2>6 DEF Finish
      <3>2. QED
        BY <1>0, <2>3, <3>1, EndPassStep DEF Goal
    <2>7. QED
      BY <1>6, <2>4, <2>5, <2>6
  <1>7. ASSUME NEW w \in Worker, EventConflict(w) \/ Abort(w)
        PROVE  Goal
    <2>1. worker[w].retries \in 0 .. MaxRetries
      BY DEF IInv, TypeOK, WorkerState
    <2>2. QED
      BY <1>7, <2>1, <1>c DEF EventConflict, Abort, Leave, row
  <1>8. ASSUME NEW w \in Worker, LoseConnection(w)
        PROVE  Goal
    <2>1. UNCHANGED <<checkpoint, request>>
      BY <1>8 DEF LoseConnection, row
    <2>2. CASE CanRecover(w)
      <3>1. worker[w].retries + 1 \in 0 .. MaxRetries
        BY <2>2, LifecycleAssumption DEF CanRecover, IInv, TypeOK, WorkerState
      <3>2. QED
        BY <1>8, <2>1, <2>2, <3>1, <1>c DEF LoseConnection
    <2>3. CASE ~CanRecover(w)
      <3> DEFINE s == [Idle EXCEPT !.at = "requeueing"]
      <3>1. s \in WorkerState /\ s.at = "requeueing" /\ s.cp = NoCheckpoint
        BY IdleIsAState DEF Idle
      <3>2. worker' = [worker EXCEPT ![w] = s]
        BY <1>8, <2>3 DEF LoseConnection
      <3>3. QED
        BY <1>0, <2>1, <3>1, <3>2, QuietStep DEF Goal
    <2>4. QED
      BY <2>2, <2>3
  <1>9. ASSUME UNCHANGED <<checkpoint, request, worker>>
        PROVE  Goal
    BY <1>0, <1>9 DEF IInv, Backed, PassesAreBacked, CallsAreBacked,
                      PassesAccountForAll, Executing, Goal
  <1>10. ASSUME NEW w \in Worker,
                AuditCommit(w) \/ Recover(w) \/ ExpireGate(w) \/ Sweep(w)
         PROVE  Goal
    BY <1>10, <1>9 DEF AuditCommit, Recover, ExpireGate, Sweep, row
  <1>11. CASE Age \/ UNCHANGED vars
    BY <1>11, <1>9 DEF Age, vars, row
  <1>12. ASSUME NEW c \in Client, Read(c) \/ Write(c)
         PROVE  Goal
    BY <1>12, CallStep DEF Goal
  <1>13. QED
    BY <1>1, <1>2, <1>3, <1>4, <1>5, <1>6, <1>7, <1>8, <1>10, <1>11, <1>12
       DEF Next, Work, Mishap

\* Only a pass that has no phase left reports completion.
LEMMA CompletionComesFromFinish ==
  ASSUME TypeOK, [Next]_vars, status' = "COMPLETED", status # "COMPLETED"
  PROVE  \E w \in Worker : Finish(w)
  <1>1. ASSUME NEW w \in Worker,
               Claim(w) \/ TakeLease(w) \/ BeginPass(w) \/ Refuse(w)
                 \/ EnterPhase(w) \/ AuditCommit(w) \/ Recover(w)
                 \/ ExpireGate(w) \/ Sweep(w)
        PROVE  FALSE
    BY <1>1 DEF Claim, TakeLease, BeginPass, Refuse, EnterPhase, AuditCommit,
                Recover, ExpireGate, Sweep, SetStatus, row
  <1>2. ASSUME NEW w \in Worker,
               CompletePhase(w) \/ FailPhase(w) \/ Park(w) \/ Stop(w)
        PROVE  FALSE
    BY <1>2 DEF CompletePhase, FailPhase, EndPhase, Park, Stop, EndPass, SetStatus
  <1>3. ASSUME NEW w \in Worker,
               DraftPaper(w) \/ EventConflict(w) \/ Project(w) \/ Requeue(w)
                 \/ Finalize(w) \/ Mishap(w)
        PROVE  FALSE
    BY <1>3 DEF DraftPaper, EventConflict, Project, Requeue, Finalize, Mishap,
                Crash, LoseConnection, Abort, SetStatus, row
  <1>4. ASSUME NEW c \in Client, Read(c) \/ Write(c)
        PROVE  FALSE
    <2>1. \A op : WriteStatus(op) => status' \in {"QUEUED", "PAUSED", "CANCELLED", status}
      BY DEF WriteStatus, SetStatus
    <2>2. QED
      BY <1>4, <2>1 DEF Read, Write, row
  <1>5. ASSUME Age \/ UNCHANGED vars
        PROVE  FALSE
    BY <1>5 DEF Age, vars, row
  <1>6. QED
    BY <1>1, <1>2, <1>3, <1>4, <1>5 DEF Next, Work

LEMMA CompletionStep ==
  ASSUME IInv, [Next]_vars
  PROVE  CompletionIsBacked'
  <1>1. ledger \subseteq ledger' /\ TypeOK'
    BY LedgerGrows, TypeStep DEF IInv
  <1>2. CASE status' # "COMPLETED" \/ status = "COMPLETED"
    BY <1>1, <1>2 DEF IInv, CompletionIsBacked, TypeOK
  <1>3. CASE status' = "COMPLETED" /\ status # "COMPLETED"
    <2>1. PICK w \in Worker : Finish(w)
      BY <1>3, CompletionComesFromFinish DEF IInv
    <2>2. worker[w].todo = {} /\ worker[w].cp.failed = {}
      BY <1>3, <2>1 DEF Finish, EndPass, SetStatus
    <2>3. Phase \subseteq worker[w].cp.ran
      BY <2>1, <2>2 DEF Finish, IInv, PassesAccountForAll, Executing
    <2>4. Phase \subseteq ledger
      BY <2>2, <2>3 DEF IInv, PassesAreBacked, Backed
    <2>5. QED
      BY <1>1, <2>4 DEF CompletionIsBacked, TypeOK
  <1>4. QED
    BY <1>2, <1>3

LEMMA IInvStep == IInv /\ [Next]_vars => IInv'
  BY TypeStep, BackedStep, CompletionStep DEF IInv

LEMMA IInvCorrect == Spec => []IInv
  BY IInvInit, IInvStep, PTL DEF Spec

\* However runs and API calls overlap, and whatever fails, no checkpoint in the
\* row, in a worker or in a call claims a phase that the ledger does not hold.
THEOREM CheckpointsAreBacked == Spec => []CheckpointIsBacked
  <1>1. IInv => CheckpointIsBacked
    BY DEF IInv, PassesAreBacked, CallsAreBacked, Backed, CheckpointIsBacked
  <1>2. QED
    BY <1>1, IInvCorrect, PTL

\* However runs and API calls overlap, and whatever fails, a task that reports
\* COMPLETED has every phase's events on the ledger.
THEOREM CompletionsAreBacked == Spec => []CompletionIsBacked
  <1>1. IInv => CompletionIsBacked
    BY DEF IInv
  <1>2. QED
    BY <1>1, IInvCorrect, PTL
-----------------------------------------------------------------------------
(* One worker, and API calls that overlap nothing (SerialSpec): the          *)
(* deployment of docker-compose.yml.  The pass and the row then agree on     *)
(* what is done, and a completed task has nothing left for a pass to do.     *)

OneWorker == \A v, w \in Worker : v = w

\* A call in flight still finds what it has read.
CallsAreSerial ==
    /\ \A c \in Client : request[c].op # "none" =>
           /\ rowLock = Nobody /\ status \in Admits(request[c].op)
           /\ request[c].op \in {"guidance", "rerun"} => request[c].cp = checkpoint
    /\ \A c, d \in Client : request[c].op # "none" /\ request[d].op # "none" => c = d

PassAgrees(w) ==
    Executing(w) =>
        /\ checkpoint.ran \ checkpoint.failed \subseteq worker[w].cp.ran
        /\ ~worker[w].cp.restart
        /\ status \in Completed => worker[w].todo = {}
        /\ status # "FAILED"

CompletedIsWhole == status \in Completed => checkpoint.ran = Phase /\ ~checkpoint.restart

SerialInv ==
    /\ IInv
    /\ CallsAreSerial
    /\ \A w \in Worker : PassAgrees(w)
    /\ CompletedIsWhole

LEMMA SerialInit == Init => SerialInv
  <1> SUFFICES ASSUME Init
               PROVE  SerialInv
    OBVIOUS
  <1>1. CallsAreSerial
    BY DEF Init, CallsAreSerial, NoRequest
  <1>2. \A w \in Worker : PassAgrees(w)
    BY DEF Init, PassAgrees, Executing, Idle
  <1>3. CompletedIsWhole
    BY DEF Init, CompletedIsWhole, Completed
  <1>4. QED
    BY <1>1, <1>2, <1>3, IInvInit DEF SerialInv

\* A serial step is a step.
LEMMA SerialIsNext == [SerialNext]_vars => [Next]_vars
  BY DEF SerialNext, Next, vars

\* A worker's step leaves the calls alone.
LEMMA OnlyCallsCall ==
  ASSUME Next, request' # request
  PROVE  \E c \in Client : Read(c) \/ Write(c)
  <1>1. ASSUME NEW w \in Worker,
               Claim(w) \/ TakeLease(w) \/ BeginPass(w) \/ Refuse(w) \/ EnterPhase(w)
                 \/ CompletePhase(w) \/ FailPhase(w) \/ Park(w) \/ Stop(w) \/ Finish(w)
        PROVE  FALSE
    BY <1>1 DEF Claim, TakeLease, BeginPass, Refuse, EnterPhase, CompletePhase,
                FailPhase, EndPhase, Park, Stop, Finish, EndPass
  <1>2. ASSUME NEW w \in Worker,
               DraftPaper(w) \/ EventConflict(w) \/ Project(w) \/ Requeue(w)
                 \/ Finalize(w) \/ Mishap(w)
        PROVE  FALSE
    BY <1>2 DEF DraftPaper, EventConflict, Project, Requeue, Finalize, Mishap, Crash,
                LoseConnection, Abort
  <1>3. ASSUME NEW w \in Worker,
               AuditCommit(w) \/ Recover(w) \/ ExpireGate(w) \/ Sweep(w)
        PROVE  FALSE
    BY <1>3 DEF AuditCommit, Recover, ExpireGate, Sweep
  <1>4. QED
    BY <1>1, <1>2, <1>3 DEF Next, Work, Age

LEMMA CallsStaySerial ==
  ASSUME SerialInv, SerialNext
  PROVE  CallsAreSerial'
  <1>1. CASE CallOpen
    <2>1. PICK c \in Client : Write(c)
      BY <1>1 DEF SerialNext
    <2>2. \A d \in Client : request'[d].op = "none"
      BY <2>1 DEF Write, NoRequest, SerialInv, CallsAreSerial, IInv, TypeOK
    <2>3. QED
      BY <2>2 DEF CallsAreSerial
  <1>2. CASE ~CallOpen /\ request' = request
    BY <1>2 DEF CallOpen, CallsAreSerial
  <1>3. CASE ~CallOpen /\ request' # request
    <2>1. Next /\ rowLock = Nobody
      BY <1>3 DEF SerialNext
    <2>2. PICK c \in Client : Read(c)
      BY <1>3, <2>1, OnlyCallsCall DEF CallOpen, Write
    <2>3. PICK op : /\ status \in Admits(op)
                    /\ request' = [request EXCEPT ![c] =
                         [op |-> op, cp |-> IF op \in {"guidance", "rerun"}
                                            THEN checkpoint ELSE NoCheckpoint]]
      BY <2>2 DEF Read
    <2>4. UNCHANGED <<status, checkpoint, rowLock>>
      BY <2>2 DEF Read, row, locks
    <2>5. /\ request'[c].op = op
          /\ op \in {"guidance", "rerun"} => request'[c].cp = checkpoint
          /\ \A d \in Client \ {c} : request'[d].op = "none"
      BY <1>3, <2>3 DEF CallOpen, SerialInv, IInv, TypeOK
    <2>6. Admits(op)' = Admits(op)
      BY DEF Admits
    <2>7. QED
      BY <2>1, <2>3, <2>4, <2>5 DEF CallsAreSerial
  <1>4. QED
    BY <1>1, <1>2, <1>3

\* What a write does to the row: the phases of the checkpoint stay, and a status it
\* leaves is none that a pass must not see.
LEMMA SerialWrite ==
  ASSUME SerialInv, NEW c \in Client, Write(c)
  PROVE  /\ checkpoint'.ran = checkpoint.ran /\ checkpoint'.failed = checkpoint.failed
         /\ checkpoint' # checkpoint => status' = "QUEUED"
         /\ status' \in {status, "QUEUED", "PAUSED", "CANCELLED"}
         /\ status \in Finished /\ status' # status => reruns' # reruns
         /\ UNCHANGED worker
  <1> DEFINE op == request[c].op
  <1>1. /\ op # "none" /\ WriteStatus(op)
        /\ checkpoint' = IF op \in {"guidance", "rerun"}
                         THEN [request[c].cp EXCEPT !.restart = @ \/ op = "rerun"]
                         ELSE checkpoint
        /\ reruns' = IF op = "rerun" THEN reruns + 1 ELSE reruns
        /\ UNCHANGED worker
    BY DEF Write
  <1>2. /\ status \in Admits(op)
        /\ op \in {"guidance", "rerun"} => request[c].cp = checkpoint
    BY <1>1 DEF SerialInv, CallsAreSerial
  <1>3. checkpoint \in Checkpoint /\ reruns \in Nat /\ op \in
          {"none", "queue", "pause", "resume", "withdraw", "stop", "guidance", "rerun"}
    BY DEF SerialInv, IInv, TypeOK, Request
  <1> HIDE DEF op
  <1>4. checkpoint'.ran = checkpoint.ran /\ checkpoint'.failed = checkpoint.failed
    BY <1>1, <1>2, <1>3 DEF Checkpoint
  <1>5. /\ checkpoint' # checkpoint => status' = "QUEUED"
        /\ status' \in {status, "QUEUED", "PAUSED", "CANCELLED"}
    BY <1>1, <1>3 DEF WriteStatus, SetStatus
  <1>6. status \in Finished /\ status' # status => reruns' # reruns
    BY <1>1, <1>2, <1>3 DEF WriteStatus, SetStatus, Admits, Finished, Completed
  <1>7. QED
    BY <1>1, <1>4, <1>5, <1>6

\* A phase that ends: the row has the checkpoint of the pass.
LEMMA SerialEndPhase ==
  ASSUME SerialInv, NEW w \in Worker, NEW p \in Phase, NEW failed \in SUBSET Phase,
         EndPhase(w, p, failed)
  PROVE  /\ PassAgrees(w)' /\ CompletedIsWhole'
         /\ checkpoint.ran \ checkpoint.failed \subseteq checkpoint'.ran
         /\ UNCHANGED status
  <1> DEFINE cp == [worker[w].cp EXCEPT !.ran = @ \cup {p}, !.failed = @ \cup failed]
  <1>1. /\ worker[w].at = "phase" /\ p \in worker[w].todo
        /\ worker' = [worker EXCEPT ![w].at = "boundary", ![w].cp = cp,
                                    ![w].todo = @ \ {p}]
        /\ checkpoint' = cp /\ status' = status
    BY DEF EndPhase, IsNext
  <1>2. worker[w] \in WorkerState /\ worker[w].cp \in Checkpoint
    BY DEF SerialInv, IInv, TypeOK, WorkerState
  <1>3. cp.ran = worker[w].cp.ran \cup {p} /\ cp.restart = worker[w].cp.restart
    BY <1>2 DEF Checkpoint
  <1>4. worker'[w].cp = cp
    BY <1>1, <1>2 DEF SerialInv, IInv, TypeOK, WorkerState
  <1> HIDE DEF cp
  <1>5. /\ checkpoint.ran \ checkpoint.failed \subseteq worker[w].cp.ran
        /\ ~worker[w].cp.restart /\ status \notin Completed /\ status # "FAILED"
    BY <1>1 DEF SerialInv, PassAgrees, Executing
  <1>6. QED
    BY <1>1, <1>3, <1>4, <1>5 DEF PassAgrees, CompletedIsWhole

LEMMA SerialEndPass ==
  ASSUME SerialInv, NEW w \in Worker, Executing(w), NEW s, NEW cp,
         NEW where \in {"synthesis", "projecting"}, EndPass(w, s, cp, where),
         cp.ran = worker[w].cp.ran
  PROVE  /\ PassAgrees(w)' /\ status' = s /\ checkpoint' = cp
         /\ checkpoint.ran \ checkpoint.failed \subseteq checkpoint'.ran
  <1>1. /\ worker' = [worker EXCEPT ![w] = [Idle EXCEPT !.at = where,
                                                        !.retries = worker[w].retries]]
        /\ checkpoint' = cp /\ status' = s
    BY DEF EndPass, Leave, SetStatus
  <1>2. worker'[w].at = where
    BY <1>1 DEF SerialInv, IInv, TypeOK, Idle
  <1>3. QED
    BY <1>1, <1>2 DEF PassAgrees, Executing, SerialInv

\* The pass agrees with the row it has begun from.
LEMMA SerialBeginPass ==
  ASSUME SerialInv, NEW w \in Worker, BeginPass(w)
  PROVE  PassAgrees(w)'
  <1>1. PICK old \in SUBSET checkpoint.failed :
           worker' = [worker EXCEPT ![w] =
                [at |-> "boundary", retries |-> @.retries,
                 cp |-> [ran |-> Kept(checkpoint), failed |-> old,
                         restart |-> FALSE,
                         gateReached |-> checkpoint.gateReached],
                 todo |-> Phase \ Kept(checkpoint),
                 stopBefore |-> ~PastGate(checkpoint)]]
    BY DEF BeginPass
  <1>2. /\ worker'[w].cp.ran = Kept(checkpoint) /\ worker'[w].cp.restart = FALSE
        /\ worker'[w].todo = Phase \ Kept(checkpoint)
    BY <1>1 DEF SerialInv, IInv, TypeOK
  <1>3. UNCHANGED <<status, checkpoint>> /\ Runnable(w)
    BY DEF BeginPass, row
  <1>4. status # "FAILED"
    BY <1>3 DEF Runnable, Completed
  <1>5. status \in Completed => Kept(checkpoint) = Phase
    BY DEF SerialInv, CompletedIsWhole, Kept
  <1>6. checkpoint.ran \ checkpoint.failed \subseteq Kept(checkpoint)
    BY DEF Kept
  <1>7. QED
    BY <1>2, <1>3, <1>4, <1>5, <1>6 DEF PassAgrees

\* What a serial step of a single worker keeps, and what it may do to the row.
Orderly ==
    /\ \A w \in Worker : PassAgrees(w)'
    /\ CompletedIsWhole'
    /\ ~Resurrection
    /\ checkpoint.ran \ checkpoint.failed \subseteq checkpoint'.ran

\* A step after which its worker executes no phase, or executes as before, and that
\* leaves the checkpoint alone.
LEMMA QuietSerialStep ==
  ASSUME OneWorker, SerialInv, NEW w \in Worker, UNCHANGED checkpoint,
         status' \in {status, "QUEUED", "RUNNING", "FAILED"},
         status' # status => status \notin Finished \/ status' = "FAILED",
         \/ ~Executing(w)'
         \/ /\ Executing(w) /\ worker'[w].cp = worker[w].cp
            /\ worker'[w].todo = worker[w].todo /\ status' = status
  PROVE  Orderly
  <1>1. PassAgrees(w)'
    BY DEF SerialInv, PassAgrees
  <1>2. CompletedIsWhole'
    BY DEF SerialInv, CompletedIsWhole, Completed
  <1>3. ~Resurrection
    BY DEF Resurrection, Finished
  <1>4. QED
    BY <1>1, <1>2, <1>3 DEF Orderly, OneWorker

LEMMA SerialStep ==
  ASSUME OneWorker, SerialInv, [SerialNext]_vars
  PROVE  Orderly
  <1>t. worker \in [Worker -> WorkerState]
    BY DEF SerialInv, IInv, TypeOK
  <1>1. ASSUME NEW w \in Worker,
               NEW where \in {"claimed", "starting", "phase", "projecting"},
               Goto(w, where), UNCHANGED checkpoint,
               status' \in {status, "RUNNING"},
               status' # status => status \notin Finished,
               where = "phase" => worker[w].at = "boundary" /\ status' = status
        PROVE  Orderly
    <2>1. /\ worker'[w].at = where /\ worker'[w].cp = worker[w].cp
          /\ worker'[w].todo = worker[w].todo
      BY <1>1, <1>t DEF Goto, WorkerState
    <2>2. where # "phase" => ~Executing(w)'
      BY <1>1, <2>1 DEF Executing
    <2>3. where = "phase" => Executing(w)
      BY <1>1 DEF Executing
    <2>4. QED
      BY <1>1, <2>1, <2>2, <2>3, QuietSerialStep
  <1>2. ASSUME NEW w \in Worker, UNCHANGED checkpoint,
               GoIdle(w) \/ \E s \in WorkerState : ~(s.at \in {"boundary", "phase"})
                                /\ worker' = [worker EXCEPT ![w] = s],
               status' \in {status, "QUEUED", "FAILED"},
               status' # status => status \notin Finished \/ status' = "FAILED"
        PROVE  Orderly
    <2>1. ~Executing(w)'
      BY <1>2, <1>t DEF GoIdle, Idle, Executing
    <2>2. QED
      BY <1>2, <2>1, QuietSerialStep
  <1>3. ASSUME NEW w \in Worker,
               Claim(w) \/ TakeLease(w) \/ EnterPhase(w) \/ DraftPaper(w)
        PROVE  Orderly
    BY <1>1, <1>3 DEF Claim, TakeLease, EnterPhase, DraftPaper, SetStatus, row,
                      Finished, Completed
  <1>4. ASSUME NEW w \in Worker,
               Refuse(w) \/ Project(w) \/ Crash(w) \/ Requeue(w) \/ Finalize(w)
        PROVE  Orderly
    BY <1>2, <1>4 DEF Refuse, Project, Crash, Requeue, Finalize, SetStatus, row,
                      Finished, Completed
  <1>5. ASSUME NEW w \in Worker, BeginPass(w)
        PROVE  Orderly
    <2>1. PassAgrees(w)' /\ UNCHANGED <<status, checkpoint>>
      BY <1>5, SerialBeginPass DEF BeginPass, row
    <2>2. QED
      BY <2>1 DEF Orderly, OneWorker, SerialInv, CompletedIsWhole, Resurrection
  <1>6. ASSUME NEW w \in Worker, CompletePhase(w) \/ FailPhase(w)
        PROVE  Orderly
    <2>1. PICK p \in Phase, failed \in SUBSET Phase : EndPhase(w, p, failed)
      BY <1>6 DEF CompletePhase, FailPhase
    <2>2. QED
      BY <2>1, SerialEndPhase DEF Orderly, OneWorker, Resurrection
  <1>7. ASSUME NEW w \in Worker, Park(w) \/ Stop(w) \/ Finish(w)
        PROVE  Orderly
    <2>0. Executing(w) /\ worker[w].cp \in Checkpoint
      BY <1>7, <1>t DEF Park, Stop, Finish, Executing, WorkerState
    <2>1. CASE Park(w)
      <3>1. EndPass(w, "AWAITING_COUNCIL_INPUT",
                    [worker[w].cp EXCEPT !.gateReached = TRUE], "projecting")
        BY <2>1 DEF Park
      <3>2. [worker[w].cp EXCEPT !.gateReached = TRUE].ran = worker[w].cp.ran
        BY <2>0 DEF Checkpoint
      <3>3. /\ PassAgrees(w)' /\ status' = "AWAITING_COUNCIL_INPUT"
            /\ checkpoint.ran \ checkpoint.failed \subseteq checkpoint'.ran
        BY <2>0, <3>1, <3>2, SerialEndPass
      <3>4. worker[w].todo # {} /\ Deliberating(w)
        BY <2>1 DEF Park, AtGate, IsNext, Deliberating
      <3>5. status \notin Completed /\ status # "FAILED"
        BY <2>0, <3>4 DEF SerialInv, PassAgrees
      <3>6. ~Resurrection
        BY <3>4, <3>5 DEF Resurrection, Finished
      <3>7. QED
        BY <3>3, <3>6 DEF Orderly, OneWorker, CompletedIsWhole, Completed
    <2>2. CASE Stop(w)
      <3>1. EndPass(w, "CANCELLED",
                    [worker[w].cp EXCEPT !.gateReached = FALSE], "projecting")
        BY <2>2 DEF Stop
      <3>2. [worker[w].cp EXCEPT !.gateReached = FALSE].ran = worker[w].cp.ran
        BY <2>0 DEF Checkpoint
      <3>3. /\ PassAgrees(w)' /\ status' = "CANCELLED"
            /\ checkpoint.ran \ checkpoint.failed \subseteq checkpoint'.ran
        BY <2>0, <3>1, <3>2, SerialEndPass
      <3>4. QED
        BY <3>3 DEF Orderly, OneWorker, CompletedIsWhole, Completed, Resurrection,
                    Finished
    <2>3. CASE Finish(w)
      <3>1. PICK s \in Completed : EndPass(w, s, worker[w].cp, "synthesis")
        BY <2>3 DEF Finish
      <3>2. /\ PassAgrees(w)' /\ status' = s /\ checkpoint' = worker[w].cp
            /\ checkpoint.ran \ checkpoint.failed \subseteq checkpoint'.ran
        BY <2>0, <3>1, SerialEndPass
      <3>3. worker[w].cp.ran = Phase /\ ~worker[w].cp.restart
        <4>1. worker[w].todo = {} /\ worker[w].cp.ran \subseteq Phase
          BY <2>0, <2>3 DEF Finish, Checkpoint
        <4>2. QED
          BY <2>0, <4>1 DEF SerialInv, IInv, PassesAccountForAll, PassAgrees
      <3>4. QED
        BY <3>2, <3>3 DEF Orderly, OneWorker, CompletedIsWhole, Resurrection, Finished
    <2>4. QED
      BY <1>7, <2>1, <2>2, <2>3
  <1>8. ASSUME NEW w \in Worker, EventConflict(w) \/ Abort(w) \/ LoseConnection(w)
        PROVE  Orderly
    <2>1. UNCHANGED checkpoint /\ status' \in {status, "FAILED"}
      BY <1>8 DEF EventConflict, Abort, LoseConnection, SetStatus, row
    <2>2. ~Executing(w)'
      BY <1>8, <1>t DEF EventConflict, Abort, LoseConnection, Leave, Idle, Executing
    <2>3. QED
      BY <2>1, <2>2, QuietSerialStep
  <1>9. ASSUME NEW w \in Worker,
               AuditCommit(w) \/ Recover(w) \/ ExpireGate(w) \/ Sweep(w)
        PROVE  Orderly
    <2>1. /\ UNCHANGED <<checkpoint, worker>>
          /\ status' = status
             \/ (status' = "QUEUED" /\ status \notin Finished /\ worker[w].at = "idle")
      BY <1>9 DEF AuditCommit, Recover, ExpireGate, Sweep, SetStatus, row, Finished,
                  Completed
    <2>2. status' # status => ~Executing(w)'
      BY <2>1 DEF Executing
    <2>3. Executing(w)' => Executing(w)
      BY <2>1 DEF Executing
    <2>4. QED
      BY <2>1, <2>2, <2>3, QuietSerialStep
  <1>10. ASSUME NEW c \in Client, Write(c)
         PROVE  Orderly
    <2>1. /\ checkpoint'.ran = checkpoint.ran /\ checkpoint'.failed = checkpoint.failed
          /\ checkpoint' # checkpoint => status' = "QUEUED"
          /\ status' \in {status, "QUEUED", "PAUSED", "CANCELLED"}
          /\ status \in Finished /\ status' # status => reruns' # reruns
          /\ UNCHANGED worker
      BY <1>10, SerialWrite
    <2>2. \A w \in Worker : PassAgrees(w)'
      BY <2>1 DEF SerialInv, PassAgrees, Executing, Completed
    <2>3. CompletedIsWhole'
      BY <2>1 DEF SerialInv, CompletedIsWhole, Completed
    <2>4. ~Resurrection
      BY <2>1 DEF Resurrection
    <2>5. QED
      BY <2>1, <2>2, <2>3, <2>4 DEF Orderly
  <1>11. ASSUME UNCHANGED <<status, checkpoint, worker>>
         PROVE  Orderly
    BY <1>11 DEF Orderly, SerialInv, PassAgrees, Executing, CompletedIsWhole, Resurrection
  <1>12. CASE Age \/ UNCHANGED vars \/ \E c \in Client : Read(c)
    BY <1>11, <1>12 DEF Age, Read, vars, row
  <1>13. QED
    BY <1>3, <1>4, <1>5, <1>6, <1>7, <1>8, <1>9, <1>10, <1>12, SerialIsNext
       DEF Next, Work, Mishap

LEMMA SerialInvStep ==
  ASSUME OneWorker
  PROVE  SerialInv /\ [SerialNext]_vars => SerialInv'
  <1> SUFFICES ASSUME SerialInv, [SerialNext]_vars
               PROVE  SerialInv'
    OBVIOUS
  <1>1. IInv'
    BY SerialIsNext, IInvStep DEF SerialInv
  <1>2. CallsAreSerial'
    <2>1. CASE SerialNext
      BY <2>1, CallsStaySerial
    <2>2. CASE UNCHANGED vars
      BY <2>2 DEF SerialInv, CallsAreSerial, vars, row, locks, Admits
    <2>3. QED
      BY <2>1, <2>2
  <1>3. (\A w \in Worker : PassAgrees(w)') /\ CompletedIsWhole'
    BY SerialStep DEF Orderly
  <1>4. QED
    BY <1>1, <1>2, <1>3 DEF SerialInv

\* With one worker, and API calls that overlap nothing, a finished task stays finished
\* until the researcher restarts it, however often the connection is lost and the pass
\* retried; only a task withdrawn under a pass that was still going may be parked by it.
THEOREM FinishedTasksStayFinished ==
  ASSUME OneWorker
  PROVE  SerialSpec => FinishedStaysFinished
  <1>1. SerialInv /\ [SerialNext]_vars => SerialInv'
    BY SerialInvStep
  <1>2. SerialInv /\ [SerialNext]_vars => [ ~Resurrection ]_vars
    BY SerialStep DEF Orderly
  <1>3. QED
    BY <1>1, <1>2, SerialInit, PTL DEF SerialSpec, FinishedStaysFinished

\* With one worker, and API calls that overlap nothing, no crash, lost connection,
\* reclaim or rewind drops a phase the stored checkpoint records as done.
THEOREM CompletedPhasesAreKept ==
  ASSUME OneWorker
  PROVE  SerialSpec => CompletedWorkIsKept
  <1>1. SerialInv /\ [SerialNext]_vars => SerialInv'
    BY SerialInvStep
  <1>2. SerialInv /\ [SerialNext]_vars
            => [ checkpoint.ran \ checkpoint.failed \subseteq checkpoint'.ran ]_vars
    BY SerialStep DEF Orderly
  <1>3. QED
    BY <1>1, <1>2, SerialInit, PTL DEF SerialSpec, CompletedWorkIsKept
=============================================================================
