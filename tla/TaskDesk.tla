------------------------------ MODULE TaskDesk ------------------------------
(***************************************************************************)
(* What the API does with a research task around its run: it is created    *)
(* from the account's model settings, given papers, confirmed, cloned and  *)
(* deleted (apps/api/routers/tasks.py, routers/papers.py,                  *)
(* routers/settings.py, task_lifecycle.py over packages/research and       *)
(* packages/models/settings.py).  TaskLifecycle is what happens while it   *)
(* runs; here a worker only takes a queued task, writes about it and ends  *)
(* it.                                                                     *)
(*                                                                         *)
(* A request reads, waits for the endpoint, the file or the worker where   *)
(* the code awaits one, and then writes in one transaction; nothing it     *)
(* read is locked meanwhile.                                               *)
(***************************************************************************)
EXTENDS Naturals, FiniteSets

CONSTANTS
    Caller,       \* requests that can be in progress at once
    Task,         \* bound: tasks ever created
    Pdf,          \* bound: files ever uploaded
    AtomicClaim,  \* the claims suggested for a task
    TrialLimit    \* FREE_TRIAL_LIMIT


VARIABLES
    tasks,       \* task -> its row, or why there is none
    objects,     \* uploaded file -> the task whose row of objects it is, or Nowhere
    settings,    \* app_settings: [trial, usable, used]
    service,     \* handler -> the request it serves
    stopping,    \* rows of task_cancel_requests
    working,     \* tasks a worker is running
    stream,      \* tasks with rows of the process stream, which has no foreign key
    charged      \* history: tasks queued at the price of a trial

deskVars == <<tasks, objects, settings, service, stopping, working, stream, charged>>

Unused == [status |-> "none"]
Gone == [status |-> "deleted"]
Nowhere == "nowhere"

ASSUME TaskDeskAssumption == AtomicClaim # {} /\ TrialLimit \in Nat /\ Nowhere \notin Task

Ready == [op |-> "none"]
Exists(t) == tasks[t] \notin {Unused, Gone}

\* create_task's new id: ids are alike, so the next one is as good as any.
HasFresh == \E t \in Task : tasks[t] = Unused
Fresh == CHOOSE t \in Task : tasks[t] = Unused

Suggested == [c \in AtomicClaim |-> "SUGGESTED"]

\* status, task_type, is_free_trial of model_config, pdf_object_ids, atomic_claims.
TaskRow == [status : {"AWAITING_CLAIM_CONFIRMATION", "QUEUED", "RUNNING", "FINISHED"},
        kind : {"deep_research", "paper_review"}, trial : BOOLEAN, pdfs : SUBSET Pdf,
        claims : [AtomicClaim -> {"SUGGESTED", "CONFIRMED", "DISCARDED"}]]

DeskInit ==
    /\ tasks = [t \in Task |-> Unused]
    /\ objects = [p \in Pdf |-> Nowhere]
    /\ settings = [usable |-> FALSE, trial |-> FALSE, used |-> 0]
    /\ service = [h \in Caller |-> Ready]
    /\ stopping = {} /\ working = {} /\ stream = {} /\ charged = {}

Accept(h, request) ==
    /\ service[h] = Ready
    /\ service' = [service EXCEPT ![h] = request]
    /\ UNCHANGED <<tasks, objects, settings, stopping, working, stream, charged>>

Answer(h) == service' = [service EXCEPT ![h] = Ready]

\* A refusal, an exception or a dead process: what the request wrote is undone.
GiveUpRequest(h) ==
    /\ service[h] # Ready
    /\ Answer(h)
    /\ UNCHANGED <<tasks, objects, settings, stopping, working, stream, charged>>

-----------------------------------------------------------------------------
(* The account's model settings *)

\* The quota is looked at, then the endpoint is probed, then the row is saved.
AskForTrial(h) ==
    /\ settings.used < TrialLimit
    /\ Accept(h, [op |-> "trial"])

StartTrial(h) ==
    /\ service[h].op = "trial"
    /\ settings' = [settings EXCEPT !.usable = TRUE, !.trial = TRUE]
    /\ Answer(h)
    /\ UNCHANGED <<tasks, objects, stopping, working, stream, charged>>

\* An endpoint of one's own, or none: the trial is left, its count stays.
SaveSettings ==
    /\ settings.trial
    /\ \E usable \in BOOLEAN : settings' = [settings EXCEPT !.usable = usable, !.trial = FALSE]
    /\ UNCHANGED <<tasks, objects, service, stopping, working, stream, charged>>

-----------------------------------------------------------------------------
(* Creating a task, and giving it papers *)

\* Without a configuration of its own a task inherits the account's; a trial that is
\* used up is refused, and charged to nobody before it is confirmed.
Inherited(own) == ~own /\ settings.usable /\ settings.trial

CreateTask(kind, own) ==
    /\ HasFresh
    /\ Inherited(own) => settings.used < TrialLimit
    /\ tasks' = [tasks EXCEPT ![Fresh] = [status |-> "AWAITING_CLAIM_CONFIRMATION", kind |-> kind,
                                      trial |-> Inherited(own), pdfs |-> {}, claims |-> Suggested]]
    /\ UNCHANGED <<objects, settings, service, stopping, working, stream, charged>>

\* The file is read and parsed; then its row goes in, and the task's list, as it is
\* read after that, is put back longer.
AskToUpload(h, t, p) ==
    /\ Exists(t) /\ objects[p] = Nowhere
    /\ \A g \in Caller : service[g].op = "upload" => service[g].pdf # p
    /\ Accept(h, [op |-> "upload", task |-> t, pdf |-> p])

\* A mistake: objects that belong to no task any more.
Unreferenced(t) == TRUE

\* objects.task_id refers to the row of the task.
Referenced(t) == Exists(t)

AddPdf(h) ==
    LET t == service[h].task IN
    /\ service[h].op = "upload"
    /\ Referenced(t)
    /\ objects' = [objects EXCEPT ![service[h].pdf] = t]
    /\ tasks' = IF Exists(t) THEN [tasks EXCEPT ![t].pdfs = @ \cup {service[h].pdf}] ELSE tasks
    /\ Answer(h)
    /\ UNCHANGED <<settings, stopping, working, stream, charged>>

-----------------------------------------------------------------------------
(* Confirming it *)

\* The status is read, and the paper of a review looked for; then the endpoint is probed.
AskToConfirmClaims(h, t) ==
    /\ Exists(t) /\ tasks[t].status = "AWAITING_CLAIM_CONFIRMATION"
    /\ tasks[t].kind = "paper_review" => tasks[t].pdfs # {}
    /\ Accept(h, [op |-> "confirm", task |-> t, slot |-> settings.used < TrialLimit])

\* A mistake: the slot that was free when the request came is taken.
ConsumeSeen(h, t) ==
    IF tasks[t].trial
    THEN /\ service[h].slot
         /\ settings' = [settings EXCEPT !.used = @ + 1]
         /\ charged' = charged \cup {t}
    ELSE UNCHANGED <<settings, charged>>

\* consume_free_trial: one UPDATE takes a slot while there is one and the account is
\* still on trial, in the transaction that confirms and queues.
Consume(h, t) ==
    IF tasks[t].trial
    THEN /\ settings.trial /\ settings.used < TrialLimit
         /\ settings' = [settings EXCEPT !.used = @ + 1]
         /\ charged' = charged \cup {t}
    ELSE UNCHANGED <<settings, charged>>

\* The status is set whatever it is by now.
ConfirmClaims(h, chosen) ==
    LET t == service[h].task IN
    /\ service[h].op = "confirm"
    /\ Exists(t) /\ chosen # {}
    /\ Consume(h, t)
    /\ tasks' = [tasks EXCEPT ![t].status = "QUEUED",
                              ![t].claims = [c \in AtomicClaim |-> IF c \in chosen THEN "CONFIRMED" ELSE "DISCARDED"]]
    /\ Answer(h)
    /\ UNCHANGED <<objects, stopping, working, stream>>

-----------------------------------------------------------------------------
(* Cloning it, and deleting it *)

Confirmed(row) == {c \in AtomicClaim : row.claims[c] = "CONFIRMED"}

\* rerun_fresh carries over what was asked, the confirmed claims and the papers' ids;
\* the copy is queued.  The trial is not charged again.
Clone(row) ==
    [row EXCEPT !.status = "QUEUED",
                !.claims = [c \in AtomicClaim |-> IF c \in Confirmed(row) THEN "CONFIRMED" ELSE "DISCARDED"]]

\* /rerun-fresh, /re-research from the start, and /replay read a finished task.
AskToClone(h, t, op) ==
    /\ Exists(t) /\ tasks[t].status = "FINISHED" /\ Confirmed(tasks[t]) # {}
    /\ Accept(h, [op |-> op, task |-> t, row |-> tasks[t]])

\* delete_task_cascade: every row of the task, children first.
Cascade(t, owners) == objects' = [p \in Pdf |-> IF owners[p] = t THEN Nowhere ELSE owners[p]]

\* rehome_uploaded_objects: the objects move to the copy before the original goes.
Rehomed(t, fresh) == [p \in Pdf |-> IF objects[p] = t THEN fresh ELSE objects[p]]

RerunFresh(h) ==
    LET t == service[h].task IN
    /\ service[h].op = "rerun"
    /\ HasFresh
    /\ tasks' = [tasks EXCEPT ![Fresh] = Clone(service[h].row), ![t] = Gone]
    /\ Cascade(t, Rehomed(t, Fresh))
    /\ stopping' = stopping \ {t} /\ stream' = stream \ {t}
    /\ Answer(h)
    /\ UNCHANGED <<settings, working, charged>>

\* A copy with a cutoff, beside the original, which keeps the papers.
Replay(h) ==
    /\ service[h].op = "replay"
    /\ HasFresh
    /\ tasks' = [tasks EXCEPT ![Fresh] = Clone(service[h].row)]
    /\ Answer(h)
    /\ UNCHANGED <<objects, settings, stopping, working, stream, charged>>

\* A running task is asked to stop first, in a transaction of its own.
AskToDelete(h, t) ==
    /\ service[h] = Ready /\ Exists(t)
    /\ service' = [service EXCEPT ![h] = [op |-> "delete", task |-> t]]
    /\ stopping' = IF tasks[t].status = "RUNNING" THEN stopping \cup {t} ELSE stopping
    /\ UNCHANGED <<tasks, objects, settings, working, stream, charged>>

\* The worker has let go, or the wait is over: the cascade runs either way.
Delete(h) ==
    LET t == service[h].task IN
    /\ service[h].op = "delete"
    /\ Answer(h)
    /\ tasks' = [tasks EXCEPT ![t] = Gone]
    /\ Cascade(t, objects)
    /\ stopping' = stopping \ {t} /\ stream' = stream \ {t}
    /\ UNCHANGED <<settings, working, charged>>

-----------------------------------------------------------------------------
(* The worker *)

TakeTask(t) ==
    /\ Exists(t) /\ tasks[t].status = "QUEUED"
    /\ tasks' = [tasks EXCEPT ![t].status = "RUNNING"]
    /\ working' = working \cup {t}
    /\ UNCHANGED <<objects, settings, service, stopping, stream, charged>>

\* ProcessStreamWriter.flush has a session of its own and asks nobody whether the
\* task is still there.
WriteStream(t) ==
    /\ t \in working /\ t \notin stream
    /\ stream' = stream \cup {t}
    /\ UNCHANGED <<tasks, objects, settings, service, stopping, working, charged>>

\* The run ends and says so, if there is still a row to say it in.
EndRun(t) ==
    /\ t \in working
    /\ working' = working \ {t}
    /\ tasks' = IF Exists(t) THEN [tasks EXCEPT ![t].status = "FINISHED"] ELSE tasks
    /\ stopping' = stopping \ {t}
    /\ UNCHANGED <<objects, settings, service, stream, charged>>

Requests(h) ==
    \/ AskForTrial(h) \/ StartTrial(h)
    \/ \E t \in Task, p \in Pdf : AskToUpload(h, t, p)
    \/ AddPdf(h)
    \/ \E t \in Task : AskToConfirmClaims(h, t) \/ AskToDelete(h, t)
    \/ \E chosen \in SUBSET AtomicClaim : ConfirmClaims(h, chosen)
    \/ \E t \in Task, op \in {"rerun", "replay"} : AskToClone(h, t, op)
    \/ RerunFresh(h) \/ Replay(h)
    \/ Delete(h)
    \/ GiveUpRequest(h)

DeskNext ==
    \/ \E h \in Caller : Requests(h)
    \/ SaveSettings
    \/ \E t \in Task : TakeTask(t) \/ WriteStream(t) \/ EndRun(t)
    \/ \E kind \in {"deep_research", "paper_review"}, own \in BOOLEAN : CreateTask(kind, own)

DeskSpec == DeskInit /\ [][DeskNext]_deskVars

-----------------------------------------------------------------------------
(* Properties *)

\* Every variable holds a value of its type.
DeskTypeOK ==
    /\ \A t \in Task : Exists(t) => tasks[t] \in TaskRow
    /\ objects \in [Pdf -> Task \cup {Nowhere}]
    /\ settings \in [usable : BOOLEAN, trial : BOOLEAN, used : 0 .. TrialLimit]
    /\ stopping \cup working \cup stream \cup charged \subseteq Task

\* However confirmations overlap, fail and are undone, no task is queued at the price
\* of a trial that was not taken, and no more are taken than the account has.
TrialsAreCounted ==
    /\ DeskTypeOK
    /\ Cardinality(charged) <= settings.used
    /\ settings.used <= TrialLimit

\* Once its worker has let go of it, a deleted task leaves no stop request and no
\* uploaded object behind, whatever was uploaded, cloned or deleted beside it.
DeletedTaskLeavesNoRows ==
    \A t \in Task : tasks[t] = Gone /\ t \notin working =>
        t \notin stopping /\ \A p \in Pdf : objects[p] # t
=============================================================================
