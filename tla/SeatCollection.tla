--------------------------- MODULE SeatCollection ---------------------------
(***************************************************************************)
(* One phase asks the seats for their output: _collect                     *)
(* (packages/council/rounds/registry.py) runs a coroutine per seat, a few  *)
(* at a time, over GatewayDeliberator.deliberate (council/deliberation.py),*)
(* which streams the call, falls back to a plain one, and is audited by    *)
(* AuditedModelGateway on the session all seats share (models/gateway.py,  *)
(* models/audit.py, kernel/database.py guarded_write).                     *)
(*                                                                         *)
(* Time is a counter: a call or a pause that is due stops it, so a timeout *)
(* fires at its instant.  The vendor answers at any time, or never.  A     *)
(* write takes any time.  A stop request and a lost connection may come    *)
(* whenever they can.                                                      *)
(***************************************************************************)
EXTENDS Naturals, Sequences, FiniteSets, SequencesExt

CONSTANTS
    Roster,          \* context.seats, in order
    MaxAttempts,     \* MAX_SEAT_ATTEMPTS
    Concurrency,     \* DEFAULT_SEAT_CONCURRENCY
    Deadline,        \* _COLLECT_DEADLINE_SECONDS
    AttemptTimeout,  \* _seat_attempt_timeout_seconds
    Pause,           \* _seat_retry_pause_seconds
    NPhases,         \* phases that are collected one after the other
    CallCost,        \* cost_usd of a call; 0 when its price is unknown
    ModelBudget,     \* model_cost_usd of the task
    Nobody           \* nobody holds the session's lock

Seat == ToSet(Roster)

ASSUME SeatAssumption ==
    /\ Roster # <<>> /\ Cardinality(Seat) = Len(Roster)
    /\ Nobody \notin Seat
    /\ {MaxAttempts, Concurrency, Deadline, AttemptTimeout, NPhases} \subseteq Nat \ {0}
    /\ {Pause, CallCost, ModelBudget} \subseteq Nat

VARIABLES
    phase,       \* the phase being collected
    provider,    \* a model gateway is configured
    passOutcome,     \* running, collected, or what the pass raised
    now,         \* time.monotonic() - start
    at,          \* seat -> where its coroutine is
    attempts,    \* seat -> how often it was asked
    due,         \* seat -> when its call or its pause runs out
    window,      \* seat -> what bounds its call: attempt or deadline
    reasons,     \* seat -> why it is absent
    seatErrors,  \* GatewayDeliberator._seat_errors
    lastError,   \* GatewayDeliberator.last_error
    failures,    \* history: what went wrong in the seat's last attempt
    fate,        \* seat -> what cut its call off while it was being recorded
    ending,      \* the event that ends the pass
    raised,      \* what gather() will raise
    cancelled,   \* gather() has raised: the other tasks are cancelled
    writer,      \* holder of session_io_lock
    answer,      \* seat -> what the vendor's answer is worth
    paid,        \* seat -> calls the vendor has answered
    recorded,    \* seat -> audit rows committed
    open,        \* seats whose slice of the live view is open
    stop,        \* the researcher has requested a stop
    gone,        \* the session's connection is lost
    used         \* BudgetTracker._model_cost_used

seatVars == <<at, attempts, due, window, reasons, failures, fate>>
errorVars == <<seatErrors, lastError>>
passVars == <<passOutcome, ending, raised, cancelled>>
auditVars == <<writer, answer, paid, recorded, gone>>
collectVars == <<phase, provider, now, stop, open, seatVars, errorVars, passVars, auditVars, used>>

NoReason == "none"

Smaller(a, b) == IF a <= b THEN a ELSE b

InCall == {"streaming", "invoking"}
InWrite == {"recording", "dropped"}
Over == {"answered", "absent", "ended", "raised"}

StartOfPass ==
    /\ passOutcome = "running" /\ now = 0
    /\ at = [s \in Seat |-> "waiting"]
    /\ attempts = [s \in Seat |-> 0]
    /\ due = [s \in Seat |-> 0]
    /\ window = [s \in Seat |-> "attempt"]
    /\ reasons = [s \in Seat |-> NoReason]
    /\ failures = [s \in Seat |-> NoReason]
    /\ fate = [s \in Seat |-> NoReason]
    /\ ending = FALSE /\ raised = NoReason /\ cancelled = FALSE
    /\ writer = Nobody
    /\ answer = [s \in Seat |-> "ok"]
    /\ paid = [s \in Seat |-> 0]
    /\ recorded = [s \in Seat |-> 0]
    /\ open = {}

SeatInit ==
    /\ StartOfPass
    /\ phase = 1
    /\ provider \in BOOLEAN
    /\ seatErrors = [s \in Seat |-> NoReason] /\ lastError = NoReason
    /\ stop = FALSE /\ gone = FALSE
    /\ used = 0

(***************************************************************************)
(* A seat's turn                                                           *)
(***************************************************************************)

Holding == {s \in Seat : at[s] \notin Over \cup {"waiting"}}

\* asyncio.Semaphore serves its waiters in the order they came: roster order.
FirstWaiting(s) ==
    /\ at[s] = "waiting"
    /\ \A i, j \in DOMAIN Roster : Roster[j] = s /\ i < j => at[Roster[i]] # "waiting"

Goto(s, where) == at' = [at EXCEPT ![s] = where]

\* `async with slots`.
Take(s) ==
    /\ passOutcome = "running"
    /\ FirstWaiting(s)
    /\ Cardinality(Holding) < Concurrency
    /\ Goto(s, "ready")
    /\ UNCHANGED <<phase, provider, now, stop, open, attempts, due, window, reasons,
                   failures, fate, errorVars, passVars, auditVars, used>>

Absent(s, why) ==
    /\ Goto(s, "absent")
    /\ reasons' = [reasons EXCEPT ![s] = why]

\* The head of the loop when the pass is over for this seat: it never starts a call.
GiveUp(s) ==
    /\ at[s] = "ready"
    /\ \/ ending /\ Goto(s, "ended") /\ UNCHANGED reasons
       \/ ~ending /\ now >= Deadline /\ Absent(s, "deadline")
    /\ UNCHANGED <<phase, provider, now, stop, open, attempts, due, window, failures, fate,
                   errorVars, passVars, auditVars, used>>

\* The seconds a call gets: wait_for(timeout=min(attempt_timeout, remaining)).
CallWindow == Smaller(AttemptTimeout, Deadline - now)

MayAsk == ~ending /\ now < Deadline

\* deliberate() with no gateway: no answer, no reason, and no second try.
AskNobody(s) ==
    /\ at[s] = "ready" /\ MayAsk /\ ~provider
    /\ attempts' = [attempts EXCEPT ![s] = @ + 1]
    /\ Absent(s, "no provider")
    /\ UNCHANGED <<phase, provider, now, stop, open, due, window, failures, fate, errorVars,
                   passVars, auditVars, used>>

\* deliberate() forgets the seat's last error, opens its slice and streams.
AskSeat(s) ==
    /\ at[s] = "ready" /\ MayAsk /\ provider
    /\ attempts' = [attempts EXCEPT ![s] = @ + 1]
    /\ due' = [due EXCEPT ![s] = now + CallWindow]
    /\ window' = [window EXCEPT ![s] =
                    IF CallWindow = AttemptTimeout THEN "attempt" ELSE "deadline"]
    /\ seatErrors' = [seatErrors EXCEPT ![s] = NoReason]
    /\ lastError' = NoReason
    /\ failures' = [failures EXCEPT ![s] = NoReason]
    /\ open' = open \cup {s}
    /\ Goto(s, "streaming")
    /\ UNCHANGED <<phase, provider, now, stop, reasons, fate, passVars, auditVars, used>>

\* A streamed attempt that fails anywhere falls back to a plain invoke.
StreamFails(s) ==
    /\ at[s] = "streaming"
    /\ Goto(s, "invoking")
    /\ UNCHANGED <<phase, provider, now, stop, open, attempts, due, window, reasons,
                   failures, fate, errorVars, passVars, auditVars, used>>

\* The vendor has answered and will be paid.  A stream that ends has passed its
\* schema and closes the slice; a plain call may be quarantined.
VendorAnswers(s) ==
    /\ \/ at[s] = "streaming" /\ answer' = [answer EXCEPT ![s] = "ok"] /\ open' = open \ {s}
       \/ /\ at[s] = "invoking"
          /\ \E a \in {"ok", "quarantined"} : answer' = [answer EXCEPT ![s] = a]
          /\ UNCHANGED open
    /\ paid' = [paid EXCEPT ![s] = @ + 1]
    /\ Goto(s, "recording")
    /\ UNCHANGED <<phase, provider, now, stop, attempts, due, window, reasons, failures, fate,
                   errorVars, passVars, writer, recorded, gone, used>>

RecordError(s, why) ==
    /\ seatErrors' = [seatErrors EXCEPT ![s] = why]
    /\ lastError' = why
    /\ failures' = [failures EXCEPT ![s] = why]

\* The plain call raises: an absent answer with a reason, never a failed task.
VendorFails(s) ==
    /\ at[s] = "invoking"
    /\ \E why \in {"unreachable", "refused"} : RecordError(s, why)
    /\ open' = open \ {s}
    /\ Goto(s, "returning")
    /\ UNCHANGED <<phase, provider, now, stop, attempts, due, window, reasons, fate,
                   passVars, auditVars, used>>

\* An attempt has failed: the seat pauses, never past the deadline, or is absent.
Retry(s, why) ==
    IF attempts[s] >= MaxAttempts
    THEN Absent(s, why) /\ UNCHANGED due
    ELSE /\ Goto(s, "pausing")
         /\ due' = [due EXCEPT ![s] = now + Smaller(Pause * attempts[s], Deadline - Smaller(now, Deadline))]
         /\ UNCHANGED reasons

\* A mistake: the slot every seat writes to.
SharedError(s) == lastError

\* _seat_error: why the seat's own last call came back None.
SeatError(s) == seatErrors[s]

\* deliberate() returns None once its heartbeat is stopped; the collector reads why.
Return(s) ==
    /\ at[s] = "returning"
    /\ IF SeatError(s) = NoReason
       THEN Absent(s, "no provider") /\ UNCHANGED due
       ELSE Retry(s, SeatError(s))
    /\ UNCHANGED <<phase, provider, now, stop, open, attempts, window, failures, fate, errorVars,
                   passVars, auditVars, used>>

Wake(s) ==
    /\ at[s] = "pausing" /\ due[s] <= now
    /\ Goto(s, "ready")
    /\ UNCHANGED <<phase, provider, now, stop, open, attempts, due, window, reasons,
                   failures, fate, errorVars, passVars, auditVars, used>>

TimedOut(s) ==
    /\ failures' = [failures EXCEPT ![s] = window[s]]
    /\ Retry(s, window[s])

\* A mistake: the coroutine goes on and leaves the write to itself.
Unshielded(s, why) ==
    /\ Goto(s, "returning")
    /\ fate' = [fate EXCEPT ![s] = why]

\* A write that is cut off goes on, and its coroutine waits for it.
Shielded(s, why) ==
    /\ Goto(s, "dropped")
    /\ fate' = [fate EXCEPT ![s] = why]

\* A mistake: only an answer is waited for with a clock.
WaitsForTheVendor(s) ==
    /\ due[s] <= now /\ at[s] = "recording"
    /\ Shielded(s, "timeout")
    /\ UNCHANGED <<phase, provider, now, stop, open, attempts, due, window, reasons, failures,
                   errorVars, passVars, auditVars, used>>

\* wait_for gives up on the call.
AttemptTimesOut(s) ==
    /\ due[s] <= now
    /\ \/ at[s] \in InCall /\ TimedOut(s) /\ UNCHANGED fate
       \/ at[s] = "recording" /\ Shielded(s, "timeout") /\ UNCHANGED <<due, reasons, failures>>
    /\ UNCHANGED <<phase, provider, now, stop, open, attempts, window, errorVars, passVars,
                   auditVars, used>>

\* What ends one seat's call abnormally ends the pass; its slice is closed.
Raise(s, what) ==
    /\ Goto(s, "raised")
    /\ ending' = TRUE
    /\ raised' = IF raised = NoReason THEN what ELSE raised
    /\ open' = open \ {s}
    /\ UNCHANGED <<passOutcome, cancelled>>

\* _await_or_cancel polls the stop channel around the call, its audit row included.
StopSeen(s) ==
    /\ stop
    /\ \/ at[s] \in InCall /\ Raise(s, "cancelled") /\ UNCHANGED fate
       \/ at[s] = "recording" /\ Shielded(s, "stop") /\ UNCHANGED <<open, passVars>>
    /\ UNCHANGED <<phase, provider, now, stop, attempts, due, window, reasons, failures,
                   errorVars, auditVars, used>>

(***************************************************************************)
(* The audit row of an answered call                                       *)
(***************************************************************************)

BeginWrite(s) ==
    /\ at[s] \in InWrite
    /\ writer = Nobody
    /\ writer' = s
    /\ UNCHANGED <<phase, provider, now, stop, open, seatVars, errorVars, passVars, answer,
                   paid, recorded, gone, used>>

\* BudgetTracker.consume_model_cost, its BudgetExhausted suppressed.
ConsumeModelCost ==
    used' = IF ModelBudget - Smaller(used, ModelBudget) < CallCost THEN used ELSE used + CallCost

\* What a coroutine does when the write that held it is over: a cut off call is a
\* timeout, a stop or nothing any more, whatever became of the write.
CutOff(s) ==
    /\ \/ fate[s] = "timeout" /\ TimedOut(s) /\ UNCHANGED <<open, passVars>>
       \/ fate[s] = "stop" /\ Raise(s, "cancelled") /\ UNCHANGED <<due, reasons, failures>>
       \/ /\ fate[s] = "cancel" /\ Goto(s, "ended")
          /\ UNCHANGED <<due, reasons, failures, open, passVars>>
    /\ UNCHANGED <<seatErrors, lastError, used>>

\* The row is committed; the answer is charged and delivered, or quarantined.
Recorded(s) ==
    /\ writer = s /\ ~gone
    /\ recorded' = [recorded EXCEPT ![s] = @ + 1]
    /\ writer' = Nobody
    /\ \/ at[s] = "dropped" /\ CutOff(s)
       \/ /\ at[s] = "recording" /\ ConsumeModelCost
          /\ open' = open \ {s}
          /\ \/ answer[s] = "ok" /\ Goto(s, "answered") /\ UNCHANGED <<errorVars, failures>>
             \/ /\ answer[s] = "quarantined" /\ Goto(s, "returning")
                /\ RecordError(s, "quarantined")
          /\ UNCHANGED <<due, reasons, passVars>>
    /\ UNCHANGED <<phase, provider, now, stop, attempts, window, fate, answer, paid, gone>>

\* The connection is lost under the write, once and for all: DatabaseSessionLost.
WriteFails(s) ==
    /\ writer = s
    /\ gone' = TRUE
    /\ writer' = Nobody
    /\ \/ at[s] = "dropped" /\ CutOff(s)
       \/ /\ at[s] = "recording" /\ Raise(s, "session lost")
          /\ UNCHANGED <<due, reasons, failures, errorVars, used>>
    /\ UNCHANGED <<phase, provider, now, stop, attempts, window, fate, answer, paid, recorded>>

(***************************************************************************)
(* The pass                                                                *)
(***************************************************************************)

RequestStop ==
    /\ ~stop /\ passOutcome = "running"
    /\ stop' = TRUE
    /\ UNCHANGED <<phase, provider, now, open, seatVars, errorVars, passVars, auditVars, used>>

\* gather() has raised: the other coroutines are cancelled where they are, but for
\* a write in flight.
CancelOthers ==
    /\ raised # NoReason /\ ~cancelled
    /\ cancelled' = TRUE
    /\ at' = [s \in Seat |-> CASE at[s] \in Over -> at[s]
                                [] at[s] \in InWrite -> "dropped"
                                [] OTHER -> "ended"]
    /\ fate' = [s \in Seat |-> IF at[s] \in InWrite THEN "cancel" ELSE fate[s]]
    /\ UNCHANGED <<phase, provider, now, stop, open, attempts, due, window, reasons, failures,
                   errorVars, passOutcome, ending, raised, auditVars, used>>

Finish ==
    /\ passOutcome = "running"
    /\ \A s \in Seat : at[s] \in Over
    /\ raised = NoReason \/ cancelled
    /\ passOutcome' = IF raised = NoReason THEN "collected" ELSE raised
    /\ UNCHANGED <<phase, provider, now, stop, open, seatVars, errorVars, ending, raised,
                   cancelled, auditVars, used>>

\* The orchestrator goes on to the next phase: _check_budget looks at the clock, the
\* loop at the stop channel.
NextPhase ==
    /\ passOutcome = "collected" /\ ~stop
    /\ phase < NPhases
    /\ phase' = phase + 1
    /\ passOutcome' = "running" /\ now' = 0
    /\ at' = [s \in Seat |-> "waiting"]
    /\ attempts' = [s \in Seat |-> 0]
    /\ due' = [s \in Seat |-> 0]
    /\ window' = [s \in Seat |-> "attempt"]
    /\ reasons' = [s \in Seat |-> NoReason]
    /\ failures' = [s \in Seat |-> NoReason]
    /\ fate' = [s \in Seat |-> NoReason]
    /\ answer' = [s \in Seat |-> "ok"]
    /\ paid' = [s \in Seat |-> 0]
    /\ recorded' = [s \in Seat |-> 0]
    /\ open' = {}
    /\ UNCHANGED <<provider, stop, errorVars, ending, raised, cancelled, writer, gone, used>>

\* Code between two awaits takes no time.
Instant ==
    \/ \E s \in Seat : \/ at[s] \in {"ready", "returning"}
                       \/ at[s] \in InCall \cup {"pausing", "recording"} /\ due[s] <= now
                       \/ FirstWaiting(s) /\ Cardinality(Holding) < Concurrency
    \/ raised # NoReason /\ ~cancelled

Tick ==
    /\ passOutcome = "running" /\ ~Instant
    /\ \E s \in Seat : at[s] \notin Over
    /\ now <= Deadline
    /\ now' = now + 1
    /\ UNCHANGED <<phase, provider, stop, open, seatVars, errorVars, passVars, auditVars, used>>

Code(s) ==
    \/ Take(s) \/ GiveUp(s) \/ AskNobody(s) \/ AskSeat(s) \/ Return(s) \/ Wake(s)
    \/ AttemptTimesOut(s) \/ BeginWrite(s) \/ Recorded(s) \/ WriteFails(s)

Progress == Tick \/ CancelOthers \/ Finish \/ NextPhase \/ \E s \in Seat : Code(s)

World(s) == StreamFails(s) \/ VendorAnswers(s) \/ VendorFails(s) \/ StopSeen(s)

SeatNext == Progress \/ RequestStop \/ \E s \in Seat : World(s)

SeatSpec == SeatInit /\ [][SeatNext]_collectVars

\* The event loop runs what is ready, the clock goes on and the database answers.
\* Nothing is asked of the vendor or of the researcher.
FairSeats == SeatSpec /\ WF_collectVars(Progress)

-----------------------------------------------------------------------------
(***************************************************************************)
(* What is promised                                                        *)
(***************************************************************************)

Reason == {NoReason, "no provider", "deadline", "attempt", "unreachable", "refused", "quarantined"}

\* The type invariant.
SeatTypeOK ==
    /\ phase \in 1..NPhases
    /\ provider \in BOOLEAN /\ stop \in BOOLEAN /\ gone \in BOOLEAN
    /\ ending \in BOOLEAN /\ cancelled \in BOOLEAN
    /\ passOutcome \in {"running", "collected", "cancelled", "session lost"}
    /\ raised \in {NoReason, "cancelled", "session lost"}
    /\ now \in 0..Deadline + 1
    /\ at \in [Seat -> InCall \cup InWrite \cup Over \cup {"waiting", "ready", "returning", "pausing"}]
    /\ attempts \in [Seat -> 0..MaxAttempts]
    /\ due \in [Seat -> 0..Deadline + 1]
    /\ window \in [Seat -> {"attempt", "deadline"}]
    /\ reasons \in [Seat -> Reason] /\ failures \in [Seat -> Reason]
    /\ seatErrors \in [Seat -> Reason] /\ lastError \in Reason
    /\ fate \in [Seat -> {NoReason, "timeout", "stop", "cancel"}]
    /\ writer \in Seat \cup {Nobody}
    /\ answer \in [Seat -> {"ok", "quarantined"}]
    /\ paid \in [Seat -> 0..MaxAttempts] /\ recorded \in [Seat -> 0..MaxAttempts]
    /\ open \subseteq Seat
    /\ used \in 0..ModelBudget

\* An absent seat is reported with its own last failure or with the deadline: the
\* reason of a seat that answers or fails beside it is never taken for it, and
\* "no provider" is said only when there is none.
AbsenceIsExplained ==
    passOutcome # "running" =>
        \A s \in Seat : at[s] = "absent" =>
            \/ reasons[s] = failures[s] /\ attempts[s] > 0 /\ failures[s] # NoReason
            \/ reasons[s] = "deadline" /\ now >= Deadline
            \/ reasons[s] = "no provider" /\ ~provider

\* Every call the vendor has answered has its audit row when the pass is over, also
\* the ones a timeout, a stop or another seat's failure cut off; the exception is a
\* connection that was lost.
PaidCallsAreRecorded ==
    passOutcome # "running" => writer = Nobody /\ (gone \/ paid = recorded)
=============================================================================
