---------------------------- MODULE ProcessStream ----------------------------
(***************************************************************************)
(* The live trace of a run: packages/evidence/process_stream.py and the    *)
(* callers that write through it, GatewayDeliberator's relay and heartbeat *)
(* (packages/council/deliberation.py).                                     *)
(*                                                                         *)
(* One writer serves every seat.  emit appends to a buffer; flush takes    *)
(* the buffer away and then waits for a lock, so several batches may be in *)
(* flight, each inside the coroutine that flushed: a seat's relay, a       *)
(* seat's heartbeat, the run itself.  Cancelling the coroutine takes the   *)
(* batch with it.                                                          *)
(***************************************************************************)
EXTENDS Integers, FiniteSets, Selections

CONSTANTS
    Slice,             \* a seat's turn in a phase
    MaxNoise,          \* bound: deltas and heartbeats of a run
    MaxFailures,       \* bound: times the database refuses a batch
    MaxClosingRetries

ASSUME ProcessStreamAssumption ==
    {MaxNoise, MaxFailures, MaxClosingRetries} \subseteq Nat

VARIABLES
    turn,      \* slice -> what its seat does
    noise,     \* deltas and heartbeats so far
    emitted,   \* history: every row emitted, in order
    buffer,    \* rows no flush has taken
    batch,     \* flusher -> the rows its flush has taken
    queue,     \* the flushers at the lock, the first one holds it
    numbered,  \* flusher -> the seq it has read for its first row, or Unread
    stored,    \* process_stream: seq -> row
    retries,   \* closing batches put back
    failures,  \* history: refused batches
    cancelled, \* history: rows of cancelled flushes
    writer     \* "open", "closing" (the run's last flush), "closed"

traceVars == <<turn, noise, emitted, buffer, batch, queue, numbered, stored,
               retries, failures, cancelled, writer>>

-----------------------------------------------------------------------------
(* Rows *)

\* The run flushes once, at its end; a seat's relay and heartbeat as it thinks.
Run == <<"run", "close">>
Flusher == {Run} \cup (Slice \X {"relay", "beat"})

Unread == -1

ClosingKinds == {"model_done"}

TokenKinds == {"model_token"}

\* A row carries the pieces of text it holds, each named by its place in `emitted`.
Row(kind, s) == [kind |-> kind, slice |-> s, text |-> <<Len(emitted) + 1>>]

SameSlice(r, q) == r.kind = q.kind /\ r.slice = q.slice

\* A mistake: deltas are merged whatever seat they come from.
MergedCarelessly(rows) ==
    LET Join(kept, r) ==
            IF kept # <<>> /\ Last(kept).kind = r.kind /\ r.kind \in TokenKinds
            THEN [kept EXCEPT ![Len(kept)].text = @ \o r.text]
            ELSE Append(kept, r)
        merged[i \in 0 .. Len(rows)] == IF i = 0 THEN <<>> ELSE Join(merged[i - 1], rows[i])
    IN  merged[Len(rows)]

\* _coalesce_batch: adjacent deltas of a slice become one row, of adjacent heartbeats
\* the last one stays, and any other row ends a run of them.
Joined(kept, r) ==
    IF kept = <<>> \/ ~SameSlice(Last(kept), r) THEN Append(kept, r)
    ELSE IF r.kind \in TokenKinds THEN [kept EXCEPT ![Len(kept)].text = @ \o r.text]
    ELSE IF r.kind = "seat_working" THEN [kept EXCEPT ![Len(kept)] = r]
    ELSE Append(kept, r)

Coalesced(rows) ==
    LET merged[i \in 0 .. Len(rows)] == IF i = 0 THEN <<>> ELSE Joined(merged[i - 1], rows[i])
    IN  merged[Len(rows)]

\* next_seq: one past the newest row.
NextSeq == Cardinality(DOMAIN stored)

IdleFlush == [f \in Flusher |-> <<>>]

TraceInit ==
    /\ turn = [s \in Slice |-> "idle"] /\ noise = 0
    /\ emitted = <<>> /\ buffer = <<>>
    /\ batch = IdleFlush /\ queue = <<>> /\ numbered = [f \in Flusher |-> Unread]
    /\ stored = [n \in {} |-> 0]
    /\ retries = 0 /\ failures = 0 /\ cancelled = {}
    /\ writer = "open"

flushVars == <<batch, queue, numbered>>
outcomeVars == <<stored, retries, failures, cancelled, writer>>

(***************************************************************************)
(* The callers                                                             *)
(***************************************************************************)

Idle(f) == f \notin Range(queue)

EmitRow(r) == emitted' = Append(emitted, r) /\ UNCHANGED <<outcomeVars>>

\* flush: take what is buffered, and wait for the lock.
Take(f, rows) ==
    /\ batch' = [batch EXCEPT ![f] = rows]
    /\ queue' = Append(queue, f)
    /\ buffer' = <<>>
    /\ UNCHANGED numbered

Queue(r) == buffer' = Append(buffer, r) /\ UNCHANGED flushVars

\* deliberate: the seat's turn is announced before its model starts.
OpenSlice(s) ==
    /\ writer = "open" /\ turn[s] = "idle"
    /\ turn' = [turn EXCEPT ![s] = "thinking"]
    /\ LET r == Row("seat_deliberation", s) IN EmitRow(r) /\ Queue(r)
    /\ UNCHANGED noise

\* _relay: a delta; every so many of them the relay flushes before it reads on.
Relay(s) ==
    /\ turn[s] = "thinking" /\ Idle(<<s, "relay">>) /\ noise < MaxNoise
    /\ noise' = noise + 1
    /\ LET r == Row("model_token", s)
       IN  EmitRow(r) /\ (Queue(r) \/ Take(<<s, "relay">>, Append(buffer, r)))
    /\ UNCHANGED turn

\* _heartbeat: a row and a flush, by a task of its own.
Beat(s) ==
    /\ turn[s] \in {"thinking", "answered"} /\ Idle(<<s, "beat">>) /\ noise < MaxNoise
    /\ noise' = noise + 1
    /\ LET r == Row("seat_working", s)
       IN  EmitRow(r) /\ Take(<<s, "beat">>, Append(buffer, r))
    /\ UNCHANGED turn

\* The stream's "done", the fallback's answer or the failure path: the slice is closed
\* by a row that waits for somebody's flush.
CloseSlice(s) ==
    /\ turn[s] = "thinking" /\ Idle(<<s, "relay">>)
    /\ turn' = [turn EXCEPT ![s] = "answered"]
    /\ LET r == Row("model_done", s) IN EmitRow(r) /\ Queue(r)
    /\ UNCHANGED noise

\* What a cancelled coroutine was about to write is gone, and the lock is free.
Cancel(F) ==
    /\ cancelled' = cancelled \cup UNION {Range(batch[f]) : f \in F}
    /\ queue' = Chosen(queue, Flusher \ F)
    /\ batch' = [f \in Flusher |-> IF f \in F THEN <<>> ELSE batch[f]]
    /\ numbered' = [f \in Flusher |-> IF f \in F THEN Unread ELSE numbered[f]]
    /\ UNCHANGED <<noise, emitted, buffer, stored, retries, failures, writer>>

\* _stop_heartbeat, in the finally of deliberate.
LeaveSlice(s) ==
    /\ turn[s] = "answered"
    /\ turn' = [turn EXCEPT ![s] = "over"]
    /\ Cancel({<<s, "beat">>})

\* The phase's deadline cancels the whole call, which then closes nothing.
Abandon(s) ==
    /\ turn[s] = "thinking"
    /\ turn' = [turn EXCEPT ![s] = "over"]
    /\ Cancel({<<s, "relay">>, <<s, "beat">>})

\* close, in the finally of the job: one last flush.
CloseTrace ==
    /\ writer = "open" /\ \A s \in Slice : turn[s] \in {"idle", "over"}
    /\ IF buffer = <<>>
       THEN writer' = "closed" /\ UNCHANGED <<buffer, flushVars>>
       ELSE writer' = "closing" /\ Take(Run, buffer)
    /\ UNCHANGED <<turn, noise, emitted, stored, retries, failures, cancelled>>

(***************************************************************************)
(* The writer, under its lock                                              *)
(***************************************************************************)

\* The mistake of the first version: no lock.
Unlocked(f) == f \in Range(queue)

HoldsLock(f) == queue # <<>> /\ Head(queue) = f

Done(f) ==
    /\ queue' = Chosen(queue, Flusher \ {f})
    /\ batch' = [batch EXCEPT ![f] = <<>>]
    /\ numbered' = [numbered EXCEPT ![f] = Unread]
    /\ writer' = IF f = Run THEN "closed" ELSE writer

\* _flush_pending: read the next number ...
Allocate(f) ==
    /\ HoldsLock(f) /\ numbered[f] = Unread
    /\ numbered' = [numbered EXCEPT ![f] = NextSeq]
    /\ UNCHANGED <<turn, noise, emitted, buffer, batch, queue, outcomeVars>>

\* ... and commit the rows under the numbers from there on.
Fresh(f) == [n \in numbered[f] .. numbered[f] + Len(Coalesced(batch[f])) - 1
                 |-> Coalesced(batch[f])[n - numbered[f] + 1]]

Store(f) ==
    /\ HoldsLock(f) /\ numbered[f] # Unread
    /\ DOMAIN Fresh(f) \cap DOMAIN stored = {}
    /\ stored' = [n \in DOMAIN stored \cup DOMAIN Fresh(f) |->
                     IF n \in DOMAIN stored THEN stored[n] ELSE Fresh(f)[n]]
    /\ Done(f)
    /\ UNCHANGED <<turn, noise, emitted, buffer, retries, failures, cancelled>>

\* Two mistakes: a failed batch is dropped; it replaces what was emitted since.
PutBackNothing(f) == UNCHANGED <<buffer, retries>>
PutBackOver(f) ==
    IF retries < MaxClosingRetries /\ \E r \in Range(batch[f]) : r.kind \in ClosingKinds
    THEN buffer' = batch[f] /\ retries' = retries + 1
    ELSE UNCHANGED <<buffer, retries>>

\* The failure path: a batch that closes a slice goes back in front of the buffer, a
\* bounded number of times; any other batch is dropped.
PutBack(f) ==
    IF retries < MaxClosingRetries /\ \E r \in Range(batch[f]) : r.kind \in ClosingKinds
    THEN buffer' = batch[f] \o buffer /\ retries' = retries + 1
    ELSE UNCHANGED <<buffer, retries>>

\* The database refuses, or a number is taken (uq_process_stream_task_seq).
Refuse(f) ==
    /\ HoldsLock(f) /\ numbered[f] # Unread
    /\ IF DOMAIN Fresh(f) \cap DOMAIN stored = {}
       THEN failures < MaxFailures /\ failures' = failures + 1
       ELSE UNCHANGED failures
    /\ PutBack(f)
    /\ Done(f)
    /\ UNCHANGED <<turn, noise, emitted, stored, cancelled>>

TraceNext ==
    \/ \E s \in Slice :
          OpenSlice(s) \/ Relay(s) \/ Beat(s) \/ CloseSlice(s) \/ LeaveSlice(s) \/ Abandon(s)
    \/ CloseTrace
    \/ \E f \in Flusher : Allocate(f) \/ Store(f) \/ Refuse(f)

TraceSpec == TraceInit /\ [][TraceNext]_traceVars

-----------------------------------------------------------------------------
(* Properties *)

\* The text of rows, without that of the heartbeats.
KeptText(rows) ==
    FlattenSeq([i \in DOMAIN rows |->
                   IF rows[i].kind = "seat_working" THEN <<>> ELSE rows[i].text])

StoredRows == [i \in 1 .. Cardinality(DOMAIN stored) |-> stored[i - 1]]

\* What the writer still has, in the order in which it will write it.
Pending == FlattenSeq([i \in DOMAIN queue |-> batch[queue[i]]]) \o buffer

Closing(rows) == {r \in Range(rows) : r.kind \in ClosingKinds}

\* Every variable holds a value of its type.
TraceTypeOK ==
    /\ turn \in [Slice -> {"idle", "thinking", "answered", "over"}]
    /\ noise \in 0 .. MaxNoise
    /\ Range(queue) \subseteq Flusher /\ IsInjective(queue)
    /\ numbered \in [Flusher -> Nat \cup {Unread}]
    /\ DOMAIN stored = 0 .. Cardinality(DOMAIN stored) - 1
    /\ retries \in 0 .. MaxClosingRetries /\ failures \in 0 .. MaxFailures
    /\ Range(buffer) \cup cancelled \subseteq Range(emitted)
    /\ writer \in {"open", "closing", "closed"}

\* process_stream.py's flush lock and _coalesce_batch's "preserving order and text": a
\* stored row holds text of its own seat and kind only, and while no batch is refused
\* and no flush cancelled, the table and what the writer still has are the rows emitted,
\* in their order; only a heartbeat may give way to a newer one.
TraceIsWhatWasEmitted ==
    /\ \A n \in DOMAIN stored : \A i \in Range(stored[n].text) :
          SameSlice(emitted[i], stored[n])
    /\ failures = 0 /\ cancelled = {} =>
          KeptText(StoredRows) \o KeptText(Pending) = KeptText(emitted)

\* The retry of round 15: however flushes overlap, the row that closes a seat's card is
\* stored or about to be stored.  It is lost only with a cancelled flush, with more
\* refusals than the writer retries, or when the refused flush was the last one.
ClosingRowsAreNotDropped ==
    \A r \in Closing(emitted) :
        \/ r \in Range(StoredRows) \/ r \in cancelled
        \/ r \in Range(Pending) /\ (writer = "closed" => failures > 0)
        \/ failures > MaxClosingRetries
=============================================================================
