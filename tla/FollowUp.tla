------------------------------- MODULE FollowUp -------------------------------
(***************************************************************************)
(* Questions about a finished task, answered by a streaming model:         *)
(* follow_up_stream of apps/api/routers/tasks.py, the reader of its frames *)
(* (followUpStream in apps/web/src/api/client.ts) and the thread the page  *)
(* shows (apps/web/src/views/FollowUpView.tsx).                            *)
(*                                                                         *)
(* An answer is written in segments: one that ends at the length limit is  *)
(* sent back to the model to be continued, a bounded number of times.  The *)
(* model, the wire and the reader can each stop at any point.  A delta is  *)
(* named by its place in the answer.                                       *)
(***************************************************************************)
EXTENDS Naturals, Sequences, FiniteSets, SequencesExt

CONSTANTS
    MaxContinuations,  \* MAX_FOLLOWUP_CONTINUATIONS
    HistoryTurns,      \* MAX_FOLLOWUP_HISTORY_TURNS
    HistoryLength,     \* MAX_FOLLOWUP_HISTORY_CHARS, in deltas; a question is one
    MaxDeltas,         \* bound: deltas of an answer
    MaxQuestions       \* bound: questions of a thread

ASSUME FollowUpAssumption ==
    {MaxContinuations, HistoryTurns, HistoryLength, MaxDeltas, MaxQuestions} \subseteq Nat

VARIABLES
    thread,        \* the exchanges of the page, the last one may be pending
    server,        \* "idle", "request" (about to call the model), "segment"
    history,       \* the earlier messages the model is shown
    prior,         \* the answer so far, as the server would send it back
    segment,       \* the text of the segment under way
    capped,        \* requests carry max_tokens
    continuations,
    calls,         \* history: requests made for the pending question
    wire,          \* frames on their way to the page
    link           \* the page's request is still open

followVars == <<thread, server, history, prior, segment, capped, continuations, calls,
                wire, link>>

serverSide == <<server, history, prior, segment, capped, continuations, calls>>

-----------------------------------------------------------------------------

\* said and end are what the model did: history of the exchange, not of the page.
Asked == [answer |-> <<>>, state |-> "pending", incomplete |-> FALSE,
          said |-> 0, end |-> "open"]

Messages(exchanges) ==
    FlattenSeq([i \in DOMAIN exchanges |->
        IF exchanges[i].answer = <<>> THEN <<>>
        ELSE <<[role |-> "user", text |-> <<0>>],
               [role |-> "assistant", text |-> exchanges[i].answer]>>])

\* A mistake: the oldest turns that fit.
OldestFit(messages) ==
    LET Fit(acc, m) ==
            IF acc.used + Len(m.text) > HistoryLength THEN acc
            ELSE [used |-> acc.used + Len(m.text), kept |-> Append(acc.kept, m)]
    IN  FoldLeft(Fit, [used |-> 0, kept |-> <<>>], messages).kept

\* _followup_messages: of the newest turns, newest first, those that still fit.
KeptHistory(messages) ==
    LET newest == IF Len(messages) > HistoryTurns THEN HistoryTurns ELSE Len(messages)
        Message(k) == messages[Len(messages) - k + 1]
        fit[k \in 0 .. newest] ==
            IF k = 0 THEN [used |-> 0, kept |-> <<>>]
            ELSE IF fit[k - 1].used + Len(Message(k).text) > HistoryLength THEN fit[k - 1]
            ELSE [used |-> fit[k - 1].used + Len(Message(k).text),
                  kept |-> <<Message(k)>> \o fit[k - 1].kept]
    IN  fit[newest].kept

Sending == thread # <<>> /\ Last(thread).state = "pending"

Patch(exchange) == thread' = [thread EXCEPT ![Len(thread)] = exchange]

\* The frames of the stream: a delta, and those that carry none.
Delta(n) == [kind |-> "text", delta |-> n]
Notice(kind) == [kind |-> kind, delta |-> 0]

FollowInit ==
    /\ thread = <<>> /\ server = "idle" /\ history = <<>>
    /\ prior = <<>> /\ segment = <<>> /\ capped = TRUE
    /\ continuations = 0 /\ calls = 0
    /\ wire = <<>> /\ link = FALSE

(***************************************************************************)
(* The page asks                                                           *)
(***************************************************************************)

\* ask and _prepare_followup: one question at a time, with the answers so far, whole or
\* not.  A refusal (no endpoint, the task not finished) is answered at once.
Ask ==
    /\ ~Sending /\ Len(thread) < MaxQuestions
    /\ thread' = Append(thread, Asked)
    /\ history' = KeptHistory(Messages(thread))
    /\ \/ server' = "request" /\ wire' = <<>>
       \/ server' = "idle" /\ wire' = <<Notice("error")>>
    /\ prior' = <<>> /\ segment' = <<>> /\ capped' = TRUE
    /\ continuations' = 0 /\ calls' = 0 /\ link' = TRUE

(***************************************************************************)
(* The server                                                              *)
(***************************************************************************)

Frames(frames) == wire' = IF link THEN wire \o frames ELSE wire

CloseWith(frames) == server' = "idle" /\ Frames(frames)

\* A segment begins: the model accepts the request.
Begin ==
    /\ server = "request"
    /\ server' = "segment" /\ segment' = <<>>
    /\ calls' = calls + 1
    /\ UNCHANGED <<thread, history, prior, capped, continuations, wire, link>>

\* It does not know max_tokens: once more without, if nothing was written.
Downgrade ==
    /\ server = "request" /\ capped
    /\ capped' = FALSE /\ calls' = calls + 1
    /\ UNCHANGED <<thread, server, history, prior, segment, continuations, wire, link>>

\* Any other refusal, a broken connection, a segment that takes too long.
FailSegment ==
    /\ server \in {"request", "segment"}
    /\ CloseWith(<<Notice("error")>>)
    /\ calls' = calls + (IF server = "request" THEN 1 ELSE 0)
    /\ UNCHANGED <<thread, history, prior, segment, capped, continuations, link>>

\* A delta is relayed as it comes.
Say ==
    /\ server = "segment" /\ link /\ Last(thread).said < MaxDeltas
    /\ LET n == Last(thread).said + 1
       IN  /\ segment' = Append(segment, n)
           /\ Frames(<<Delta(n)>>)
           /\ Patch([Last(thread) EXCEPT !.said = n])
    /\ UNCHANGED <<server, history, prior, capped, continuations, calls, link>>

\* The stream of the model ends: with a reason, with [DONE], or just so.
Ends == [reason : {"stop", "length", "none"}, done : BOOLEAN]

\* A mistake: a stream that just ends is a finished one.
NeverCutShort(end) == FALSE

CutShort(end) == end.reason = "none" /\ ~end.done

\* A mistake: the continuation is not shown what the segment added.
PriorOnly == prior

AnswerSoFar == prior \o segment

EndSegment ==
    /\ server = "segment" /\ link
    /\ \E end \in Ends :
          /\ Patch([Last(thread) EXCEPT !.end = IF end.reason = "length" THEN "cut"
                                               ELSE IF end.reason = "stop" \/ end.done
                                               THEN "finished" ELSE "lost"])
          /\ IF CutShort(end) THEN
                /\ CloseWith(<<Notice("error")>>)
                /\ UNCHANGED <<prior, continuations>>
             ELSE
                /\ prior' = AnswerSoFar
                /\ IF end.reason # "length" THEN
                      CloseWith(<<Notice("DONE")>>) /\ UNCHANGED continuations
                   ELSE IF continuations >= MaxContinuations THEN
                      /\ CloseWith(<<Notice("truncated"), Notice("DONE")>>)
                      /\ UNCHANGED continuations
                   ELSE
                      /\ server' = "request" /\ continuations' = continuations + 1
                      /\ Frames(<<Notice("continued")>>)
    /\ segment' = <<>>
    /\ UNCHANGED <<history, capped, calls, link>>

\* request.is_disconnected, looked at with every line of the model.
NoticeDisconnect ==
    /\ server # "idle" /\ ~link
    /\ server' = "idle"
    /\ UNCHANGED <<thread, history, prior, segment, capped, continuations, calls, wire, link>>

(***************************************************************************)
(* The reader                                                              *)
(***************************************************************************)

Failed == [Last(thread) EXCEPT !.state = "failed", !.incomplete = Last(thread).answer # <<>>]

\* A mistake: a truncated answer is shown as any other.
NeverIncomplete(f) == FALSE

SaysIncomplete(f) == f.kind = "truncated"

Shown(f) ==
    IF f.kind = "text" THEN [Last(thread) EXCEPT !.answer = Append(@, f.delta)]
    ELSE IF SaysIncomplete(f) THEN [Last(thread) EXCEPT !.incomplete = TRUE]
    ELSE IF f.kind = "DONE" THEN [Last(thread) EXCEPT !.state = "ok"]
    ELSE IF f.kind = "error" THEN Failed
    ELSE Last(thread)

ReadFrame ==
    /\ Sending /\ wire # <<>>
    /\ LET f == Head(wire)
       IN  /\ Patch(Shown(f))
           /\ link' = (link /\ f.kind \notin {"DONE", "error"})
    /\ wire' = Tail(wire)
    /\ UNCHANGED serverSide

\* The connection breaks, or the server left it without a last frame: what was on the
\* wire is lost, and the reader throws.
LoseLink ==
    /\ Sending /\ link
    /\ link' = FALSE /\ wire' = <<>>
    /\ Patch(Failed)
    /\ UNCHANGED serverSide

FollowNext ==
    \/ Ask \/ Begin \/ Downgrade \/ FailSegment \/ Say \/ EndSegment \/ NoticeDisconnect
    \/ ReadFrame \/ LoseLink

FollowSpec == FollowInit /\ [][FollowNext]_followVars

-----------------------------------------------------------------------------
(* Properties *)

OnTheWire ==
    FlattenSeq([i \in DOMAIN wire |-> IF wire[i].kind = "text" THEN <<wire[i].delta>> ELSE <<>>])

\* Every variable holds a value of its type.
FollowTypeOK ==
    /\ \A x \in Range(thread) :
          /\ x.state \in {"pending", "ok", "failed"} /\ x.incomplete \in BOOLEAN
          /\ x.said \in 0 .. MaxDeltas /\ x.end \in {"open", "cut", "finished", "lost"}
    /\ server \in {"idle", "request", "segment"}
    /\ continuations \in 0 .. MaxContinuations
    /\ capped \in BOOLEAN /\ link \in BOOLEAN
    /\ calls <= MaxContinuations + 2

\* A partial answer never contains text the model did not say next, and one the page
\* shows without a word of warning is the whole of what the model said, which had
\* finished.
WholeOrMarked ==
    \A x \in Range(thread) :
        /\ x.answer = [i \in 1 .. Len(x.answer) |-> i]
        /\ x.state = "ok" /\ ~x.incomplete => Len(x.answer) = x.said /\ x.end = "finished"

\* FollowUpView.tsx: an unfinished answer is part of the history, so that "continue" lets
\* the model see how far it got -- if the answer is not longer than the history may be.
NextSeesTheAnswer ==
    Len(thread) > 1 /\ Sending =>
        LET before == thread[Len(thread) - 1].answer
        IN  before # <<>> /\ Len(before) <= HistoryLength /\ HistoryTurns > 0
                => history # <<>> /\ Last(history).text = before

\* follow_up_stream's "never by pretending it finished": answers are whole or marked; the
\* model asked to continue one is shown exactly the answer the page has or is about to
\* have, whether the same request continues it or the next question does.
AnswersAreWhole ==
    /\ FollowTypeOK
    /\ WholeOrMarked
    /\ server = "request" /\ link => prior = Last(thread).answer \o OnTheWire
    /\ NextSeesTheAnswer
=============================================================================
