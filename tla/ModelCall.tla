----------------------------- MODULE ModelCall -----------------------------
(***************************************************************************)
(* One seat's call to the model's vendor, from its first request to the    *)
(* result the deliberator keeps: deliberate (council/deliberation.py) over *)
(* stream_invoke and invoke (models/openai_compatible.py) and              *)
(* send_with_retry (kernel/http_retry.py).                                 *)
(*                                                                         *)
(* The call is streamed when somebody watches.  A stream that fails in any *)
(* way is given up, and the question is asked again without one: at most   *)
(* Repairs + 1 times, each after the errors of the reply before, each with *)
(* its own transport retries, and once more when the vendor refuses the    *)
(* forced tool.  The reply is all the vendor decides.  The tokens of a call *)
(* are summed up in the method's own variables: an exception on a later     *)
(* request takes them along, and nobody audits or charges them.            *)
(***************************************************************************)
EXTENDS Naturals

CONSTANTS
    Repairs,            \* MAX_SCHEMA_REPAIR_ATTEMPTS
    TransportRetries    \* MAX_TRANSPORT_RETRIES

ASSUME ModelCallAssumption == Repairs \in Nat /\ TransportRetries \in Nat

VARIABLES
    leg,       \* stream, invoke, or over
    forced,    \* force_tool: the tool is required, and thinking is off
    attempt,   \* schema repairs asked for
    tries,     \* `retries` of the current send_with_retry
    retries,   \* the retries the result will report
    bill,      \* answers summed up so far; in the end, those in the result
    answered,  \* history: answers the plain requests were given
    requests,  \* history: plain requests sent
    result     \* what the deliberator is given

callVars == <<leg, forced, attempt, tries, retries, bill, answered, requests, result>>

\* _parse_and_validate finds an error, or none; `garbled` is a reply without
\* the JSON the client reads its message from.
Reply == {"unreachable", "busy", "broken", "tool refused", "rejected", "garbled", "invalid", "valid"}

\* A relay is streamed to only if somebody listens and the gateway can stream.
\* A model that thinks is not forced to call the tool.
CallInit ==
    /\ leg \in {"stream", "invoke"}
    /\ forced \in BOOLEAN
    /\ attempt = 0 /\ tries = 0 /\ retries = 0
    /\ bill = 0 /\ answered = 0 /\ requests = 0
    /\ result = "none"

End(what) == leg' = "over" /\ result' = what

\* An exception, or a cancellation, ends the call without a ModelResult: the sums
\* over the replies so far are locals, and are lost.
Fail(what) == End(what) /\ bill' = 0

\* The stream ends with [DONE] or a finish reason that is not "length", and its
\* text satisfies the schema.
StreamCompletes ==
    /\ leg = "stream"
    /\ End("ok")
    /\ bill' = 1
    /\ UNCHANGED <<forced, attempt, tries, retries, answered, requests>>

\* Silence, a status, a cut, the length limit, a bad payload, the deadline: the
\* deliberator falls back.  What the vendor charges for the stream is not billed.
StreamBreaks ==
    /\ leg = "stream"
    /\ leg' = "invoke"
    /\ UNCHANGED <<forced, attempt, tries, retries, bill, answered, requests, result>>

\* A failure of the line, a 429 and a 5xx are tried again, the last one raised.
SendAgain ==
    /\ tries' = tries + 1
    /\ \/ tries < TransportRetries /\ UNCHANGED <<leg, result, bill>>
       \/ tries = TransportRetries /\ Fail("failed")
    /\ UNCHANGED <<forced, attempt, retries, answered>>

\* A mistake: the next pass asks for the tool again.
StillForced ==
    /\ retries' = retries + 1
    /\ tries' = 0
    /\ UNCHANGED <<leg, forced, attempt, bill, answered, result>>

\* _is_tool_choice_conflict: the second pass thinks, and leaves the tool alone.
Downgrade ==
    /\ forced' = FALSE
    /\ retries' = retries + 1
    /\ tries' = 0
    /\ UNCHANGED <<leg, attempt, bill, answered, result>>

Rejected ==
    /\ Fail("failed")
    /\ UNCHANGED <<forced, attempt, tries, retries, answered>>

\* The reply has no message: the KeyError or ValueError ends the call, uncounted.
Garbled ==
    /\ Fail("failed")
    /\ UNCHANGED <<forced, attempt, tries, retries, answered>>

\* A mistake: only the reply that is kept is paid for.
CountLast == bill' = 1

\* Input, output and cached tokens are summed over the replies.
Count == bill' = bill + 1

Valid ==
    /\ Count /\ answered' = answered + 1
    /\ \/ attempt = 0 /\ End("ok")
       \/ attempt > 0 /\ End("repaired")
    /\ retries' = retries + tries
    /\ UNCHANGED <<forced, attempt, tries>>

Invalid ==
    /\ Count /\ answered' = answered + 1
    /\ \/ /\ attempt < Repairs
          /\ attempt' = attempt + 1
          /\ retries' = retries + tries + 1
          /\ tries' = 0
          /\ UNCHANGED <<leg, result>>
       \/ /\ attempt = Repairs
          /\ End("quarantined")
          /\ retries' = retries + tries
          /\ UNCHANGED <<attempt, tries>>
    /\ UNCHANGED <<forced>>

Post(reply) ==
    /\ leg = "invoke"
    /\ requests' = requests + 1
    /\ \/ reply \in {"unreachable", "busy", "broken"} /\ SendAgain
       \/ reply = "tool refused" /\ forced /\ Downgrade
       \/ reply = "tool refused" /\ ~forced /\ Rejected
       \/ reply = "rejected" /\ Rejected
       \/ reply = "garbled" /\ Garbled
       \/ reply = "invalid" /\ Invalid
       \/ reply = "valid" /\ Valid

\* wait_for's deadline over the whole call, or _await_or_cancel: the researcher
\* stops the run, or the database session is lost.
CutShort ==
    /\ leg # "over"
    /\ \/ leg = "invoke" /\ Fail("failed")
       \/ Fail("cancelled")
    /\ UNCHANGED <<forced, attempt, tries, retries, answered, requests>>

CallNext ==
    \/ StreamCompletes
    \/ StreamBreaks
    \/ \E reply \in Reply : Post(reply)
    \/ CutShort

CallSpec == CallInit /\ [][CallNext]_callVars

-----------------------------------------------------------------------------
(* Properties *)

\* The number of requests one plain call can make: every pass may use all its
\* tries, and there is one pass per schema attempt and one for the downgrade.
MostRequests == (Repairs + 2) * (TransportRetries + 1)

\* Every variable holds a value of its type.
CallTypeOK ==
    /\ leg \in {"stream", "invoke", "over"}
    /\ forced \in BOOLEAN
    /\ attempt \in 0 .. Repairs
    /\ tries \in 0 .. TransportRetries + 1
    /\ {retries, requests} \subseteq 0 .. MostRequests
    /\ {bill, answered} \subseteq 0 .. Repairs + 1
    /\ result \in {"none", "ok", "repaired", "quarantined", "failed", "cancelled"}

\* Whatever mixture of failures, repairs and refusals comes, a call makes no more
\* requests than its loops add up to, and reports no more retries than it made.
RequestsAreBounded ==
    /\ requests <= MostRequests
    /\ retries <= requests

\* A call that ends with a result bills every reply the vendor gave to it, the ones
\* that were refused and repaired too, and a reply that came by the stream (the audit
\* row and the budget take what the result says).
ResultBillsEveryReply ==
    result \in {"ok", "repaired", "quarantined"} =>
        /\ answered > 0 => bill = answered
        /\ answered = 0 => bill = 1

\* A call that ends without one bills nothing, not even the replies it had been given
\* (openai_compatible.py:290-299 and deliberation.py:831-864): they are at most Repairs,
\* because the reply after the last repair is always a result.
FailureLosesOnlyRepairs ==
    result \in {"failed", "cancelled"} => bill = 0 /\ answered <= Repairs

\* A call's loops are bounded, its result bills all the vendor replied, and a call that
\* fails loses no more paid replies than it may ask repairs for.
CallIsAccountedFor ==
    RequestsAreBounded /\ ResultBillsEveryReply /\ FailureLosesOnlyRepairs
=============================================================================
