------------------------------ MODULE MCStreams ------------------------------
(***************************************************************************)
(* Small instances of what leaves a run while it is going on: the events   *)
(* on their way to the graph and to a client, the rows of the live trace   *)
(* on their way to the table, and a page that reads them.  A behaviour is  *)
(* one of the three, as `part` says, and leaves the others as they begin.  *)
(***************************************************************************)
EXTENDS MCEvidencePipeline, ProcessStream, LiveView

VARIABLE part

streamsVars == <<part, vars, traceVars, viewVars>>

StreamsInit ==
    /\ part \in {"ledger", "trace", "page"}
    /\ Init /\ TraceInit /\ ViewInit

Judging == part = "ledger" /\ UNCHANGED <<part, traceVars, viewVars>>
Tracing == part = "trace" /\ UNCHANGED <<part, vars, viewVars>>
Watching == part = "page" /\ UNCHANGED <<part, vars, traceVars>>

StreamsNext ==
    \/ Judging /\ Next
    \/ Tracing /\ TraceNext
    \/ Watching /\ ViewNext

StreamsSpec == StreamsInit /\ [][StreamsNext]_streamsVars

\* Every variable holds a value of its type.
StreamsTypeOK == TypeOK /\ TraceTypeOK /\ ViewTypeOK
=============================================================================
