--------------------------- MODULE EvidencePipeline ---------------------------
(***************************************************************************)
(* The way of a task's scientific events: sessions append them to the      *)
(* ledger (packages/evidence/sql_ledger.py), projection passes judge them  *)
(* and write the evidence graph (sql_projector.py), and the event stream   *)
(* brings them to a client that resumes where it was cut off               *)
(* (apps/api/routers/stream.py).                                           *)
(*                                                                         *)
(* Each session and each pass is a PostgreSQL transaction under READ       *)
(* COMMITTED: its writes are its own until it commits, its reads see what  *)
(* is committed at that instant.  The advisory locks end with it.          *)
(***************************************************************************)
EXTENDS EvidenceGate, Sequences, FiniteSets, Functions

CONSTANTS
    Event,        \* candidate events: see EvidenceGate, with key, payload, trace
    Emitter,      \* sessions that append: a worker's, an API request's
    Emits,        \* what each of them appends
    Projector,    \* sessions of the projector role
    Nobody        \* no holder of a lock

Node == {e.node : e \in Event}

ASSUME PipelineAssumption ==
    /\ Nobody \notin Emitter \cup Projector
    /\ NoNode \notin Node
    /\ \A e \in Event : e.source \in Node \cup {NoNode} /\ e.targets \subseteq Node
    /\ Emits \in [Emitter -> SUBSET Event]

VARIABLES
    rows,           \* scientific_events: sequence -> committed event
    verdicts,       \* sequence -> the verdicts committed for the event; status
                    \* is the last, each has left its rows in event_audits
    tx,             \* emitter -> the rows its transaction has inserted
    appendLock,     \* the task's advisory lock of the ledger
    graph,          \* graph_nodes: node -> the event it was written from
    edges,          \* graph_edges: <<source node, target node>>
    checkpoint,     \* projection_checkpoints.last_sequence
    projectorLock,  \* the task's advisory lock of the projector
    pass,           \* projector -> its pass
    stream,         \* the server's side of the client's connection
    seen,           \* the events the client has received, in order
    lastId          \* the client's Last-Event-ID

ledgerVars == <<rows, tx, appendLock>>
graphVars == <<verdicts, graph, edges, checkpoint, projectorLock, pass>>
streamVars == <<stream, seen, lastId>>
vars == <<ledgerVars, graphVars, streamVars>>

-----------------------------------------------------------------------------
(* Data *)

NoRows == [i \in {} |-> 0]

Sequence(set) == set \subseteq Nat \ {0}

\* The memory of a pass: what it has read, judged and written so far.
NoPass == [at |-> "idle", start |-> 0, last |-> 0, todo |-> {},
           verdicts |-> NoRows, graph |-> NoRows, edges |-> {}]

Closed == [open |-> FALSE, cursor |-> 0]

\* Rows are never changed: f's where both have one.
Merged(f, g) ==
    [x \in DOMAIN f \cup DOMAIN g |-> IF x \in DOMAIN f THEN f[x] ELSE g[x]]

Put(f, x, v) == [y \in DOMAIN f \cup {x} |-> IF y = x THEN v ELSE f[y]]

\* coalesce(max(sequence), 0).
Latest(set) == IF set = {} THEN 0 ELSE CHOOSE i \in set : \A j \in set : j <= i

First(set) == CHOOSE i \in set : \A j \in set : i <= j

\* The k-th smallest.
Nth(set, k) == CHOOSE i \in set : Cardinality({j \in set : j <= i}) = k

Init ==
    /\ rows = NoRows
    /\ verdicts = NoRows
    /\ tx = [s \in Emitter |-> NoRows]
    /\ appendLock = Nobody
    /\ graph = NoRows
    /\ edges = {}
    /\ checkpoint = 0
    /\ projectorLock = Nobody
    /\ pass = [p \in Projector |-> NoPass]
    /\ stream = Closed
    /\ seen = <<>>
    /\ lastId = 0

(***************************************************************************)
(* Appending                                                               *)
(***************************************************************************)

\* What session s reads.
Visible(s) == Merged(rows, tx[s])

Keyed(s, e) == {d \in Range(Visible(s)) : d.key = e.key}

\* A seat's findings follow their source, a fork the claim it contradicts.
Emittable(s, e) ==
    \A n \in e.targets \cup ({e.source} \ {NoNode, e.node}) :
        \E d \in Range(Visible(s)) : d.node = n

Release(s) == appendLock' = IF appendLock = s THEN Nobody ELSE appendLock

\* A mistake: numbers come from a counter, and nobody waits for anybody.
AppendFromCounter(s, e) ==
    LET taken == DOMAIN rows \cup UNION {DOMAIN tx[t] : t \in Emitter}
    IN  /\ Emittable(s, e)
        /\ Keyed(s, e) = {}
        /\ \A t \in Emitter : e.key \notin {d.key : d \in Range(tx[t])}
        /\ tx' = [tx EXCEPT ![s] = Put(@, Latest(taken) + 1, e)]
        /\ UNCHANGED <<rows, appendLock, graphVars, streamVars>>

\* append of an event with a new key: lock, max + 1, insert.
AppendNew(s, e) ==
    /\ appendLock \in {s, Nobody}
    /\ Emittable(s, e)
    /\ Keyed(s, e) = {}
    /\ appendLock' = s
    /\ tx' = [tx EXCEPT ![s] = Put(@, Latest(DOMAIN Visible(s)) + 1, e)]
    /\ UNCHANGED <<rows, graphVars, streamVars>>

\* append of an event that is there: the same, or a trace, which keeps the
\* first record.
AppendAgain(s, e) ==
    /\ appendLock \in {s, Nobody}
    /\ Keyed(s, e) # {}
    /\ e \in Keyed(s, e) \/ e.trace
    /\ appendLock' = s
    /\ UNCHANGED <<rows, tx, graphVars, streamVars>>

\* EventConflict: the caller rolls its transaction back.
Conflict(s, e) ==
    /\ appendLock \in {s, Nobody}
    /\ Keyed(s, e) # {}
    /\ e \notin Keyed(s, e) /\ ~e.trace
    /\ tx' = [tx EXCEPT ![s] = NoRows]
    /\ Release(s)
    /\ UNCHANGED <<rows, graphVars, streamVars>>

\* A running checkpoint, an audit row, the end of a request.
Commit(s) ==
    /\ appendLock = s \/ tx[s] # NoRows
    /\ rows' = Visible(s)
    /\ verdicts' = Merged(verdicts, [i \in DOMAIN tx[s] |-> <<>>])
    /\ tx' = [tx EXCEPT ![s] = NoRows]
    /\ Release(s)
    /\ UNCHANGED <<graph, edges, checkpoint, projectorLock, pass, streamVars>>

\* A phase that failed, a process that died.
Rollback(s) ==
    /\ appendLock = s \/ tx[s] # NoRows
    /\ tx' = [tx EXCEPT ![s] = NoRows]
    /\ Release(s)
    /\ UNCHANGED <<rows, graphVars, streamVars>>

(***************************************************************************)
(* Projecting                                                              *)
(***************************************************************************)

\* A mistake: no lock.
BeginPassUnlocked(p) ==
    /\ pass[p].at = "idle"
    /\ pass' = [pass EXCEPT ![p] = [NoPass EXCEPT !.at = "locked",
                                                  !.start = checkpoint,
                                                  !.last = checkpoint]]
    /\ UNCHANGED <<ledgerVars, verdicts, graph, edges, checkpoint, projectorLock,
                   streamVars>>

\* project_pending: lock the task, read the checkpoint.  A worker after its run
\* or a sweep starts it; neither asks whether anything is pending.
BeginPass(p) ==
    /\ pass[p].at = "idle"
    /\ projectorLock = Nobody
    /\ projectorLock' = p
    /\ pass' = [pass EXCEPT ![p] = [NoPass EXCEPT !.at = "locked",
                                                  !.start = checkpoint,
                                                  !.last = checkpoint]]
    /\ UNCHANGED <<ledgerVars, verdicts, graph, edges, checkpoint, streamVars>>

\* _pending_events.
ReadPending(p) ==
    /\ pass[p].at = "locked"
    /\ pass' = [pass EXCEPT ![p].at = "projecting",
                            ![p].todo = {i \in DOMAIN rows : i > pass[p].start},
                            ![p].graph = graph, ![p].edges = edges]
    /\ UNCHANGED <<ledgerVars, verdicts, graph, edges, checkpoint, projectorLock,
                   streamVars>>

\* The edges of an admitted event; a finding gets one to its source.
EdgesOf(e) ==
    {<<e.node, n>> : n \in e.targets \cup
        IF e.kind = "StudyFinding" /\ e.source # NoNode THEN {e.source} ELSE {}}

\* A mistake: an edge is written whatever is at its end.
AnchoredAnyway(e, nodes) == e \in Event /\ nodes \subseteq Node

\* _write_edges finds each target, the event's own node included.
Anchored(e, nodes) == {x[2] : x \in EdgesOf(e)} \subseteq nodes \cup {e.node}

\* The event the pass projects next.
NextEvent(p) == rows[First(pass[p].todo)]

Stuck(p) ==
    /\ Verdict(NextEvent(p), pass[p].graph) = "admitted"
    /\ ~Anchored(NextEvent(p), DOMAIN pass[p].graph)

\* _project_one: the gate, then node, edges and verdict.
ProjectOne(p) ==
    /\ pass[p].at = "projecting"
    /\ pass[p].todo # {}
    /\ ~Stuck(p)
    /\ LET q == pass[p]
           i == First(q.todo)
           e == rows[i]
           v == Verdict(e, q.graph)
           G == IF v = "admitted" THEN Put(q.graph, e.node, e) ELSE q.graph
           E == IF v = "admitted" THEN q.edges \cup EdgesOf(e) ELSE q.edges
       IN  pass' = [pass EXCEPT ![p] =
                      [q EXCEPT !.last = i, !.todo = q.todo \ {i},
                                !.verdicts = Put(q.verdicts, i, v),
                                !.graph = G, !.edges = E]]
    /\ UNCHANGED <<ledgerVars, verdicts, graph, edges, checkpoint, projectorLock,
                   streamVars>>

EndPass(p) ==
    /\ pass' = [pass EXCEPT ![p] = NoPass]
    /\ projectorLock' = IF projectorLock = p THEN Nobody ELSE projectorLock

\* Advance the checkpoint and commit.  An upsert writes the rows this pass has
\* touched, whatever they are by now.
CommitPass(p) ==
    /\ pass[p].at = "projecting"
    /\ pass[p].todo = {}
    /\ verdicts' = [i \in DOMAIN verdicts |->
                       IF i \in DOMAIN pass[p].verdicts
                       THEN Append(verdicts[i], pass[p].verdicts[i])
                       ELSE verdicts[i]]
    /\ graph' = Merged(pass[p].graph, graph)
    /\ edges' = edges \cup pass[p].edges
    /\ checkpoint' = Latest({checkpoint, pass[p].last})
    /\ EndPass(p)
    /\ UNCHANGED <<ledgerVars, streamVars>>

\* ProjectionError: an edge has no end, the pass rolls back.
FailPass(p) ==
    /\ pass[p].at = "projecting"
    /\ pass[p].todo # {}
    /\ Stuck(p)
    /\ EndPass(p)
    /\ UNCHANGED <<ledgerVars, verdicts, graph, edges, checkpoint, streamVars>>

\* The process dies or the connection is lost.
LosePass(p) ==
    /\ pass[p].at # "idle"
    /\ EndPass(p)
    /\ UNCHANGED <<ledgerVars, verdicts, graph, edges, checkpoint, streamVars>>

(***************************************************************************)
(* Streaming                                                               *)
(***************************************************************************)

\* A mistake: a reconnect starts from what is there now.
ConnectAtLatest ==
    /\ ~stream.open
    /\ stream' = [open |-> TRUE, cursor |-> Latest(DOMAIN rows)]
    /\ UNCHANGED <<ledgerVars, graphVars, seen, lastId>>

\* stream_events, after the Last-Event-ID of the client.
Connect ==
    /\ ~stream.open
    /\ stream' = [open |-> TRUE, cursor |-> lastId]
    /\ UNCHANGED <<ledgerVars, graphVars, seen, lastId>>

\* list_since after the cursor, and the entries one by one up to the last one
\* that reaches the client; short of the end of what was fetched, because the
\* connection breaks.
Deliver ==
    /\ stream.open
    /\ LET batch == {i \in DOMAIN rows : i > stream.cursor}
       IN  \E last \in batch :
              /\ seen' = seen \o [k \in 1 .. Cardinality({i \in batch : i <= last}) |->
                                     rows[Nth(batch, k)]]
              /\ lastId' = last
              /\ stream' = IF last = Latest(batch)
                            THEN [open |-> TRUE, cursor |-> last] ELSE Closed
    /\ UNCHANGED <<ledgerVars, graphVars>>

\* The client goes away, the connection breaks, or the server ends the stream
\* of a finished task.
Disconnect ==
    /\ stream.open
    /\ stream' = Closed
    /\ UNCHANGED <<ledgerVars, graphVars, seen, lastId>>

-----------------------------------------------------------------------------
Emit(s) ==
    \/ \E e \in Emits[s] : AppendNew(s, e) \/ AppendAgain(s, e) \/ Conflict(s, e)
    \/ Commit(s) \/ Rollback(s)

Project(p) ==
    \/ BeginPass(p) \/ ReadPending(p) \/ ProjectOne(p) \/ CommitPass(p) \/ FailPass(p)

Stream == Connect \/ Deliver \/ Disconnect

Next ==
    \/ \E s \in Emitter : Emit(s)
    \/ \E p \in Projector : Project(p) \/ LosePass(p)
    \/ Stream

Spec == Init /\ [][Next]_vars

\* The sweep projects again and again, a pass that has begun goes on, and some
\* time the database stays up.
Fairness ==
    /\ WF_vars(\E p \in Projector : BeginPass(p))
    /\ \A p \in Projector :
          WF_vars(ReadPending(p) \/ ProjectOne(p) \/ CommitPass(p) \/ FailPass(p))
    /\ <>[][ \A p \in Projector : LosePass(p) => FailPass(p) ]_vars

FairSpec == Spec /\ Fairness
-----------------------------------------------------------------------------
(* Properties *)

\* Every variable holds a value of its type.
TypeOK ==
    /\ Sequence(DOMAIN rows) /\ Range(rows) \subseteq Event
    /\ DOMAIN verdicts = DOMAIN rows
    /\ \A i \in DOMAIN verdicts : verdicts[i] \in Seq(Verdicts)
    /\ DOMAIN tx = Emitter
    /\ \A s \in Emitter : Sequence(DOMAIN tx[s]) /\ Range(tx[s]) \subseteq Event
    /\ appendLock \in Emitter \cup {Nobody}
    /\ DOMAIN graph \subseteq Node /\ Range(graph) \subseteq Event
    /\ edges \subseteq Node \X Node
    /\ checkpoint \in Nat
    /\ projectorLock \in Projector \cup {Nobody}
    /\ DOMAIN pass = Projector
    /\ \A p \in Projector :
          /\ pass[p].at \in {"idle", "locked", "projecting"}
          /\ pass[p].start \in Nat /\ pass[p].last \in Nat
          /\ Sequence(pass[p].todo)
          /\ DOMAIN pass[p].graph \subseteq Node
          /\ pass[p].edges \subseteq Node \X Node
    /\ stream.open \in BOOLEAN /\ stream.cursor \in Nat
    /\ seen \in Seq(Event)
    /\ lastId \in Nat

\* The events that have been judged, or that no later pass will look at.
JudgedSoFar ==
    [i \in {j \in DOMAIN verdicts : verdicts[j] # <<>> \/ j <= checkpoint}
        |-> verdicts[i]]

Log == INSTANCE EvidenceLog WITH
          Judgement <- {<<v>> : v \in Verdicts},
          log <- rows, judged <- JudgedSoFar, delivered <- seen

\* The ledger, the projector and the stream keep the promise of EvidenceLog: the
\* sequence has no holes and nothing commits below what a reader has seen, every
\* event is judged once and in order, and a client that reconnects misses no
\* event and gets none twice.
ImplementsEvidenceLog == Log!Spec

AdmittedAt(i) == verdicts[i] # <<>> /\ verdicts[i][Len(verdicts[i])] = "admitted"

\* A reader of the graph never meets a half-written projection: no edge dangles,
\* every finding leads to a source, and each node is what the last admitted event
\* of its identity made of it: the graph is a function of the judged ledger.
GraphIsAFunctionOfTheLedger ==
    /\ \A x \in edges : {x[1], x[2]} \subseteq DOMAIN graph
    /\ \A n \in DOMAIN graph :
          /\ EdgesOf(graph[n]) \subseteq edges
          /\ \E i \in DOMAIN rows :
                /\ AdmittedAt(i) /\ rows[i] = graph[n]
                /\ \A j \in DOMAIN rows :
                      AdmittedAt(j) /\ rows[j].node = n => j <= i
    /\ \A i \in DOMAIN rows : AdmittedAt(i) => rows[i].node \in DOMAIN graph

Judged(i) == i \in DOMAIN verdicts /\ verdicts[i] # <<>>

\* main.py: the sweep projects whatever a task has left pending.
EventsAreJudged ==
    \A i \in 1 .. Cardinality(Event) : i \in DOMAIN rows ~> Judged(i)
=============================================================================
