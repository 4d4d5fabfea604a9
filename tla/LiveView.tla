------------------------------- MODULE LiveView -------------------------------
(***************************************************************************)
(* A reader of the live trace: the process stream of                       *)
(* apps/api/routers/stream.py (_process_events), the browser's EventSource *)
(* (apps/web/src/api/client.ts) and the hook that keeps what it delivers   *)
(* and the snapshot it goes with (useWorkspace.ts).                        *)
(*                                                                         *)
(* The stream has no resume point: whoever connects again is sent the      *)
(* newest rows, and of the older ones only the anchors that open and close *)
(* a card.  The writer is ProcessStream; here its table only grows.        *)
(***************************************************************************)
EXTENDS Integers, FiniteSets, FiniteSetsExt

CONSTANTS
    Window,      \* MAX_PROCESS_REPLAY_ROWS, and PROCESS_EVENT_CAP of the hook
    AnchorCap,   \* MAX_STRUCTURAL_REPLAY_ROWS, and PROCESS_ANCHOR_CAP of the hook
    Page,        \* rows of one list_since
    MaxTrace,    \* bound: rows of the trace
    MaxVersion,  \* bound: changes of the server's state
    MaxRequests  \* bound: snapshots asked for

ASSUME LiveViewAssumption ==
    /\ {Window, Page} \subseteq Nat \ {0}
    /\ {AnchorCap, MaxTrace, MaxVersion, MaxRequests} \subseteq Nat

VARIABLES
    trace,     \* the rows of process_stream, seq -> kind
    finished,  \* the task's status is terminal
    version,   \* how often the server's state has changed
    conn,      \* the EventSource: "off", "open" or "shut" (closed by the hook)
    base,      \* the server's cursor when the connection began
    cursor,    \* the server's cursor
    received,  \* rows this subscription has been sent
    held,      \* rows of it that no flush has put into the view
    view,      \* the rows the page shows
    asked,     \* requests of the snapshot under way: [id, answer]
    current,   \* the request the page listens to, 0 if none
    requests,  \* requests so far
    snapshot   \* what the page shows: [at, finished], or Blank

serverVars == <<trace, finished, version>>
frameVars == <<conn, base, cursor, received, held, view>>
fetchVars == <<asked, current, requests, snapshot>>
viewVars == <<serverVars, frameVars, fetchVars>>

-----------------------------------------------------------------------------

Seqs == DOMAIN trace
LatestSeq == Cardinality(Seqs) - 1

\* A stray is in neither list below: what the paper's writer streams, and run_recovering.
RowKinds == {"anchor", "stray", "heavy"}

\* STRUCTURAL_KINDS of the server.
Structural(set) == {n \in set : trace[n] = "anchor"}

\* What is not in the page's HEAVY_PROCESS_KINDS.
Light(set) == {n \in set : trace[n] # "heavy"}

\* The k newest of a set of rows.
Newest(set, k) == {n \in set : Cardinality({m \in set : m > n}) < k}

\* A mistake: the oldest rows go, whatever they are.
NewestOnly(rows) == Newest(rows, Window)

\* capProcessEvents.
Capped(rows) ==
    Newest(rows, Window)
        \cup Newest(Light(rows \ Newest(rows, Window)), AnchorCap)

Blank == [at |-> -1, finished |-> FALSE]

ViewInit ==
    /\ trace = [n \in {} |-> "heavy"] /\ finished = FALSE /\ version = 0
    /\ conn = "off" /\ base = -1 /\ cursor = -1
    /\ received = {} /\ held = {} /\ view = {}
    /\ asked = {} /\ current = 0 /\ requests = 0 /\ snapshot = Blank

(***************************************************************************)
(* The server                                                              *)
(***************************************************************************)

Change == version < MaxVersion /\ version' = version + 1

\* A flush of the writer; the last ones may follow the terminal status.
Record ==
    /\ Cardinality(Seqs) < MaxTrace /\ Change
    /\ \E kind \in RowKinds :
          trace' = [n \in Seqs \cup {LatestSeq + 1} |-> IF n \in Seqs THEN trace[n] ELSE kind]
    /\ UNCHANGED <<finished, frameVars, fetchVars>>

FinishTask ==
    /\ Change
    /\ ~finished /\ finished' = TRUE
    /\ UNCHANGED <<trace, frameVars, fetchVars>>

ResearchAgain ==
    /\ Change
    /\ finished /\ finished' = FALSE
    /\ UNCHANGED <<trace, frameVars, fetchVars>>

(***************************************************************************)
(* Frames                                                                  *)
(***************************************************************************)

\* The subscription's handler: a row it has seen is skipped.
Receive(rows, known) ==
    /\ received' = known \cup rows
    /\ held' = held \cup (rows \ known)

\* The hook subscribes with its first snapshot and not to a finished task.
Subscribed == snapshot # Blank /\ ~snapshot.finished

\* A mistake: the anchor at the cursor itself is left out.
AnchorsBelow(c) == Newest(Structural({n \in Seqs : n < c}), AnchorCap)

\* list_structural_before.
AnchorsBefore(c) == Newest(Structural({n \in Seqs : n <= c}), AnchorCap)

\* _process_events: where the replay starts, and the anchors before it.
Attach ==
    /\ Subscribed /\ conn = "off"
    /\ conn' = "open"
    /\ base' = IF LatestSeq > Window THEN LatestSeq - Window ELSE -1
    /\ cursor' = base'
    /\ Receive(IF LatestSeq > Window THEN AnchorsBefore(base') ELSE {}, received)
    /\ UNCHANGED <<serverVars, view, fetchVars>>

Unsent == {n \in Seqs : n > cursor}

\* A poll sends a page of what is after the cursor.  The status is read after the rows
\* and not on every poll; a terminal one ends the response, and the browser connects
\* again unless the hook has shut the source.
Poll ==
    /\ conn = "open"
    /\ LET page == {n \in Unsent : n - cursor <= Page}
       IN  /\ Receive(page, received)
           /\ cursor' = IF page = {} THEN cursor ELSE Max(page)
    /\ conn' \in (IF finished THEN {"off"} ELSE {"open"})
                    \cup (IF Unsent # {} THEN {"open"} ELSE {})
    /\ UNCHANGED <<serverVars, base, view, fetchVars>>

\* The connection breaks and the browser connects again: the same subscription.
Drop ==
    /\ conn = "open" /\ conn' = "off"
    /\ UNCHANGED <<serverVars, base, cursor, received, held, view, fetchVars>>

\* What has arrived is merged into the view, at most every PROCESS_FLUSH_MS.
FlushView ==
    /\ held # {}
    /\ view' = Capped(view \cup held) /\ held' = {}
    /\ UNCHANGED <<serverVars, conn, base, cursor, received, fetchVars>>

\* A mistake: the rows seen are kept with the page and not with the subscription.
KeepSeen == held' = {} /\ UNCHANGED received

\* The subscription ends; what it held and had not flushed is gone with it.
Unsubscribe == held' = {} /\ received' = {}

\* rebuildStream: the tab is visible again, or the source has given up.
Rebuild ==
    /\ Subscribed
    /\ conn' = "off" /\ Unsubscribe
    /\ UNCHANGED <<serverVars, base, cursor, view, fetchVars>>

(***************************************************************************)
(* Snapshots                                                               *)
(***************************************************************************)

\* refresh: the request before it is aborted.  The server reads the task as it is asked;
\* the answer may take its time.
Refresh ==
    /\ requests < MaxRequests
    /\ requests' = requests + 1 /\ current' = requests + 1
    /\ asked' = asked \cup {[id |-> requests + 1,
                            answer |-> [at |-> version, finished |-> finished]]}
    /\ UNCHANGED <<serverVars, frameVars, snapshot>>

\* A mistake: whatever arrives is shown.
Anyone(r) == TRUE

\* controller.signal.aborted: only the latest request owns the page.
Heard(r) == r.id = current

\* The answer arrives.  When the task turns terminal the subscription is cleaned up,
\* when it leaves that state the hook subscribes again, with the view it has.
Arrive ==
    /\ \E r \in asked :
          /\ asked' = asked \ {r}
          /\ IF Heard(r)
             THEN /\ snapshot' = r.answer
                  /\ IF r.answer.finished THEN conn' = "shut" /\ Unsubscribe
                     ELSE /\ conn' = IF conn = "shut" THEN "off" ELSE conn
                          /\ UNCHANGED <<held, received>>
             ELSE UNCHANGED <<snapshot, conn, held, received>>
    /\ UNCHANGED <<serverVars, base, cursor, view, current, requests>>

\* A request fails, or the first one takes longer than the page waits for it.
Fail ==
    /\ \E r \in asked : asked' = asked \ {r}
    /\ UNCHANGED <<serverVars, frameVars, current, requests, snapshot>>

\* Another task is opened, and then this one again.
Reopen ==
    /\ snapshot # Blank
    /\ snapshot' = Blank /\ current' = 0
    /\ conn' = "off" /\ Unsubscribe /\ view' = {}
    /\ UNCHANGED <<serverVars, base, cursor, asked, requests>>

ViewNext ==
    \/ Record \/ FinishTask \/ ResearchAgain
    \/ Attach \/ Poll \/ Drop \/ FlushView \/ Rebuild
    \/ Refresh \/ Arrive \/ Fail \/ Reopen

ViewSpec == ViewInit /\ [][ViewNext]_viewVars

-----------------------------------------------------------------------------
(* Properties *)

\* Every variable holds a value of its type.
ViewTypeOK ==
    /\ Seqs = 0 .. LatestSeq /\ trace \in [Seqs -> RowKinds]
    /\ conn \in {"off", "open", "shut"}
    /\ {base, cursor} \subseteq -1 .. LatestSeq /\ base <= cursor
    /\ held \subseteq received /\ received \cup view \subseteq Seqs
    /\ current \in 0 .. requests /\ requests <= MaxRequests
    /\ snapshot.at <= version

\* The anchors no cap can take: strays use up the page's, though the server replays none.
KeptAnchors == Structural(Newest(Light(Seqs), AnchorCap))

\* stream.py's replay and useWorkspace.ts's cap: whatever the connection went through,
\* a page that is connected has, up to the server's cursor, every anchor among the
\* AnchorCap newest rows that are not heavy, so that the cards they open and close do;
\* and it has the newest rows of what its connection has sent.
AnchorsReachTheView ==
    conn = "open" =>
        \A n \in 0 .. cursor :
            \/ n \in KeptAnchors
            \/ n > base /\ n > Max(view \cup held) - Window
            => n \in view \cup held

\* useWorkspace.ts's "a stale fetch never lands its snapshot over a fresher one": while
\* a task is open its page never goes back to an older state of it.
SnapshotsNeverGoBack ==
    [][snapshot' # Blank => snapshot'.at >= snapshot.at]_snapshot
=============================================================================
