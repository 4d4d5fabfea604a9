---------------------------- MODULE StreamsProofs ----------------------------
(***************************************************************************)
(* What holds of a task's streams for every value of the constants: of the *)
(* evidence pipeline, for any number of sessions and passes and any set of *)
(* events, the gate as an operator, the ledger, the graph that is a        *)
(* function of it and the promise of EvidenceLog; of the live view, for    *)
(* every window, page and cap, what a page shows; of the live trace, for   *)
(* any set of seats and any number of rows, that the table is what was     *)
(* emitted.                                                                *)
(***************************************************************************)
EXTENDS EvidencePipeline, LiveView, ProcessStream, SequenceLemmas, FiniteSetTheorems,
        SequenceTheorems, TLAPS

-----------------------------------------------------------------------------
(* The gate *)

Level == {"A", "B", "C", "D"}

Method == {"strong", "weak", "unusable"}

\* A better candidate: the same claim to a place in the graph, no fresh defect.
AtLeastAsGood(e, d) ==
    /\ e.kind = d.kind /\ e.node = d.node /\ e.source = d.source
    /\ e.finding = d.finding /\ e.claim = d.claim /\ e.dissent = d.dissent
    /\ BaseTier(e) <= BaseTier(d)
    /\ e.retracted => d.retracted
    /\ d.authentic => e.authentic
    /\ d.documented => e.documented
    /\ d.quoted => e.quoted
    /\ e.overclaims => d.overclaims
    /\ e.method = "unusable" => d.method = "unusable"
    /\ e.method = "weak" => d.method \in {"weak", "unusable"}

\* The disposition as a number, the worst last.
Rank(e, nodes) == IF Refused(e, nodes) THEN 5 ELSE Tier(e)

\* gate.py grades instead of vetoing: a candidate that is at least as good in
\* every respect never fares worse, so no single missing piece of metadata and
\* no weak score can be traded for a better place.
THEOREM GateIsMonotone ==
    ASSUME NEW e, NEW d, NEW nodes, AtLeastAsGood(e, d),
           e.method \in Method, d.method \in Method
    PROVE  Rank(e, nodes) <= Rank(d, nodes)
<1>1. BaseTier(e) \in 1 .. 4 /\ BaseTier(d) \in 1 .. 4
  BY DEF BaseTier
<1>2. Refused(e, nodes) => Refused(d, nodes)
  BY DEF AtLeastAsGood, Refused, SourceRefused, FindingRefused, ClaimRefused
<1>3. CASE Refused(d, nodes)
  <2>1. Tier(e) \in 1 .. 4
    BY <1>1 DEF Tier, Majors
  <2> QED BY <1>3, <2>1 DEF Rank
<1>4. CASE ~Refused(d, nodes)
  <2>1. d.finding => d.method # "unusable"
    BY <1>4 DEF Refused, FindingRefused
  <2>2. Majors(e) <= Majors(d) /\ Majors(e) \in 0 .. 2 /\ Majors(d) \in 0 .. 2
    BY <2>1 DEF AtLeastAsGood, Majors, Method
  <2>3. Tier(e) <= Tier(d)
    BY <1>1, <2>2 DEF AtLeastAsGood, Tier
  <2> QED BY <1>2, <1>4, <2>3 DEF Rank
<1> QED BY <1>3, <1>4

\* No node of the graph comes from a retracted or forged source, from a finding
\* without source, quote or usable method, or from a claim its study cannot
\* support, whatever its level and however the other stages went.
THEOREM OnlySoundEventsAreAdmitted ==
    ASSUME NEW e, NEW nodes, Verdict(e, nodes) = "admitted"
    PROVE  /\ e.kind \in NodeTypes
           /\ e.source # NoNode => ~e.retracted /\ e.authentic
           /\ e.kind = "StudyFinding" => e.source # NoNode
           /\ e.finding => e.quoted /\ e.method # "unusable"
           /\ ~e.overclaims
<1>1. e.kind \in NodeTypes /\ Audit(e, nodes) # "QUARANTINE"
  BY DEF Verdict
<1>2. ~Refused(e, nodes)
  BY <1>1 DEF Audit
<1> QED BY <1>1, <1>2 DEF Refused, SourceRefused, FindingRefused, ClaimRefused

-----------------------------------------------------------------------------
(* The ledger *)

\* A set of sequence numbers without a hole.
Dense(set) == \E n \in Nat : set = 1 .. n

\* Only the holder of the lock has rows that are not committed, and they go on
\* where the committed ones end.
LedgerInv ==
    /\ Dense(DOMAIN rows)
    /\ \A s \in Emitter : DOMAIN tx[s] # {} => appendLock = s
    /\ \A s \in Emitter : Dense(DOMAIN rows \cup DOMAIN tx[s])
    /\ \A s \in Emitter : DOMAIN rows \cap DOMAIN tx[s] = {}
    /\ DOMAIN tx = Emitter

LEMMA LatestOfDense ==
    ASSUME NEW n \in Nat
    PROVE  Latest(1 .. n) = n
<1>1. CASE n = 0
  BY <1>1 DEF Latest
<1>2. CASE n # 0
  <2>1. n \in 1 .. n /\ \A j \in 1 .. n : j <= n
    BY <1>2
  <2>2. \A m \in 1 .. n : (\A j \in 1 .. n : j <= m) => m = n
    BY <2>1
  <2> QED BY <2>1, <2>2 DEF Latest
<1> QED BY <1>1, <1>2

LEMMA LedgerInit == Init => LedgerInv
BY DEF Init, LedgerInv, Dense, NoRows

LEMMA LedgerStep == LedgerInv /\ [Next]_vars => LedgerInv'
<1> SUFFICES ASSUME LedgerInv, [Next]_vars PROVE LedgerInv'
  OBVIOUS
<1> USE DEF LedgerInv
<1>1. ASSUME NEW s \in Emitter, NEW e \in Emits[s], AppendNew(s, e)
      PROVE  LedgerInv'
  <2>1. PICK n \in Nat : DOMAIN rows \cup DOMAIN tx[s] = 1 .. n
    BY DEF Dense
  <2>2. DOMAIN Visible(s) = 1 .. n
    BY <2>1 DEF Visible, Merged
  <2>3. DOMAIN tx'[s] = DOMAIN tx[s] \cup {n + 1}
    BY <1>1, <2>2, LatestOfDense DEF AppendNew, Put
  <2>4. \A r \in Emitter \ {s} : tx'[r] = tx[r] /\ DOMAIN tx[r] = {}
    BY <1>1, PipelineAssumption DEF AppendNew
  <2>5. rows' = rows /\ appendLock' = s /\ DOMAIN tx' = Emitter
    BY <1>1 DEF AppendNew
  <2>6. DOMAIN rows \cup DOMAIN tx'[s] = 1 .. (n + 1)
    BY <2>1, <2>3
  <2>7. n + 1 \notin DOMAIN rows
    BY <2>1
  <2>8. Dense(DOMAIN rows \cup DOMAIN tx'[s])
    BY <2>6 DEF Dense
  <2> QED BY <2>3, <2>4, <2>5, <2>7, <2>8
<1>2. ASSUME NEW s \in Emitter, NEW e \in Emits[s], AppendAgain(s, e)
      PROVE  LedgerInv'
  <2>1. \A r \in Emitter \ {s} : DOMAIN tx[r] = {}
    BY <1>2, PipelineAssumption DEF AppendAgain
  <2>2. rows' = rows /\ tx' = tx /\ appendLock' = s
    BY <1>2 DEF AppendAgain
  <2> QED BY <2>1, <2>2
<1>3. ASSUME NEW s \in Emitter, tx' = [tx EXCEPT ![s] = NoRows], Release(s),
             rows' = rows
      PROVE  LedgerInv'
  <2>1. DOMAIN tx'[s] = {} /\ DOMAIN tx' = Emitter
    BY <1>3 DEF NoRows
  <2>2. \A r \in Emitter \ {s} : tx'[r] = tx[r]
    BY <1>3
  <2>3. \A r \in Emitter \ {s} : appendLock = r => appendLock' = r
    BY <1>3 DEF Release
  <2>4. DOMAIN rows \cup DOMAIN tx'[s] = DOMAIN rows
    BY <2>1
  <2>5. rows' = rows
    BY <1>3
  <2> QED BY <2>1, <2>2, <2>3, <2>4, <2>5
<1>4. ASSUME NEW s \in Emitter, Commit(s)
      PROVE  LedgerInv'
  <2>1. DOMAIN rows' = DOMAIN rows \cup DOMAIN tx[s]
    BY <1>4 DEF Commit, Visible, Merged
  <2>2. DOMAIN tx'[s] = {} /\ DOMAIN tx' = Emitter
    BY <1>4 DEF Commit, NoRows
  <2>3. \A r \in Emitter \ {s} : tx'[r] = tx[r]
    BY <1>4 DEF Commit
  <2>4. \A r \in Emitter \ {s} : appendLock = r => appendLock' = r
    BY <1>4 DEF Commit, Release
  <2>5. \A r \in Emitter \ {s} : DOMAIN tx[r] # {} => DOMAIN tx[s] = {}
    OBVIOUS
  <2>6. \A r \in Emitter \ {s} :
           DOMAIN rows' \cup DOMAIN tx[r] \in {DOMAIN rows', DOMAIN rows \cup DOMAIN tx[r]}
    BY <2>1, <2>5
  <2> QED BY <2>1, <2>2, <2>3, <2>4, <2>5, <2>6
<1>5. CASE UNCHANGED ledgerVars
  BY <1>5 DEF ledgerVars
<1>6. ASSUME NEW p \in Projector, Project(p) \/ LosePass(p) PROVE UNCHANGED ledgerVars
  BY <1>6 DEF Project, LosePass, BeginPass, ReadPending, ProjectOne, CommitPass,
              FailPass, ledgerVars
<1>7. ASSUME Stream PROVE UNCHANGED ledgerVars
  BY <1>7 DEF Stream, Connect, Deliver, Disconnect, ledgerVars
<1>8. ASSUME NEW s \in Emitter, Rollback(s) PROVE LedgerInv'
  BY <1>8, <1>3 DEF Rollback
<1>9. ASSUME NEW s \in Emitter, NEW e \in Emits[s], Conflict(s, e) PROVE LedgerInv'
  BY <1>9, <1>3 DEF Conflict
<1>10. CASE UNCHANGED vars
  BY <1>10, <1>5 DEF vars
<1> QED
  BY <1>1, <1>2, <1>4, <1>5, <1>6, <1>7, <1>8, <1>9, <1>10 DEF Next, Emit

\* However many sessions append to a task's ledger, and however their
\* transactions end: the sequence numbers of the committed events have no hole.
THEOREM LedgerIsDense == Spec => []Dense(DOMAIN rows)
<1>1. LedgerInv => Dense(DOMAIN rows)
  BY DEF LedgerInv
<1> QED BY <1>1, LedgerInit, LedgerStep, PTL DEF Spec

\* An event that commits has a number above every one a reader can have seen,
\* and no committed event ever changes: resuming after the last number misses
\* nothing.
NothingCommitsBelow ==
    /\ Log!Extends(rows', rows)
    /\ \A i \in DOMAIN rows, j \in DOMAIN rows' \ DOMAIN rows : i < j

\* A commit only adds numbers above those already visible (packages/evidence/sql_ledger.py).
THEOREM LedgerOnlyGrowsAtItsEnd == Spec => [][NothingCommitsBelow]_rows
<1>1. ASSUME LedgerInv, [Next]_vars PROVE [NothingCommitsBelow]_rows
  <2> USE DEF LedgerInv
  <2>1. SUFFICES ASSUME NEW s \in Emitter, Commit(s) PROVE NothingCommitsBelow
    BY <1>1 DEF Next, Emit, Project, LosePass, Stream, AppendNew, AppendAgain,
                Conflict, Rollback, BeginPass, ReadPending, ProjectOne, CommitPass,
                FailPass, Connect, Deliver, Disconnect, ledgerVars, vars
  <2>2. PICK n \in Nat : DOMAIN rows = 1 .. n
    BY <1>1 DEF Dense
  <2>3. rows' = Merged(rows, tx[s])
    BY <2>1 DEF Commit, Visible
  <2>4. DOMAIN rows' = DOMAIN rows \cup DOMAIN tx[s]
    BY <2>3 DEF Merged
  <2>5. \A i \in DOMAIN rows : rows'[i] = rows[i]
    BY <2>3 DEF Merged
  <2>6. DOMAIN rows' \subseteq Nat \ {0}
    BY <1>1, <2>4 DEF Dense
  <2> QED BY <2>2, <2>4, <2>5, <2>6 DEF NothingCommitsBelow, Log!Extends
<1> QED BY <1>1, LedgerInit, LedgerStep, PTL DEF Spec
-----------------------------------------------------------------------------
(***************************************************************************)
(* Judging.  The checkpoint separates the judged prefix of the ledger from  *)
(* the rest.  The one pass that holds the lock works on a copy of the graph *)
(* that is what the events up to its `last' make of it; the committed graph *)
(* is what the events up to the checkpoint make of it.                      *)
(***************************************************************************)

\* G and E are the graph of the events of the ledger R that were admitted, at
\* the positions A.
GraphOf(R, G, E, A) ==
    /\ E \subseteq (DOMAIN G) \X (DOMAIN G)
    /\ \A n \in DOMAIN G :
          /\ EdgesOf(G[n]) \subseteq E
          /\ \E i \in A :
                /\ R[i] = G[n]
                /\ R[i].node = n
                /\ \A j \in A : R[j].node = n => j <= i
    /\ \A i \in A : R[i].node \in DOMAIN G

Admitted == {i \in DOMAIN rows : AdmittedAt(i)}

AdmittedInPass(q) == {i \in DOMAIN q.verdicts : q.verdicts[i] = "admitted"}

EventsInv ==
    /\ \A i \in DOMAIN rows : rows[i] \in Event
    /\ \A s \in Emitter : \A i \in DOMAIN tx[s] : tx[s][i] \in Event

JudgeInv ==
    /\ DOMAIN verdicts = DOMAIN rows
    /\ checkpoint \in Nat
    /\ 1 .. checkpoint \subseteq DOMAIN rows
    /\ \A i \in DOMAIN verdicts :
          IF i <= checkpoint THEN \E v \in Verdicts : verdicts[i] = <<v>>
                             ELSE verdicts[i] = <<>>
    /\ GraphOf(rows, graph, edges, Admitted)

\* A pass has these fields.
IsPass(q) ==
    q = [at |-> q.at, start |-> q.start, last |-> q.last, todo |-> q.todo,
         verdicts |-> q.verdicts, graph |-> q.graph, edges |-> q.edges]

Locked(q) ==
    q = [at |-> "locked", start |-> checkpoint, last |-> checkpoint, todo |-> {},
         verdicts |-> NoRows, graph |-> NoRows, edges |-> {}]

Projecting(q) ==
    /\ IsPass(q)
    /\ q.at = "projecting"
    /\ q.start = checkpoint
    /\ q.last \in Nat
    /\ checkpoint <= q.last
    /\ \E m \in Nat : /\ q.last <= m
                      /\ 1 .. m \subseteq DOMAIN rows
                      /\ q.todo = q.last + 1 .. m
    /\ DOMAIN q.verdicts = checkpoint + 1 .. q.last
    /\ \A i \in DOMAIN q.verdicts : q.verdicts[i] \in Verdicts
    /\ DOMAIN graph \subseteq DOMAIN q.graph
    /\ edges \subseteq q.edges
    /\ GraphOf(rows, q.graph, q.edges, Admitted \cup AdmittedInPass(q))

PassInv ==
    /\ DOMAIN pass = Projector
    /\ \A p \in Projector :
          \/ pass[p] = NoPass
          \/ projectorLock = p /\ (Locked(pass[p]) \/ Projecting(pass[p]))

(* What the operators on sequence numbers return. *)

LEMMA FirstOfInterval ==
    ASSUME NEW a \in Nat, NEW b \in Nat, a + 1 .. b # {}
    PROVE  /\ First(a + 1 .. b) = a + 1
           /\ a + 1 <= b
           /\ (a + 1 .. b) \ {a + 1} = (a + 1) + 1 .. b
<1>1. a + 1 \in a + 1 .. b /\ \A j \in a + 1 .. b : a + 1 <= j
  OBVIOUS
<1>2. \A i \in a + 1 .. b : (\A j \in a + 1 .. b : i <= j) => i = a + 1
  BY <1>1
<1>3. First(a + 1 .. b) = a + 1
  BY <1>1, <1>2 DEF First
<1>4. (a + 1 .. b) \ {a + 1} = (a + 1) + 1 .. b
  OBVIOUS
<1> QED BY <1>1, <1>3, <1>4

LEMMA LatestOfTwo ==
    ASSUME NEW a \in Nat, NEW b \in Nat, a <= b
    PROVE  Latest({a, b}) = b
<1>1. \A i \in {a, b} : (\A j \in {a, b} : j <= i) => i = b
  OBVIOUS
<1>2. b \in {a, b} /\ \A j \in {a, b} : j <= b
  OBVIOUS
<1> QED BY <1>1, <1>2 DEF Latest

\* The status an event is given is one of four.
LEMMA VerdictType ==
    ASSUME NEW e, NEW G
    PROVE  Verdict(e, G) \in Verdicts
BY DEF Verdict, Verdicts

(* What the admission of one more event does to a graph. *)

LEMMA EdgesOfAnchored ==
    ASSUME NEW e, NEW nodes, Anchored(e, nodes)
    PROVE  EdgesOf(e) \subseteq (nodes \cup {e.node}) \X (nodes \cup {e.node})
<1> DEFINE ends == e.targets \cup IF e.kind = "StudyFinding" /\ e.source # NoNode
                                  THEN {e.source} ELSE {}
<1>1. EdgesOf(e) = {<<e.node, n>> : n \in ends}
  BY DEF EdgesOf
<1>2. {x[2] : x \in EdgesOf(e)} \subseteq nodes \cup {e.node}
  BY DEF Anchored
<1> HIDE DEF ends
<1>3. ASSUME NEW n \in ends
      PROVE  <<e.node, n>> \in (nodes \cup {e.node}) \X (nodes \cup {e.node})
  <2>1. <<e.node, n>> \in EdgesOf(e) /\ <<e.node, n>>[2] = n
    BY <1>1
  <2>2. n \in nodes \cup {e.node}
    BY <1>2, <2>1
  <2> QED BY <2>2
<1> QED BY <1>1, <1>3

LEMMA GraphGrows ==
    ASSUME NEW R, NEW G, NEW E, NEW A, GraphOf(R, G, E, A),
           NEW i \in Nat, \A j \in A : j \in Nat /\ j < i,
           Anchored(R[i], DOMAIN G)
    PROVE  GraphOf(R, Put(G, R[i].node, R[i]), E \cup EdgesOf(R[i]), A \cup {i})
<1> DEFINE e == R[i]
           H == Put(G, e.node, e)
<1>1. /\ DOMAIN H = DOMAIN G \cup {e.node}
      /\ H[e.node] = e
      /\ \A n \in DOMAIN G : n # e.node => H[n] = G[n]
  BY DEF Put
<1>2. EdgesOf(e) \subseteq (DOMAIN H) \X (DOMAIN H)
  BY <1>1, EdgesOfAnchored
<1> HIDE DEF H
<1>3. E \cup EdgesOf(e) \subseteq (DOMAIN H) \X (DOMAIN H)
  BY <1>1, <1>2 DEF GraphOf
<1>4. ASSUME NEW n \in DOMAIN H
      PROVE  /\ EdgesOf(H[n]) \subseteq E \cup EdgesOf(e)
             /\ \E k \in A \cup {i} :
                   /\ R[k] = H[n]
                   /\ R[k].node = n
                   /\ \A j \in A \cup {i} : R[j].node = n => j <= k
  <2>1. CASE n = e.node
    BY <1>1, <2>1
  <2>2. CASE n # e.node
    BY <1>1, <1>4, <2>2 DEF GraphOf
  <2> QED BY <2>1, <2>2
<1>5. \A j \in A \cup {i} : R[j].node \in DOMAIN H
  BY <1>1 DEF GraphOf
<1> QED BY <1>3, <1>4, <1>5 DEF GraphOf, H

\* Events that are only appended leave the graph of the earlier ones as it is.
LEMMA GraphIsStable ==
    ASSUME NEW R, NEW S, NEW G, NEW E, NEW A, GraphOf(R, G, E, A),
           \A i \in A : S[i] = R[i]
    PROVE  GraphOf(S, G, E, A)
BY DEF GraphOf

PipelineInv == LedgerInv /\ EventsInv /\ JudgeInv /\ PassInv

LEMMA PipelineInit == Init => PipelineInv
<1> SUFFICES ASSUME Init PROVE PipelineInv
  OBVIOUS
<1>1. /\ DOMAIN NoRows = {}
      /\ rows = NoRows /\ verdicts = NoRows /\ graph = NoRows
      /\ edges = {} /\ checkpoint = 0
      /\ tx = [s \in Emitter |-> NoRows]
      /\ pass = [p \in Projector |-> NoPass]
  BY DEF Init, NoRows
<1>2. EventsInv
  BY <1>1 DEF EventsInv
<1>3. Admitted = {}
  BY <1>1 DEF Admitted
<1>4. GraphOf(rows, graph, edges, Admitted)
  BY <1>1, <1>3 DEF GraphOf
<1>5. JudgeInv
  BY <1>1, <1>4 DEF JudgeInv
<1> QED BY <1>1, <1>2, <1>5, LedgerInit DEF PipelineInv, PassInv

LEMMA EventsStep == LedgerInv /\ EventsInv /\ [Next]_vars => EventsInv'
<1> SUFFICES ASSUME LedgerInv, EventsInv, [Next]_vars PROVE EventsInv'
  OBVIOUS
<1> USE DEF EventsInv
<1>1. DOMAIN tx = Emitter
  BY DEF LedgerInv
<1>2. ASSUME NEW s \in Emitter, NEW e \in Emits[s], AppendNew(s, e)
      PROVE  EventsInv'
  <2>1. e \in Event
    BY PipelineAssumption
  <2>2. PICK i : tx' = [tx EXCEPT ![s] = Put(@, i, e)]
    BY <1>2 DEF AppendNew
  <2>3. /\ DOMAIN tx'[s] = DOMAIN tx[s] \cup {i}
        /\ \A j \in DOMAIN tx'[s] : tx'[s][j] = IF j = i THEN e ELSE tx[s][j]
    BY <1>1, <2>2 DEF Put
  <2>4. \A r \in Emitter \ {s} : tx'[r] = tx[r]
    BY <2>2
  <2>5. rows' = rows
    BY <1>2 DEF AppendNew
  <2>6. \A j \in DOMAIN tx'[s] : tx'[s][j] \in Event
    BY <2>1, <2>3
  <2> QED BY <2>4, <2>5, <2>6
<1>3. ASSUME NEW s \in Emitter, Commit(s)
      PROVE  EventsInv'
  <2>1. /\ rows' = Merged(rows, tx[s])
        /\ tx' = [tx EXCEPT ![s] = NoRows]
    BY <1>3 DEF Commit, Visible
  <2>2. \A i \in DOMAIN rows' : rows'[i] \in Event
    BY <2>1 DEF Merged
  <2>3. DOMAIN tx'[s] = {} /\ \A r \in Emitter \ {s} : tx'[r] = tx[r]
    BY <1>1, <2>1 DEF NoRows
  <2> QED BY <2>2, <2>3
<1>4. ASSUME NEW s \in Emitter, tx' = [tx EXCEPT ![s] = NoRows], rows' = rows
      PROVE  EventsInv'
  <2>1. DOMAIN tx'[s] = {} /\ \A r \in Emitter \ {s} : tx'[r] = tx[r]
    BY <1>1, <1>4 DEF NoRows
  <2> QED BY <1>4, <2>1
<1>5. ASSUME NEW s \in Emitter, NEW e \in Emits[s], AppendAgain(s, e)
      PROVE  EventsInv'
  BY <1>5 DEF AppendAgain
<1>6. CASE UNCHANGED ledgerVars
  BY <1>6 DEF ledgerVars
<1>7. ASSUME NEW p \in Projector, Project(p) \/ LosePass(p) PROVE UNCHANGED ledgerVars
  BY <1>7 DEF Project, LosePass, BeginPass, ReadPending, ProjectOne, CommitPass,
              FailPass, ledgerVars
<1>8. ASSUME Stream PROVE UNCHANGED ledgerVars
  BY <1>8 DEF Stream, Connect, Deliver, Disconnect, ledgerVars
<1>9. ASSUME NEW s \in Emitter, Rollback(s) PROVE EventsInv'
  BY <1>9, <1>4 DEF Rollback
<1>10. ASSUME NEW s \in Emitter, NEW e \in Emits[s], Conflict(s, e) PROVE EventsInv'
  BY <1>10, <1>4 DEF Conflict
<1>11. CASE UNCHANGED vars
  BY <1>11, <1>6 DEF vars
<1> QED
  BY <1>2, <1>3, <1>5, <1>6, <1>7, <1>8, <1>9, <1>10, <1>11 DEF Next, Emit

\* A commit of a session adds events that are not judged, above all that are.
LEMMA CommitKeepsTheJudged ==
    ASSUME PipelineInv, NEW s \in Emitter, Commit(s)
    PROVE  /\ JudgeInv'
           /\ PassInv'
           /\ \A i \in DOMAIN rows : rows'[i] = rows[i]
           /\ DOMAIN rows \subseteq DOMAIN rows'
           /\ \A i \in DOMAIN verdicts' :
                 (verdicts'[i] # <<>> \/ i <= checkpoint) =>
                    i \in DOMAIN verdicts /\ verdicts'[i] = verdicts[i]
           /\ \A i \in DOMAIN verdicts :
                 i \in DOMAIN verdicts' /\ verdicts'[i] = verdicts[i]
<1> DEFINE new == DOMAIN tx[s]
<1>1. /\ rows' = Merged(rows, tx[s])
      /\ verdicts' = Merged(verdicts, [i \in new |-> <<>>])
      /\ UNCHANGED <<graph, edges, checkpoint, projectorLock, pass>>
  BY DEF Commit, Visible
<1>2. /\ DOMAIN verdicts = DOMAIN rows
      /\ DOMAIN rows \cap new = {}
      /\ checkpoint \in Nat
      /\ 1 .. checkpoint \subseteq DOMAIN rows
  BY DEF PipelineInv, LedgerInv, JudgeInv
<1>3. /\ DOMAIN rows' = DOMAIN rows \cup new
      /\ \A i \in DOMAIN rows : rows'[i] = rows[i]
      /\ DOMAIN verdicts' = DOMAIN verdicts \cup new
      /\ \A i \in DOMAIN verdicts : verdicts'[i] = verdicts[i]
      /\ \A i \in new : verdicts'[i] = <<>>
  BY <1>1, <1>2 DEF Merged
<1>4. PICK n \in Nat : DOMAIN rows \cup new = 1 .. n
  BY DEF PipelineInv, LedgerInv, Dense
<1>5. \A i \in new : i \in Nat /\ ~(i <= checkpoint)
  <2> SUFFICES ASSUME NEW i \in new PROVE i \in Nat /\ ~(i <= checkpoint)
    OBVIOUS
  <2>1. i \in 1 .. n /\ i \notin 1 .. checkpoint
    BY <1>2, <1>4
  <2> QED BY <1>2, <2>1
<1> HIDE DEF new
<1>6. Admitted' = Admitted
  <2>1. \A i \in DOMAIN rows : AdmittedAt(i)' <=> AdmittedAt(i)
    BY <1>2, <1>3 DEF AdmittedAt
  <2>2. \A i \in new : ~AdmittedAt(i)'
    BY <1>3 DEF AdmittedAt
  <2> QED BY <1>3, <2>1, <2>2 DEF Admitted
<1>7. JudgeInv'
  <2>1. GraphOf(rows, graph, edges, Admitted) /\ Admitted \subseteq DOMAIN rows
    BY DEF PipelineInv, JudgeInv, Admitted
  <2>2. GraphOf(rows', graph, edges, Admitted)
    BY <1>3, <2>1, GraphIsStable
  <2>3. \A i \in DOMAIN verdicts' :
          IF i <= checkpoint THEN \E v \in Verdicts : verdicts'[i] = <<v>>
                             ELSE verdicts'[i] = <<>>
    BY <1>3, <1>5 DEF PipelineInv, JudgeInv
  <2>4. DOMAIN verdicts' = DOMAIN rows' /\ 1 .. checkpoint \subseteq DOMAIN rows'
    BY <1>2, <1>3
  <2> QED BY <1>1, <1>2, <1>6, <2>2, <2>3, <2>4 DEF JudgeInv
<1>8. PassInv'
  <2>1. SUFFICES ASSUME NEW p \in Projector, Projecting(pass[p])
                 PROVE  Projecting(pass[p])'
    BY <1>1 DEF PipelineInv, PassInv, Locked
  <2> DEFINE q == pass[p]
  <2>2. PICK m \in Nat : /\ q.last <= m
                         /\ 1 .. m \subseteq DOMAIN rows
                         /\ q.todo = q.last + 1 .. m
    BY <2>1 DEF Projecting
  <2>3. 1 .. m \subseteq DOMAIN rows'
    BY <1>3, <2>2
  <2>4. Admitted \cup AdmittedInPass(q) \subseteq DOMAIN rows
    <3>1. DOMAIN q.verdicts \subseteq 1 .. m
      BY <1>2, <2>1, <2>2 DEF Projecting
    <3> QED BY <2>2, <3>1 DEF Admitted, AdmittedInPass
  <2>5. GraphOf(rows', q.graph, q.edges, Admitted \cup AdmittedInPass(q))
    BY <1>3, <2>1, <2>4, GraphIsStable DEF Projecting
  <2>6. q' = q
    BY <1>1
  <2>7. (\E k \in Nat : /\ q.last <= k
                        /\ 1 .. k \subseteq DOMAIN rows'
                        /\ q.todo = q.last + 1 .. k)
    BY <2>2, <2>3
  <2> QED BY <1>1, <1>6, <2>1, <2>5, <2>6, <2>7 DEF Projecting
<1> QED BY <1>3, <1>5, <1>7, <1>8

\* Whoever holds the lock, or could take it, is the only one who may be at work.
LEMMA OthersAreIdle ==
    ASSUME PassInv, NEW p \in Projector, projectorLock \in {p, Nobody}
    PROVE  \A q \in Projector \ {p} : pass[q] = NoPass
BY PipelineAssumption DEF PassInv

LEMMA WorkingPass ==
    ASSUME PassInv, NEW p \in Projector, pass[p].at # "idle"
    PROVE  /\ projectorLock = p
           /\ pass[p].at = "locked" => Locked(pass[p])
           /\ pass[p].at = "projecting" => Projecting(pass[p])
<1>1. NoPass.at = "idle"
  BY DEF NoPass
<1>2. Locked(pass[p]) => pass[p].at = "locked"
  BY DEF Locked
<1>3. Projecting(pass[p]) => pass[p].at = "projecting"
  BY DEF Projecting
<1>4. projectorLock = p /\ (Locked(pass[p]) \/ Projecting(pass[p]))
  BY <1>1 DEF PassInv
<1> QED BY <1>2, <1>3, <1>4

LEMMA BeginPassStep ==
    ASSUME PipelineInv, NEW p \in Projector, BeginPass(p)
    PROVE  PassInv'
<1>1. \A q \in Projector \ {p} : pass[q] = NoPass
  BY OthersAreIdle DEF PipelineInv, BeginPass
<1>2. /\ pass' = [pass EXCEPT ![p] = [NoPass EXCEPT !.at = "locked",
                                                    !.start = checkpoint,
                                                    !.last = checkpoint]]
      /\ projectorLock' = p
      /\ checkpoint' = checkpoint
  BY DEF BeginPass
<1>3. /\ DOMAIN pass' = Projector
      /\ \A q \in Projector \ {p} : pass'[q] = NoPass
      /\ pass'[p] = [NoPass EXCEPT !.at = "locked", !.start = checkpoint,
                                   !.last = checkpoint]
  BY <1>1, <1>2 DEF PipelineInv, PassInv
<1>4. Locked(pass[p])'
  BY <1>2, <1>3 DEF Locked, NoPass
<1> QED BY <1>2, <1>3, <1>4 DEF PassInv

LEMMA ReadPendingStep ==
    ASSUME PipelineInv, NEW p \in Projector, ReadPending(p)
    PROVE  PassInv'
<1> DEFINE row == [at |-> "projecting", start |-> checkpoint, last |-> checkpoint,
                   todo |-> {i \in DOMAIN rows : i > checkpoint},
                   verdicts |-> NoRows, graph |-> graph, edges |-> edges]
<1>1. /\ projectorLock = p
      /\ Locked(pass[p])
      /\ \A q \in Projector \ {p} : pass[q] = NoPass
  BY WorkingPass, OthersAreIdle DEF PipelineInv, ReadPending
<1>2. [pass[p] EXCEPT !.at = "projecting",
                      !.todo = {i \in DOMAIN rows : i > pass[p].start},
                      !.graph = graph, !.edges = edges] = row
  <2> DEFINE T == {i \in DOMAIN rows : i > checkpoint}
  <2>1. pass[p] = [at |-> "locked", start |-> checkpoint, last |-> checkpoint,
                   todo |-> {}, verdicts |-> NoRows, graph |-> NoRows, edges |-> {}]
    BY <1>1 DEF Locked
  <2>2. pass[p].start = checkpoint
    BY <2>1
  <2>3. {i \in DOMAIN rows : i > pass[p].start} = T
    BY <2>2
  <2> DEFINE q == pass[p]
             new == [q EXCEPT !.at = "projecting", !.todo = T,
                              !.graph = graph, !.edges = edges]
  <2>4. /\ q = [at |-> "locked", start |-> checkpoint, last |-> checkpoint,
                todo |-> {}, verdicts |-> NoRows, graph |-> NoRows, edges |-> {}]
        /\ new = [q EXCEPT !.at = "projecting", !.todo = T,
                           !.graph = graph, !.edges = edges]
    BY <2>1
  <2> HIDE DEF T, q, new
  <2>5. new = [at |-> "projecting", start |-> checkpoint, last |-> checkpoint,
               todo |-> T, verdicts |-> NoRows, graph |-> graph, edges |-> edges]
    BY <2>4
  <2> QED BY <2>3, <2>5 DEF T, q, new
<1>3. pass' = [pass EXCEPT ![p] =
                  [pass[p] EXCEPT !.at = "projecting",
                                  !.todo = {i \in DOMAIN rows : i > pass[p].start},
                                  !.graph = graph, !.edges = edges]]
  BY Zenon DEF ReadPending
<1>4. /\ DOMAIN pass' = Projector
      /\ \A q \in Projector \ {p} : pass'[q] = NoPass
      /\ pass'[p] = row
  <2> HIDE DEF row
  <2> QED BY <1>1, <1>2, <1>3 DEF PipelineInv, PassInv
<1>5. UNCHANGED <<rows, verdicts, graph, edges, checkpoint, projectorLock>>
  BY DEF ReadPending, ledgerVars
<1>6. Admitted' = Admitted
  BY <1>5 DEF Admitted, AdmittedAt
<1>7. PICK n \in Nat : DOMAIN rows = 1 .. n
  BY DEF PipelineInv, LedgerInv, Dense
<1>8. checkpoint \in Nat /\ 1 .. checkpoint \subseteq DOMAIN rows
  BY DEF PipelineInv, JudgeInv
<1>9. checkpoint <= n /\ {i \in DOMAIN rows : i > checkpoint} = checkpoint + 1 .. n
  <2>1. checkpoint # 0 => checkpoint \in 1 .. checkpoint
    BY <1>8
  <2>2. checkpoint <= n
    BY <1>7, <1>8, <2>1
  <2> QED BY <1>7, <1>8, <2>2
<1>10. DOMAIN NoRows = {} /\ checkpoint + 1 .. checkpoint = {}
  BY <1>8 DEF NoRows
<1>11. AdmittedInPass(row) = {}
  BY <1>10 DEF AdmittedInPass
<1>12. GraphOf(rows, row.graph, row.edges, Admitted \cup AdmittedInPass(row))
  BY <1>11 DEF PipelineInv, JudgeInv
<1>13. \E m \in Nat : /\ checkpoint <= m
                      /\ 1 .. m \subseteq DOMAIN rows
                      /\ row.todo = checkpoint + 1 .. m
  BY <1>7, <1>9
<1>14. Projecting(row)
  BY <1>8, <1>10, <1>12, <1>13 DEF Projecting, IsPass
<1> HIDE DEF row
<1>15. Projecting(pass[p])'
  BY <1>4, <1>5, <1>6, <1>14 DEF Projecting
<1> QED BY <1>1, <1>4, <1>5, <1>15 DEF PassInv

LEMMA ProjectOneStep ==
    ASSUME PipelineInv, NEW p \in Projector, ProjectOne(p)
    PROVE  PassInv'
<1> DEFINE q == pass[p]
           i == First(q.todo)
           e == rows[i]
           v == Verdict(e, q.graph)
           G == IF v = "admitted" THEN Put(q.graph, e.node, e) ELSE q.graph
           E == IF v = "admitted" THEN q.edges \cup EdgesOf(e) ELSE q.edges
           row == [q EXCEPT !.last = i, !.todo = q.todo \ {i},
                            !.verdicts = Put(q.verdicts, i, v),
                            !.graph = G, !.edges = E]
<1>1. /\ projectorLock = p
      /\ Projecting(q)
      /\ q.todo # {}
      /\ ~Stuck(p)
      /\ \A r \in Projector \ {p} : pass[r] = NoPass
  BY WorkingPass, OthersAreIdle DEF PipelineInv, ProjectOne
<1>2. pass' = [pass EXCEPT ![p] = row]
  BY Zenon DEF ProjectOne
<1>3. UNCHANGED <<rows, verdicts, graph, edges, checkpoint, projectorLock>>
  BY DEF ProjectOne, ledgerVars
<1>4. PICK m \in Nat : /\ q.last <= m
                       /\ 1 .. m \subseteq DOMAIN rows
                       /\ q.todo = q.last + 1 .. m
  BY <1>1 DEF Projecting
<1>5. /\ q.last \in Nat
      /\ checkpoint \in Nat
      /\ checkpoint <= q.last
      /\ q.start = checkpoint
      /\ DOMAIN q.verdicts = checkpoint + 1 .. q.last
  BY <1>1 DEF Projecting, PipelineInv, JudgeInv
<1>6. i = q.last + 1 /\ i <= m /\ q.todo \ {i} = i + 1 .. m
  <2> DEFINE a == q.last
             todo == q.todo
  <2>1. a \in Nat /\ todo = a + 1 .. m /\ todo # {} /\ i = First(todo)
    BY <1>1, <1>4, <1>5
  <2> HIDE DEF a, todo, i
  <2>2. /\ First(a + 1 .. m) = a + 1
        /\ a + 1 <= m
        /\ (a + 1 .. m) \ {a + 1} = (a + 1) + 1 .. m
    BY <2>1, FirstOfInterval
  <2>3. i = a + 1 /\ i <= m /\ todo \ {i} = i + 1 .. m
    BY <2>1, <2>2
  <2> QED BY <2>3 DEF a, todo
<1>7. /\ v \in Verdicts
      /\ v = "admitted" => Anchored(e, DOMAIN q.graph)
  BY <1>1, VerdictType DEF Stuck, NextEvent
<1>8. /\ row.at = "projecting" /\ row.start = checkpoint /\ row.last = i
      /\ row.todo = q.todo \ {i} /\ row.verdicts = Put(q.verdicts, i, v)
      /\ row.graph = G /\ row.edges = E
      /\ IsPass(row)
  <2> DEFINE todo == q.todo \ {i}
             judged == Put(q.verdicts, i, v)
  <2>1. /\ q = [at |-> q.at, start |-> q.start, last |-> q.last, todo |-> q.todo,
                verdicts |-> q.verdicts, graph |-> q.graph, edges |-> q.edges]
        /\ q.at = "projecting"
    BY <1>1 DEF Projecting, IsPass
  <2>2. row = [q EXCEPT !.last = i, !.todo = todo, !.verdicts = judged,
                        !.graph = G, !.edges = E]
    OBVIOUS
  <2> HIDE DEF row, q, i, e, v, G, E, todo, judged
  <2>3. row = [at |-> q.at, start |-> q.start, last |-> i, todo |-> todo,
               verdicts |-> judged, graph |-> G, edges |-> E]
    BY <2>1, <2>2
  <2>4. /\ row.at = q.at /\ row.start = q.start /\ row.last = i
        /\ row.todo = todo /\ row.verdicts = judged
        /\ row.graph = G /\ row.edges = E
        /\ IsPass(row)
    BY <2>3 DEF IsPass
  <2>5. q.start = checkpoint
    BY <1>5 DEF q
  <2> QED BY <2>1, <2>4, <2>5 DEF todo, judged
<1>9. DOMAIN pass' = Projector /\ pass'[p] = row /\ \A r \in Projector \ {p} : pass'[r] = NoPass
  <2> HIDE DEF row
  <2> QED BY <1>1, <1>2 DEF PipelineInv, PassInv
<1> HIDE DEF row, i
<1>10. /\ DOMAIN row.verdicts = checkpoint + 1 .. i
       /\ row.verdicts[i] = v
       /\ \A j \in DOMAIN q.verdicts : j # i /\ row.verdicts[j] = q.verdicts[j]
  <2>1. checkpoint + 1 .. i = (checkpoint + 1 .. q.last) \cup {i} /\ i \notin checkpoint + 1 .. q.last
    BY <1>5, <1>6
  <2> HIDE DEF v
  <2> QED BY <1>5, <1>8, <2>1 DEF Put
<1>11. \A j \in DOMAIN row.verdicts : row.verdicts[j] \in Verdicts
  <2> HIDE DEF v
  <2>1. \A j \in DOMAIN q.verdicts : q.verdicts[j] \in Verdicts
    BY <1>1 DEF Projecting
  <2>2. checkpoint + 1 .. i = (checkpoint + 1 .. q.last) \cup {i}
    BY <1>5, <1>6
  <2> QED BY <1>5, <1>7, <1>10, <2>1, <2>2
<1>12. AdmittedInPass(row) = AdmittedInPass(q) \cup (IF v = "admitted" THEN {i} ELSE {})
  <2> HIDE DEF v
  <2>1. checkpoint + 1 .. i = (checkpoint + 1 .. q.last) \cup {i}
    BY <1>5, <1>6
  <2> QED BY <1>5, <1>10, <2>1 DEF AdmittedInPass
<1> DEFINE A == Admitted \cup AdmittedInPass(q)
<1>13. GraphOf(rows, q.graph, q.edges, A)
  BY <1>1 DEF Projecting
<1>14. \A j \in A : j \in Nat /\ j < i
  <2>1. ASSUME NEW j \in Admitted PROVE j \in Nat /\ j < i
    <3>1. j \in DOMAIN rows /\ DOMAIN verdicts = DOMAIN rows /\ verdicts[j] # <<>>
      BY <2>1 DEF Admitted, AdmittedAt, PipelineInv, JudgeInv
    <3>2. j \in Nat
      BY <3>1 DEF PipelineInv, LedgerInv, Dense
    <3>3. j <= checkpoint
      BY <3>1 DEF PipelineInv, JudgeInv
    <3> QED BY <1>5, <1>6, <3>2, <3>3
  <2>2. ASSUME NEW j \in AdmittedInPass(q) PROVE j \in Nat /\ j < i
    BY <1>5, <1>6 DEF AdmittedInPass
  <2> QED BY <2>1, <2>2
<1>15. GraphOf(rows, row.graph, row.edges, Admitted \cup AdmittedInPass(row))
  <2>1. CASE v = "admitted"
    <3>1. row.graph = Put(q.graph, e.node, e) /\ row.edges = q.edges \cup EdgesOf(e)
      BY <1>8, <2>1
    <3>2. Admitted \cup AdmittedInPass(row) = A \cup {i}
      BY <1>12, <2>1
    <3>3. Anchored(e, DOMAIN q.graph) /\ i \in Nat
      BY <1>5, <1>6, <1>7, <2>1
    <3> DEFINE old == q.graph
               drawn == q.edges
    <3>4. GraphOf(rows, old, drawn, A) /\ Anchored(rows[i], DOMAIN old)
      BY <1>13, <3>3
    <3> HIDE DEF A, old, drawn
    <3>5. GraphOf(rows, Put(old, rows[i].node, rows[i]), drawn \cup EdgesOf(rows[i]), A \cup {i})
      BY <1>14, <3>3, <3>4, GraphGrows
    <3> QED BY <3>1, <3>2, <3>5 DEF old, drawn
  <2>2. CASE v # "admitted"
    <3>1. row.graph = q.graph /\ row.edges = q.edges /\ AdmittedInPass(row) = AdmittedInPass(q)
      BY <1>8, <1>12, <2>2
    <3> QED BY <1>13, <3>1
  <2> QED BY <2>1, <2>2
<1>16. DOMAIN graph \subseteq DOMAIN row.graph /\ edges \subseteq row.edges
  <2>1. DOMAIN graph \subseteq DOMAIN q.graph /\ edges \subseteq q.edges
    BY <1>1 DEF Projecting
  <2>2. DOMAIN q.graph \subseteq DOMAIN row.graph /\ q.edges \subseteq row.edges
    <3> HIDE DEF v
    <3> QED BY <1>8 DEF Put
  <2> QED BY <2>1, <2>2
<1>17. \E k \in Nat : i <= k /\ 1 .. k \subseteq DOMAIN rows /\ row.todo = i + 1 .. k
  BY <1>4, <1>6, <1>8
<1>18. i \in Nat /\ checkpoint <= i
  BY <1>5, <1>6
<1>19. Projecting(row)
  BY <1>8, <1>10, <1>11, <1>15, <1>16, <1>17, <1>18 DEF Projecting
<1>20. Admitted' = Admitted
  BY <1>3 DEF Admitted, AdmittedAt
<1>21. Projecting(pass[p])'
  BY <1>3, <1>9, <1>19, <1>20 DEF Projecting
<1> QED BY <1>1, <1>3, <1>9, <1>21 DEF PassInv

\* The commit of a pass: what it judged on its copy becomes the judged prefix.
LEMMA CommitPassStep ==
    ASSUME PipelineInv, NEW p \in Projector, CommitPass(p)
    PROVE  /\ JudgeInv'
           /\ PassInv'
           /\ checkpoint <= checkpoint'
           /\ \A i \in DOMAIN verdicts :
                 i <= checkpoint => verdicts'[i] = verdicts[i]
<1> DEFINE q == pass[p]
<1>1. /\ projectorLock = p
      /\ Projecting(q)
      /\ \A r \in Projector \ {p} : pass[r] = NoPass
  BY WorkingPass, OthersAreIdle DEF PipelineInv, CommitPass
<1>2. /\ verdicts' = [i \in DOMAIN verdicts |->
                         IF i \in DOMAIN q.verdicts
                         THEN Append(verdicts[i], q.verdicts[i]) ELSE verdicts[i]]
      /\ graph' = Merged(q.graph, graph)
      /\ edges' = edges \cup q.edges
      /\ checkpoint' = Latest({checkpoint, q.last})
      /\ rows' = rows
      /\ pass' = [pass EXCEPT ![p] = NoPass]
  BY DEF CommitPass, EndPass, ledgerVars
<1>3. /\ DOMAIN verdicts = DOMAIN rows
      /\ checkpoint \in Nat
      /\ 1 .. checkpoint \subseteq DOMAIN rows
      /\ \A i \in DOMAIN verdicts :
            IF i <= checkpoint THEN \E v \in Verdicts : verdicts[i] = <<v>>
                               ELSE verdicts[i] = <<>>
  BY DEF PipelineInv, JudgeInv
<1>4. /\ q.last \in Nat
      /\ checkpoint <= q.last
      /\ DOMAIN q.verdicts = checkpoint + 1 .. q.last
      /\ \A i \in DOMAIN q.verdicts : q.verdicts[i] \in Verdicts
      /\ DOMAIN graph \subseteq DOMAIN q.graph
      /\ edges \subseteq q.edges
      /\ GraphOf(rows, q.graph, q.edges, Admitted \cup AdmittedInPass(q))
  BY <1>1 DEF Projecting
<1>5. 1 .. q.last \subseteq DOMAIN rows
  <2>1. PICK m \in Nat : q.last <= m /\ 1 .. m \subseteq DOMAIN rows
    BY <1>1 DEF Projecting
  <2> QED BY <1>4, <2>1
<1>6. DOMAIN rows \subseteq Nat
  BY DEF PipelineInv, LedgerInv, Dense
<1> HIDE DEF q
<1>7. checkpoint' = q.last
  BY <1>2, <1>3, <1>4, LatestOfTwo
<1>8. DOMAIN q.verdicts \subseteq DOMAIN verdicts
  BY <1>3, <1>4, <1>5
<1>9. \A i \in DOMAIN q.verdicts : verdicts'[i] = <<q.verdicts[i]>>
  <2>1. \A i \in DOMAIN q.verdicts : i \in Nat /\ ~(i <= checkpoint)
    BY <1>3, <1>4
  <2>2. \A i \in DOMAIN q.verdicts : verdicts[i] = <<>>
    BY <1>3, <1>8, <2>1
  <2>3. \A x : Append(<<>>, x) = <<x>>
    OBVIOUS
  <2> QED BY <1>2, <1>8, <2>2, <2>3
<1>10. /\ DOMAIN verdicts' = DOMAIN verdicts
       /\ \A i \in DOMAIN verdicts : i \notin DOMAIN q.verdicts => verdicts'[i] = verdicts[i]
  BY <1>2
<1>11. \A i \in DOMAIN verdicts :
          IF i <= q.last THEN \E v \in Verdicts : verdicts'[i] = <<v>>
                         ELSE verdicts'[i] = <<>>
  <2> TAKE i \in DOMAIN verdicts
  <2>1. i \in Nat
    BY <1>3, <1>6
  <2>2. CASE i \in DOMAIN q.verdicts
    BY <1>4, <1>9, <2>1, <2>2
  <2>3. CASE i \notin DOMAIN q.verdicts
    <3>1. i <= q.last <=> i <= checkpoint
      BY <1>3, <1>4, <2>1, <2>3
    <3> QED BY <1>3, <1>10, <2>3, <3>1
  <2> QED BY <2>2, <2>3
<1>12. Admitted' = Admitted \cup AdmittedInPass(q)
  <2>1. \A i \in DOMAIN q.verdicts : AdmittedAt(i)' <=> q.verdicts[i] = "admitted"
    <3> TAKE i \in DOMAIN q.verdicts
    <3>1. verdicts'[i] = <<q.verdicts[i]>>
      BY <1>9
    <3>2. \A x : <<x>> # <<>> /\ Len(<<x>>) = 1 /\ <<x>>[1] = x
      OBVIOUS
    <3> QED BY <3>1, <3>2 DEF AdmittedAt
  <2>2. \A i \in DOMAIN verdicts :
           i \notin DOMAIN q.verdicts => (AdmittedAt(i)' <=> AdmittedAt(i))
    BY <1>10 DEF AdmittedAt
  <2>3. \A i \in DOMAIN q.verdicts : ~AdmittedAt(i)
    <3>1. \A i \in DOMAIN q.verdicts : i \in DOMAIN verdicts /\ i \in Nat /\ ~(i <= checkpoint)
      BY <1>3, <1>4, <1>8
    <3> QED BY <1>3, <3>1 DEF AdmittedAt
  <2> QED BY <1>2, <1>3, <1>8, <2>1, <2>2, <2>3 DEF Admitted, AdmittedInPass
<1>13. /\ DOMAIN graph' = DOMAIN q.graph
       /\ \A n \in DOMAIN q.graph : graph'[n] = q.graph[n]
       /\ edges' = q.edges
  BY <1>2, <1>4 DEF Merged
<1>14. GraphOf(rows, graph', edges', Admitted')
  BY <1>4, <1>12, <1>13 DEF GraphOf
<1>15. JudgeInv'
  BY <1>2, <1>3, <1>4, <1>5, <1>7, <1>10, <1>11, <1>14 DEF JudgeInv
<1>16. PassInv'
  <2>1. DOMAIN pass' = Projector /\ \A r \in Projector : pass'[r] = NoPass
    BY <1>1, <1>2 DEF PipelineInv, PassInv
  <2> QED BY <2>1 DEF PassInv
<1>17. \A i \in DOMAIN verdicts : i <= checkpoint => verdicts'[i] = verdicts[i]
  <2>1. \A i \in DOMAIN verdicts : i <= checkpoint => i \notin DOMAIN q.verdicts
    BY <1>3, <1>4, <1>6
  <2> QED BY <1>10, <2>1
<1> QED BY <1>4, <1>7, <1>15, <1>16, <1>17

LEMMA EndPassStep ==
    ASSUME PipelineInv, NEW p \in Projector, pass[p].at # "idle", EndPass(p)
    PROVE  PassInv'
<1>1. \A r \in Projector \ {p} : pass[r] = NoPass
  BY WorkingPass, OthersAreIdle DEF PipelineInv
<1>2. DOMAIN pass' = Projector /\ \A r \in Projector : pass'[r] = NoPass
  BY <1>1 DEF PipelineInv, PassInv, EndPass
<1> QED BY <1>2 DEF PassInv

\* Steps that leave the ledger and the committed graph alone.
LEMMA JudgeFrame ==
    ASSUME JudgeInv, UNCHANGED <<rows, verdicts, graph, edges, checkpoint>>
    PROVE  JudgeInv'
BY DEF JudgeInv, Admitted, AdmittedAt

LEMMA PassFrame ==
    ASSUME PassInv,
           UNCHANGED <<rows, verdicts, graph, edges, checkpoint, projectorLock, pass>>
    PROVE  PassInv'
BY DEF PassInv, Locked, Projecting, Admitted, AdmittedAt

LEMMA PipelineStep == PipelineInv /\ [Next]_vars => PipelineInv'
<1> SUFFICES ASSUME PipelineInv, [Next]_vars PROVE JudgeInv' /\ PassInv'
  BY LedgerStep, EventsStep DEF PipelineInv
<1>1. ASSUME NEW s \in Emitter, Commit(s) PROVE JudgeInv' /\ PassInv'
  BY <1>1, CommitKeepsTheJudged
<1>2. ASSUME UNCHANGED <<rows, graphVars>> PROVE JudgeInv' /\ PassInv'
  BY <1>2, JudgeFrame, PassFrame DEF graphVars, PipelineInv
<1>3. ASSUME NEW s \in Emitter, NEW e \in Emits[s],
             AppendNew(s, e) \/ AppendAgain(s, e) \/ Conflict(s, e)
      PROVE  UNCHANGED <<rows, graphVars>>
  BY <1>3 DEF AppendNew, AppendAgain, Conflict
<1>4. ASSUME NEW s \in Emitter, Rollback(s) PROVE UNCHANGED <<rows, graphVars>>
  BY <1>4 DEF Rollback
<1>5. ASSUME NEW p \in Projector,
             BeginPass(p) \/ ReadPending(p) \/ ProjectOne(p) \/ FailPass(p) \/ LosePass(p)
      PROVE  JudgeInv'
  BY <1>5, JudgeFrame
     DEF BeginPass, ReadPending, ProjectOne, FailPass, LosePass, ledgerVars, PipelineInv
<1>6. ASSUME NEW p \in Projector, BeginPass(p) PROVE PassInv'
  BY <1>6, BeginPassStep
<1>7. ASSUME NEW p \in Projector, ReadPending(p) PROVE PassInv'
  BY <1>7, ReadPendingStep
<1>8. ASSUME NEW p \in Projector, ProjectOne(p) PROVE PassInv'
  BY <1>8, ProjectOneStep
<1>9. ASSUME NEW p \in Projector, CommitPass(p) PROVE JudgeInv' /\ PassInv'
  BY <1>9, CommitPassStep
<1>10. ASSUME NEW p \in Projector, FailPass(p) \/ LosePass(p) PROVE PassInv'
  BY <1>10, EndPassStep DEF FailPass, LosePass
<1>11. ASSUME Stream PROVE UNCHANGED <<rows, graphVars>>
  BY <1>11 DEF Stream, Connect, Deliver, Disconnect, ledgerVars
<1>12. CASE UNCHANGED vars
  BY <1>2, <1>12 DEF vars, ledgerVars
<1> QED
  BY <1>1, <1>2, <1>3, <1>4, <1>5, <1>6, <1>7, <1>8, <1>9, <1>10, <1>11, <1>12
     DEF Next, Emit, Project

LEMMA PipelineInvariance == Spec => []PipelineInv
<1> QED BY PipelineInit, PipelineStep, PTL DEF Spec

\* A reader of the graph never meets a half-written projection: whatever was
\* lost, rolled back or run at the same time, the committed graph is what the
\* judged events of the committed ledger make of it.
THEOREM GraphFollowsTheLedger == Spec => []GraphIsAFunctionOfTheLedger
<1>1. ASSUME PipelineInv PROVE GraphIsAFunctionOfTheLedger
  <2>1. GraphOf(rows, graph, edges, Admitted)
    BY <1>1 DEF PipelineInv, JudgeInv
  <2>2. \A i : i \in Admitted <=> i \in DOMAIN rows /\ AdmittedAt(i)
    BY DEF Admitted
  <2>3. \A x \in edges : {x[1], x[2]} \subseteq DOMAIN graph
    BY <2>1 DEF GraphOf
  <2> QED BY <2>1, <2>2, <2>3 DEF GraphOf, GraphIsAFunctionOfTheLedger
<1> QED BY <1>1, PipelineInvariance, PTL
-----------------------------------------------------------------------------
(***************************************************************************)
(* Streaming.  What the client has is the ledger up to its Last-Event-ID,   *)
(* and an open connection goes on from there.                               *)
(***************************************************************************)

StreamInv ==
    /\ seen \in Seq(Event)
    /\ Len(seen) = lastId
    /\ DOMAIN seen \subseteq DOMAIN rows
    /\ \A i \in DOMAIN seen : seen[i] = rows[i]
    /\ stream = Closed \/ stream = [open |-> TRUE, cursor |-> lastId]

LEMMA CountOfInterval ==
    ASSUME NEW a \in Nat, NEW b \in Nat, NEW i \in a + 1 .. b
    PROVE  Cardinality({j \in a + 1 .. b : j <= i}) = i - a
<1>1. {j \in a + 1 .. b : j <= i} = a + 1 .. i
  OBVIOUS
<1>2. Cardinality(a + 1 .. i) = i - a
  BY FS_Interval
<1> QED BY <1>1, <1>2

LEMMA NthOfInterval ==
    ASSUME NEW a \in Nat, NEW b \in Nat, NEW k \in 1 .. b - a
    PROVE  Nth(a + 1 .. b, k) = a + k
<1>1. a + k \in a + 1 .. b
  OBVIOUS
<1>2. \A i \in a + 1 .. b :
         Cardinality({j \in a + 1 .. b : j <= i}) = k <=> i = a + k
  BY CountOfInterval
<1> QED BY <1>1, <1>2 DEF Nth

LEMMA StreamInit == Init => StreamInv
<1> SUFFICES ASSUME Init PROVE StreamInv
  OBVIOUS
<1>1. seen = <<>> /\ lastId = 0 /\ stream = Closed
  BY DEF Init
<1>2. <<>> \in Seq(Event) /\ Len(<<>>) = 0 /\ DOMAIN <<>> = {}
  OBVIOUS
<1> QED BY <1>1, <1>2 DEF StreamInv

\* A batch brings the events after the last one received, in order.
LEMMA DeliverStep ==
    ASSUME PipelineInv, StreamInv, Deliver
    PROVE  /\ StreamInv'
           /\ DOMAIN seen \subseteq DOMAIN seen'
           /\ \A i \in DOMAIN seen : seen'[i] = seen[i]
<1>1. PICK n \in Nat : DOMAIN rows = 1 .. n
  BY DEF PipelineInv, LedgerInv, Dense
<1>2. /\ stream.cursor = lastId
      /\ lastId \in Nat
      /\ lastId <= n
      /\ DOMAIN seen = 1 .. lastId
  <2>1. stream.cursor = lastId
    BY DEF StreamInv, Deliver, Closed
  <2>2. lastId \in Nat /\ DOMAIN seen = 1 .. lastId
    BY LenProperties DEF StreamInv
  <2>3. lastId # 0 => lastId \in 1 .. n
    BY <1>1, <2>2 DEF StreamInv
  <2> QED BY <2>1, <2>2, <2>3
<1>3. {i \in DOMAIN rows : i > stream.cursor} = lastId + 1 .. n
  BY <1>1, <1>2
<1>4. PICK last \in lastId + 1 .. n :
         /\ seen' = seen \o [k \in 1 .. Cardinality({i \in lastId + 1 .. n : i <= last}) |->
                                rows[Nth(lastId + 1 .. n, k)]]
         /\ lastId' = last
         /\ stream' = IF last = Latest(lastId + 1 .. n)
                       THEN [open |-> TRUE, cursor |-> last] ELSE Closed
  BY <1>3 DEF Deliver
<1>5. Cardinality({i \in lastId + 1 .. n : i <= last}) = last - lastId
  BY <1>2, CountOfInterval
<1> DEFINE got == [k \in 1 .. last - lastId |-> rows[Nth(lastId + 1 .. n, k)]]
<1>6. /\ got \in Seq(Event)
      /\ Len(got) = last - lastId
      /\ \A k \in 1 .. last - lastId : got[k] = rows[lastId + k]
  <2>1. last - lastId \in Nat
    BY <1>2
  <2>2. \A k \in 1 .. last - lastId : k \in 1 .. n - lastId
    BY <1>2
  <2>3. \A k \in 1 .. last - lastId : Nth(lastId + 1 .. n, k) = lastId + k
    BY <1>2, <2>2, NthOfInterval
  <2>4. \A k \in 1 .. last - lastId : got[k] = rows[lastId + k]
    BY <2>3
  <2>5. \A k \in 1 .. last - lastId : rows[lastId + k] \in Event
    <3>1. \A k \in 1 .. last - lastId : lastId + k \in 1 .. n
      BY <1>2
    <3> QED BY <1>1, <3>1 DEF PipelineInv, EventsInv
  <2>6. got \in [1 .. last - lastId -> Event]
    BY <2>4, <2>5
  <2> HIDE DEF got
  <2>7. got \in Seq(Event)
    BY <2>1, <2>6, SeqDef
  <2>8. Len(got) = last - lastId
    BY <2>1, <2>6, <2>7, LenProperties
  <2> QED BY <2>4, <2>7, <2>8
<1>7. seen' = seen \o got
  BY <1>4, <1>5
<1> HIDE DEF got
<1>8. /\ seen' \in Seq(Event)
      /\ Len(seen') = last
      /\ \A i \in 1 .. last : seen'[i] = IF i <= lastId THEN seen[i] ELSE got[i - lastId]
  <2>1. seen \in Seq(Event) /\ Len(seen) = lastId
    BY DEF StreamInv
  <2>2. lastId + (last - lastId) = last
    BY <1>2
  <2>3. /\ seen \o got \in Seq(Event)
        /\ Len(seen \o got) = Len(seen) + Len(got)
        /\ \A i \in 1 .. Len(seen) + Len(got) :
              (seen \o got)[i] = IF i <= Len(seen) THEN seen[i] ELSE got[i - Len(seen)]
    BY <1>6, <2>1, ConcatProperties
  <2> QED BY <1>6, <1>7, <2>1, <2>2, <2>3
<1>9. DOMAIN seen' = 1 .. last
  BY <1>8, LenProperties
<1>10. \A i \in 1 .. last : seen'[i] = rows[i]
  <2> TAKE i \in 1 .. last
  <2>1. CASE i <= lastId
    BY <1>2, <1>8, <2>1 DEF StreamInv
  <2>2. CASE ~(i <= lastId)
    <3>1. i - lastId \in 1 .. last - lastId /\ lastId + (i - lastId) = i
      BY <1>2, <2>2
    <3> QED BY <1>6, <1>8, <2>2, <3>1
  <2> QED BY <2>1, <2>2
<1>11. rows' = rows
  BY DEF Deliver, ledgerVars
<1>12. StreamInv'
  <2>1. 1 .. last \subseteq DOMAIN rows
    BY <1>1, <1>2
  <2> QED BY <1>4, <1>8, <1>9, <1>10, <1>11, <2>1 DEF StreamInv
<1>13. /\ DOMAIN seen \subseteq DOMAIN seen'
       /\ \A i \in DOMAIN seen : seen'[i] = seen[i]
  BY <1>2, <1>8, <1>9
<1> QED BY <1>12, <1>13

LEMMA StreamStep == PipelineInv /\ StreamInv /\ [Next]_vars => StreamInv'
<1> SUFFICES ASSUME PipelineInv, StreamInv, [Next]_vars PROVE StreamInv'
  OBVIOUS
<1>1. CASE Deliver
  BY <1>1, DeliverStep
<1>2. CASE Connect
  BY <1>2 DEF Connect, ledgerVars, StreamInv
<1>3. CASE Disconnect
  BY <1>3 DEF Disconnect, ledgerVars, StreamInv
<1>4. ASSUME NEW s \in Emitter, Commit(s) PROVE StreamInv'
  <2>1. /\ DOMAIN rows \subseteq DOMAIN rows'
        /\ \A i \in DOMAIN rows : rows'[i] = rows[i]
    BY <1>4, CommitKeepsTheJudged
  <2>2. UNCHANGED <<stream, seen, lastId>>
    BY <1>4 DEF Commit, streamVars
  <2> QED BY <2>1, <2>2 DEF StreamInv
<1>5. ASSUME UNCHANGED <<rows, streamVars>> PROVE StreamInv'
  BY <1>5 DEF streamVars, StreamInv
<1>6. ASSUME NEW s \in Emitter, NEW e \in Emits[s],
             AppendNew(s, e) \/ AppendAgain(s, e) \/ Conflict(s, e)
      PROVE  UNCHANGED <<rows, streamVars>>
  BY <1>6 DEF AppendNew, AppendAgain, Conflict
<1>7. ASSUME NEW s \in Emitter, Rollback(s) PROVE UNCHANGED <<rows, streamVars>>
  BY <1>7 DEF Rollback
<1>8. ASSUME NEW p \in Projector, Project(p) \/ LosePass(p)
      PROVE  UNCHANGED <<rows, streamVars>>
  BY <1>8 DEF Project, LosePass, BeginPass, ReadPending, ProjectOne, CommitPass,
              FailPass, ledgerVars
<1>9. CASE UNCHANGED vars
  BY <1>5, <1>9 DEF vars, ledgerVars
<1> QED
  BY <1>1, <1>2, <1>3, <1>4, <1>5, <1>6, <1>7, <1>8, <1>9 DEF Next, Emit, Stream

LEMMA StreamInvariance == Spec => []StreamInv
<1> QED BY StreamInit, StreamStep, PipelineInvariance, PTL DEF Spec

-----------------------------------------------------------------------------
(***************************************************************************)
(* The promise of EvidenceLog, step by step: commits of sessions publish,   *)
(* commits of passes judge, batches deliver, and every other step, however  *)
(* much it writes, is one that nobody outside its transaction can see.      *)
(***************************************************************************)

LEMMA JudgedPrefix ==
    ASSUME NEW V, NEW c \in Nat, NEW n \in Nat, DOMAIN V = 1 .. n, c <= n,
           \A i \in DOMAIN V : IF i <= c THEN \E v \in Verdicts : V[i] = <<v>>
                                         ELSE V[i] = <<>>
    PROVE  [i \in {j \in DOMAIN V : V[j] # <<>> \/ j <= c} |-> V[i]]
               = [i \in 1 .. c |-> V[i]]
<1>1. {j \in DOMAIN V : V[j] # <<>> \/ j <= c} = {j \in 1 .. n : j <= c}
  OBVIOUS
<1>2. {j \in 1 .. n : j <= c} = 1 .. c
  OBVIOUS
<1>3. {j \in DOMAIN V : V[j] # <<>> \/ j <= c} = 1 .. c
  BY <1>1, <1>2
<1> QED BY <1>3

JudgedPrefixInv ==
    /\ checkpoint \in Nat
    /\ 1 .. checkpoint \subseteq DOMAIN rows
    /\ JudgedSoFar = [i \in 1 .. checkpoint |-> verdicts[i]]
    /\ \A i \in 1 .. checkpoint : \E v \in Verdicts : verdicts[i] = <<v>>

LEMMA JudgedIsThePrefix == PipelineInv => JudgedPrefixInv
<1> SUFFICES ASSUME PipelineInv
             PROVE  JudgedPrefixInv
  OBVIOUS
<1>1. /\ DOMAIN verdicts = DOMAIN rows
      /\ checkpoint \in Nat
      /\ 1 .. checkpoint \subseteq DOMAIN rows
      /\ \A i \in DOMAIN verdicts :
            IF i <= checkpoint THEN \E v \in Verdicts : verdicts[i] = <<v>>
                               ELSE verdicts[i] = <<>>
  BY DEF PipelineInv, JudgeInv
<1>2. PICK n \in Nat : DOMAIN rows = 1 .. n
  BY DEF PipelineInv, LedgerInv, Dense
<1>3. checkpoint <= n
  <2>1. checkpoint # 0 => checkpoint \in 1 .. n
    BY <1>1, <1>2
  <2> QED BY <1>1, <1>2, <2>1
<1>4. JudgedSoFar = [i \in 1 .. checkpoint |-> verdicts[i]]
  BY <1>1, <1>2, <1>3, JudgedPrefix DEF JudgedSoFar
<1>5. \A i \in 1 .. checkpoint : i \in DOMAIN verdicts /\ i <= checkpoint
  BY <1>1
<1> QED BY <1>1, <1>4, <1>5 DEF JudgedPrefixInv

\* After the step too.
LEMMA JudgedStaysThePrefix == PipelineInv' => JudgedPrefixInv'
<1> QED BY JudgedIsThePrefix, PTL

LEMMA PublishStep ==
    ASSUME PipelineInv, NEW s \in Emitter, Commit(s)
    PROVE  Log!Publish
<1>1. /\ \A i \in DOMAIN rows : rows'[i] = rows[i]
      /\ DOMAIN rows \subseteq DOMAIN rows'
      /\ PipelineInv'
  BY CommitKeepsTheJudged, PipelineStep DEF Next, Emit
<1>2. PICK n \in Nat : DOMAIN rows' = 1 .. n
  <2> QED BY <1>1 DEF PipelineInv, LedgerInv, Dense
<1>3. DOMAIN rows' \subseteq Nat \ {0} /\ Log!IsPrefix(DOMAIN rows')
  BY <1>2 DEF Log!IsPrefix
<1>4. UNCHANGED JudgedSoFar
  <2>1. /\ JudgeInv /\ checkpoint' = checkpoint
        /\ 1 .. checkpoint \subseteq DOMAIN verdicts
        /\ \A i \in DOMAIN verdicts : verdicts'[i] = verdicts[i]
    BY CommitKeepsTheJudged DEF PipelineInv, JudgeInv, Commit
  <2>2. \A i \in 1 .. checkpoint : verdicts'[i] = verdicts[i]
    BY <2>1
  <2>3. JudgedSoFar = [i \in 1 .. checkpoint |-> verdicts[i]]
    BY JudgedIsThePrefix DEF JudgedPrefixInv
  <2>4. JudgedSoFar' = [i \in 1 .. checkpoint' |-> verdicts'[i]]
    BY <1>1, JudgedStaysThePrefix DEF JudgedPrefixInv
  <2>5. [i \in 1 .. checkpoint' |-> verdicts'[i]] = [i \in 1 .. checkpoint |-> verdicts[i]]
    BY <2>1, <2>2
  <2> QED BY <2>3, <2>4, <2>5
<1>5. UNCHANGED seen
  BY DEF Commit, streamVars
<1> QED BY <1>1, <1>3, <1>4, <1>5 DEF Log!Publish, Log!Extends

LEMMA JudgeStep ==
    ASSUME PipelineInv, NEW p \in Projector, CommitPass(p)
    PROVE  Log!Judge
<1>1. /\ PipelineInv'
      /\ checkpoint <= checkpoint'
      /\ \A i \in DOMAIN verdicts : i <= checkpoint => verdicts'[i] = verdicts[i]
      /\ rows' = rows /\ seen' = seen
  BY CommitPassStep, PipelineStep
     DEF CommitPass, ledgerVars, streamVars, Next, Project
<1>2. /\ checkpoint \in Nat
      /\ JudgedSoFar = [i \in 1 .. checkpoint |-> verdicts[i]]
      /\ 1 .. checkpoint \subseteq DOMAIN rows
  BY JudgedIsThePrefix DEF JudgedPrefixInv
<1>3. /\ checkpoint' \in Nat
      /\ JudgedSoFar' = [i \in 1 .. checkpoint' |-> verdicts'[i]]
      /\ 1 .. checkpoint' \subseteq DOMAIN rows'
      /\ \A i \in 1 .. checkpoint' : \E v \in Verdicts : verdicts'[i] = <<v>>
  BY <1>1, JudgedStaysThePrefix DEF JudgedPrefixInv
<1>4. /\ DOMAIN JudgedSoFar = 1 .. checkpoint
      /\ DOMAIN JudgedSoFar' = 1 .. checkpoint'
      /\ \A i \in 1 .. checkpoint : JudgedSoFar[i] = verdicts[i]
      /\ \A i \in 1 .. checkpoint' : JudgedSoFar'[i] = verdicts'[i]
  BY <1>2, <1>3
<1>5. \A i \in 1 .. checkpoint : i \in 1 .. checkpoint' /\ i \in DOMAIN verdicts /\ i <= checkpoint
  BY <1>1, <1>2, <1>3 DEF PipelineInv, JudgeInv
<1>6. Log!Extends(JudgedSoFar', JudgedSoFar)
  BY <1>1, <1>4, <1>5 DEF Log!Extends
<1>7. Log!IsPrefix(DOMAIN JudgedSoFar')
  BY <1>3, <1>4 DEF Log!IsPrefix
<1>8. DOMAIN JudgedSoFar' \subseteq DOMAIN rows
  BY <1>1, <1>3, <1>4
<1>9. \A i \in DOMAIN JudgedSoFar' : JudgedSoFar'[i] \in {<<v>> : v \in Verdicts}
  BY <1>3, <1>4
<1> QED BY <1>1, <1>6, <1>7, <1>8, <1>9 DEF Log!Judge

LEMMA DeliverRefines ==
    ASSUME PipelineInv, StreamInv, Deliver
    PROVE  Log!Deliver
<1>1. /\ StreamInv'
      /\ DOMAIN seen \subseteq DOMAIN seen'
      /\ \A i \in DOMAIN seen : seen'[i] = seen[i]
  BY DeliverStep
<1>2. UNCHANGED <<rows, verdicts, checkpoint>>
  BY DEF Deliver, ledgerVars, graphVars
<1>3. UNCHANGED JudgedSoFar
  BY <1>2 DEF JudgedSoFar
<1>4. PICK n \in Nat : DOMAIN seen' = 1 .. n
  BY <1>1, LenProperties DEF StreamInv
<1>5. Log!IsPrefix(DOMAIN seen')
  BY <1>4 DEF Log!IsPrefix
<1>6. Log!Extends(rows, seen')
  BY <1>1, <1>2 DEF StreamInv, Log!Extends
<1> QED BY <1>1, <1>2, <1>3, <1>5, <1>6 DEF Log!Deliver, Log!Extends

LEMMA LogInit == Init => Log!Init
<1> SUFFICES ASSUME Init PROVE Log!Init
  OBVIOUS
<1>1. DOMAIN rows = {} /\ DOMAIN verdicts = {} /\ seen = <<>>
  BY DEF Init, NoRows
<1>2. DOMAIN JudgedSoFar = {}
  BY <1>1 DEF JudgedSoFar
<1>3. DOMAIN <<>> = {}
  OBVIOUS
<1> QED BY <1>1, <1>2, <1>3 DEF Log!Init

LEMMA LogStep == PipelineInv /\ StreamInv /\ [Next]_vars => [Log!Next]_(Log!vars)
<1> SUFFICES ASSUME PipelineInv, StreamInv, [Next]_vars
             PROVE  Log!Next \/ UNCHANGED Log!vars
  OBVIOUS
<1>1. ASSUME UNCHANGED <<rows, verdicts, checkpoint, seen>>
      PROVE  UNCHANGED Log!vars
  BY <1>1 DEF JudgedSoFar, Log!vars
<1>2. ASSUME NEW s \in Emitter, NEW e \in Emits[s],
             AppendNew(s, e) \/ AppendAgain(s, e) \/ Conflict(s, e)
      PROVE  UNCHANGED <<rows, verdicts, checkpoint, seen>>
  BY <1>2 DEF AppendNew, AppendAgain, Conflict, graphVars, streamVars
<1>3. ASSUME NEW s \in Emitter, Rollback(s)
      PROVE  UNCHANGED <<rows, verdicts, checkpoint, seen>>
  BY <1>3 DEF Rollback, graphVars, streamVars
<1>4. ASSUME NEW p \in Projector,
             BeginPass(p) \/ ReadPending(p) \/ ProjectOne(p) \/ FailPass(p) \/ LosePass(p)
      PROVE  UNCHANGED <<rows, verdicts, checkpoint, seen>>
  BY <1>4 DEF BeginPass, ReadPending, ProjectOne, FailPass, LosePass, ledgerVars,
              streamVars
<1>5. ASSUME Connect \/ Disconnect
      PROVE  UNCHANGED <<rows, verdicts, checkpoint, seen>>
  BY <1>5 DEF Connect, Disconnect, ledgerVars, graphVars
<1>6. CASE UNCHANGED vars
  BY <1>1, <1>6 DEF vars, ledgerVars, graphVars, streamVars
<1>7. ASSUME NEW s \in Emitter, Commit(s) PROVE Log!Next
  BY <1>7, PublishStep DEF Log!Next
<1>8. ASSUME NEW p \in Projector, CommitPass(p) PROVE Log!Next
  BY <1>8, JudgeStep DEF Log!Next
<1>9. ASSUME Deliver PROVE Log!Next
  BY <1>9, DeliverRefines DEF Log!Next
<1> QED
  BY <1>1, <1>2, <1>3, <1>4, <1>5, <1>6, <1>7, <1>8, <1>9
     DEF Next, Emit, Project, Stream

\* The ledger, the projector and the stream implement EvidenceLog, for any number
\* of sessions, passes and events: no hole, nothing committed below what a reader
\* has seen, every event judged once and in order, and a client that reconnects
\* misses no event and gets none twice.
THEOREM PipelineImplementsEvidenceLog == Spec => ImplementsEvidenceLog
<1>1. Init => Log!Init
  BY LogInit
<1>2. PipelineInv /\ StreamInv /\ [Next]_vars => [Log!Next]_(Log!vars)
  BY LogStep
<1> QED
  BY <1>1, <1>2, PipelineInvariance, StreamInvariance, PTL
     DEF Spec, ImplementsEvidenceLog, Log!Spec

-----------------------------------------------------------------------------
(***************************************************************************)
(* The live view: the newest rows and the anchors before them              *)
(***************************************************************************)

\* What the page has or will have at its next flush.
Shown == view \cup held

Answers == [at : Nat, finished : BOOLEAN]

\* The snapshots under way: each is of its own request, none is of a state the server has
\* not been in, and the one the page listens to is not older than what it shows.
FetchInv ==
    /\ version \in Nat /\ requests \in Nat /\ finished \in BOOLEAN
    /\ snapshot \in {Blank} \cup Answers
    /\ asked \subseteq [id : 1 .. requests, answer : Answers]
    /\ \A r \in asked : r.answer.at <= version
    /\ \A r \in asked : r.id = current => r.answer.at >= snapshot.at
    /\ \A r, q \in asked : r.id = q.id => r = q

\* The subscription: a connection has been sent what follows its base and the anchors that
\* must be there before it; of what has been sent, only the anchors that need not be there
\* and the rows behind the newest Window are not shown.
FrameInv ==
    /\ conn = "open" => \A n \in 0 .. cursor : n > base \/ n \in KeptAnchors => n \in received
    /\ received \cap KeptAnchors \subseteq Shown
    /\ \A n \in received : n > Max(Shown) - Window => n \in Shown
    /\ received # {} => Shown # {}

ViewInv == ViewTypeOK /\ IsFiniteSet(Seqs) /\ FetchInv /\ FrameInv

-----------------------------------------------------------------------------

\* A set of rows has a greatest one, and Max chooses it.
LEMMA Greatest ==
    ASSUME NEW N \in Nat, NEW S \in SUBSET (0 .. N), S # {}
    PROVE  Max(S) \in S /\ \A y \in S : Max(S) >= y
<1> DEFINE T == {N - x : x \in S}
<1>1. T \in SUBSET Nat /\ T # {}
  <2>1. \A x \in S : x \in Nat /\ N - x \in Nat
    OBVIOUS
  <2>2. PICK x \in S : TRUE
    OBVIOUS
  <2>3. N - x \in T
    OBVIOUS
  <2> QED BY <2>1, <2>3
<1>2. \E n \in T : \A m \in T : n <= m
  <2> DEFINE R == OpToRel(<, Nat)
  <2>1. IsWellFoundedOn(R, Nat)
    BY NatLessThanWellFounded
  <2>2. \A a, b \in Nat : a < b => <<a, b>> \in R
    BY DEF OpToRel
  <2> HIDE DEF T, R
  <2>3. \E n \in T : \A m \in T : ~ (<<m, n>> \in R)
    BY <1>1, <2>1, WFMin
  <2>4. PICK n \in T : \A m \in T : ~ (<<m, n>> \in R)
    BY <2>3
  <2>5. n \in Nat /\ \A m \in T : m \in Nat /\ ~ (m < n)
    BY <1>1, <2>2, <2>4
  <2> QED BY <2>5
<1>3. PICK n \in T : \A m \in T : n <= m
  BY <1>2
<1>4. PICK x \in S : n = N - x
  BY <1>3
<1>5. \A y \in S : x >= y
  <2> TAKE y \in S
  <2>1. N - y \in T
    OBVIOUS
  <2>2. N - x <= N - y
    BY <1>3, <1>4, <2>1
  <2> QED BY <2>2
<1> QED BY <1>4, <1>5 DEF Max

\* Among fewer rows a row that was among the newest still is.
LEMMA NewestOfFewer ==
    ASSUME NEW T, IsFiniteSet(T), NEW S \in SUBSET T, NEW k \in Nat, NEW n \in S,
           n \in Newest(T, k)
    PROVE  n \in Newest(S, k)
<1> DEFINE A == {m \in S : m > n}
           B == {m \in T : m > n}
<1>1. A \subseteq B /\ B \subseteq T /\ Cardinality(B) < k
  BY DEF Newest
<1>2. IsFiniteSet(B)
  BY <1>1, FS_Subset
<1>3. IsFiniteSet(A) /\ Cardinality(A) <= Cardinality(B)
  BY <1>1, <1>2, FS_Subset
<1>4. Cardinality(A) \in Nat /\ Cardinality(B) \in Nat
  BY <1>2, <1>3, FS_CardinalityType
<1>5. Cardinality(A) < k
  <2> HIDE DEF A, B
  <2> QED BY <1>1, <1>3, <1>4
<1> QED BY <1>5 DEF Newest

\* A row less than k behind the greatest is among the k newest.
LEMMA NearTheEnd ==
    ASSUME NEW N \in Nat, NEW S \in SUBSET (0 .. N), NEW k \in Nat, NEW n \in S,
           n > Max(S) - k
    PROVE  n \in Newest(S, k)
<1> DEFINE A == {m \in S : m > n}
           top == Max(S)
<1>1. top \in S /\ \A y \in S : top >= y
  BY Greatest
<1> HIDE DEF top
<1>2. top \in Nat /\ n \in Nat /\ top >= n
  BY <1>1
<1>3. A \subseteq n + 1 .. top
  <2> SUFFICES ASSUME NEW m \in S, m > n PROVE m \in n + 1 .. top
    OBVIOUS
  <2>1. m \in Nat /\ top >= m
    BY <1>1
  <2> QED BY <1>2, <2>1
<1>4. IsFiniteSet(n + 1 .. top) /\ Cardinality(n + 1 .. top) = top - n
  <2>1. /\ IsFiniteSet(n + 1 .. top)
        /\ Cardinality(n + 1 .. top) = IF n + 1 > top THEN 0 ELSE top - (n + 1) + 1
    BY <1>2, FS_Interval
  <2> QED BY <1>2, <2>1
<1>5. IsFiniteSet(A) /\ Cardinality(A) <= top - n
  <2> DEFINE B == n + 1 .. top
  <2>1. A \in SUBSET B /\ IsFiniteSet(B) /\ Cardinality(B) = top - n
    BY <1>3, <1>4
  <2> HIDE DEF A, B
  <2>2. IsFiniteSet(A) /\ Cardinality(A) <= Cardinality(B)
    BY <2>1, FS_Subset
  <2> QED BY <2>1, <2>2
<1>6. Cardinality(A) \in Nat
  BY <1>5, FS_CardinalityType
<1>7. Cardinality(A) < k
  <2>1. n > top - k
    BY DEF top
  <2> HIDE DEF A
  <2> QED BY <1>2, <1>5, <1>6, <2>1
<1> QED BY <1>7 DEF Newest

\* The cap keeps the greatest row, the Window newest and the anchors that must be there.
LEMMA CapKeeps ==
    ASSUME NEW X \in SUBSET Seqs, X # {}, LatestSeq \in Int, Seqs = 0 .. LatestSeq
    PROVE  /\ Capped(X) \subseteq X /\ Capped(X) # {} /\ Max(Capped(X)) = Max(X)
           /\ \A n \in X : n > Max(X) - Window \/ n \in KeptAnchors => n \in Capped(X)
<1>0. Window \in Nat /\ Window > 0 /\ AnchorCap \in Nat
  BY LiveViewAssumption
<1>1. LatestSeq \in Nat /\ X \in SUBSET (0 .. LatestSeq) /\ IsFiniteSet(Seqs)
  <2>1. LatestSeq \in Nat
    <3>1. PICK x \in X : x \in 0 .. LatestSeq
      OBVIOUS
    <3> QED BY <3>1
  <2>2. IsFiniteSet(0 .. LatestSeq)
    BY FS_Interval
  <2> QED BY <2>1, <2>2
<1>2. Capped(X) \subseteq X
  BY DEF Capped, Newest, Light
<1>3. \A n \in X : n > Max(X) - Window => n \in Capped(X)
  BY <1>0, <1>1, NearTheEnd DEF Capped
<1>4. \A n \in X : n \in KeptAnchors => n \in Capped(X)
  <2> SUFFICES ASSUME NEW n \in X, n \in KeptAnchors, n \notin Newest(X, Window)
               PROVE  n \in Newest(Light(X \ Newest(X, Window)), AnchorCap)
    BY DEF Capped
  <2> DEFINE T == Light(Seqs)
             S == Light(X \ Newest(X, Window))
  <2>1. n \in T /\ n \in Newest(T, AnchorCap)
    BY DEF KeptAnchors, Structural, Newest
  <2>2. S \subseteq T /\ n \in S
    BY <2>1 DEF Light, Newest
  <2>3. IsFiniteSet(T)
    BY <1>1, FS_Subset DEF Light
  <2> HIDE DEF T, S
  <2>4. n \in Newest(S, AnchorCap)
    BY <1>0, <2>1, <2>2, <2>3, NewestOfFewer
  <2> QED BY <2>4 DEF S
<1>5. Max(X) \in X /\ \A y \in X : Max(X) >= y
  BY <1>1, Greatest
<1>6. Max(X) \in Capped(X)
  <2> DEFINE top == Max(X)
  <2>1. top \in X /\ top \in Nat
    <3>1. \A y \in X : y \in Nat
      BY <1>1
    <3> QED BY <1>5, <3>1
  <2>2. top > top - Window
    <3> HIDE DEF top
    <3> QED BY <1>0, <2>1
  <2> QED BY <1>3, <2>1, <2>2
<1>7. Capped(X) # {} /\ Capped(X) \in SUBSET (0 .. LatestSeq)
  BY <1>1, <1>2, <1>6
<1>8. Max(Capped(X)) \in Capped(X) /\ \A y \in Capped(X) : Max(Capped(X)) >= y
  BY <1>1, <1>7, Greatest
<1>9. Max(Capped(X)) = Max(X)
  <2>1. Max(Capped(X)) \in Nat /\ Max(X) \in Nat
    <3>1. \A y \in 0 .. LatestSeq : y \in Nat
      BY <1>1
    <3> QED BY <1>1, <1>5, <1>7, <1>8, <3>1
  <2>2. Max(Capped(X)) >= Max(X) /\ Max(X) >= Max(Capped(X))
    BY <1>2, <1>5, <1>6, <1>8
  <2> QED BY <2>1, <2>2
<1> QED BY <1>2, <1>3, <1>4, <1>6, <1>9

-----------------------------------------------------------------------------

\* What the table's type says.
LEMMA TableIsTyped ==
    ASSUME ViewTypeOK, IsFiniteSet(Seqs)
    PROVE  /\ LatestSeq \in Int /\ LatestSeq >= -1 /\ Seqs = 0 .. LatestSeq
           /\ base \in Int /\ cursor \in Int /\ -1 <= base /\ base <= cursor
           /\ cursor <= LatestSeq
           /\ held \subseteq received /\ received \subseteq Seqs /\ view \subseteq Seqs
<1>1. Cardinality(Seqs) \in Nat
  BY FS_CardinalityType
<1>2. LatestSeq \in Int /\ LatestSeq >= -1
  BY <1>1 DEF LatestSeq
<1> HIDE DEF LatestSeq
<1>3. base \in -1 .. LatestSeq /\ cursor \in -1 .. LatestSeq /\ base <= cursor
  BY DEF ViewTypeOK
<1>4. base \in Int /\ cursor \in Int /\ -1 <= base /\ cursor <= LatestSeq
  BY <1>2, <1>3
<1> QED BY <1>2, <1>3, <1>4 DEF ViewTypeOK

\* A greater set of rows has no smaller greatest one.
LEMMA GreatestGrows ==
    ASSUME NEW N \in Nat, NEW T \in SUBSET (0 .. N), NEW S \in SUBSET T, S # {}
    PROVE  Max(S) \in Nat /\ Max(T) \in Nat /\ Max(S) <= Max(T)
<1>0. \A y \in 0 .. N : y \in Nat
  OBVIOUS
<1>1. S \in SUBSET (0 .. N) /\ T # {}
  OBVIOUS
<1>2. Max(S) \in S
  BY <1>1, Greatest
<1>3. Max(T) \in T /\ \A y \in T : Max(T) >= y
  BY <1>1, Greatest
<1>4. Max(S) \in Nat /\ Max(T) \in Nat
  BY <1>0, <1>1, <1>2, <1>3
<1> QED BY <1>2, <1>3, <1>4

\* Rows that arrive are shown at the next flush; what was shown before is.
LEMMA Receiving ==
    ASSUME ViewTypeOK, IsFiniteSet(Seqs), FrameInv,
           NEW sent \in SUBSET Seqs, Receive(sent, received),
           view' = view, trace' = trace
    PROVE  /\ received' = received \cup sent
           /\ held' \subseteq received' /\ received' \subseteq Seqs
           /\ received' \cap KeptAnchors' \subseteq Shown'
           /\ \A n \in received' : n > Max(Shown') - Window => n \in Shown'
           /\ received' # {} => Shown' # {}
<1>1. received' = received \cup sent /\ Shown' = Shown \cup (sent \ received)
  BY DEF Receive, Shown
<1>2. KeptAnchors' = KeptAnchors
  BY DEF KeptAnchors, Newest, Structural, Light, Seqs
<1>3. /\ LatestSeq \in Int /\ LatestSeq >= -1 /\ Seqs = 0 .. LatestSeq
      /\ held \subseteq received /\ received \subseteq Seqs /\ view \subseteq Seqs
  BY TableIsTyped
<1>4. held' \subseteq received' /\ received' \subseteq Seqs
  BY <1>1, <1>3 DEF Receive
<1>5. received' \cap KeptAnchors' \subseteq Shown'
  BY <1>1, <1>2 DEF FrameInv
<1>6. received' # {} => Shown' # {}
  BY <1>1 DEF FrameInv
<1>7. ASSUME NEW n \in received', n > Max(Shown') - Window
      PROVE  n \in Shown'
  <2>1. CASE n \notin received
    BY <1>1, <2>1
  <2>2. CASE n \in received
    <3>1. Shown # {} /\ Shown \subseteq Shown'
      BY <1>1, <2>2 DEF FrameInv
    <3>2. LatestSeq \in Nat /\ Shown' \in SUBSET (0 .. LatestSeq)
      <4>1. n \in 0 .. LatestSeq
        BY <1>3, <2>2
      <4>2. LatestSeq \in Nat
        BY <1>3, <4>1
      <4>3. Shown' \subseteq Seqs
        BY <1>1, <1>3 DEF Shown
      <4> QED BY <1>3, <4>2, <4>3
    <3>3. Max(Shown) \in Nat /\ Max(Shown') \in Nat /\ Max(Shown) <= Max(Shown')
      BY <3>1, <3>2, GreatestGrows
    <3>4. n \in Nat /\ Window \in Nat
      BY <1>3, <2>2, LiveViewAssumption
    <3>5. n > Max(Shown) - Window
      BY <1>7, <3>3, <3>4
    <3> QED BY <2>2, <3>1, <3>5 DEF FrameInv
  <2> QED BY <2>1, <2>2
<1> QED BY <1>1, <1>4, <1>5, <1>6, <1>7

\* Where a subscription ends, there is nothing to have been sent.
LEMMA SubscriptionEnds ==
    ASSUME Unsubscribe, conn' # "open"
    PROVE  FrameInv'
BY DEF Unsubscribe, FrameInv, Shown

\* Steps that leave table, connection and what was received alone.
LEMMA FrameStays ==
    ASSUME FrameInv, UNCHANGED <<trace, base, cursor, received, held, view>>,
           conn' = "open" => conn = "open"
    PROVE  FrameInv'
<1>1. KeptAnchors' = KeptAnchors /\ Shown' = Shown
  BY DEF KeptAnchors, Newest, Structural, Light, Seqs, Shown
<1> QED BY <1>1 DEF FrameInv

\* The types of one part when a step changes the others.
TableTyped == Seqs = 0 .. LatestSeq /\ trace \in [Seqs -> RowKinds]
FrameTyped ==
    /\ conn \in {"off", "open", "shut"}
    /\ {base, cursor} \subseteq -1 .. LatestSeq /\ base <= cursor
    /\ held \subseteq received /\ received \cup view \subseteq Seqs
FetchTyped ==
    /\ current \in 0 .. requests /\ requests <= MaxRequests
    /\ snapshot.at <= version

LEMMA ViewParts ==
    ViewInv <=> /\ TableTyped /\ FrameTyped /\ FetchTyped
                /\ IsFiniteSet(Seqs) /\ FetchInv /\ FrameInv
BY DEF ViewInv, ViewTypeOK, TableTyped, FrameTyped, FetchTyped

LEMMA TableStays ==
    ASSUME TableTyped, IsFiniteSet(Seqs), UNCHANGED trace
    PROVE  TableTyped' /\ IsFiniteSet(Seqs') /\ Seqs' = Seqs /\ LatestSeq' = LatestSeq
BY DEF TableTyped, Seqs, LatestSeq

LEMMA FramesStay ==
    ASSUME FrameTyped, UNCHANGED frameVars, LatestSeq' = LatestSeq, Seqs' = Seqs
    PROVE  FrameTyped'
BY DEF FrameTyped, frameVars

\* The snapshot and the requests when the server's state moves on, or does not.
LEMMA FetchStays ==
    ASSUME FetchInv, FetchTyped, UNCHANGED fetchVars, finished' \in BOOLEAN,
           version' = version \/ Change
    PROVE  FetchInv' /\ FetchTyped'
<1>1. version \in Nat /\ version' \in Nat /\ version <= version'
  BY DEF FetchInv, Change
<1>2. snapshot.at \in Int
  BY DEF FetchInv, Blank, Answers
<1>3. \A r \in asked : r.answer.at \in Nat
  BY DEF FetchInv, Answers
<1>4. \A r \in asked : r.answer.at <= version'
  BY <1>1, <1>3 DEF FetchInv
<1>5. UNCHANGED <<asked, current, requests, snapshot>>
  BY DEF fetchVars
<1>6. FetchInv'
  BY <1>1, <1>4, <1>5 DEF FetchInv
<1>7. snapshot'.at <= version'
  BY <1>1, <1>2, <1>5 DEF FetchTyped
<1> QED BY <1>5, <1>6, <1>7 DEF FetchTyped

-----------------------------------------------------------------------------

\* The page opens with nothing, and nothing has been recorded.
LEMMA ViewBegins == ViewInit => ViewInv
<1> SUFFICES ASSUME ViewInit PROVE ViewInv
  OBVIOUS
<1>1. Seqs = {}
  BY DEF ViewInit, Seqs
<1>2. IsFiniteSet(Seqs) /\ LatestSeq = -1
  BY <1>1, FS_EmptySet DEF LatestSeq
<1>3. TableTyped
  BY <1>1, <1>2 DEF ViewInit, TableTyped, Seqs
<1>4. FrameTyped
  BY <1>2 DEF ViewInit, FrameTyped
<1>5. FetchTyped
  BY LiveViewAssumption DEF ViewInit, FetchTyped, Blank
<1>6. FetchInv
  BY DEF ViewInit, FetchInv
<1>7. FrameInv
  BY DEF ViewInit, FrameInv
<1> QED BY <1>2, <1>3, <1>4, <1>5, <1>6, <1>7, ViewParts

\* A recorded row is above the table's: no older row gains from it, and an anchor may
\* lose its place among the newest.
LEMMA RecordKeepsViewInv == ViewInv /\ Record => ViewInv'
<1> SUFFICES ASSUME ViewInv, Record PROVE ViewInv'
  OBVIOUS
<1>1. /\ TableTyped /\ FrameTyped /\ FetchTyped
      /\ IsFiniteSet(Seqs) /\ FetchInv /\ FrameInv /\ ViewTypeOK
  BY ViewParts DEF ViewInv
<1>2. /\ LatestSeq \in Int /\ LatestSeq >= -1 /\ Seqs = 0 .. LatestSeq
      /\ base \in Int /\ cursor \in Int /\ -1 <= base /\ base <= cursor
      /\ cursor <= LatestSeq
      /\ held \subseteq received /\ received \subseteq Seqs /\ view \subseteq Seqs
  BY <1>1, TableIsTyped
<1>3. PICK kind \in RowKinds :
          trace' = [n \in Seqs \cup {LatestSeq + 1} |-> IF n \in Seqs THEN trace[n] ELSE kind]
  BY DEF Record
<1> DEFINE L == LatestSeq
<1>4. Seqs' = 0 .. L + 1
  <2>1. Seqs' = Seqs \cup {L + 1}
    BY <1>3 DEF Seqs
  <2> HIDE DEF L
  <2> QED BY <1>2, <2>1 DEF L
<1>5. IsFiniteSet(Seqs') /\ LatestSeq' = L + 1
  <2>1. IsFiniteSet(0 .. L + 1) /\ Cardinality(0 .. L + 1) = IF 0 > L + 1 THEN 0 ELSE L + 1 - 0 + 1
    <3> HIDE DEF L
    <3> QED BY <1>2, FS_Interval DEF L
  <2>2. LatestSeq' = Cardinality(Seqs') - 1
    BY DEF LatestSeq
  <2>3. Cardinality(0 .. L + 1) = L + 2
    <3> HIDE DEF L
    <3> QED BY <1>2, <2>1 DEF L
  <2>4. LatestSeq' = (L + 2) - 1
    BY <1>4, <2>2, <2>3
  <2> HIDE DEF L
  <2> QED BY <1>2, <1>4, <2>1, <2>4 DEF L
<1>6. \A n \in Seqs : trace'[n] = trace[n]
  BY <1>3
<1>7. TableTyped'
  <2>1. trace' \in [Seqs \cup {LatestSeq + 1} -> RowKinds]
    BY <1>1, <1>3 DEF TableTyped
  <2>2. Seqs' = Seqs \cup {LatestSeq + 1}
    BY <1>3 DEF Seqs
  <2> QED BY <1>4, <1>5, <2>1, <2>2 DEF TableTyped
<1>8. UNCHANGED <<conn, base, cursor, received, held, view>>
  BY DEF Record, frameVars
<1>9. Seqs \subseteq Seqs'
  BY <1>3 DEF Seqs
<1>10. FrameTyped'
  <2>1. base \in -1 .. L + 1 /\ cursor \in -1 .. L + 1
    <3> HIDE DEF L
    <3> QED BY <1>2 DEF L
  <2> QED BY <1>1, <1>5, <1>8, <1>9, <2>1 DEF FrameTyped
<1>11. FetchInv' /\ FetchTyped'
  BY <1>1, FetchStays DEF Record, FetchInv
<1>12. \A n \in Seqs : n \in KeptAnchors' => n \in KeptAnchors
  <2> SUFFICES ASSUME NEW n \in Seqs, n \in KeptAnchors' PROVE n \in KeptAnchors
    OBVIOUS
  <2> DEFINE T == Light(Seqs)'
             S == Light(Seqs)
  <2>0. n \in Newest(T, AnchorCap) /\ trace'[n] = "anchor"
    BY DEF KeptAnchors, Structural
  <2>1. n \in T /\ n \in Newest(T, AnchorCap)
    BY <2>0 DEF Newest
  <2>2. S \subseteq T /\ n \in S
    BY <1>6, <1>9, <2>1 DEF Light
  <2>3. IsFiniteSet(T)
    <3>1. T \subseteq Seqs'
      BY DEF Light
    <3> HIDE DEF T
    <3> QED BY <1>5, <3>1, FS_Subset
  <2>4. AnchorCap \in Nat
    BY LiveViewAssumption
  <2> HIDE DEF T, S
  <2>5. n \in Newest(S, AnchorCap)
    BY <2>1, <2>2, <2>3, <2>4, NewestOfFewer
  <2>6. trace[n] = "anchor"
    BY <1>6, <2>0
  <2> QED BY <2>5, <2>6 DEF S, KeptAnchors, Structural
<1>13. FrameInv'
  <2>1. Shown' = Shown
    BY <1>8 DEF Shown
  <2>2. conn = "open" => 0 .. cursor \subseteq Seqs
    BY <1>2
  <2>3. conn' = "open" => \A n \in 0 .. cursor' : n > base' \/ n \in KeptAnchors' => n \in received'
    BY <1>1, <1>8, <1>12, <2>2 DEF FrameInv
  <2>4. received' \cap KeptAnchors' \subseteq Shown'
    BY <1>1, <1>2, <1>8, <1>12, <2>1 DEF FrameInv
  <2> QED BY <1>1, <1>8, <2>1, <2>3, <2>4 DEF FrameInv
<1> QED
  <2>1. /\ TableTyped' /\ FrameTyped' /\ FetchTyped'
        /\ IsFiniteSet(Seqs)' /\ FetchInv' /\ FrameInv'
    BY <1>5, <1>7, <1>10, <1>11, <1>13
  <2> QED BY <2>1, ViewParts, PTL

\* What holds of a state, part by part, with the table's arithmetic.
LEMMA ViewFacts ==
    ASSUME ViewInv
    PROVE  /\ TableTyped /\ FrameTyped /\ FetchTyped
           /\ IsFiniteSet(Seqs) /\ FetchInv /\ FrameInv /\ ViewTypeOK
           /\ LatestSeq \in Int /\ LatestSeq >= -1 /\ Seqs = 0 .. LatestSeq
           /\ base \in Int /\ cursor \in Int /\ -1 <= base /\ base <= cursor
           /\ cursor <= LatestSeq
           /\ held \subseteq received /\ received \subseteq Seqs /\ view \subseteq Seqs
BY ViewParts, TableIsTyped DEF ViewInv

\* A step of the connection, from what it leaves alone.
LEMMA FrameSteps ==
    ASSUME ViewInv, UNCHANGED <<serverVars, fetchVars>>, FrameTyped', FrameInv'
    PROVE  ViewInv'
<1>1. /\ TableTyped /\ FetchTyped /\ IsFiniteSet(Seqs) /\ FetchInv
  BY ViewFacts
<1>2. TableTyped' /\ IsFiniteSet(Seqs')
  BY <1>1, TableStays DEF serverVars
<1>3. FetchInv' /\ FetchTyped'
  BY <1>1, FetchStays DEF serverVars, FetchInv
<1>4. /\ TableTyped' /\ FrameTyped' /\ FetchTyped'
      /\ IsFiniteSet(Seqs)' /\ FetchInv' /\ FrameInv'
  BY <1>2, <1>3
<1> QED BY <1>4, ViewParts, PTL

\* A connection begins with the anchors before its base.
LEMMA AttachKeepsViewInv == ViewInv /\ Attach => ViewInv'
<1> SUFFICES ASSUME ViewInv, Attach PROVE ViewInv'
  OBVIOUS
<1>1. /\ TableTyped /\ FrameTyped /\ FetchTyped
      /\ IsFiniteSet(Seqs) /\ FetchInv /\ FrameInv /\ ViewTypeOK
      /\ LatestSeq \in Int /\ LatestSeq >= -1 /\ Seqs = 0 .. LatestSeq
      /\ view \subseteq Seqs
  BY ViewFacts
<1> DEFINE sent == IF LatestSeq > Window THEN AnchorsBefore(base') ELSE {}
<1>2. /\ base' = IF LatestSeq > Window THEN LatestSeq - Window ELSE -1
      /\ cursor' = base' /\ conn' = "open" /\ view' = view
      /\ Receive(sent, received) /\ UNCHANGED <<serverVars, fetchVars>>
  BY DEF Attach
<1>3. /\ base' \in -1 .. LatestSeq /\ base' \in Int
      /\ base' # -1 => LatestSeq > Window
  BY <1>1, <1>2, LiveViewAssumption
<1>4. sent \in SUBSET Seqs
  BY DEF AnchorsBefore, Newest, Structural
<1>5. trace' = trace
  BY <1>2 DEF serverVars
<1> HIDE DEF sent
<1>6. /\ received' = received \cup sent
      /\ held' \subseteq received' /\ received' \subseteq Seqs
      /\ received' \cap KeptAnchors' \subseteq Shown'
      /\ \A n \in received' : n > Max(Shown') - Window => n \in Shown'
      /\ received' # {} => Shown' # {}
  BY <1>1, <1>2, <1>4, <1>5, Receiving
<1>7. Seqs' = Seqs /\ LatestSeq' = LatestSeq /\ KeptAnchors' = KeptAnchors
  BY <1>5 DEF Seqs, LatestSeq, KeptAnchors, Newest, Structural, Light
<1>8. FrameTyped'
  <2>1. base' <= cursor'
    BY <1>2, <1>3
  <2> QED BY <1>1, <1>2, <1>3, <1>6, <1>7, <2>1 DEF FrameTyped
<1>9. ASSUME NEW n \in 0 .. cursor', n > base' \/ n \in KeptAnchors'
      PROVE  n \in received'
  <2>1. n \in Nat /\ n <= base'
    BY <1>2, <1>3
  <2>2. n \in KeptAnchors
    BY <1>3, <1>7, <1>9, <2>1
  <2>3. sent = AnchorsBefore(base')
    BY <1>3, <2>1 DEF sent
  <2> DEFINE T == Light(Seqs)
             S == Structural({m \in Seqs : m <= base'})
  <2>4. n \in T /\ n \in Newest(T, AnchorCap) /\ trace[n] = "anchor"
    BY <2>2 DEF KeptAnchors, Structural, Newest
  <2>5. S \subseteq T /\ n \in S
    BY <2>1, <2>4 DEF Light, Structural
  <2>6. IsFiniteSet(T)
    <3>1. T \subseteq Seqs
      BY DEF Light
    <3> HIDE DEF T
    <3> QED BY <1>1, <3>1, FS_Subset
  <2>7. AnchorCap \in Nat
    BY LiveViewAssumption
  <2> HIDE DEF T, S
  <2>8. n \in Newest(S, AnchorCap)
    BY <2>4, <2>5, <2>6, <2>7, NewestOfFewer
  <2> QED BY <1>6, <2>3, <2>8 DEF S, AnchorsBefore
<1>10. FrameInv'
  BY <1>6, <1>9 DEF FrameInv
<1> QED BY <1>2, <1>8, <1>10, FrameSteps

\* A poll sends the next rows without a gap.
LEMMA PollKeepsViewInv == ViewInv /\ Poll => ViewInv'
<1> SUFFICES ASSUME ViewInv, Poll PROVE ViewInv'
  OBVIOUS
<1>1. /\ TableTyped /\ FrameTyped /\ FetchTyped
      /\ IsFiniteSet(Seqs) /\ FetchInv /\ FrameInv /\ ViewTypeOK
      /\ LatestSeq \in Int /\ LatestSeq >= -1 /\ Seqs = 0 .. LatestSeq
      /\ base \in Int /\ cursor \in Int /\ -1 <= base /\ base <= cursor
      /\ cursor <= LatestSeq /\ view \subseteq Seqs
  BY ViewFacts
<1> DEFINE page == {n \in Unsent : n - cursor <= Page}
<1>2. /\ conn = "open" /\ conn' \in {"off", "open"}
      /\ Receive(page, received)
      /\ cursor' = IF page = {} THEN cursor ELSE Max(page)
      /\ UNCHANGED <<serverVars, base, view, fetchVars>>
  BY DEF Poll
<1>3. /\ page \in SUBSET Seqs
      /\ \A n \in page : n > cursor /\ n - cursor <= Page
      /\ \A n \in Seqs : n > cursor /\ n - cursor <= Page => n \in page
  BY DEF Unsent
<1>4. trace' = trace /\ Page \in Nat
  BY <1>2, LiveViewAssumption DEF serverVars
<1> HIDE DEF page
<1>5. /\ received' = received \cup page
      /\ held' \subseteq received' /\ received' \subseteq Seqs
      /\ received' \cap KeptAnchors' \subseteq Shown'
      /\ \A n \in received' : n > Max(Shown') - Window => n \in Shown'
      /\ received' # {} => Shown' # {}
  BY <1>1, <1>2, <1>3, <1>4, Receiving
<1>6. Seqs' = Seqs /\ LatestSeq' = LatestSeq /\ KeptAnchors' = KeptAnchors
  BY <1>4 DEF Seqs, LatestSeq, KeptAnchors, Newest, Structural, Light
<1>7. CASE page = {}
  <2>1. cursor' = cursor
    BY <1>2, <1>7
  <2>2. FrameTyped'
    BY <1>1, <1>2, <1>5, <1>6, <2>1 DEF FrameTyped
  <2>3. FrameInv'
    BY <1>1, <1>2, <1>5, <1>6, <2>1 DEF FrameInv
  <2> QED BY <1>2, <2>2, <2>3, FrameSteps
<1>8. CASE page # {}
  <2>1. cursor' \in page
    <3>1. LatestSeq \in Nat
      <4>1. PICK n \in page : n \in 0 .. LatestSeq
        BY <1>1, <1>3, <1>8
      <4> QED BY <1>1, <4>1
    <3>2. page \in SUBSET (0 .. LatestSeq)
      BY <1>1, <1>3
    <3>3. Max(page) \in page
      BY <1>8, <3>1, <3>2, Greatest
    <3> QED BY <1>2, <1>8, <3>3
  <2>2. /\ cursor' \in Nat /\ cursor' <= LatestSeq
        /\ cursor' > cursor /\ cursor' - cursor <= Page
    <3>1. cursor' \in 0 .. LatestSeq
      BY <1>1, <1>3, <2>1
    <3> QED BY <1>1, <1>3, <2>1, <3>1
  <2>3. FrameTyped'
    <3>1. cursor' \in -1 .. LatestSeq /\ base \in -1 .. LatestSeq /\ base <= cursor'
      BY <1>1, <2>2
    <3> QED BY <1>1, <1>2, <1>5, <1>6, <3>1 DEF FrameTyped
  <2>4. ASSUME NEW n \in 0 .. cursor', n > base' \/ n \in KeptAnchors'
        PROVE  n \in received'
    <3>1. n \in Nat /\ n \in Seqs /\ n <= cursor'
      BY <1>1, <2>2
    <3>2. CASE n <= cursor
      <4>1. n \in 0 .. cursor
        BY <1>1, <3>1, <3>2
      <4> QED BY <1>1, <1>2, <1>5, <1>6, <2>4, <4>1 DEF FrameInv
    <3>3. CASE n > cursor
      <4>1. n - cursor <= Page
        <5>1. cursor \in Int /\ cursor' \in Int /\ n \in Int /\ Page \in Int
          BY <1>1, <1>4, <2>2, <3>1
        <5>2. n <= cursor' /\ cursor' - cursor <= Page
          BY <2>2, <3>1
        <5>3. \A a, b, c, p \in Int : a <= b /\ b - c <= p => a - c <= p
          OBVIOUS
        <5> QED BY <5>1, <5>2, <5>3, Zenon
      <4> QED BY <1>3, <1>5, <3>1, <3>3, <4>1
    <3> QED BY <1>1, <3>1, <3>2, <3>3
  <2>5. FrameInv'
    BY <1>5, <2>4 DEF FrameInv
  <2> QED BY <1>2, <2>3, <2>5, FrameSteps
<1> QED BY <1>7, <1>8

\* A flush drops what the page need not show.
LEMMA FlushKeepsViewInv == ViewInv /\ FlushView => ViewInv'
<1> SUFFICES ASSUME ViewInv, FlushView PROVE ViewInv'
  OBVIOUS
<1>1. /\ FrameTyped /\ FrameInv
      /\ LatestSeq \in Int /\ Seqs = 0 .. LatestSeq
      /\ held \subseteq received /\ received \subseteq Seqs /\ view \subseteq Seqs
  BY ViewFacts
<1>2. /\ view' = Capped(Shown) /\ held' = {} /\ Shown # {}
      /\ UNCHANGED <<serverVars, conn, base, cursor, received, fetchVars>>
  BY DEF FlushView, Shown
<1>3. /\ trace' = trace /\ Seqs' = Seqs /\ LatestSeq' = LatestSeq
      /\ KeptAnchors' = KeptAnchors
  BY <1>2 DEF serverVars, Seqs, LatestSeq, KeptAnchors, Newest, Structural, Light
<1>4. Shown \in SUBSET Seqs
  BY <1>1 DEF Shown
<1>5. /\ Capped(Shown) \subseteq Shown /\ Capped(Shown) # {}
      /\ Max(Capped(Shown)) = Max(Shown)
      /\ \A n \in Shown : n > Max(Shown) - Window \/ n \in KeptAnchors => n \in Capped(Shown)
  BY <1>1, <1>2, <1>4, CapKeeps
<1>6. Shown' = Capped(Shown)
  BY <1>2 DEF Shown
<1>7. FrameTyped'
  BY <1>1, <1>2, <1>3, <1>4, <1>5 DEF FrameTyped
<1>8. received' \cap KeptAnchors' \subseteq Shown'
  BY <1>1, <1>2, <1>3, <1>5, <1>6 DEF FrameInv
<1>9. \A n \in received' : n > Max(Shown') - Window => n \in Shown'
  BY <1>1, <1>2, <1>5, <1>6 DEF FrameInv
<1>10. FrameInv'
  BY <1>1, <1>2, <1>3, <1>5, <1>6, <1>8, <1>9 DEF FrameInv
<1> QED BY <1>2, <1>7, <1>10, FrameSteps

\* A connection that breaks, or is given up.
LEMMA LeavingKeepsViewInv == ViewInv /\ (Drop \/ Rebuild) => ViewInv'
<1> SUFFICES ASSUME ViewInv, Drop \/ Rebuild PROVE ViewInv'
  OBVIOUS
<1>1. TableTyped /\ FrameTyped /\ FrameInv /\ IsFiniteSet(Seqs)
  BY ViewFacts
<1>2. UNCHANGED <<serverVars, base, cursor, view, fetchVars>> /\ conn' = "off"
  BY DEF Drop, Rebuild
<1>3. Seqs' = Seqs /\ LatestSeq' = LatestSeq
  BY <1>1, <1>2, TableStays DEF serverVars
<1>4. CASE Drop
  <2>1. FrameInv'
    BY <1>1, <1>2, <1>4, FrameStays DEF Drop, serverVars
  <2>2. FrameTyped'
    BY <1>1, <1>2, <1>3, <1>4 DEF Drop, FrameTyped
  <2> QED BY <1>2, <2>1, <2>2, FrameSteps
<1>5. CASE Rebuild
  <2>1. FrameInv'
    BY <1>2, <1>5, SubscriptionEnds DEF Rebuild
  <2>2. FrameTyped'
    BY <1>1, <1>2, <1>3, <1>5 DEF Rebuild, Unsubscribe, FrameTyped
  <2> QED BY <1>2, <2>1, <2>2, FrameSteps
<1> QED BY <1>4, <1>5

\* The task finishes, or is researched again.
LEMMA StatusKeepsViewInv == ViewInv /\ (FinishTask \/ ResearchAgain) => ViewInv'
<1> SUFFICES ASSUME ViewInv, FinishTask \/ ResearchAgain PROVE ViewInv'
  OBVIOUS
<1>1. /\ TableTyped /\ FrameTyped /\ FetchTyped
      /\ IsFiniteSet(Seqs) /\ FetchInv /\ FrameInv
  BY ViewFacts
<1>2. Change /\ UNCHANGED <<trace, frameVars, fetchVars>> /\ finished' \in BOOLEAN
  BY DEF FinishTask, ResearchAgain
<1>3. TableTyped' /\ IsFiniteSet(Seqs') /\ Seqs' = Seqs /\ LatestSeq' = LatestSeq
  BY <1>1, <1>2, TableStays
<1>4. FrameTyped' /\ FrameInv'
  BY <1>1, <1>2, <1>3, FramesStay, FrameStays DEF frameVars
<1>5. FetchInv' /\ FetchTyped'
  BY <1>1, <1>2, FetchStays
<1>6. /\ TableTyped' /\ FrameTyped' /\ FetchTyped'
      /\ IsFiniteSet(Seqs)' /\ FetchInv' /\ FrameInv'
  BY <1>3, <1>4, <1>5
<1> QED BY <1>6, ViewParts, PTL

\* A step of the page, from what it does to the connection and to its requests.
LEMMA PageSteps ==
    ASSUME ViewInv, UNCHANGED serverVars, FrameTyped', FrameInv', FetchTyped', FetchInv'
    PROVE  ViewInv'
<1>1. TableTyped /\ IsFiniteSet(Seqs)
  BY ViewFacts
<1>2. TableTyped' /\ IsFiniteSet(Seqs')
  BY <1>1, TableStays DEF serverVars
<1>3. /\ TableTyped' /\ FrameTyped' /\ FetchTyped'
      /\ IsFiniteSet(Seqs)' /\ FetchInv' /\ FrameInv'
  BY <1>2
<1> QED BY <1>3, ViewParts, PTL

\* What a request will be answered with is the state the server is in.
LEMMA RefreshKeepsViewInv == ViewInv /\ Refresh => ViewInv'
<1> SUFFICES ASSUME ViewInv, Refresh PROVE ViewInv'
  OBVIOUS
<1>1. /\ TableTyped /\ FrameTyped /\ FetchTyped
      /\ IsFiniteSet(Seqs) /\ FetchInv /\ FrameInv
  BY ViewFacts
<1> DEFINE new == [id |-> requests + 1, answer |-> [at |-> version, finished |-> finished]]
<1>2. /\ requests < MaxRequests
      /\ requests' = requests + 1 /\ current' = requests + 1
      /\ asked' = asked \cup {new}
      /\ UNCHANGED <<serverVars, frameVars, snapshot>>
  BY DEF Refresh
<1>3. Seqs' = Seqs /\ LatestSeq' = LatestSeq /\ trace' = trace
  BY <1>1, <1>2, TableStays DEF serverVars
<1>4. FrameTyped' /\ FrameInv'
  BY <1>1, <1>2, <1>3, FramesStay, FrameStays DEF frameVars
<1>5. /\ version \in Nat /\ version' = version /\ requests \in Nat /\ finished \in BOOLEAN
      /\ requests' \in Nat /\ MaxRequests \in Nat
  BY <1>1, <1>2, LiveViewAssumption DEF FetchInv, serverVars
<1>6. new.id = requests + 1 /\ new.answer \in Answers /\ new.answer.at = version
  BY <1>5 DEF Answers
<1>7. FetchTyped'
  BY <1>1, <1>2, <1>5 DEF FetchTyped
<1>8. \A r \in asked : r.id \in 1 .. requests /\ r.answer \in Answers /\ r.id # requests + 1
  BY <1>1, <1>5 DEF FetchInv
<1>9. asked' \subseteq [id : 1 .. requests', answer : Answers]
  <2>1. new \in [id : 1 .. requests + 1, answer : Answers]
    BY <1>5, <1>6
  <2>2. 1 .. requests \subseteq 1 .. requests + 1
    BY <1>5
  <2>3. asked \subseteq [id : 1 .. requests, answer : Answers]
    BY <1>1 DEF FetchInv
  <2> HIDE DEF new
  <2> QED BY <1>2, <2>1, <2>2, <2>3
<1>10. \A r \in asked' : r.answer.at <= version
  <2> HIDE DEF new
  <2> QED BY <1>1, <1>2, <1>5, <1>6 DEF FetchInv
<1>11. \A r \in asked' : r.id = current' => r.answer.at >= snapshot'.at
  <2>1. version >= snapshot.at /\ snapshot' = snapshot
    <3>1. snapshot.at \in Int
      BY <1>1 DEF FetchInv, Blank, Answers
    <3> QED BY <1>1, <1>2, <1>5, <3>1 DEF FetchTyped
  <2> HIDE DEF new
  <2> QED BY <1>2, <1>6, <1>8, <2>1
<1>12. \A r, q \in asked' : r.id = q.id => r = q
  <2> HIDE DEF new
  <2> QED BY <1>1, <1>2, <1>6, <1>8 DEF FetchInv
<1>13. FetchInv'
  <2>1. snapshot' \in {Blank} \cup Answers /\ finished' \in BOOLEAN
    BY <1>1, <1>2 DEF FetchInv, serverVars
  <2> HIDE DEF new
  <2> QED BY <1>5, <1>9, <1>10, <1>11, <1>12, <2>1 DEF FetchInv
<1> QED BY <1>2, <1>4, <1>7, <1>13, PageSteps

\* A request is answered once, and only the latest is heard.
LEMMA ArriveKeepsViewInv ==
    ViewInv /\ Arrive => ViewInv' /\ snapshot'.at >= snapshot.at
<1> SUFFICES ASSUME ViewInv, Arrive PROVE ViewInv' /\ snapshot'.at >= snapshot.at
  OBVIOUS
<1>1. /\ TableTyped /\ FrameTyped /\ FetchTyped
      /\ IsFiniteSet(Seqs) /\ FetchInv /\ FrameInv
  BY ViewFacts
<1>2. /\ UNCHANGED <<serverVars, base, cursor, view, current, requests>>
  BY DEF Arrive
<1>3. PICK r \in asked :
          /\ asked' = asked \ {r}
          /\ IF Heard(r)
             THEN /\ snapshot' = r.answer
                  /\ IF r.answer.finished THEN conn' = "shut" /\ Unsubscribe
                     ELSE /\ conn' = IF conn = "shut" THEN "off" ELSE conn
                          /\ UNCHANGED <<held, received>>
             ELSE UNCHANGED <<snapshot, conn, held, received>>
  BY DEF Arrive
<1>4. Seqs' = Seqs /\ LatestSeq' = LatestSeq /\ trace' = trace
  BY <1>1, <1>2, TableStays DEF serverVars
<1>5. /\ r.answer \in Answers /\ r.answer.at <= version /\ version' = version
      /\ finished' = finished /\ version \in Nat
      /\ r.id = current => r.answer.at >= snapshot.at
  BY <1>1, <1>2 DEF FetchInv, serverVars
<1>6. snapshot.at \in Int
  BY <1>1 DEF FetchInv, Blank, Answers
<1>7. \/ /\ snapshot' = r.answer /\ r.id = current
         /\ conn' # "open" /\ conn' \in {"off", "shut"} /\ Unsubscribe
      \/ /\ snapshot' = r.answer /\ r.id = current
         /\ conn' \in {"off", "open", "shut"}
         /\ conn' = "open" => conn = "open"
         /\ UNCHANGED <<held, received>>
      \/ UNCHANGED <<snapshot, conn, held, received>>
  BY <1>1, <1>3 DEF Heard, FrameTyped
<1>8. FrameTyped' /\ FrameInv'
  <2>1. CASE conn' # "open" /\ conn' \in {"off", "shut"} /\ Unsubscribe
    <3>1. FrameInv'
      BY <2>1, SubscriptionEnds
    <3>2. FrameTyped'
      BY <1>1, <1>2, <1>4, <2>1 DEF FrameTyped, Unsubscribe
    <3> QED BY <3>1, <3>2
  <2>2. CASE /\ conn' \in {"off", "open", "shut"}
             /\ conn' = "open" => conn = "open"
             /\ UNCHANGED <<held, received>>
    <3>1. FrameInv'
      BY <1>1, <1>2, <1>4, <2>2, FrameStays
    <3>2. FrameTyped'
      BY <1>1, <1>2, <1>4, <2>2 DEF FrameTyped
    <3> QED BY <3>1, <3>2
  <2> QED BY <1>1, <1>7, <2>1, <2>2 DEF FrameTyped
<1>9. snapshot'.at >= snapshot.at /\ snapshot' \in {Blank} \cup Answers /\ snapshot'.at <= version
  BY <1>1, <1>5, <1>6, <1>7 DEF FetchInv, FetchTyped
<1>10. FetchTyped'
  BY <1>1, <1>2, <1>5, <1>9 DEF FetchTyped
<1>11. \A q \in asked' : q.id = current' => q.answer.at >= snapshot'.at
  <2> SUFFICES ASSUME NEW q \in asked', q.id = current PROVE q.answer.at >= snapshot'.at
    BY <1>2
  <2>1. q \in asked /\ q # r
    BY <1>3
  <2>2. r.id # current
    BY <1>1, <2>1 DEF FetchInv
  <2>3. snapshot' = snapshot
    BY <1>7, <2>2
  <2> QED BY <1>1, <2>1, <2>3 DEF FetchInv
<1>12. FetchInv'
  <2>1. asked' \subseteq asked
    BY <1>3
  <2> QED BY <1>1, <1>2, <1>5, <1>9, <1>11, <2>1 DEF FetchInv
<1> QED BY <1>2, <1>8, <1>9, <1>10, <1>12, PageSteps

\* A request that fails is forgotten.
LEMMA FailKeepsViewInv == ViewInv /\ Fail => ViewInv'
<1> SUFFICES ASSUME ViewInv, Fail PROVE ViewInv'
  OBVIOUS
<1>1. /\ TableTyped /\ FrameTyped /\ FetchTyped
      /\ IsFiniteSet(Seqs) /\ FetchInv /\ FrameInv
  BY ViewFacts
<1>2. /\ UNCHANGED <<serverVars, frameVars, current, requests, snapshot>>
      /\ asked' \subseteq asked
  BY DEF Fail
<1>3. Seqs' = Seqs /\ LatestSeq' = LatestSeq /\ trace' = trace
  BY <1>1, <1>2, TableStays DEF serverVars
<1>4. FrameTyped' /\ FrameInv'
  BY <1>1, <1>2, <1>3, FramesStay, FrameStays DEF frameVars
<1>5. FetchTyped' /\ FetchInv'
  BY <1>1, <1>2 DEF FetchTyped, FetchInv, serverVars
<1> QED BY <1>2, <1>4, <1>5, PageSteps

\* The page of another task listens to none of this one's requests.
LEMMA ReopenKeepsViewInv == ViewInv /\ Reopen => ViewInv'
<1> SUFFICES ASSUME ViewInv, Reopen PROVE ViewInv'
  OBVIOUS
<1>1. /\ TableTyped /\ FrameTyped /\ FetchTyped
      /\ IsFiniteSet(Seqs) /\ FetchInv /\ FrameInv
  BY ViewFacts
<1>2. /\ snapshot' = Blank /\ current' = 0 /\ conn' = "off" /\ Unsubscribe /\ view' = {}
      /\ UNCHANGED <<serverVars, base, cursor, asked, requests>>
  BY DEF Reopen
<1>3. Seqs' = Seqs /\ LatestSeq' = LatestSeq
  BY <1>1, <1>2, TableStays DEF serverVars
<1>4. FrameTyped' /\ FrameInv'
  BY <1>1, <1>2, <1>3, SubscriptionEnds DEF FrameTyped, Unsubscribe
<1>5. version \in Nat /\ requests \in Nat /\ version' = version /\ finished' = finished
  BY <1>1, <1>2 DEF FetchInv, serverVars
<1>6. FetchTyped'
  BY <1>1, <1>2, <1>5 DEF FetchTyped, Blank
<1>7. \A r \in asked : r.id # 0
  BY <1>1, <1>5 DEF FetchInv
<1>8. FetchInv'
  BY <1>1, <1>2, <1>5, <1>7 DEF FetchInv
<1> QED BY <1>2, <1>4, <1>6, <1>8, PageSteps

\* The invariant is inductive.
LEMMA ViewGoesOn == ViewInv /\ [ViewNext]_viewVars => ViewInv'
<1> SUFFICES ASSUME ViewInv, [ViewNext]_viewVars PROVE ViewInv'
  OBVIOUS
<1>1. CASE ViewNext
  BY <1>1, RecordKeepsViewInv, StatusKeepsViewInv, AttachKeepsViewInv, PollKeepsViewInv,
     LeavingKeepsViewInv, FlushKeepsViewInv, RefreshKeepsViewInv, ArriveKeepsViewInv,
     FailKeepsViewInv, ReopenKeepsViewInv
  DEF ViewNext
<1>2. CASE UNCHANGED viewVars
  <2>1. /\ TableTyped /\ FrameTyped /\ FetchTyped
        /\ IsFiniteSet(Seqs) /\ FetchInv /\ FrameInv
    BY ViewFacts
  <2>2. UNCHANGED <<serverVars, frameVars, fetchVars>>
    BY <1>2 DEF viewVars
  <2>3. Seqs' = Seqs /\ LatestSeq' = LatestSeq /\ trace' = trace
    BY <2>1, <2>2, TableStays DEF serverVars
  <2>4. FrameTyped' /\ FrameInv'
    BY <2>1, <2>2, <2>3, FramesStay, FrameStays DEF frameVars
  <2> QED BY <2>2, <2>4, FrameSteps
<1> QED BY <1>1, <1>2

\* stream.py and useWorkspace.ts, for every size of the window, of the page and of the
\* caps, and whatever connection, requests and tabs do: a page that is connected has,
\* up to the server's cursor, every anchor among the newest rows that are not heavy, as
\* many as its cap lets stay, and the newest rows of what its connection has sent.
THEOREM AnchorsAlwaysReachTheView == ViewSpec => []AnchorsReachTheView
<1>1. ViewInv => AnchorsReachTheView
  <2> SUFFICES ASSUME ViewInv, conn = "open", NEW n \in 0 .. cursor,
                      \/ n \in KeptAnchors
                      \/ n > base /\ n > Max(Shown) - Window
               PROVE  n \in Shown
    BY DEF AnchorsReachTheView, Shown
  <2>1. FrameInv
    BY DEF ViewInv
  <2> QED BY <2>1 DEF FrameInv
<1> QED BY <1>1, ViewBegins, ViewGoesOn, PTL DEF ViewSpec

\* useWorkspace.ts's refresh, for every number of requests and changes: an answer that
\* arrives late never replaces a newer state of the task on its page.
THEOREM PagesNeverGoBack == ViewSpec => SnapshotsNeverGoBack
<1>1. ViewInv /\ [ViewNext]_viewVars
        => [snapshot' # Blank => snapshot'.at >= snapshot.at]_snapshot
  <2> SUFFICES ASSUME ViewInv, [ViewNext]_viewVars, snapshot' # snapshot, snapshot' # Blank
               PROVE  snapshot'.at >= snapshot.at
    OBVIOUS
  <2>1. CASE Arrive
    BY <2>1, ArriveKeepsViewInv
  <2> QED BY <2>1 DEF ViewNext, viewVars, fetchVars, frameVars, Record, FinishTask,
                      ResearchAgain, Attach, Poll, Drop, FlushView, Rebuild, Refresh,
                      Fail, Reopen
<1> QED BY <1>1, ViewBegins, ViewGoesOn, PTL DEF ViewSpec, SnapshotsNeverGoBack

-----------------------------------------------------------------------------
(***************************************************************************)
(* The live trace: pieces of text are named by the place of their row      *)
(* among those emitted, so that the text that is kept can be followed.     *)
(***************************************************************************)

Kind == {"seat_deliberation", "model_token", "seat_working", "model_done"}

\* A piece of text is named by its place among the rows emitted.
Piece == Nat

TraceRow == [kind : Kind, slice : Slice, text : Seq(Piece)]

\* What a row contributes to the text that is kept.
KeptOf == [r \in TraceRow |-> IF r.kind = "seat_working" THEN <<>> ELSE r.text]

\* KeptText is what the rows of a sequence contribute, one after the other.
LEMMA KeptIsContributed ==
    ASSUME NEW list \in Seq(TraceRow)
    PROVE  KeptText(list) = Contributed(list, KeptOf)
<1>1. \A i \in DOMAIN list : list[i] \in TraceRow
  OBVIOUS
<1>2. [i \in DOMAIN list |-> IF list[i].kind = "seat_working" THEN <<>> ELSE list[i].text]
          = [i \in DOMAIN list |-> KeptOf[list[i]]]
  BY <1>1 DEF KeptOf
<1> QED BY <1>2 DEF KeptText, Contributed

\* What a row contributes is text.
LEMMA KeptContributes == Contributes(KeptOf, TraceRow, Piece)
<1>1. \A r \in TraceRow : r.text \in Seq(Piece) /\ <<>> \in Seq(Piece)
  BY DEF TraceRow
<1> QED BY <1>1 DEF Contributes, KeptOf

\* Rows, and text, that follow each other may be grouped either way.
LEMMA RowsRegroup == \A x, y, z \in Seq(TraceRow) : (x \o y) \o z = x \o (y \o z)
BY Regroup

LEMMA TextsRegroup == \A x, y, z \in Seq(Piece) : (x \o y) \o z = x \o (y \o z)
BY Regroup

\* What is kept of rows of the trace is text.
LEMMA KeptTextType ==
    ASSUME NEW list \in Seq(TraceRow)
    PROVE  KeptText(list) \in Seq(Piece)
BY KeptIsContributed, KeptContributes, ContributedType

\* What is kept of two runs of rows, and of one more row.
LEMMA KeptTextConcat ==
    ASSUME NEW a \in Seq(TraceRow), NEW b \in Seq(TraceRow)
    PROVE  KeptText(a \o b) = KeptText(a) \o KeptText(b)
<1>1. a \o b \in Seq(TraceRow)
  OBVIOUS
<1>2. \A x \in Seq(TraceRow) : KeptText(x) = Contributed(x, KeptOf)
  BY KeptIsContributed
<1>3. Contributed(a \o b, KeptOf) = Contributed(a, KeptOf) \o Contributed(b, KeptOf)
  BY KeptContributes, ContributedConcat
<1> QED BY <1>1, <1>2, <1>3, Zenon

LEMMA KeptTextAppend ==
    ASSUME NEW a \in Seq(TraceRow), NEW r \in TraceRow
    PROVE  KeptText(Append(a, r)) = KeptText(a) \o KeptOf[r]
<1>1. Append(a, r) \in Seq(TraceRow)
  OBVIOUS
<1>2. \A x \in Seq(TraceRow) : KeptText(x) = Contributed(x, KeptOf)
  BY KeptIsContributed
<1>3. \A x \in Seq(TraceRow) :
         Contributed(Append(x, r), KeptOf) = Contributed(x, KeptOf) \o KeptOf[r]
  BY KeptContributes, ContributedAppend
<1> QED BY <1>1, <1>2, <1>3, Zenon

-----------------------------------------------------------------------------
(***************************************************************************)
(* Coalescing.  Coalesced folds a batch row by row; what it has done with  *)
(* a prefix is the same for every batch that begins with it.               *)
(***************************************************************************)

\* A fold of the first n rows of a batch, step by step; there is one, and only one.
Merging(f, list, n) ==
    f = [i \in 0 .. n |-> IF i = 0 THEN <<>> ELSE Joined(f[i - 1], list[i])]

LEMMA MergingExists ==
    ASSUME NEW list, NEW N \in Nat
    PROVE  \E f : Merging(f, list, N)
<1> DEFINE T == {n \in Nat : \E f : Merging(f, list, n)}
<1>1. 0 \in T
  <2>1. \A i \in 0 .. 0 : i = 0
    OBVIOUS
  <2>2. Merging([i \in 0 .. 0 |-> <<>>], list, 0)
    BY <2>1 DEF Merging
  <2> QED BY <2>2
<1>2. ASSUME NEW n \in T PROVE n + 1 \in T
  <2>1. n \in Nat /\ \E f : Merging(f, list, n)
    OBVIOUS
  <2>2. PICK f : Merging(f, list, n)
    BY <2>1
  <2> DEFINE new == Joined(f[n], list[n + 1])
             g == [i \in 0 .. n + 1 |-> IF i = n + 1 THEN new ELSE f[i]]
  <2>3. \A i \in 0 .. n : f[i] = IF i = 0 THEN <<>> ELSE Joined(f[i - 1], list[i])
    BY <2>2 DEF Merging
  <2>4. ASSUME NEW i \in 0 .. n + 1
        PROVE  g[i] = IF i = 0 THEN <<>> ELSE Joined(g[i - 1], list[i])
    <3> HIDE DEF T
    <3>1. CASE i = n + 1
      <4>1. i # 0 /\ i - 1 = n /\ n \in 0 .. n + 1 /\ n # n + 1
        BY <2>1, <3>1
      <4>2. g[i] = new /\ g[i - 1] = f[n]
        BY <3>1, <4>1
      <4> HIDE DEF g
      <4> QED BY <3>1, <4>1, <4>2
    <3>2. CASE i # n + 1
      <4>1. i \in 0 .. n /\ g[i] = f[i]
        BY <2>1, <3>2
      <4>2. i # 0 => i - 1 \in 0 .. n + 1 /\ i - 1 # n + 1
        BY <2>1, <4>1
      <4>3. i # 0 => g[i - 1] = f[i - 1]
        BY <4>2
      <4> HIDE DEF g
      <4> QED BY <2>3, <4>1, <4>3
    <3> QED BY <3>1, <3>2
  <2>5. g = [i \in 0 .. n + 1 |-> g[i]]
    OBVIOUS
  <2> HIDE DEF g
  <2>6. Merging(g, list, n + 1)
    BY <2>4, <2>5 DEF Merging
  <2> QED BY <2>1, <2>6
<1>3. T \in SUBSET Nat
  OBVIOUS
<1> HIDE DEF T
<1>4. N \in T
  BY <1>1, <1>2, <1>3, EveryNumber
<1> QED BY <1>4 DEF T

LEMMA MergingAgree ==
    ASSUME NEW s, NEW t, NEW n \in Nat, NEW m \in Nat, n <= m, Alike(s, t, n),
           NEW f, NEW g, Merging(f, s, n), Merging(g, t, m)
    PROVE  f[n] = g[n]
<1> DEFINE T == {k \in Nat : k <= n => f[k] = g[k]}
<1>0. /\ \A i \in 0 .. n : f[i] = IF i = 0 THEN <<>> ELSE Joined(f[i - 1], s[i])
      /\ \A i \in 0 .. m : g[i] = IF i = 0 THEN <<>> ELSE Joined(g[i - 1], t[i])
      /\ \A i \in 1 .. n : s[i] = t[i]
  BY DEF Merging, Alike
<1>1. 0 \in T
  <2>1. 0 \in 0 .. n /\ 0 \in 0 .. m
    OBVIOUS
  <2> QED BY <1>0, <2>1
<1>2. ASSUME NEW k \in T PROVE k + 1 \in T
  <2> SUFFICES ASSUME k + 1 <= n PROVE f[k + 1] = g[k + 1]
    OBVIOUS
  <2>1. /\ k \in Nat /\ k <= n /\ k + 1 \in 0 .. n /\ k + 1 \in 0 .. m /\ k + 1 \in 1 .. n
        /\ k + 1 # 0 /\ (k + 1) - 1 = k
    OBVIOUS
  <2>2. f[k] = g[k]
    BY <2>1
  <2> QED BY <1>0, <2>1, <2>2
<1>3. T \in SUBSET Nat
  OBVIOUS
<1> HIDE DEF T
<1>4. n \in T
  BY <1>1, <1>2, <1>3, EveryNumber
<1> QED BY <1>4 DEF T

\* Coalesced is the last value of any such fold, hence the recurrence on one more row.
LEMMA CoalescedIs ==
    ASSUME NEW list, Len(list) \in Nat
    PROVE  \E f : Merging(f, list, Len(list)) /\ Coalesced(list) = f[Len(list)]
<1> DEFINE f == CHOOSE g : Merging(g, list, Len(list))
<1>1. Coalesced(list) = f[Len(list)]
  BY DEF Coalesced, Merging
<1>2. Merging(f, list, Len(list))
  BY MergingExists
<1> QED BY <1>1, <1>2

LEMMA CoalescedNothing == Coalesced(<<>>) = <<>>
<1>1. Len(<<>>) = 0
  OBVIOUS
<1>2. PICK f : Merging(f, <<>>, 0) /\ Coalesced(<<>>) = f[0]
  BY <1>1, CoalescedIs
<1>3. 0 \in 0 .. 0
  OBVIOUS
<1> QED BY <1>2, <1>3 DEF Merging

LEMMA CoalescedAppend ==
    ASSUME NEW S, NEW list \in Seq(S), NEW r \in S
    PROVE  Coalesced(Append(list, r)) = Joined(Coalesced(list), r)
<1>a. PICK n \in Nat : n = Len(list)
  OBVIOUS
<1>b. PICK more : more = Append(list, r)
  OBVIOUS
<1>1. /\ Len(list) = n /\ Len(more) = n + 1 /\ more[n + 1] = r
      /\ \A i \in 1 .. n : list[i] = more[i]
  BY <1>a, <1>b, AppendProperties
<1>2. PICK f : Merging(f, list, n) /\ Coalesced(list) = f[n]
  BY <1>1, CoalescedIs
<1>3. PICK g : Merging(g, more, n + 1) /\ Coalesced(more) = g[n + 1]
  <2>1. Len(more) \in Nat
    BY <1>1
  <2> QED BY <1>1, <2>1, CoalescedIs
<1>4. g[n + 1] = Joined(g[n], more[n + 1])
  <2>1. n + 1 \in 0 .. n + 1 /\ n + 1 # 0 /\ (n + 1) - 1 = n
    OBVIOUS
  <2>2. \A i \in 0 .. n + 1 : g[i] = IF i = 0 THEN <<>> ELSE Joined(g[i - 1], more[i])
    BY <1>3 DEF Merging
  <2> QED BY <2>1, <2>2
<1>5. f[n] = g[n]
  <2>1. Alike(list, more, n) /\ n <= n + 1 /\ n + 1 \in Nat
    BY <1>1 DEF Alike
  <2> QED BY <1>2, <1>3, <2>1, MergingAgree
<1> QED BY <1>1, <1>2, <1>3, <1>4, <1>5, <1>b

\* A row joins those that are kept.
JoinedWell(kept, r, new) ==
    /\ new \in Seq(TraceRow)
    /\ KeptText(new) = KeptText(kept) \o KeptOf[r]
    /\ \A q \in Range(new) :
          \/ q \in Range(kept) \/ q = r
          \/ \E p \in Range(kept) :
                SameSlice(p, q) /\ SameSlice(r, q) /\ q.text = p.text \o r.text
    /\ Closing(kept) \subseteq Range(new)
    /\ r.kind \in ClosingKinds => r \in Range(new)

LEMMA AppendedWell ==
    ASSUME NEW kept \in Seq(TraceRow), NEW r \in TraceRow
    PROVE  JoinedWell(kept, r, Append(kept, r))
<1>1. Append(kept, r) \in Seq(TraceRow)
  OBVIOUS
<1>2. Range(Append(kept, r)) = Range(kept) \cup {r}
  BY RangeAppend
<1>3. KeptText(Append(kept, r)) = KeptText(kept) \o KeptOf[r]
  BY KeptTextAppend
<1> QED BY <1>1, <1>2, <1>3 DEF JoinedWell, Closing

LEMMA JoinsWell ==
    ASSUME NEW kept \in Seq(TraceRow), NEW r \in TraceRow
    PROVE  JoinedWell(kept, r, Joined(kept, r))
<1>1. CASE kept = <<>> \/ ~ SameSlice(Last(kept), r)
             \/ (r.kind \notin TokenKinds /\ r.kind # "seat_working")
  <2>1. Joined(kept, r) = Append(kept, r)
    BY <1>1 DEF Joined
  <2> QED BY <2>1, AppendedWell
<1>2. CASE kept # <<>> /\ SameSlice(Last(kept), r)
             /\ (r.kind \in TokenKinds \/ r.kind = "seat_working")
  <2>1. PICK front \in Seq(TraceRow), last \in TraceRow : kept = Append(front, last)
    BY <1>2, SequenceEmptyOrAppend
  <2> DEFINE new == IF r.kind \in TokenKinds THEN [last EXCEPT !.text = @ \o r.text] ELSE r
  <2>2. Last(kept) = last /\ SameSlice(last, r)
    BY <1>2, <2>1, LastReplaced
  <2>3. /\ last.kind = r.kind /\ last.slice = r.slice
        /\ last.text \in Seq(Piece) /\ r.text \in Seq(Piece) /\ r.kind \in Kind /\ r.slice \in Slice
        /\ r.kind \notin ClosingKinds
    BY <1>2, <2>2 DEF SameSlice, TraceRow, TokenKinds, ClosingKinds
  <2>4. /\ new \in TraceRow /\ new.kind = r.kind /\ new.slice = r.slice
        /\ new = r \/ new.text = last.text \o r.text
    <3>0. last.text \o r.text \in Seq(Piece)
      BY <2>3, ConcatProperties
    <3>1. PICK text \in Seq(Piece) : text = last.text \o r.text
      BY <3>0
    <3>2. CASE r.kind \in TokenKinds
      <4>1. new = [last EXCEPT !.text = text]
        BY <3>1, <3>2
      <4> HIDE DEF new
      <4> QED BY <2>3, <3>1, <4>1 DEF TraceRow
    <3>3. CASE r.kind \notin TokenKinds
      BY <3>3
    <3> QED BY <3>2, <3>3
  <2>5. KeptOf[last] \o KeptOf[r] = KeptOf[new] /\ KeptOf[last] \in Seq(Piece) /\ KeptOf[r] \in Seq(Piece)
    <3>1. CASE r.kind \in TokenKinds
      <4>1. r.kind # "seat_working" /\ new.text = last.text \o r.text
        BY <2>3, <3>1 DEF TokenKinds, TraceRow
      <4> HIDE DEF new
      <4> QED BY <2>3, <2>4, <4>1 DEF KeptOf
    <3>2. CASE r.kind \notin TokenKinds
      <4>1. r.kind = "seat_working" /\ new = r
        BY <1>2, <3>2
      <4>2. <<>> \o <<>> = <<>> /\ <<>> \in Seq(Piece)
        OBVIOUS
      <4> HIDE DEF new
      <4> QED BY <2>3, <4>1, <4>2 DEF KeptOf
    <3> QED BY <3>1, <3>2
  <2>6. Joined(kept, r) = Append(front, new)
    <3>1. \A x \in TraceRow : [kept EXCEPT ![Len(kept)] = x] = Append(front, x)
      BY <2>1, LastReplaced
    <3>2. kept[Len(kept)] = last /\ Len(kept) \in DOMAIN kept
      BY <2>1, <2>2 DEF Last
    <3>3. CASE r.kind \in TokenKinds
      <4>1. Joined(kept, r) = [kept EXCEPT ![Len(kept)].text = @ \o r.text]
        BY <1>2, <3>3 DEF Joined
      <4>2. [kept EXCEPT ![Len(kept)].text = @ \o r.text]
                = [kept EXCEPT ![Len(kept)] = [kept[Len(kept)] EXCEPT !.text = @ \o r.text]]
        OBVIOUS
      <4>3. [kept[Len(kept)] EXCEPT !.text = @ \o r.text] = new
        BY <3>2, <3>3
      <4> HIDE DEF new
      <4> QED BY <2>4, <3>1, <4>1, <4>2, <4>3
    <3>4. CASE r.kind \notin TokenKinds
      <4>1. Joined(kept, r) = [kept EXCEPT ![Len(kept)] = r] /\ new = r
        BY <1>2, <3>4 DEF Joined
      <4> HIDE DEF new
      <4> QED BY <3>1, <4>1
    <3> QED BY <3>3, <3>4
  <2> HIDE DEF new
  <2>7. Append(front, new) \in Seq(TraceRow)
    BY <2>4
  <2>8. KeptText(Append(front, new)) = KeptText(kept) \o KeptOf[r]
    <3>1. KeptText(Append(front, new)) = KeptText(front) \o KeptOf[new]
      BY <2>4, KeptTextAppend
    <3>2. KeptText(kept) = KeptText(front) \o KeptOf[last]
      BY <2>1, KeptTextAppend
    <3>3. KeptText(front) \in Seq(Piece)
      BY KeptTextType
    <3>5. (KeptText(front) \o KeptOf[last]) \o KeptOf[r] = KeptText(front) \o (KeptOf[last] \o KeptOf[r])
      BY <2>5, <3>3, TextsRegroup, Zenon
    <3> QED BY <2>5, <3>1, <3>2, <3>5
  <2>9. Range(Append(front, new)) = Range(front) \cup {new} /\ Range(kept) = Range(front) \cup {last}
    BY <2>1, <2>4, RangeAppend
  <2>10. last.kind \notin ClosingKinds
    BY <2>3
  <2>11. \A q \in Range(Append(front, new)) :
          \/ q \in Range(kept) \/ q = r
          \/ \E p \in Range(kept) :
                SameSlice(p, q) /\ SameSlice(r, q) /\ q.text = p.text \o r.text
    <3> SUFFICES ASSUME new # r
                 PROVE  /\ SameSlice(last, new) /\ SameSlice(r, new)
                        /\ new.text = last.text \o r.text
      BY <2>9
    <3> QED BY <2>3, <2>4 DEF SameSlice
  <2> QED BY <2>3, <2>6, <2>7, <2>8, <2>9, <2>10, <2>11 DEF JoinedWell, Closing
<1> QED BY <1>1, <1>2

\* What is written of a batch: the same text, each piece under the kind and the slice it
\* was emitted with, and every row that closes a slice.
CoalescedWell(list, new) ==
    /\ new \in Seq(TraceRow)
    /\ KeptText(new) = KeptText(list)
    /\ \A q \in Range(new) : \A i \in Range(q.text) :
          \E r \in Range(list) : i \in Range(r.text) /\ SameSlice(r, q)
    /\ Closing(list) \subseteq Range(new)

LEMMA CoalescesWell ==
    ASSUME NEW list \in Seq(TraceRow)
    PROVE  CoalescedWell(list, Coalesced(list))
<1> DEFINE T == {s \in Seq(TraceRow) : CoalescedWell(s, Coalesced(s))}
<1>1. <<>> \in T
  <2>1. <<>> \in Seq(TraceRow) /\ Range(<<>>) = {}
    BY DEF Range
  <2> QED BY <2>1, CoalescedNothing DEF CoalescedWell, Closing
<1>2. ASSUME NEW s \in T, NEW r \in TraceRow PROVE Append(s, r) \in T
  <2>1. s \in Seq(TraceRow) /\ CoalescedWell(s, Coalesced(s)) /\ Append(s, r) \in Seq(TraceRow)
    OBVIOUS
  <2> HIDE DEF T
  <2> DEFINE kept == Coalesced(s)
             new == Joined(kept, r)
  <2>2. /\ kept \in Seq(TraceRow) /\ KeptText(kept) = KeptText(s)
        /\ \A q \in Range(kept) : \A i \in Range(q.text) :
              \E x \in Range(s) : i \in Range(x.text) /\ SameSlice(x, q)
        /\ Closing(s) \subseteq Range(kept)
    BY <2>1 DEF CoalescedWell
  <2>3. Coalesced(Append(s, r)) = new
    BY <2>1, CoalescedAppend
  <2> HIDE DEF kept
  <2>4. JoinedWell(kept, r, new)
    BY <2>2, JoinsWell
  <2> HIDE DEF new
  <2>5. Range(Append(s, r)) = Range(s) \cup {r}
    BY <2>1, RangeAppend
  <2>6. KeptText(new) = KeptText(Append(s, r))
    BY <2>1, <2>2, <2>4, KeptTextAppend DEF JoinedWell
  <2>7. ASSUME NEW q \in Range(new), NEW i \in Range(q.text)
        PROVE  \E x \in Range(Append(s, r)) : i \in Range(x.text) /\ SameSlice(x, q)
    <3>1. \/ q \in Range(kept) \/ q = r
          \/ \E p \in Range(kept) :
                SameSlice(p, q) /\ SameSlice(r, q) /\ q.text = p.text \o r.text
      BY <2>4 DEF JoinedWell
    <3>2. CASE q \in Range(kept)
      BY <2>2, <2>5, <2>7, <3>2
    <3>3. CASE q = r
      BY <2>5, <2>7, <3>3 DEF SameSlice
    <3>4. CASE \E p \in Range(kept) :
                SameSlice(p, q) /\ SameSlice(r, q) /\ q.text = p.text \o r.text
      <4>1. PICK p \in Range(kept) :
                SameSlice(p, q) /\ SameSlice(r, q) /\ q.text = p.text \o r.text
        BY <3>4
      <4>2. p \in TraceRow
        BY <2>2, <4>1, RangeOfSeq
      <4>3. p.text \in Seq(Piece) /\ r.text \in Seq(Piece)
        BY <4>2 DEF TraceRow
      <4>4. Range(q.text) = Range(p.text) \cup Range(r.text)
        BY <4>1, <4>3, RangeConcatenation
      <4>5. CASE i \in Range(r.text)
        BY <2>5, <4>1, <4>5
      <4>6. CASE i \in Range(p.text)
        <5>1. PICK x \in Range(s) : i \in Range(x.text) /\ SameSlice(x, p)
          BY <2>2, <4>1, <4>6
        <5>2. SameSlice(x, q)
          BY <4>1, <5>1 DEF SameSlice
        <5> QED BY <2>5, <5>1, <5>2
      <4> QED BY <2>7, <4>4, <4>5, <4>6
    <3> QED BY <3>1, <3>2, <3>3, <3>4
  <2>8. Closing(Append(s, r)) \subseteq Range(new)
    <3>1. Closing(s) \subseteq Closing(kept)
      BY <2>2 DEF Closing
    <3> QED BY <2>4, <2>5, <3>1 DEF JoinedWell, Closing
  <2>9. CoalescedWell(Append(s, r), new)
    BY <2>4, <2>6, <2>7, <2>8 DEF CoalescedWell, JoinedWell
  <2> QED BY <2>1, <2>3, <2>9 DEF T
<1>3. T \in SUBSET Seq(TraceRow)
  OBVIOUS
<1> HIDE DEF T
<1>4. T = Seq(TraceRow)
  BY <1>1, <1>2, <1>3, EverySequence
<1>5. list \in T
  BY <1>4
<1> QED BY <1>5 DEF T

-----------------------------------------------------------------------------
(***************************************************************************)
(* The invariant of the trace.  Every row that was emitted is in the       *)
(* table, in the batch of a flusher that waits for the lock, or in the     *)
(* buffer, and those three in a row give the order of emission.            *)
(***************************************************************************)

\* The rows there are, wherever they are; the text of a row as it was emitted is its place.
RowsTyped ==
    /\ emitted \in Seq(TraceRow)
    /\ \A i \in DOMAIN emitted : emitted[i].text = <<i>>
    /\ buffer \in Seq(TraceRow) /\ Contributes(batch, Flusher, TraceRow)
    /\ queue \in Seq(Flusher)
    /\ \A n \in DOMAIN stored : stored[n] \in TraceRow
    /\ Cardinality(DOMAIN stored) \in Nat

\* Whoever has a batch waits for the lock, and only the one that holds it has a number,
\* the next one.
Queued ==
    /\ \A f \in Flusher : f \in Range(queue) <=> batch[f] # <<>>
    /\ \A f \in Flusher : Range(batch[f]) \subseteq Range(emitted)
    /\ \A f \in Flusher : numbered[f] # Unread => HoldsLock(f) /\ numbered[f] = NextSeq

\* Who may be waiting, by what its seat does, and how a run ends.
Waiting ==
    /\ \A s \in Slice : <<s, "relay">> \in Range(queue) => turn[s] = "thinking"
    /\ \A s \in Slice : <<s, "beat">> \in Range(queue) => turn[s] \in {"thinking", "answered"}
    /\ Run \in Range(queue) <=> writer = "closing"
    /\ writer # "open" => /\ \A s \in Slice : turn[s] \in {"idle", "over"}
                          /\ failures = 0 => buffer = <<>>
    /\ retries <= failures

\* The rows emitted, and where they are now.
Account ==
    /\ \A n \in DOMAIN stored : Range(stored[n].text) \subseteq DOMAIN emitted
    /\ TraceIsWhatWasEmitted
    /\ ClosingRowsAreNotDropped

TraceInv == TraceTypeOK /\ RowsTyped /\ Queued /\ Waiting /\ Account

\* Pending and StoredRows, of any values of the variables.
PendingOf(q, b, list) == Contributed(q, b) \o list
StoredOf(st, n) == [i \in 1 .. n |-> st[i - 1]]

\* The two operators are those of the state and of the next state.
LEMMA PendingIs == /\ Pending = PendingOf(queue, batch, buffer)
                   /\ Pending' = PendingOf(queue', batch', buffer')
BY DEF Pending, PendingOf, Contributed

LEMMA StoredIs == /\ StoredRows = StoredOf(stored, NextSeq)
                  /\ StoredRows' = StoredOf(stored', NextSeq')
BY DEF StoredRows, StoredOf, NextSeq

\* What is pending is rows, those of the batches that wait and of the buffer.
LEMMA PendingType ==
    ASSUME NEW q \in Seq(Flusher), NEW b, Contributes(b, Flusher, TraceRow), NEW list \in Seq(TraceRow)
    PROVE  /\ Contributed(q, b) \in Seq(TraceRow)
           /\ PendingOf(q, b, list) \in Seq(TraceRow)
           /\ Range(PendingOf(q, b, list)) = (UNION {Range(b[f]) : f \in Range(q)}) \cup Range(list)
           /\ KeptText(PendingOf(q, b, list)) = KeptText(Contributed(q, b)) \o KeptText(list)
<1>2. Contributed(q, b) \in Seq(TraceRow)
  BY ContributedType
<1>3. Range(Contributed(q, b)) = UNION {Range(b[f]) : f \in Range(q)}
  BY ContributedHas
<1>4. Range(Contributed(q, b) \o list) = Range(Contributed(q, b)) \cup Range(list)
  BY <1>2, RangeConcatenation
<1>5. Contributed(q, b) \o list \in Seq(TraceRow)
  BY <1>2, ConcatProperties
<1>6. KeptText(Contributed(q, b) \o list) = KeptText(Contributed(q, b)) \o KeptText(list)
  BY <1>2, KeptTextConcat
<1> QED BY <1>2, <1>3, <1>4, <1>5, <1>6 DEF PendingOf

\* What flushers that do not wait have in hand does not matter.
LEMMA SameContributions ==
    ASSUME NEW q \in Seq(Flusher), NEW b, NEW c, \A f \in Range(q) : b[f] = c[f]
    PROVE  Contributed(q, b) = Contributed(q, c)
<1>1. \A i \in DOMAIN q : q[i] \in Range(q)
  BY DEF Range
<1>2. [i \in DOMAIN q |-> b[q[i]]] = [i \in DOMAIN q |-> c[q[i]]]
  BY <1>1
<1> QED BY <1>2 DEF Contributed

\* A row is emitted into the buffer.
LEMMA BufferedPending ==
    ASSUME NEW q \in Seq(Flusher), NEW b, Contributes(b, Flusher, TraceRow), NEW list \in Seq(TraceRow),
           NEW r \in TraceRow
    PROVE  PendingOf(q, b, Append(list, r)) = Append(PendingOf(q, b, list), r)
<1>1. Contributed(q, b) \in Seq(TraceRow)
  BY PendingType
<1>2. <<r>> \in Seq(TraceRow) /\ Append(list, r) = list \o <<r>>
  BY AppendIsConcat
<1>3. \A x, y, z \in Seq(TraceRow) : (x \o y) \o z = x \o (y \o z)
  BY RowsRegroup
<1>4. Contributed(q, b) \o (list \o <<r>>) = (Contributed(q, b) \o list) \o <<r>>
  BY <1>1, <1>2, <1>3, Zenon
<1>5. Contributed(q, b) \o list \in Seq(TraceRow)
  <2>1. \A x, y \in Seq(TraceRow) : x \o y \in Seq(TraceRow)
    BY ConcatProperties
  <2> QED BY <1>1, <2>1, Zenon
<1>6. Append(Contributed(q, b) \o list, r) = (Contributed(q, b) \o list) \o <<r>>
  BY <1>5, AppendIsConcat
<1> QED BY <1>2, <1>4, <1>6 DEF PendingOf

\* A flush takes rows away.
LEMMA TakenPending ==
    ASSUME NEW q \in Seq(Flusher), NEW b, Contributes(b, Flusher, TraceRow), NEW list \in Seq(TraceRow),
           NEW f \in Flusher, f \notin Range(q)
    PROVE  PendingOf(Append(q, f), [b EXCEPT ![f] = list], <<>>) = PendingOf(q, b, list)
<1> DEFINE c == [b EXCEPT ![f] = list]
<1>0. b \in [Flusher -> Seq(TraceRow)]
  BY DEF Contributes
<1>1. c \in [Flusher -> Seq(TraceRow)] /\ c[f] = list /\ Append(q, f) \in Seq(Flusher)
  BY <1>0
<1>2. \A g \in Range(q) : b[g] = c[g]
  <2>1. Range(q) \subseteq Flusher
    BY RangeOfSeq
  <2> QED BY <1>0, <2>1
<1>3. Contributed(q, b) = Contributed(q, c)
  <2> HIDE DEF c
  <2> QED BY <1>2, SameContributions
<1> HIDE DEF c
<1>4. Contributes(c, Flusher, TraceRow)
  BY <1>1 DEF Contributes
<1>5. Contributed(Append(q, f), c) = Contributed(q, c) \o c[f]
  <2>1. \A x \in Seq(Flusher) : Contributed(Append(x, f), c) = Contributed(x, c) \o c[f]
    BY <1>4, ContributedAppend
  <2> QED BY <2>1, Zenon
<1>6. Contributed(Append(q, f), c) \in Seq(TraceRow)
  BY <1>1, <1>4, ContributedType
<1>7. Contributed(Append(q, f), c) \o <<>> = Contributed(Append(q, f), c)
  BY <1>6, ConcatEmptySeq
<1> QED BY <1>1, <1>3, <1>5, <1>7 DEF PendingOf, c

\* No rows are rows.
LEMMA EmptyBuffer == <<>> \in Seq(TraceRow)
OBVIOUS

\* The flusher at the head of the queue is done.
AtTheHead(q, b) == q \in Seq(Flusher) /\ q # <<>> /\ IsInjective(q) /\ Contributes(b, Flusher, TraceRow)

WithoutHead(q, b) == [b EXCEPT ![Head(q)] = <<>>]

LEMMA DonePending ==
    ASSUME NEW q, NEW b, AtTheHead(q, b)
    PROVE  /\ Chosen(q, Flusher \ {Head(q)}) = Tail(q)
           /\ Range(q) = {Head(q)} \cup Range(Tail(q)) /\ Head(q) \notin Range(Tail(q))
           /\ \A list \in Seq(TraceRow) :
                  PendingOf(q, b, list) = b[Head(q)] \o PendingOf(Tail(q), WithoutHead(q, b), list)
<1> USE DEF AtTheHead
<1>a. PICK f : f = Head(q)
  OBVIOUS
<1>b. PICK t : t = Tail(q)
  OBVIOUS
<1>c. PICK c : c = WithoutHead(q, b)
  OBVIOUS
<1>1. /\ f \in Flusher /\ t \in Seq(Flusher) /\ <<f>> \in Seq(Flusher)
      /\ q = <<f>> \o t
  BY <1>a, <1>b, HeadThenTail
<1>2. Chosen(q, Flusher \ {f}) = t /\ f \notin Range(t)
  BY <1>a, <1>b, TailIsChosen
<1> HIDE DEF AtTheHead
<1>3. Range(q) = {f} \cup Range(t)
  <2>1. Range(<<f>>) = {f}
    BY DEF Range
  <2>2. Range(<<f>> \o t) = Range(<<f>>) \cup Range(t)
    <3>1. \A x, y \in Seq(Flusher) : Range(x \o y) = Range(x) \cup Range(y)
      BY RangeOfBoth, Zenon
    <3> QED BY <1>1, <3>1, Zenon
  <2> QED BY <1>1, <2>1, <2>2
<1>0. b \in [Flusher -> Seq(TraceRow)] /\ Contributes(b, Flusher, TraceRow)
  BY DEF Contributes, AtTheHead
<1>c1. c = [b EXCEPT ![f] = <<>>]
  BY <1>a, <1>c DEF WithoutHead
<1>c2. c \in [Flusher -> Seq(TraceRow)] /\ \A g \in Flusher : g # f => c[g] = b[g]
  <2>1. DOMAIN c = Flusher /\ \A g \in Flusher : c[g] = IF g = f THEN <<>> ELSE b[g]
    BY <1>0, <1>c1
  <2>2. \A g \in Flusher : c[g] \in Seq(TraceRow)
    BY <1>0, <2>1, EmptyBuffer
  <2>3. c = [g \in Flusher |-> c[g]]
    BY <1>0, <1>c1, <2>1
  <2> QED BY <2>1, <2>2, <2>3
<1>4. Contributes(c, Flusher, TraceRow)
  BY <1>c2 DEF Contributes
<1>5. \A g \in Range(t) : b[g] = c[g]
  <2>1. Range(t) \subseteq Flusher
    BY <1>1, RangeOfSeq
  <2> QED BY <1>2, <1>c2, <2>1
<1>6. Contributed(t, b) = Contributed(t, c)
  <2>1. \A i \in DOMAIN t : t[i] \in Range(t)
    BY DEF Range
  <2>2. [i \in DOMAIN t |-> b[t[i]]] = [i \in DOMAIN t |-> c[t[i]]]
    BY <1>5, <2>1
  <2> QED BY <2>2 DEF Contributed
<1>8. Contributed(q, b) = b[f] \o Contributed(t, c)
  <2>1. \A x, y \in Seq(Flusher) : Contributed(x \o y, b) = Contributed(x, b) \o Contributed(y, b)
    BY <1>0, ContributedConcat
  <2>2. Contributed(<<f>> \o t, b) = Contributed(<<f>>, b) \o Contributed(t, b)
    BY <1>1, <2>1, Zenon
  <2>3. Contributed(<<f>>, b) = b[f]
    BY <1>0, <1>1, ContributedOne
  <2>4. Contributed(q, b) = Contributed(<<f>> \o t, b)
    BY <1>1, Zenon
  <2> QED BY <1>6, <2>2, <2>3, <2>4
<1>9. b[f] \in Seq(TraceRow) /\ Contributed(t, c) \in Seq(TraceRow)
  <2>1. Contributed(t, c) \in Seq(TraceRow)
    BY <1>1, <1>4, ContributedType
  <2> QED BY <1>0, <1>1, <2>1
<1>11. ASSUME NEW list \in Seq(TraceRow)
       PROVE  PendingOf(q, b, list) = b[f] \o PendingOf(t, c, list)
  <2>1. \A x, y, z \in Seq(TraceRow) : (x \o y) \o z = x \o (y \o z)
    BY RowsRegroup
  <2>2. (b[f] \o Contributed(t, c)) \o list = b[f] \o (Contributed(t, c) \o list)
    BY <1>9, <2>1, Zenon
  <2> QED BY <1>8, <2>2 DEF PendingOf
<1> QED BY <1>a, <1>b, <1>c, <1>2, <1>3, <1>11, Zenon

-----------------------------------------------------------------------------
(* What is stored and what is pending. *)

\* The table in the order of its numbers.
LEMMA StoredRowsType ==
    ASSUME TraceTypeOK, RowsTyped
    PROVE  /\ StoredRows \in Seq(TraceRow) /\ Len(StoredRows) = NextSeq
           /\ Range(StoredRows) = {stored[n] : n \in DOMAIN stored}
<1>1. PICK n \in Nat : n = NextSeq
  BY DEF RowsTyped, NextSeq
<1>2. DOMAIN stored = 0 .. n - 1
  BY <1>1 DEF TraceTypeOK, NextSeq
<1>3. StoredRows = [i \in 1 .. n |-> stored[i - 1]]
  BY <1>1 DEF StoredRows, NextSeq
<1>4. \A i \in 1 .. n : i - 1 \in DOMAIN stored /\ stored[i - 1] \in TraceRow
  BY <1>2 DEF RowsTyped
<1>5. StoredRows \in Seq(TraceRow) /\ Len(StoredRows) = n
  <2>1. StoredRows \in [1 .. n -> TraceRow]
    BY <1>3, <1>4
  <2> QED BY <2>1
<1>6. \A m \in DOMAIN stored : m + 1 \in 1 .. n /\ (m + 1) - 1 = m
  BY <1>2
<1>7. Range(StoredRows) = {stored[m] : m \in DOMAIN stored}
  BY <1>3, <1>4, <1>6 DEF Range
<1> QED BY <1>1, <1>5, <1>7

\* What is pending is emitted.
LEMMA PendingHas ==
    ASSUME NEW q \in Seq(Flusher), NEW b, Contributes(b, Flusher, TraceRow), NEW list \in Seq(TraceRow),
           \A f \in Flusher : f \in Range(q) <=> b[f] # <<>>
    PROVE  /\ PendingOf(q, b, list) \in Seq(TraceRow)
           /\ Range(PendingOf(q, b, list)) = (UNION {Range(b[f]) : f \in Flusher}) \cup Range(list)
<1>1. /\ PendingOf(q, b, list) \in Seq(TraceRow)
      /\ Range(PendingOf(q, b, list)) = (UNION {Range(b[f]) : f \in Range(q)}) \cup Range(list)
  BY PendingType
<1>2. Range(q) \subseteq Flusher
  BY RangeOfSeq
<1>3. Range(<<>>) = {}
  BY DEF Range
<1>4. UNION {Range(b[f]) : f \in Flusher} = UNION {Range(b[f]) : f \in Range(q)}
  <2>1. \A f \in Flusher : f \notin Range(q) => Range(b[f]) = {}
    BY <1>3
  <2> QED BY <1>2, <2>1
<1> QED BY <1>1, <1>4

LEMMA PendingRows ==
    ASSUME RowsTyped, Queued
    PROVE  /\ Pending \in Seq(TraceRow)
           /\ Range(Pending) = (UNION {Range(batch[f]) : f \in Flusher}) \cup Range(buffer)
BY PendingIs, PendingHas DEF RowsTyped, Queued

LEMMA PendingRowsNext ==
    ASSUME RowsTyped', Queued'
    PROVE  /\ Pending' \in Seq(TraceRow)
           /\ Range(Pending') = (UNION {Range(batch'[f]) : f \in Flusher}) \cup Range(buffer')
BY PendingIs, PendingHas DEF RowsTyped, Queued

\* One more row is emitted and pending, and nothing else happens to any row.
LEMMA EmittedIsAccounted ==
    ASSUME TraceInv, NEW r \in TraceRow, r.text = <<Len(emitted) + 1>>,
           emitted' = Append(emitted, r), Pending' = Append(Pending, r),
           Pending \in Seq(TraceRow),
           UNCHANGED <<stored, failures, cancelled, writer>>, writer = "open"
    PROVE  Account'
<1>1. /\ emitted \in Seq(TraceRow) /\ Len(emitted) \in Nat /\ DOMAIN emitted = 1 .. Len(emitted)
      /\ emitted' \in Seq(TraceRow) /\ DOMAIN emitted' = 1 .. Len(emitted) + 1
      /\ \A i \in DOMAIN emitted : emitted'[i] = emitted[i]
      /\ \A i \in DOMAIN emitted : i \in DOMAIN emitted'
  <2>1. emitted \in Seq(TraceRow)
    BY DEF TraceInv, RowsTyped
  <2> QED BY <2>1
<1>2. StoredRows' = StoredRows
  BY DEF StoredRows
<1>3. Range(emitted') = Range(emitted) \cup {r} /\ Range(Pending') = Range(Pending) \cup {r}
  BY <1>1, RangeAppend
<1>4. (\A n \in DOMAIN stored : Range(stored[n].text) \subseteq DOMAIN emitted)'
  BY <1>1 DEF TraceInv, Account
<1>5. (\A n \in DOMAIN stored : \A i \in Range(stored[n].text) : SameSlice(emitted[i], stored[n]))'
  <2> SUFFICES ASSUME NEW n \in DOMAIN stored, NEW i \in Range(stored[n].text)
               PROVE  SameSlice(emitted'[i], stored[n])
    OBVIOUS
  <2>1. i \in DOMAIN emitted /\ SameSlice(emitted[i], stored[n])
    BY DEF TraceInv, Account, TraceIsWhatWasEmitted
  <2> QED BY <1>1, <2>1
<1>6. ASSUME failures = 0, cancelled = {}
      PROVE  KeptText(StoredRows) \o KeptText(Pending') = KeptText(emitted')
  <2>1. KeptText(StoredRows) \o KeptText(Pending) = KeptText(emitted)
    BY <1>6 DEF TraceInv, Account, TraceIsWhatWasEmitted
  <2>2. /\ KeptText(Pending') = KeptText(Pending) \o KeptOf[r]
        /\ KeptText(emitted') = KeptText(emitted) \o KeptOf[r]
    BY <1>1, KeptTextAppend
  <2>3. KeptText(StoredRows) \in Seq(Piece) /\ KeptText(Pending) \in Seq(Piece) /\ KeptOf[r] \in Seq(Piece)
    <3>1. StoredRows \in Seq(TraceRow)
      BY StoredRowsType DEF TraceInv
    <3> QED BY <3>1, KeptTextType, KeptContributes DEF Contributes
  <2>5. (KeptText(StoredRows) \o KeptText(Pending)) \o KeptOf[r]
            = KeptText(StoredRows) \o (KeptText(Pending) \o KeptOf[r])
    BY <2>3, TextsRegroup, Zenon
  <2> QED BY <2>1, <2>2, <2>5
<1>7. ClosingRowsAreNotDropped'
  <2> SUFFICES ASSUME NEW q \in Closing(emitted')
               PROVE  \/ q \in Range(StoredRows) \/ q \in cancelled
                      \/ q \in Range(Pending') \/ failures > MaxClosingRetries
    BY <1>2 DEF ClosingRowsAreNotDropped, Closing
  <2>1. q = r \/ q \in Closing(emitted)
    BY <1>3 DEF Closing
  <2> QED BY <1>3, <2>1 DEF TraceInv, Account, ClosingRowsAreNotDropped
<1> QED BY <1>2, <1>4, <1>5, <1>6, <1>7 DEF Account, TraceIsWhatWasEmitted

-----------------------------------------------------------------------------
(* What the steps of a caller do to the rows. *)

\* The variables that hold rows are as TraceTypeOK says.
RowsPlaced ==
    /\ Range(queue) \subseteq Flusher /\ IsInjective(queue)
    /\ numbered \in [Flusher -> Nat \cup {Unread}]
    /\ DOMAIN stored = 0 .. Cardinality(DOMAIN stored) - 1
    /\ Range(buffer) \cup cancelled \subseteq Range(emitted)

\* What a step does to the rows keeps this.
RowsInv == RowsPlaced /\ RowsTyped /\ Queued /\ Account

\* The invariant in parts, now and after a step.
LEMMA TraceParts ==
    TraceInv <=> /\ turn \in [Slice -> {"idle", "thinking", "answered", "over"}]
                 /\ noise \in 0 .. MaxNoise
                 /\ retries \in 0 .. MaxClosingRetries /\ failures \in 0 .. MaxFailures
                 /\ writer \in {"open", "closing", "closed"}
                 /\ RowsInv /\ Waiting
BY DEF TraceInv, TraceTypeOK, RowsInv, RowsPlaced

\* The invariant in parts, now and after a step.
LEMMA TracePartsNext ==
    TraceInv' <=> /\ turn' \in [Slice -> {"idle", "thinking", "answered", "over"}]
                  /\ noise' \in 0 .. MaxNoise
                  /\ retries' \in 0 .. MaxClosingRetries /\ failures' \in 0 .. MaxFailures
                  /\ writer' \in {"open", "closing", "closed"}
                  /\ RowsInv' /\ Waiting'
BY DEF TraceInv, TraceTypeOK, RowsInv, RowsPlaced

\* The invariant holds when a run begins.
LEMMA TraceBegins == TraceInit => TraceInv
<1> SUFFICES ASSUME TraceInit PROVE TraceInv
  OBVIOUS
<1>1. /\ emitted = <<>> /\ buffer = <<>> /\ queue = <<>> /\ cancelled = {} /\ failures = 0
      /\ batch = [f \in Flusher |-> <<>>] /\ numbered = [f \in Flusher |-> Unread]
      /\ stored = [n \in {} |-> 0] /\ writer = "open" /\ retries = 0 /\ noise = 0
      /\ turn = [s \in Slice |-> "idle"]
  BY DEF TraceInit, IdleFlush
<1>2. /\ Range(<<>>) = {} /\ IsInjective(<<>>)
      /\ \A S : <<>> \in Seq(S)
  BY DEF Range, IsInjective
<1>3. DOMAIN stored = {} /\ Cardinality({}) = 0 /\ 0 .. 0 - 1 = {}
  BY <1>1, FS_EmptySet
<1>4. RowsPlaced
  BY <1>1, <1>2, <1>3 DEF RowsPlaced
<1>5. RowsTyped
  BY <1>1, <1>2, <1>3 DEF RowsTyped, Contributes
<1>6. Queued
  BY <1>1, <1>2 DEF Queued
<1>7. Account
  <2>1. Contributed(queue, batch) = <<>>
    BY <1>1, ContributedNothing
  <2>2. Pending = <<>>
    BY <1>1, <2>1, PendingIs DEF PendingOf
  <2>3. StoredRows = <<>>
    BY <1>3 DEF StoredRows
  <2>4. KeptText(<<>>) = <<>>
    <3>1. <<>> \in Seq(TraceRow)
      OBVIOUS
    <3> QED BY <3>1, KeptIsContributed, ContributedNothing
  <2>5. <<>> \o <<>> = <<>>
    OBVIOUS
  <2> QED BY <1>1, <1>2, <1>3, <2>2, <2>3, <2>4, <2>5
          DEF Account, TraceIsWhatWasEmitted, ClosingRowsAreNotDropped, Closing
<1>8. Waiting
  BY <1>1, <1>2 DEF Waiting
<1> QED BY <1>1, <1>4, <1>5, <1>6, <1>7, <1>8, TraceParts, ProcessStreamAssumption DEF RowsInv

\* A new row is one of the trace.
LEMMA RowIsTyped ==
    ASSUME RowsTyped, NEW kind \in Kind, NEW s \in Slice
    PROVE  Row(kind, s) \in TraceRow /\ Row(kind, s).text = <<Len(emitted) + 1>>
<1>1. Len(emitted) + 1 \in Piece
  BY DEF RowsTyped, Piece
<1> QED BY <1>1 DEF Row, TraceRow

\* What a row adds to those emitted.
LEMMA EmittedGrow ==
    ASSUME RowsTyped, NEW r \in TraceRow, r.text = <<Len(emitted) + 1>>,
           emitted' = Append(emitted, r)
    PROVE  /\ emitted' \in Seq(TraceRow)
           /\ (\A i \in DOMAIN emitted : emitted[i].text = <<i>>)'
           /\ Range(emitted') = Range(emitted) \cup {r}
<1>1. emitted \in Seq(TraceRow) /\ \A i \in DOMAIN emitted : emitted[i].text = <<i>>
  BY DEF RowsTyped
<1>2. /\ Len(emitted) \in Nat /\ DOMAIN emitted = 1 .. Len(emitted)
      /\ emitted' \in Seq(TraceRow) /\ DOMAIN emitted' = 1 .. Len(emitted) + 1
      /\ \A i \in 1 .. Len(emitted) : emitted'[i] = emitted[i]
      /\ emitted'[Len(emitted) + 1] = r
  BY <1>1
<1>3. \A i \in 1 .. Len(emitted) + 1 : i \in 1 .. Len(emitted) \/ i = Len(emitted) + 1
  BY <1>2
<1> QED BY <1>1, <1>2, <1>3, RangeAppend

\* emit.
LEMMA BufferEmits ==
    ASSUME TraceInv, NEW kind \in Kind, NEW s \in Slice, writer = "open",
           EmitRow(Row(kind, s)), Queue(Row(kind, s))
    PROVE  RowsInv'
<1>0. RowsPlaced /\ RowsTyped /\ Queued
  BY TraceParts DEF RowsInv
<1>1. PICK r \in TraceRow : r = Row(kind, s) /\ r.text = <<Len(emitted) + 1>>
  BY <1>0, RowIsTyped
<1>2. /\ emitted' = Append(emitted, r) /\ buffer' = Append(buffer, r)
      /\ UNCHANGED <<stored, retries, failures, cancelled, writer, batch, queue, numbered>>
  BY <1>1 DEF EmitRow, Queue, outcomeVars, flushVars
<1>3. /\ queue \in Seq(Flusher) /\ Contributes(batch, Flusher, TraceRow)
      /\ buffer \in Seq(TraceRow) /\ buffer' \in Seq(TraceRow)
  BY <1>0, <1>2 DEF RowsTyped
<1>4. Pending' = Append(Pending, r)
  <2>1. PendingOf(queue, batch, Append(buffer, r)) = Append(PendingOf(queue, batch, buffer), r)
    BY <1>3, BufferedPending
  <2> QED BY <1>2, <2>1, PendingIs
<1>5. Range(buffer') = Range(buffer) \cup {r}
  BY <1>2, <1>3, RangeAppend
<1>6. /\ emitted' \in Seq(TraceRow)
      /\ (\A i \in DOMAIN emitted : emitted[i].text = <<i>>)'
      /\ Range(emitted') = Range(emitted) \cup {r}
  BY <1>0, <1>1, <1>2, EmittedGrow
<1>7. RowsPlaced'
  BY <1>0, <1>2, <1>5, <1>6 DEF RowsPlaced
<1>8. RowsTyped'
  BY <1>0, <1>2, <1>3, <1>6 DEF RowsTyped
<1>9. Queued'
  BY <1>0, <1>2, <1>6 DEF Queued, HoldsLock, NextSeq
<1>10. Account'
  <2>1. Pending \in Seq(TraceRow)
    BY <1>0, PendingRows
  <2> QED BY <1>1, <1>2, <1>4, <2>1, EmittedIsAccounted
<1> QED BY <1>7, <1>8, <1>9, <1>10 DEF RowsInv

\* A flush takes what is buffered.
LEMMA TakesWell ==
    ASSUME RowsPlaced, RowsTyped, Queued, NEW f \in Flusher, Idle(f),
           NEW list \in Seq(TraceRow), list # <<>>, Take(f, list), UNCHANGED stored
    PROVE  /\ Range(queue') \subseteq Flusher /\ IsInjective(queue')
           /\ queue' \in Seq(Flusher) /\ Contributes(batch', Flusher, TraceRow)
           /\ buffer' = <<>> /\ Range(buffer') = {} /\ numbered' = numbered
           /\ batch' = [batch EXCEPT ![f] = list]
           /\ \A g \in Flusher : g \in Range(queue') <=> batch'[g] # <<>>
           /\ \A g \in Flusher : numbered'[g] # Unread => HoldsLock(g)' /\ numbered'[g] = NextSeq'
           /\ Range(queue') = Range(queue) \cup {f}
           /\ Pending' = PendingOf(queue, batch, list)
<1>1. /\ queue \in Seq(Flusher) /\ batch \in [Flusher -> Seq(TraceRow)]
      /\ IsInjective(queue) /\ f \notin Range(queue)
      /\ Contributes(batch, Flusher, TraceRow)
  BY DEF RowsPlaced, RowsTyped, Idle, Contributes
<1>2. /\ batch' = [batch EXCEPT ![f] = list] /\ queue' = Append(queue, f)
      /\ buffer' = <<>> /\ numbered' = numbered
  BY DEF Take
<1>3. queue' \in Seq(Flusher) /\ Range(queue') = Range(queue) \cup {f} /\ IsInjective(queue')
  BY <1>1, <1>2, RangeAppend, InjectiveAppend
<1>4. Contributes(batch', Flusher, TraceRow)
  BY <1>1, <1>2 DEF Contributes
<1>5. \A g \in Flusher : g \in Range(queue') <=> batch'[g] # <<>>
  BY <1>1, <1>2, <1>3 DEF Queued
<1>6. ASSUME NEW g \in Flusher, numbered'[g] # Unread
      PROVE  HoldsLock(g)' /\ numbered'[g] = NextSeq'
  <2>1. HoldsLock(g) /\ numbered[g] = NextSeq
    BY <1>2, <1>6 DEF Queued
  <2>2. queue # <<>> /\ Head(queue) = g
    BY <2>1 DEF HoldsLock
  <2>3. queue' # <<>> /\ Head(queue') = Head(queue)
    <3>1. queue \in Seq(Flusher) /\ queue # <<>> /\ queue' = Append(queue, f)
      BY <1>1, <1>2, <2>2
    <3> HIDE <1>1, <1>2
    <3> QED BY <3>1
  <2> QED BY <1>2, <2>1, <2>2, <2>3 DEF HoldsLock, NextSeq
<1>7. Pending' = PendingOf(queue, batch, list)
  BY <1>1, <1>2, TakenPending, PendingIs
<1>8. Range(<<>>) = {}
  BY DEF Range
<1>9. Range(queue') \subseteq Flusher
  BY <1>3, RangeOfSeq
<1> QED BY <1>2, <1>3, <1>4, <1>5, <1>6, <1>7, <1>8, <1>9

\* emit and flush.
LEMMA TakeEmits ==
    ASSUME TraceInv, NEW kind \in Kind, NEW s \in Slice, writer = "open",
           NEW f \in Flusher, Idle(f),
           EmitRow(Row(kind, s)), Take(f, Append(buffer, Row(kind, s)))
    PROVE  RowsInv' /\ Range(queue') = Range(queue) \cup {f}
<1>0. RowsPlaced /\ RowsTyped /\ Queued
  BY TraceParts DEF RowsInv
<1>1. PICK r \in TraceRow : r = Row(kind, s) /\ r.text = <<Len(emitted) + 1>>
  BY <1>0, RowIsTyped
<1>2. /\ emitted' = Append(emitted, r) /\ Take(f, Append(buffer, r))
      /\ UNCHANGED <<stored, retries, failures, cancelled, writer>>
  BY <1>1 DEF EmitRow, outcomeVars
<1>3. /\ queue \in Seq(Flusher) /\ Contributes(batch, Flusher, TraceRow)
      /\ batch \in [Flusher -> Seq(TraceRow)]
      /\ buffer \in Seq(TraceRow) /\ Append(buffer, r) \in Seq(TraceRow) /\ Append(buffer, r) # <<>>
  <2>1. /\ queue \in Seq(Flusher) /\ Contributes(batch, Flusher, TraceRow)
        /\ buffer \in Seq(TraceRow)
    BY <1>0 DEF RowsTyped
  <2>2. batch \in [Flusher -> Seq(TraceRow)]
    BY <2>1 DEF Contributes
  <2>3. Append(buffer, r) \in Seq(TraceRow) /\ Append(buffer, r) # <<>>
    BY <2>1, AppendProperties
  <2> QED BY <2>1, <2>2, <2>3
<1> DEFINE list == Append(buffer, r)
<1>4. Range(list) = Range(buffer) \cup {r}
  BY <1>3, RangeAppend
<1> HIDE DEF list
<1>5. /\ Range(queue') \subseteq Flusher /\ IsInjective(queue')
      /\ queue' \in Seq(Flusher) /\ Contributes(batch', Flusher, TraceRow)
      /\ buffer' = <<>> /\ Range(buffer') = {} /\ numbered' = numbered
      /\ batch' = [batch EXCEPT ![f] = list]
      /\ \A g \in Flusher : g \in Range(queue') <=> batch'[g] # <<>>
      /\ \A g \in Flusher : numbered'[g] # Unread => HoldsLock(g)' /\ numbered'[g] = NextSeq'
      /\ Range(queue') = Range(queue) \cup {f}
      /\ Pending' = PendingOf(queue, batch, list)
  BY <1>0, <1>2, <1>3, TakesWell DEF list
<1>6. /\ emitted' \in Seq(TraceRow)
      /\ (\A i \in DOMAIN emitted : emitted[i].text = <<i>>)'
      /\ Range(emitted') = Range(emitted) \cup {r}
  BY <1>0, <1>1, <1>2, EmittedGrow
<1>7. RowsPlaced'
  BY <1>0, <1>2, <1>5, <1>6 DEF RowsPlaced
<1>8. RowsTyped'
  <2>1. <<>> \in Seq(TraceRow)
    OBVIOUS
  <2> QED BY <1>0, <1>2, <1>5, <1>6, <2>1 DEF RowsTyped
<1>9. Queued'
  <2>1. \A g \in Flusher : Range(batch'[g]) \subseteq Range(emitted')
    <3> TAKE g \in Flusher
    <3>1. CASE g = f
      BY <1>0, <1>3, <1>4, <1>5, <1>6, <3>1 DEF RowsPlaced
    <3>2. CASE g # f
      BY <1>0, <1>3, <1>5, <1>6, <3>2 DEF Queued
    <3> QED BY <3>1, <3>2
  <2> QED BY <1>5, <2>1 DEF Queued
<1>10. Account'
  <2>1. Pending \in Seq(TraceRow)
    BY <1>0, PendingRows
  <2>2. PendingOf(queue, batch, Append(buffer, r)) = Append(PendingOf(queue, batch, buffer), r)
    BY <1>3, BufferedPending
  <2>3. Pending' = Append(Pending, r)
    BY <1>5, <2>2, PendingIs DEF list
  <2> QED BY <1>1, <1>2, <2>1, <2>3, EmittedIsAccounted
<1> QED BY <1>5, <1>7, <1>8, <1>9, <1>10 DEF RowsInv

\* Nothing happens to any row.
LEMMA RowsStay ==
    ASSUME RowsInv, UNCHANGED <<emitted, buffer, batch, queue, numbered, stored, failures,
                                cancelled, writer>>
    PROVE  RowsInv'
<1>1. Pending' = Pending /\ StoredRows' = StoredRows
  BY DEF Pending, StoredRows
<1>2. Account'
  BY <1>1 DEF RowsInv, Account, TraceIsWhatWasEmitted, ClosingRowsAreNotDropped
<1>3. RowsPlaced' /\ RowsTyped'
  BY DEF RowsInv, RowsPlaced, RowsTyped
<1>4. Queued'
  BY DEF RowsInv, Queued, HoldsLock, NextSeq
<1> QED BY <1>2, <1>3, <1>4 DEF RowsInv

\* Flushes are cancelled.
LEMMA CancelsWell ==
    ASSUME TraceInv, NEW F \in SUBSET Flusher, Cancel(F), writer = "open"
    PROVE  RowsInv' /\ Range(queue') = Range(queue) \ F
<1>0. RowsPlaced /\ RowsTyped /\ Queued /\ Account
  BY TraceParts DEF RowsInv
<1>1. /\ queue \in Seq(Flusher) /\ Contributes(batch, Flusher, TraceRow)
      /\ batch \in [Flusher -> Seq(TraceRow)] /\ buffer \in Seq(TraceRow) /\ IsInjective(queue)
      /\ emitted \in Seq(TraceRow)
  BY <1>0 DEF RowsTyped, RowsPlaced, Contributes
<1>2. /\ cancelled' = cancelled \cup UNION {Range(batch[f]) : f \in F}
      /\ queue' = Chosen(queue, Flusher \ F)
      /\ batch' = [f \in Flusher |-> IF f \in F THEN <<>> ELSE batch[f]]
      /\ numbered' = [f \in Flusher |-> IF f \in F THEN Unread ELSE numbered[f]]
      /\ UNCHANGED <<noise, emitted, buffer, stored, retries, failures, writer>>
  BY DEF Cancel
<1>3. /\ queue' \in Seq(Flusher) /\ IsInjective(queue')
      /\ Range(queue') = Range(queue) \ F /\ Range(queue') \subseteq Flusher
  <2>1. Range(queue') = Range(queue) \cap (Flusher \ F)
    BY <1>1, <1>2, ChosenHas
  <2>2. queue' \in Seq(Flusher) /\ IsInjective(queue')
    BY <1>1, <1>2, ChosenType, ChosenInjective
  <2> QED BY <1>0, <2>1, <2>2 DEF RowsPlaced
<1>4. batch' \in [Flusher -> Seq(TraceRow)]
  <2>1. <<>> \in Seq(TraceRow)
    OBVIOUS
  <2> QED BY <1>1, <1>2, <2>1
<1>5. Range(<<>>) = {}
  BY DEF Range
<1>6. cancelled' \subseteq Range(emitted)
  BY <1>0, <1>2 DEF RowsPlaced, Queued
<1>7. RowsPlaced'
  BY <1>0, <1>2, <1>3, <1>6 DEF RowsPlaced
<1>8. RowsTyped'
  BY <1>0, <1>2, <1>3, <1>4 DEF RowsTyped, Contributes
<1>9. Queued'
  <2>1. \A f \in Flusher : f \in Range(queue') <=> batch'[f] # <<>>
    BY <1>0, <1>2, <1>3 DEF Queued
  <2>2. \A f \in Flusher : Range(batch'[f]) \subseteq Range(emitted')
    BY <1>0, <1>2, <1>5 DEF Queued
  <2>3. ASSUME NEW f \in Flusher, numbered'[f] # Unread
        PROVE  HoldsLock(f)' /\ numbered'[f] = NextSeq'
    <3>1. f \notin F /\ numbered'[f] = numbered[f]
      BY <1>2, <2>3
    <3>2. queue # <<>> /\ Head(queue) = f /\ numbered[f] = NextSeq
      BY <1>0, <2>3, <3>1 DEF Queued, HoldsLock
    <3>3. queue' = <<f>> \o Chosen(Tail(queue), Flusher \ F)
      BY <1>1, <1>2, <3>1, <3>2, ChosenFromHead
    <3>4. Tail(queue) \in Seq(Flusher)
      BY <1>1, <3>2, HeadTailProperties
    <3>5. Chosen(Tail(queue), Flusher \ F) \in Seq(Flusher)
      BY <3>4, ChosenType
    <3>6. queue' # <<>> /\ Head(queue') = f
      BY <3>3, <3>5
    <3> QED BY <1>2, <3>1, <3>2, <3>6 DEF HoldsLock, NextSeq
  <2> QED BY <2>1, <2>2, <2>3 DEF Queued
<1>10. StoredRows' = StoredRows
  BY <1>2 DEF StoredRows
<1>11. /\ Range(Pending) = (UNION {Range(batch[f]) : f \in Flusher}) \cup Range(buffer)
       /\ Range(Pending') = (UNION {Range(batch'[f]) : f \in Flusher}) \cup Range(buffer')
  BY <1>0, <1>8, <1>9, PendingRows, PendingRowsNext
<1>12. ClosingRowsAreNotDropped'
  <2> SUFFICES ASSUME NEW r \in Closing(emitted)
               PROVE  \/ r \in Range(StoredRows) \/ r \in cancelled'
                      \/ r \in Range(Pending') \/ failures > MaxClosingRetries
    BY <1>2, <1>10 DEF ClosingRowsAreNotDropped
  <2>1. \/ r \in Range(StoredRows) \/ r \in cancelled
        \/ r \in Range(Pending) \/ failures > MaxClosingRetries
    BY <1>0 DEF Account, ClosingRowsAreNotDropped
  <2>2. CASE r \in Range(Pending)
    <3>1. CASE r \in Range(buffer)
      BY <1>2, <1>11, <3>1
    <3>2. CASE \E f \in Flusher : r \in Range(batch[f])
      <4>1. PICK f \in Flusher : r \in Range(batch[f])
        BY <3>2
      <4>2. CASE f \in F
        BY <1>2, <4>1, <4>2
      <4>3. CASE f \notin F
        <5>1. batch'[f] = batch[f]
          BY <1>2, <4>3
        <5> QED BY <1>11, <4>1, <5>1
      <4> QED BY <4>2, <4>3
    <3> QED BY <1>11, <2>2, <3>1, <3>2
  <2> QED BY <1>2, <2>1, <2>2
<1>13. ASSUME failures = 0, cancelled' = {} PROVE Pending' = Pending /\ cancelled = {}
  <2>1. \A f \in F : Range(batch[f]) = {}
    BY <1>2, <1>13
  <2>2. \A f \in F : batch[f] = <<>>
    <3> SUFFICES ASSUME NEW f \in F, batch[f] # <<>> PROVE FALSE
      OBVIOUS
    <3>1. PICK list \in Seq(TraceRow) : list = batch[f]
      BY <1>1
    <3>2. list # <<>> /\ Range(list) = {}
      BY <2>1, <3>1
    <3>3. 1 \in DOMAIN list
      BY <3>1, <3>2
    <3> QED BY <3>2, <3>3 DEF Range
  <2>3. Range(queue) \subseteq Flusher \ F
    BY <1>0, <2>2 DEF Queued, RowsPlaced
  <2>4. queue' = queue
    BY <1>1, <1>2, <2>3, ChosenAll
  <2>5. \A f \in Flusher : batch'[f] = batch[f]
    BY <1>2, <2>2
  <2>6. batch' = batch
    BY <1>1, <1>4, <2>5
  <2> QED BY <1>2, <1>13, <2>4, <2>6, PendingIs
<1>14. Account'
  BY <1>0, <1>2, <1>10, <1>12, <1>13 DEF Account, TraceIsWhatWasEmitted
<1> QED BY <1>3, <1>7, <1>8, <1>9, <1>14 DEF RowsInv

-----------------------------------------------------------------------------
(* What the holder of the lock does to the rows. *)

\* The writer under its lock: its batch, the numbers it writes it under, and what is left
\* when it is done.
LEMMA UnderTheLock ==
    ASSUME TraceInv, NEW f \in Flusher, HoldsLock(f), numbered[f] # Unread
    PROVE  /\ batch[f] \in Seq(TraceRow) /\ f \in Range(queue) /\ Range(batch[f]) \subseteq Range(emitted)
           /\ CoalescedWell(batch[f], Coalesced(batch[f]))
           /\ numbered[f] = NextSeq /\ NextSeq \in Nat /\ DOMAIN stored = 0 .. NextSeq - 1
           /\ DOMAIN Fresh(f) = NextSeq .. NextSeq + Len(Coalesced(batch[f])) - 1
           /\ DOMAIN Fresh(f) \cap DOMAIN stored = {}
<1>1. RowsPlaced /\ RowsTyped /\ Queued
  BY TraceParts DEF RowsInv
<1>2. batch[f] \in Seq(TraceRow) /\ Range(batch[f]) \subseteq Range(emitted)
  BY <1>1 DEF RowsTyped, Contributes, Queued
<1>3. queue \in Seq(Flusher) /\ queue # <<>> /\ Head(queue) = f
  BY <1>1 DEF HoldsLock, RowsTyped
<1>4. f \in Range(queue)
  <2>1. 1 \in DOMAIN queue /\ queue[1] = f
    BY <1>3
  <2> QED BY <2>1 DEF Range
<1>5. CoalescedWell(batch[f], Coalesced(batch[f]))
  BY <1>2, CoalescesWell
<1>6. numbered[f] = NextSeq /\ NextSeq \in Nat /\ DOMAIN stored = 0 .. NextSeq - 1
  BY <1>1 DEF Queued, RowsTyped, RowsPlaced, NextSeq
<1>7. Len(Coalesced(batch[f])) \in Nat
  BY <1>5 DEF CoalescedWell
<1>8. DOMAIN Fresh(f) = NextSeq .. NextSeq + Len(Coalesced(batch[f])) - 1
  BY <1>6 DEF Fresh
<1>9. DOMAIN Fresh(f) \cap DOMAIN stored = {}
  BY <1>6, <1>7, <1>8
<1> QED BY <1>2, <1>4, <1>5, <1>6, <1>8, <1>9

\* When the run flushes for the last time, nobody else waits.
LEMMA OnlyTheRunWaits ==
    ASSUME TraceInv, writer # "open", NEW g \in Range(queue)
    PROVE  g = Run
<1>1. g \in Flusher /\ Waiting
  BY TraceParts DEF RowsInv, RowsPlaced
<1> SUFFICES ASSUME NEW s \in Slice, g = <<s, "relay">> \/ g = <<s, "beat">> PROVE FALSE
  BY <1>1 DEF Flusher
<1> QED BY <1>1 DEF Waiting

\* The writer leaves the queue with its batch.
LEMMA LeavesTheQueue ==
    ASSUME TraceInv, NEW f \in Flusher, HoldsLock(f), numbered[f] # Unread, Done(f)
    PROVE  /\ queue \in Seq(Flusher) /\ queue # <<>> /\ Head(queue) = f /\ IsInjective(queue)
           /\ queue' = Tail(queue) /\ queue' \in Seq(Flusher) /\ IsInjective(queue')
           /\ batch' = [batch EXCEPT ![f] = <<>>] /\ Contributes(batch', Flusher, TraceRow)
           /\ Contributes(batch, Flusher, TraceRow)
           /\ Range(queue') = Range(queue) \ {f} /\ Range(queue') \subseteq Flusher
           /\ numbered' = [numbered EXCEPT ![f] = Unread]
           /\ \A g \in Flusher : numbered'[g] = Unread
           /\ \A g \in Flusher : g \in Range(queue') <=> batch'[g] # <<>>
           /\ \A g \in Flusher : Range(batch'[g]) \subseteq Range(emitted)
<1>1. RowsPlaced /\ RowsTyped /\ Queued
  BY TraceParts DEF RowsInv
<1>2. /\ queue \in Seq(Flusher) /\ queue # <<>> /\ Head(queue) = f /\ IsInjective(queue)
      /\ Contributes(batch, Flusher, TraceRow) /\ batch \in [Flusher -> Seq(TraceRow)]
      /\ numbered \in [Flusher -> Nat \cup {Unread}]
  BY <1>1 DEF HoldsLock, RowsTyped, RowsPlaced, Contributes
<1>3. /\ queue' = Chosen(queue, Flusher \ {f}) /\ batch' = [batch EXCEPT ![f] = <<>>]
      /\ numbered' = [numbered EXCEPT ![f] = Unread]
  BY DEF Done
<1>4. /\ queue' = Tail(queue) /\ f \notin Range(Tail(queue))
      /\ Range(queue) = {f} \cup Range(Tail(queue))
  <2>1. AtTheHead(queue, batch)
    BY <1>2 DEF AtTheHead
  <2> QED BY <1>2, <1>3, <2>1, DonePending
<1>5. queue' \in Seq(Flusher) /\ IsInjective(queue') /\ Range(queue') \subseteq Flusher
  BY <1>2, <1>3, ChosenType, ChosenInjective, RangeOfSeq
<1>6. Contributes(batch', Flusher, TraceRow)
  <2>1. <<>> \in Seq(TraceRow)
    OBVIOUS
  <2> QED BY <1>2, <1>3, <2>1 DEF Contributes
<1>7. \A g \in Flusher : numbered'[g] = Unread
  BY <1>1, <1>2, <1>3 DEF Queued, HoldsLock
<1>8. Range(queue') = Range(queue) \ {f}
  BY <1>4
<1>9. \A g \in Flusher : g \in Range(queue') <=> batch'[g] # <<>>
  BY <1>1, <1>2, <1>3, <1>8 DEF Queued
<1>10. \A g \in Flusher : Range(batch'[g]) \subseteq Range(emitted)
  <2>1. Range(<<>>) = {}
    BY DEF Range
  <2> QED BY <1>1, <1>2, <1>3, <2>1 DEF Queued
<1> QED BY <1>2, <1>3, <1>4, <1>5, <1>6, <1>7, <1>8, <1>9, <1>10

\* The rows of a batch that is written come after those of the table.
LEMMA StoresWell ==
    ASSUME TraceInv, NEW f \in Flusher, Store(f)
    PROVE  /\ NextSeq' = NextSeq + Len(Coalesced(batch[f])) /\ NextSeq' \in Nat
           /\ DOMAIN stored' = 0 .. NextSeq' - 1
           /\ \A n \in DOMAIN stored : n \in DOMAIN stored' /\ stored'[n] = stored[n]
           /\ \A n \in DOMAIN stored' : n \in DOMAIN stored \/ stored'[n] \in Range(Coalesced(batch[f]))
           /\ StoredRows' = StoredRows \o Coalesced(batch[f])
           /\ StoredRows \in Seq(TraceRow)
<1>0. HoldsLock(f) /\ numbered[f] # Unread
  BY DEF Store
<1>1. /\ CoalescedWell(batch[f], Coalesced(batch[f]))
      /\ numbered[f] = NextSeq /\ NextSeq \in Nat /\ DOMAIN stored = 0 .. NextSeq - 1
      /\ DOMAIN Fresh(f) = NextSeq .. NextSeq + Len(Coalesced(batch[f])) - 1
  BY <1>0, UnderTheLock
<1>2. PICK list \in Seq(TraceRow) : list = Coalesced(batch[f])
  BY <1>1 DEF CoalescedWell
<1>3. PICK n \in Nat : n = NextSeq
  BY <1>1
<1>4. PICK k \in Nat : k = Len(list)
  BY <1>2
<1>5. /\ DOMAIN list = 1 .. k
      /\ DOMAIN stored = 0 .. n - 1 /\ DOMAIN Fresh(f) = n .. n + k - 1
      /\ \A m \in n .. n + k - 1 : Fresh(f)[m] = list[m - n + 1]
  BY <1>1, <1>2, <1>3, <1>4 DEF Fresh
<1>6. stored' = [m \in DOMAIN stored \cup DOMAIN Fresh(f) |->
                    IF m \in DOMAIN stored THEN stored[m] ELSE Fresh(f)[m]]
  BY DEF Store
<1>7. DOMAIN stored \cup DOMAIN Fresh(f) = 0 .. n + k - 1
  BY <1>5
<1>8. /\ DOMAIN stored' = 0 .. n + k - 1
      /\ \A m \in 0 .. n - 1 : m \in DOMAIN stored' /\ stored'[m] = stored[m]
      /\ \A m \in n .. n + k - 1 : m \in DOMAIN stored' /\ stored'[m] = list[m - n + 1]
  <2>1. DOMAIN stored' = 0 .. n + k - 1
    BY <1>6, <1>7
  <2>2. \A m \in 0 .. n - 1 : m \in 0 .. n + k - 1 /\ m \in DOMAIN stored
    BY <1>5
  <2>3. \A m \in n .. n + k - 1 : m \in 0 .. n + k - 1 /\ m \notin DOMAIN stored
    BY <1>5
  <2> QED BY <1>5, <1>6, <1>7, <2>1, <2>2, <2>3
<1>9. NextSeq' = n + k
  <2>1. Cardinality(0 .. n + k - 1) = n + k
    <3>1. 0 \in Int /\ n + k - 1 \in Int
      OBVIOUS
    <3>2. Cardinality(0 .. n + k - 1) = IF 0 > n + k - 1 THEN 0 ELSE (n + k - 1) - 0 + 1
      BY <3>1, FS_Interval
    <3> QED BY <3>2
  <2> QED BY <1>8, <2>1 DEF NextSeq
<1>10. RowsTyped /\ TraceTypeOK
  BY DEF TraceInv
<1>11. /\ StoredRows \in Seq(TraceRow) /\ Len(StoredRows) = n
       /\ \A i \in 1 .. n : StoredRows[i] = stored[i - 1]
  BY <1>3, <1>10, StoredRowsType DEF StoredRows, NextSeq
<1>12. StoredRows' = [i \in 1 .. n + k |-> stored'[i - 1]]
  BY <1>9 DEF StoredRows, NextSeq
<1>13. PICK whole : whole = StoredRows \o list
  OBVIOUS
<1>14. /\ whole \in Seq(TraceRow) /\ Len(whole) = n + k
       /\ \A i \in 1 .. n + k : whole[i] = IF i <= n THEN StoredRows[i] ELSE list[i - n]
  BY <1>4, <1>11, <1>13, ConcatProperties
<1>15. ASSUME NEW i \in 1 .. n + k PROVE stored'[i - 1] = whole[i]
  <2>1. CASE i <= n
    <3>1. i \in 1 .. n /\ i - 1 \in 0 .. n - 1
      BY <2>1
    <3>2. stored'[i - 1] = stored[i - 1] /\ StoredRows[i] = stored[i - 1]
      BY <1>8, <1>11, <3>1
    <3> QED BY <1>14, <2>1, <3>2
  <2>2. CASE ~ (i <= n)
    <3>1. i - 1 \in n .. n + k - 1 /\ (i - 1) - n + 1 = i - n
      BY <2>2
    <3>2. stored'[i - 1] = list[i - n]
      BY <1>8, <3>1
    <3> QED BY <1>14, <2>2, <3>2
  <2> QED BY <2>1, <2>2
<1>16. whole = [i \in 1 .. n + k |-> whole[i]]
  BY <1>14
<1>17. StoredRows' = whole
  BY <1>12, <1>15, <1>16
<1>18. ASSUME NEW m \in DOMAIN stored', m \notin DOMAIN stored
       PROVE  stored'[m] \in Range(list)
  <2>1. m \in n .. n + k - 1
    BY <1>5, <1>8, <1>18
  <2>2. m - n + 1 \in DOMAIN list
    BY <1>5, <2>1
  <2> QED BY <1>8, <2>1, <2>2 DEF Range
<1> QED BY <1>2, <1>3, <1>4, <1>5, <1>8, <1>9, <1>11, <1>13, <1>17, <1>18

\* A batch is stored: its rows go from the pending to the stored ones, in place.
LEMMA StoreKeepsTheRows ==
    ASSUME TraceInv, NEW f \in Flusher, Store(f)
    PROVE  RowsInv'
<1>0. HoldsLock(f) /\ numbered[f] # Unread /\ Done(f)
      /\ UNCHANGED <<turn, noise, emitted, buffer, retries, failures, cancelled>>
  BY DEF Store
<1>1. RowsPlaced /\ RowsTyped /\ Queued /\ Account
  BY TraceParts DEF RowsInv
<1>2. /\ batch[f] \in Seq(TraceRow) /\ f \in Range(queue) /\ Range(batch[f]) \subseteq Range(emitted)
      /\ CoalescedWell(batch[f], Coalesced(batch[f]))
  BY <1>0, UnderTheLock
<1>3. /\ queue \in Seq(Flusher) /\ queue # <<>> /\ Head(queue) = f /\ IsInjective(queue)
      /\ queue' = Tail(queue) /\ queue' \in Seq(Flusher) /\ IsInjective(queue')
      /\ batch' = [batch EXCEPT ![f] = <<>>] /\ Contributes(batch', Flusher, TraceRow)
      /\ Contributes(batch, Flusher, TraceRow)
      /\ Range(queue') = Range(queue) \ {f} /\ Range(queue') \subseteq Flusher
      /\ numbered' = [numbered EXCEPT ![f] = Unread]
      /\ \A g \in Flusher : numbered'[g] = Unread
      /\ \A g \in Flusher : g \in Range(queue') <=> batch'[g] # <<>>
      /\ \A g \in Flusher : Range(batch'[g]) \subseteq Range(emitted)
  BY <1>0, LeavesTheQueue
<1>4. /\ NextSeq' \in Nat /\ DOMAIN stored' = 0 .. NextSeq' - 1
      /\ \A n \in DOMAIN stored : n \in DOMAIN stored' /\ stored'[n] = stored[n]
      /\ \A n \in DOMAIN stored' : n \in DOMAIN stored \/ stored'[n] \in Range(Coalesced(batch[f]))
      /\ StoredRows' = StoredRows \o Coalesced(batch[f])
      /\ StoredRows \in Seq(TraceRow)
  BY StoresWell
<1>5. PICK list \in Seq(TraceRow) : list = Coalesced(batch[f])
  BY <1>2 DEF CoalescedWell
<1>6. Range(list) \subseteq TraceRow
  BY <1>5, RangeOfSeq
<1>7. RowsPlaced'
  <2>1. numbered' \in [Flusher -> Nat \cup {Unread}]
    BY <1>1, <1>3 DEF RowsPlaced
  <2> QED BY <1>0, <1>1, <1>3, <1>4, <2>1 DEF RowsPlaced, NextSeq
<1>8. RowsTyped'
  <2>1. \A n \in DOMAIN stored' : stored'[n] \in TraceRow
    BY <1>1, <1>4, <1>5, <1>6 DEF RowsTyped
  <2> QED BY <1>0, <1>1, <1>3, <1>4, <2>1 DEF RowsTyped, NextSeq
<1>9. Queued'
  BY <1>0, <1>3 DEF Queued
\* A piece of the new rows is a row of the batch, and so one that was emitted.
<1>10. ASSUME NEW q \in Range(list), NEW i \in Range(q.text)
       PROVE  i \in DOMAIN emitted /\ SameSlice(emitted[i], q)
  <2>1. PICK r \in Range(batch[f]) : i \in Range(r.text) /\ SameSlice(r, q)
    BY <1>2, <1>5, <1>10 DEF CoalescedWell
  <2>2. PICK j \in DOMAIN emitted : r = emitted[j]
    BY <1>2, <2>1 DEF Range
  <2>3. r.text = <<j>>
    BY <1>1, <2>2 DEF RowsTyped
  <2>4. i = j
    BY <2>1, <2>3 DEF Range
  <2> QED BY <2>1, <2>2, <2>4
<1>11. \A n \in DOMAIN stored' : \A i \in Range(stored'[n].text) :
           i \in DOMAIN emitted /\ SameSlice(emitted[i], stored'[n])
  <2> TAKE n \in DOMAIN stored'
  <2>1. CASE n \in DOMAIN stored
    <3>1. stored'[n] = stored[n]
      BY <1>4, <2>1
    <3> QED BY <1>1, <2>1, <3>1 DEF Account, TraceIsWhatWasEmitted
  <2>2. CASE stored'[n] \in Range(list)
    BY <1>10, <2>2
  <2> QED BY <1>4, <1>5, <2>1, <2>2
<1>12. /\ Pending = batch[f] \o Pending'
       /\ Pending' \in Seq(TraceRow) /\ Pending \in Seq(TraceRow)
  <2>1. buffer \in Seq(TraceRow) /\ buffer' = buffer
    BY <1>0, <1>1 DEF RowsTyped
  <2>2. PendingOf(queue, batch, buffer) = batch[f] \o PendingOf(queue', batch', buffer)
    <3>1. AtTheHead(queue, batch)
      BY <1>3 DEF AtTheHead
    <3>2. \A r \in Seq(TraceRow) :
              PendingOf(queue, batch, r)
                  = batch[Head(queue)] \o PendingOf(Tail(queue), WithoutHead(queue, batch), r)
      BY <3>1, DonePending
    <3>3. Head(queue) = f /\ Tail(queue) = queue' /\ WithoutHead(queue, batch) = batch'
      BY <1>3 DEF WithoutHead
    <3> QED BY <2>1, <3>2, <3>3, Zenon
  <2>3. Pending = batch[f] \o Pending'
    BY <1>3, <2>1, <2>2, PendingIs
  <2> QED BY <1>1, <1>8, <1>9, <2>3, PendingRows, PendingRowsNext
<1>13. ASSUME failures = 0, cancelled = {}
       PROVE  KeptText(StoredRows') \o KeptText(Pending') = KeptText(emitted)
  <2>1. KeptText(StoredRows) \o KeptText(Pending) = KeptText(emitted)
    BY <1>1, <1>13 DEF Account, TraceIsWhatWasEmitted
  <2>2. \A x, y \in Seq(TraceRow) : KeptText(x \o y) = KeptText(x) \o KeptText(y)
    BY KeptTextConcat
  <2>3. KeptText(StoredRows') = KeptText(StoredRows) \o KeptText(list)
    BY <1>4, <1>5, <2>2
  <2>4. KeptText(Pending) = KeptText(batch[f]) \o KeptText(Pending')
    BY <1>2, <1>12, <2>2, Zenon
  <2>5. KeptText(list) = KeptText(batch[f])
    BY <1>2, <1>5 DEF CoalescedWell
  <2>6. /\ KeptText(StoredRows) \in Seq(Piece) /\ KeptText(list) \in Seq(Piece)
        /\ KeptText(Pending') \in Seq(Piece)
    BY <1>4, <1>5, <1>12, KeptTextType
  <2>7. (KeptText(StoredRows) \o KeptText(list)) \o KeptText(Pending')
            = KeptText(StoredRows) \o (KeptText(list) \o KeptText(Pending'))
    BY <2>6, TextsRegroup, Zenon
  <2> QED BY <2>1, <2>3, <2>4, <2>5, <2>7
<1>14. ClosingRowsAreNotDropped'
  <2> SUFFICES ASSUME NEW r \in Closing(emitted)
               PROVE  \/ r \in Range(StoredRows') \/ r \in cancelled
                      \/ r \in Range(Pending') /\ (writer' = "closed" => failures > 0)
                      \/ failures > MaxClosingRetries
    BY <1>0 DEF ClosingRowsAreNotDropped
  <2>1. Range(StoredRows') = Range(StoredRows) \cup Range(list)
    BY <1>4, <1>5, RangeConcatenation
  <2>2. Range(Pending) = Range(batch[f]) \cup Range(Pending')
    <3>1. \A x, y \in Seq(TraceRow) : Range(x \o y) = Range(x) \cup Range(y)
      BY RangeOfBoth
    <3> QED BY <1>2, <1>12, <3>1, Zenon
  <2>3. r \in Range(batch[f]) => r \in Range(list)
    <3>1. r.kind \in ClosingKinds
      BY DEF Closing
    <3> QED BY <1>2, <1>5, <3>1 DEF CoalescedWell, Closing
  <2>4. \/ r \in Range(StoredRows) \/ r \in cancelled
        \/ r \in Range(Pending) /\ (writer = "closed" => failures > 0)
        \/ failures > MaxClosingRetries
    BY <1>1 DEF Account, ClosingRowsAreNotDropped
  <2>5. ASSUME r \in Range(Pending'), writer' = "closed", writer # "closed"
        PROVE  failures > 0
    <3>1. f = Run /\ Run \in Range(queue) /\ writer = "closing"
      BY <1>0, <1>2, <2>5, TraceParts DEF Done, Waiting
    <3>2. failures = 0 => buffer' = <<>>
      BY <1>0, <3>1, TraceParts DEF Waiting
    <3>3. \A g \in Flusher : g \notin Range(queue')
      BY <1>3, <3>1, OnlyTheRunWaits
    <3>4. \A g \in Flusher : batch'[g] = <<>>
      BY <1>3, <3>3
    <3>5. Range(<<>>) = {}
      BY DEF Range
    <3>6. Range(Pending') = (UNION {Range(batch'[g]) : g \in Flusher}) \cup Range(buffer')
      BY <1>8, <1>9, PendingRowsNext
    <3>7. failures # 0
      BY <2>5, <3>2, <3>4, <3>5, <3>6
    <3> QED BY <3>7, TraceParts
  <2> QED BY <2>1, <2>2, <2>3, <2>4, <2>5
<1>15. Account'
  BY <1>0, <1>11, <1>13, <1>14 DEF Account, TraceIsWhatWasEmitted
<1> QED BY <1>7, <1>8, <1>9, <1>15 DEF RowsInv

\* A batch is refused, and goes back in front of the buffer if it closes a slice and the
\* writer has not tried too often.
LEMMA RefuseKeepsTheRows ==
    ASSUME TraceInv, NEW f \in Flusher, Refuse(f)
    PROVE  RowsInv' /\ failures' = failures + 1 /\ failures' \in 0 .. MaxFailures
           /\ retries' \in 0 .. MaxClosingRetries /\ retries' <= failures'
<1>0. HoldsLock(f) /\ numbered[f] # Unread /\ Done(f) /\ PutBack(f)
      /\ UNCHANGED <<turn, noise, emitted, stored, cancelled>>
  BY DEF Refuse
<1>1. RowsPlaced /\ RowsTyped /\ Queued /\ Account /\ Waiting
      /\ retries \in 0 .. MaxClosingRetries /\ failures \in 0 .. MaxFailures
  BY TraceParts DEF RowsInv
<1>2. /\ batch[f] \in Seq(TraceRow) /\ f \in Range(queue) /\ Range(batch[f]) \subseteq Range(emitted)
      /\ DOMAIN Fresh(f) \cap DOMAIN stored = {}
  BY <1>0, UnderTheLock
<1>3. /\ queue' \in Seq(Flusher) /\ IsInjective(queue')
      /\ batch' = [batch EXCEPT ![f] = <<>>] /\ Contributes(batch', Flusher, TraceRow)
      /\ Contributes(batch, Flusher, TraceRow)
      /\ Range(queue') = Range(queue) \ {f} /\ Range(queue') \subseteq Flusher
      /\ numbered' = [numbered EXCEPT ![f] = Unread]
      /\ \A g \in Flusher : numbered'[g] = Unread
      /\ \A g \in Flusher : g \in Range(queue') <=> batch'[g] # <<>>
      /\ \A g \in Flusher : Range(batch'[g]) \subseteq Range(emitted)
  BY <1>0, LeavesTheQueue
<1>4. failures < MaxFailures /\ failures' = failures + 1
  BY <1>2 DEF Refuse
<1>5. {MaxNoise, MaxFailures, MaxClosingRetries} \subseteq Nat
  BY ProcessStreamAssumption
<1>6. failures' \in 0 .. MaxFailures /\ failures' > 0
  BY <1>1, <1>4, <1>5
<1>7. retries' \in 0 .. MaxClosingRetries /\ retries' <= failures'
  <2>1. retries <= failures
    BY <1>1 DEF Waiting
  <2> QED BY <1>0, <1>1, <1>4, <1>5, <2>1 DEF PutBack
<1>8. buffer \in Seq(TraceRow) /\ Range(buffer) \subseteq Range(emitted)
  BY <1>1 DEF RowsTyped, RowsPlaced
<1>9. /\ buffer' \in Seq(TraceRow) /\ Range(buffer') \subseteq Range(emitted)
      /\ Range(buffer) \subseteq Range(buffer')
      /\ retries < MaxClosingRetries => Closing(batch[f]) \subseteq Range(buffer')
  <2>1. CASE retries < MaxClosingRetries /\ \E r \in Range(batch[f]) : r.kind \in ClosingKinds
    <3>1. buffer' = batch[f] \o buffer
      BY <1>0, <2>1 DEF PutBack
    <3>2. buffer' \in Seq(TraceRow) /\ Range(buffer') = Range(batch[f]) \cup Range(buffer)
      BY <1>2, <1>8, <3>1, ConcatProperties, RangeConcatenation
    <3> QED BY <1>2, <1>8, <3>2 DEF Closing
  <2>2. CASE ~ (retries < MaxClosingRetries /\ \E r \in Range(batch[f]) : r.kind \in ClosingKinds)
    <3>1. buffer' = buffer
      BY <1>0, <2>2 DEF PutBack
    <3> QED BY <1>8, <2>2, <3>1 DEF Closing
  <2> QED BY <2>1, <2>2
<1>10. RowsPlaced'
  <2>1. numbered' \in [Flusher -> Nat \cup {Unread}]
    BY <1>1, <1>3 DEF RowsPlaced
  <2> QED BY <1>0, <1>1, <1>3, <1>9, <2>1 DEF RowsPlaced
<1>11. RowsTyped'
  BY <1>0, <1>1, <1>3, <1>9 DEF RowsTyped
<1>12. Queued'
  BY <1>0, <1>3 DEF Queued
<1>13. /\ Range(Pending) = (UNION {Range(batch[g]) : g \in Flusher}) \cup Range(buffer)
       /\ Range(Pending') = (UNION {Range(batch'[g]) : g \in Flusher}) \cup Range(buffer')
  BY <1>1, <1>11, <1>12, PendingRows, PendingRowsNext
<1>14. StoredRows' = StoredRows
  BY <1>0 DEF StoredRows
<1>15. ClosingRowsAreNotDropped'
  <2> SUFFICES ASSUME NEW r \in Closing(emitted)
               PROVE  \/ r \in Range(StoredRows) \/ r \in cancelled
                      \/ r \in Range(Pending')
                      \/ failures' > MaxClosingRetries
    BY <1>0, <1>6, <1>14 DEF ClosingRowsAreNotDropped
  <2>1. \/ r \in Range(StoredRows) \/ r \in cancelled \/ r \in Range(Pending)
        \/ failures > MaxClosingRetries
    BY <1>1 DEF Account, ClosingRowsAreNotDropped
  <2>2. CASE r \in Range(Pending)
    <3>1. CASE r \in Range(batch[f])
      <4>1. r \in Closing(batch[f])
        BY <3>1 DEF Closing
      <4>2. CASE retries < MaxClosingRetries
        BY <1>9, <1>13, <4>1, <4>2
      <4>3. CASE ~ (retries < MaxClosingRetries)
        <5>1. retries <= failures
          BY <1>1 DEF Waiting
        <5> QED BY <1>1, <1>4, <1>5, <4>3, <5>1
      <4> QED BY <4>2, <4>3
    <3>2. CASE r \notin Range(batch[f])
      <4>1. r \in Range(buffer) \/ \E g \in Flusher : r \in Range(batch[g])
        BY <1>13, <2>2
      <4>2. CASE r \in Range(buffer)
        BY <1>9, <1>13, <4>2
      <4>3. CASE \E g \in Flusher : r \in Range(batch[g])
        <5>1. PICK g \in Flusher : r \in Range(batch[g])
          BY <4>3
        <5>2. batch'[g] = batch[g]
          BY <1>3, <3>2, <5>1 DEF Contributes
        <5> QED BY <1>13, <5>1, <5>2
      <4> QED BY <4>1, <4>2, <4>3
    <3> QED BY <3>1, <3>2
  <2>3. CASE failures > MaxClosingRetries
    BY <1>1, <1>4, <1>5, <2>3
  <2> QED BY <2>1, <2>2, <2>3
<1>16. Account'
  BY <1>0, <1>1, <1>6, <1>15 DEF Account, TraceIsWhatWasEmitted
<1> QED BY <1>4, <1>6, <1>7, <1>10, <1>11, <1>12, <1>16 DEF RowsInv

-----------------------------------------------------------------------------
(* The invariance, one lemma for each action. *)

\* Flushers are told apart by the seat and by what they do.
LEMMA FlushersDiffer ==
    ASSUME NEW s \in Slice
    PROVE  /\ <<s, "relay">> \in Flusher /\ <<s, "beat">> \in Flusher /\ Run \in Flusher
           /\ <<s, "relay">> # Run /\ <<s, "beat">> # Run
           /\ \A t \in Slice : <<s, "relay">> # <<t, "beat">>
           /\ \A t \in Slice : <<s, "relay">> = <<t, "relay">> => s = t
           /\ \A t \in Slice : <<s, "beat">> = <<t, "beat">> => s = t
BY DEF Flusher, Run

\* A seat begins.
LEMMA OpenSliceKeepsTrace ==
    ASSUME TraceInv, NEW s \in Slice, OpenSlice(s)
    PROVE  TraceInv'
<1>1. /\ writer = "open" /\ turn[s] = "idle" /\ turn' = [turn EXCEPT ![s] = "thinking"]
      /\ EmitRow(Row("seat_deliberation", s)) /\ Queue(Row("seat_deliberation", s))
      /\ noise' = noise
  BY DEF OpenSlice
<1>2. RowsInv'
  BY <1>1, BufferEmits DEF Kind
<1>3. /\ UNCHANGED <<queue, writer, retries, failures>>
      /\ turn \in [Slice -> {"idle", "thinking", "answered", "over"}]
  BY <1>1, TraceParts DEF EmitRow, Queue, outcomeVars, flushVars
<1>4. Waiting'
  BY <1>1, <1>3, TraceParts DEF Waiting
<1>5. turn' \in [Slice -> {"idle", "thinking", "answered", "over"}]
  BY <1>1, <1>3
<1> QED BY <1>1, <1>2, <1>3, <1>4, <1>5, TraceParts, TracePartsNext

\* A token is relayed.
LEMMA RelayKeepsTrace ==
    ASSUME TraceInv, NEW s \in Slice, Relay(s)
    PROVE  TraceInv'
<1>1. /\ turn[s] = "thinking" /\ Idle(<<s, "relay">>) /\ noise < MaxNoise /\ noise' = noise + 1
      /\ EmitRow(Row("model_token", s)) /\ turn' = turn
      /\ \/ Queue(Row("model_token", s))
         \/ Take(<<s, "relay">>, Append(buffer, Row("model_token", s)))
  BY DEF Relay
<1>2. Waiting /\ noise \in 0 .. MaxNoise /\ MaxNoise \in Nat
  BY TraceParts, ProcessStreamAssumption
<1>3. writer = "open"
  BY <1>1, <1>2, TraceParts DEF Waiting
<1>4. noise' \in 0 .. MaxNoise
  BY <1>1, <1>2
<1>5. UNCHANGED <<writer, retries, failures>>
  BY <1>1 DEF EmitRow, outcomeVars
<1>6. CASE Queue(Row("model_token", s))
  <2>1. RowsInv'
    BY <1>1, <1>3, <1>6, BufferEmits DEF Kind
  <2>2. queue' = queue
    BY <1>6 DEF Queue, flushVars
  <2>3. Waiting'
    BY <1>1, <1>2, <1>3, <1>5, <2>2 DEF Waiting
  <2> QED BY <1>1, <1>4, <1>5, <2>1, <2>3, TraceParts, TracePartsNext
<1>7. CASE Take(<<s, "relay">>, Append(buffer, Row("model_token", s)))
  <2>1. RowsInv' /\ Range(queue') = Range(queue) \cup {<<s, "relay">>}
    BY <1>1, <1>3, <1>7, TakeEmits, FlushersDiffer DEF Kind
  <2>2. Waiting'
    BY <1>1, <1>2, <1>3, <1>5, <2>1, FlushersDiffer DEF Waiting
  <2> QED BY <1>1, <1>4, <1>5, <2>1, <2>2, TraceParts, TracePartsNext
<1> QED BY <1>1, <1>6, <1>7

\* The heartbeat of a seat.
LEMMA BeatKeepsTrace ==
    ASSUME TraceInv, NEW s \in Slice, Beat(s)
    PROVE  TraceInv'
<1>1. /\ turn[s] \in {"thinking", "answered"} /\ Idle(<<s, "beat">>)
      /\ noise < MaxNoise /\ noise' = noise + 1
      /\ EmitRow(Row("seat_working", s)) /\ turn' = turn
      /\ Take(<<s, "beat">>, Append(buffer, Row("seat_working", s)))
  BY DEF Beat
<1>2. Waiting /\ noise \in 0 .. MaxNoise /\ MaxNoise \in Nat
  BY TraceParts, ProcessStreamAssumption
<1>3. writer = "open"
  BY <1>1, <1>2, TraceParts DEF Waiting
<1>4. noise' \in 0 .. MaxNoise
  BY <1>1, <1>2
<1>5. UNCHANGED <<writer, retries, failures>>
  BY <1>1 DEF EmitRow, outcomeVars
<1>6. RowsInv' /\ Range(queue') = Range(queue) \cup {<<s, "beat">>}
  BY <1>1, <1>3, TakeEmits, FlushersDiffer DEF Kind
<1>7. Waiting'
  BY <1>1, <1>2, <1>3, <1>5, <1>6, FlushersDiffer DEF Waiting
<1> QED BY <1>1, <1>4, <1>5, <1>6, <1>7, TraceParts, TracePartsNext

\* A seat has answered.
LEMMA CloseSliceKeepsTrace ==
    ASSUME TraceInv, NEW s \in Slice, CloseSlice(s)
    PROVE  TraceInv'
<1>1. /\ turn[s] = "thinking" /\ Idle(<<s, "relay">>) /\ turn' = [turn EXCEPT ![s] = "answered"]
      /\ EmitRow(Row("model_done", s)) /\ Queue(Row("model_done", s))
      /\ noise' = noise
  BY DEF CloseSlice
<1>2. Waiting /\ turn \in [Slice -> {"idle", "thinking", "answered", "over"}]
  BY TraceParts
<1>3. writer = "open"
  BY <1>1, <1>2, TraceParts DEF Waiting
<1>4. RowsInv'
  BY <1>1, <1>3, BufferEmits DEF Kind
<1>5. UNCHANGED <<queue, writer, retries, failures>>
  BY <1>1 DEF EmitRow, Queue, outcomeVars, flushVars
<1>6. Waiting'
  BY <1>1, <1>2, <1>3, <1>5 DEF Waiting, Idle
<1>7. turn' \in [Slice -> {"idle", "thinking", "answered", "over"}]
  BY <1>1, <1>2
<1> QED BY <1>1, <1>4, <1>5, <1>6, <1>7, TraceParts, TracePartsNext

\* A seat is left, and its heartbeat is cancelled.
LEMMA LeaveSliceKeepsTrace ==
    ASSUME TraceInv, NEW s \in Slice, LeaveSlice(s)
    PROVE  TraceInv'
<1>1. /\ turn[s] = "answered" /\ turn' = [turn EXCEPT ![s] = "over"] /\ Cancel({<<s, "beat">>})
  BY DEF LeaveSlice
<1>2. Waiting /\ turn \in [Slice -> {"idle", "thinking", "answered", "over"}]
  BY TraceParts
<1>3. writer = "open"
  BY <1>1, <1>2, TraceParts DEF Waiting
<1>4. UNCHANGED <<noise, retries, failures, writer>>
  BY <1>1 DEF Cancel
<1>5. RowsInv' /\ Range(queue') = Range(queue) \ {<<s, "beat">>}
  <2>1. {<<s, "beat">>} \in SUBSET Flusher
    BY FlushersDiffer
  <2> QED BY <1>1, <1>3, <2>1, CancelsWell
<1>6. Waiting'
  BY <1>1, <1>2, <1>3, <1>4, <1>5, FlushersDiffer DEF Waiting
<1>7. turn' \in [Slice -> {"idle", "thinking", "answered", "over"}]
  BY <1>1, <1>2
<1> QED BY <1>4, <1>5, <1>6, <1>7, TraceParts, TracePartsNext

\* A seat is cancelled, with whatever flush of it waits.
LEMMA AbandonKeepsTrace ==
    ASSUME TraceInv, NEW s \in Slice, Abandon(s)
    PROVE  TraceInv'
<1>1. /\ turn[s] = "thinking" /\ turn' = [turn EXCEPT ![s] = "over"]
      /\ Cancel({<<s, "relay">>, <<s, "beat">>})
  BY DEF Abandon
<1>2. Waiting /\ turn \in [Slice -> {"idle", "thinking", "answered", "over"}]
  BY TraceParts
<1>3. writer = "open"
  BY <1>1, <1>2, TraceParts DEF Waiting
<1>4. UNCHANGED <<noise, retries, failures, writer>>
  BY <1>1 DEF Cancel
<1>5. RowsInv' /\ Range(queue') = Range(queue) \ {<<s, "relay">>, <<s, "beat">>}
  <2>1. {<<s, "relay">>, <<s, "beat">>} \in SUBSET Flusher
    BY FlushersDiffer
  <2> QED BY <1>1, <1>3, <2>1, CancelsWell
<1>6. Waiting'
  BY <1>1, <1>2, <1>3, <1>4, <1>5, FlushersDiffer DEF Waiting
<1>7. turn' \in [Slice -> {"idle", "thinking", "answered", "over"}]
  BY <1>1, <1>2
<1> QED BY <1>4, <1>5, <1>6, <1>7, TraceParts, TracePartsNext

\* The last flush of a run: nobody else waits, and it takes all there is.
LEMMA CloseTraceKeepsTrace ==
    ASSUME TraceInv, CloseTrace
    PROVE  TraceInv'
<1>1. /\ writer = "open" /\ \A s \in Slice : turn[s] \in {"idle", "over"}
      /\ UNCHANGED <<turn, noise, emitted, stored, retries, failures, cancelled>>
  BY DEF CloseTrace
<1>2. RowsPlaced /\ RowsTyped /\ Queued /\ Account /\ Waiting
  BY TraceParts DEF RowsInv
<1>3. /\ queue \in Seq(Flusher) /\ buffer \in Seq(TraceRow)
      /\ Contributes(batch, Flusher, TraceRow) /\ Range(queue) \subseteq Flusher
  BY <1>2 DEF RowsTyped, RowsPlaced
<1>4. Range(queue) = {}
  <2> SUFFICES ASSUME NEW g \in Range(queue) PROVE FALSE
    OBVIOUS
  <2>1. g \in Flusher
    BY <1>3
  <2> QED BY <1>1, <1>2, <2>1 DEF Flusher, Waiting
<1>5. StoredRows' = StoredRows
  BY <1>1 DEF StoredRows
<1>6. Range(<<>>) = {}
  BY DEF Range
<1>7. CASE buffer = <<>>
  <2>1. writer' = "closed" /\ UNCHANGED <<buffer, batch, queue, numbered>>
    BY <1>7 DEF CloseTrace, flushVars
  <2>2. RowsPlaced' /\ RowsTyped' /\ Queued'
    BY <1>1, <1>2, <2>1 DEF RowsPlaced, RowsTyped, Queued, HoldsLock, NextSeq
  <2>3. Pending' = Pending
    BY <2>1 DEF Pending
  <2>4. Range(Pending) = {}
    <3>1. Range(Pending) = (UNION {Range(batch[f]) : f \in Flusher}) \cup Range(buffer)
      BY <1>2, PendingRows
    <3>2. \A f \in Flusher : batch[f] = <<>>
      BY <1>2, <1>4 DEF Queued
    <3> QED BY <1>6, <1>7, <3>1, <3>2
  <2>5. Account'
    BY <1>1, <1>2, <1>5, <2>3, <2>4 DEF Account, TraceIsWhatWasEmitted, ClosingRowsAreNotDropped
  <2>6. Waiting'
    BY <1>1, <1>2, <1>4, <1>7, <2>1 DEF Waiting
  <2> QED BY <1>1, <2>1, <2>2, <2>5, <2>6, TraceParts, TracePartsNext DEF RowsInv
<1>8. CASE buffer # <<>>
  <2>1. writer' = "closing" /\ Take(Run, buffer)
    BY <1>8 DEF CloseTrace
  <2>2. Run \in Flusher /\ Idle(Run)
    BY <1>4 DEF Idle, Flusher
  <2>3. /\ Range(queue') \subseteq Flusher /\ IsInjective(queue')
        /\ queue' \in Seq(Flusher) /\ Contributes(batch', Flusher, TraceRow)
        /\ buffer' = <<>> /\ Range(buffer') = {} /\ numbered' = numbered
        /\ batch' = [batch EXCEPT ![Run] = buffer]
        /\ \A g \in Flusher : g \in Range(queue') <=> batch'[g] # <<>>
        /\ \A g \in Flusher : numbered'[g] # Unread => HoldsLock(g)' /\ numbered'[g] = NextSeq'
        /\ Range(queue') = Range(queue) \cup {Run}
        /\ Pending' = PendingOf(queue, batch, buffer)
    BY <1>1, <1>2, <1>3, <1>8, <2>1, <2>2, TakesWell
  <2>4. Pending' = Pending
    BY <2>3, PendingIs
  <2>5. RowsPlaced'
    BY <1>1, <1>2, <2>3 DEF RowsPlaced
  <2>6. RowsTyped'
    BY <1>1, <1>2, <2>3, EmptyBuffer DEF RowsTyped
  <2>7. Queued'
    <3>1. \A g \in Flusher : Range(batch'[g]) \subseteq Range(emitted')
      <4>1. batch \in [Flusher -> Seq(TraceRow)]
        BY <1>3 DEF Contributes
      <4> QED BY <1>1, <1>2, <2>3, <4>1 DEF Queued, RowsPlaced
    <3> QED BY <2>3, <3>1 DEF Queued
  <2>8. Account'
    BY <1>1, <1>2, <1>5, <2>1, <2>4 DEF Account, TraceIsWhatWasEmitted, ClosingRowsAreNotDropped
  <2>9. Waiting'
    BY <1>1, <1>2, <1>4, <2>1, <2>3, FlushersDiffer DEF Waiting
  <2> QED BY <1>1, <2>1, <2>5, <2>6, <2>7, <2>8, <2>9, TraceParts, TracePartsNext DEF RowsInv
<1> QED BY <1>7, <1>8

\* The holder of the lock reads its number.
LEMMA AllocateKeepsTrace ==
    ASSUME TraceInv, NEW f \in Flusher, Allocate(f)
    PROVE  TraceInv'
<1>1. /\ HoldsLock(f) /\ numbered' = [numbered EXCEPT ![f] = NextSeq]
      /\ UNCHANGED <<turn, noise, emitted, buffer, batch, queue, stored, retries, failures,
                     cancelled, writer>>
  BY DEF Allocate, outcomeVars
<1>2. RowsPlaced /\ RowsTyped /\ Queued /\ Account /\ Waiting
  BY TraceParts DEF RowsInv
<1>3. numbered \in [Flusher -> Nat \cup {Unread}] /\ NextSeq \in Nat
  BY <1>2 DEF RowsPlaced, RowsTyped, NextSeq
<1>4. numbered' \in [Flusher -> Nat \cup {Unread}]
  BY <1>1, <1>3
<1>5. RowsPlaced' /\ RowsTyped'
  BY <1>1, <1>2, <1>4 DEF RowsPlaced, RowsTyped
<1>6. Queued'
  BY <1>1, <1>2, <1>3 DEF Queued, HoldsLock, NextSeq
<1>7. Pending' = Pending /\ StoredRows' = StoredRows
  BY <1>1 DEF Pending, StoredRows
<1>8. Account'
  BY <1>1, <1>2, <1>7 DEF Account, TraceIsWhatWasEmitted, ClosingRowsAreNotDropped
<1>9. Waiting'
  BY <1>1, <1>2 DEF Waiting
<1> QED BY <1>1, <1>5, <1>6, <1>8, <1>9, TraceParts, TracePartsNext DEF RowsInv

\* The writer is done with a batch.
LEMMA DoneKeepsWaiting ==
    ASSUME TraceInv, NEW f \in Flusher, Done(f), f \in Range(queue), turn' = turn,
           Range(queue') = Range(queue) \ {f}, retries' <= failures',
           failures' = 0 => buffer' = buffer /\ failures = 0
    PROVE  Waiting' /\ writer' \in {"open", "closing", "closed"}
<1>1. Waiting /\ writer' = IF f = Run THEN "closed" ELSE writer
  BY TraceParts DEF Done
<1>2. f = Run => writer = "closing"
  BY <1>1 DEF Waiting
<1>3. writer' = "closing" => f # Run /\ writer = "closing"
  BY <1>1
<1>4. Run \in Range(queue') <=> writer' = "closing"
  BY <1>1, <1>2 DEF Waiting
<1> QED BY <1>1, <1>2, <1>4, TraceParts DEF Waiting

\* The table takes a batch, or refuses it.
LEMMA StoreKeepsTrace ==
    ASSUME TraceInv, NEW f \in Flusher, Store(f)
    PROVE  TraceInv'
<1>1. HoldsLock(f) /\ numbered[f] # Unread /\ Done(f)
      /\ UNCHANGED <<turn, noise, emitted, buffer, retries, failures, cancelled>>
  BY DEF Store
<1>2. f \in Range(queue) /\ Range(queue') = Range(queue) \ {f}
  BY <1>1, UnderTheLock, LeavesTheQueue
<1>3. retries' <= failures'
  BY <1>1, TraceParts DEF Waiting
<1>4. Waiting' /\ writer' \in {"open", "closing", "closed"}
  BY <1>1, <1>2, <1>3, DoneKeepsWaiting
<1>5. RowsInv'
  BY StoreKeepsTheRows
<1> QED BY <1>1, <1>4, <1>5, TraceParts, TracePartsNext

LEMMA RefuseKeepsTrace ==
    ASSUME TraceInv, NEW f \in Flusher, Refuse(f)
    PROVE  TraceInv'
<1>1. HoldsLock(f) /\ numbered[f] # Unread /\ Done(f)
      /\ UNCHANGED <<turn, noise, emitted, stored, cancelled>>
  BY DEF Refuse
<1>2. f \in Range(queue) /\ Range(queue') = Range(queue) \ {f}
  BY <1>1, UnderTheLock, LeavesTheQueue
<1>3. RowsInv' /\ failures' = failures + 1 /\ failures' \in 0 .. MaxFailures
      /\ retries' \in 0 .. MaxClosingRetries /\ retries' <= failures'
  BY RefuseKeepsTheRows
<1>4. failures' # 0
  BY <1>3, TraceParts
<1>5. Waiting' /\ writer' \in {"open", "closing", "closed"}
  BY <1>1, <1>2, <1>3, <1>4, DoneKeepsWaiting
<1> QED BY <1>1, <1>3, <1>5, TraceParts, TracePartsNext

\* Every step keeps the invariant, so it always holds.
LEMMA TraceGoesOn == TraceInv /\ [TraceNext]_traceVars => TraceInv'
<1> SUFFICES ASSUME TraceInv, [TraceNext]_traceVars PROVE TraceInv'
  OBVIOUS
<1>1. ASSUME NEW s \in Slice,
             OpenSlice(s) \/ Relay(s) \/ Beat(s) \/ CloseSlice(s) \/ LeaveSlice(s) \/ Abandon(s)
      PROVE  TraceInv'
  BY <1>1, OpenSliceKeepsTrace, RelayKeepsTrace, BeatKeepsTrace, CloseSliceKeepsTrace,
     LeaveSliceKeepsTrace, AbandonKeepsTrace
<1>2. CASE CloseTrace
  BY <1>2, CloseTraceKeepsTrace
<1>3. ASSUME NEW f \in Flusher, Allocate(f) \/ Store(f) \/ Refuse(f) PROVE TraceInv'
  BY <1>3, AllocateKeepsTrace, StoreKeepsTrace, RefuseKeepsTrace
<1>4. CASE UNCHANGED traceVars
  <2>1. UNCHANGED <<turn, noise, emitted, buffer, batch, queue, numbered, stored,
                    retries, failures, cancelled, writer>>
    BY <1>4 DEF traceVars
  <2>2. RowsInv'
    BY <2>1, RowsStay, TraceParts
  <2>3. Waiting'
    BY <2>1, TraceParts DEF Waiting
  <2> QED BY <2>1, <2>2, <2>3, TraceParts, TracePartsNext
<1> QED BY <1>1, <1>2, <1>3, <1>4 DEF TraceNext

LEMMA TraceInvariance == TraceSpec => []TraceInv
BY TraceBegins, TraceGoesOn, PTL DEF TraceSpec

\* The flush lock and _coalesce_batch (process_stream.py), for any number of seats and any
\* bounds: a stored row holds text of its own seat and kind only, and while no batch is
\* refused and no flush cancelled, the table and what the writer still has are the rows
\* that were emitted, in their order.
THEOREM TheTraceIsWhatWasEmitted == TraceSpec => []TraceIsWhatWasEmitted
<1>1. TraceInv => TraceIsWhatWasEmitted
  BY DEF TraceInv, Account
<1> QED BY <1>1, TraceInvariance, PTL

\* The retry of a refused batch, likewise: the row that closes a seat's card is stored or
\* about to be, unless its flush was cancelled or the writer was refused too often.
THEOREM NoClosingRowIsDropped == TraceSpec => []ClosingRowsAreNotDropped
<1>1. TraceInv => ClosingRowsAreNotDropped
  BY DEF TraceInv, Account
<1> QED BY <1>1, TraceInvariance, PTL
=============================================================================
