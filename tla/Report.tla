-------------------------------- MODULE Report --------------------------------
(***************************************************************************)
(* The paper of a finished council: packages/reports/synthesis.py, the     *)
(* reasoning map it is written as (packages/reports/reasoning_map.py), the *)
(* brief it is written from (packages/reports/service.py), and the order   *)
(* in which a worker deliberates, writes the paper and projects            *)
(* (apps/worker/jobs.py).                                                  *)
(*                                                                         *)
(* What a row says is a Text: two rows say the same when _dedupe_key cannot*)
(* tell them apart.  Counting keywords is abstracted to Leaders, the       *)
(* dimensions a text names most often.  Bullets, headlines and wording are *)
(* left out: a map is its citations and what it files.                     *)
(***************************************************************************)
EXTENDS Naturals, Sequences, FiniteSets, SequencesExt, Selections

CONSTANTS
    RecordedRow,   \* rows the council may record: a set of records, see CouncilRow
    Leaders,       \* [Text -> set of dimensions]: empty if it names none
    ShownPerField, \* _SHOWN_PER_FIELD
    Unknown,       \* an id that is not in the catalogue
    ModelSteps,    \* bound: the dimensions the model's steps may have
    MaxRows,       \* bound: rows of a run
    MaxLosses,     \* bound: lost database sessions and projections
    MaxOverruns    \* bound: first passes whose budget is spent before the gate, 0 or 1

ASSUME ReportAssumption ==
    {ShownPerField, MaxRows, MaxLosses, MaxOverruns} \subseteq Nat

VARIABLES
    recorded,   \* the council's rows in the ledger, in order
    admitted,   \* how many of them the projector has admitted to the graph
    taskState,  \* the status other processes see
    at,         \* "council", "parked", "stream", "invoke", "fallback", "done"
    gate,       \* the researcher's gate: "ahead", "passed", or "skipped" for want of budget
    catalogue,  \* the items the paper is written from
    papersOut,  \* [idempotency key -> stored paper]
    hasModel,   \* a model provider is connected
    era,        \* the program that stores the paper: "now", or an earlier one
    losses

reportVars == <<recorded, admitted, taskState, at, gate, catalogue, papersOut, hasModel, era,
                losses>>

-----------------------------------------------------------------------------
(* The catalogue *)

NodeKinds == {"finding", "blindspot", "dissent", "study"}

CouncilRow == [kind : NodeKinds \cup {"judgment", "challenge", "consensus"},
        seat : STRING, text : DOMAIN Leaders, stance : STRING,
        strong : BOOLEAN,    \* a fatal challenge, a blindspot with a high score
        section : STRING]    \* of a consensus: "boundary", "conflict" or "test"

OfKind(rows, kind) == Chosen(rows, {r \in ToSet(rows) : r.kind = kind})

StrongFirst(rows) ==
    Chosen(rows, {r \in ToSet(rows) : r.strong}) \o Chosen(rows, {r \in ToSet(rows) : ~r.strong})

\* ReportService.build: nodes come from the graph.
Graph == SubSeq(recorded, 1, admitted)

\* _load_consensus: the latest draft.
Consensus ==
    LET drafts == OfKind(recorded, "consensus")
    IN  IF drafts = <<>> THEN <<>> ELSE <<[Last(drafts) EXCEPT !.kind = Last(drafts).section]>>

\* load_judgment_rows, load_challenge_rows: from the ledger, as they are not nodes.
Material ==
    OfKind(recorded, "judgment") \o OfKind(Graph, "finding")
      \o StrongFirst(OfKind(recorded, "challenge")) \o StrongFirst(OfKind(Graph, "blindspot"))
      \o Consensus \o OfKind(Graph, "dissent") \o OfKind(Graph, "study")

\* build_catalog: each text once, numbered within its kind.
Catalog(rows) ==
    LET Add(items, r) ==
            IF \E i \in DOMAIN items : items[i].text = r.text THEN items
            ELSE Append(items, [id |-> <<r.kind, Len(OfKind(items, r.kind)) + 1>>, kind |-> r.kind,
                                text |-> r.text, seat |-> r.seat, stance |-> r.stance])
        after[n \in 0 .. Len(rows)] == IF n = 0 THEN <<>> ELSE Add(after[n - 1], rows[n])
    IN  after[Len(rows)]

Ids(items) == {items[i].id : i \in DOMAIN items}

(***************************************************************************)
(* The spine of six questions                                              *)
(***************************************************************************)

DIMENSIONS ==
    <<[key |-> "evidence", seats |-> {"evidence_auditor"}],
      [key |-> "measurement", seats |-> {"measurement_scientist"}],
      [key |-> "robustness", seats |-> {"replication_scientist"}],
      [key |-> "causality", seats |-> {"causal_scientist"}],
      [key |-> "boundary", seats |-> {"boundary_scientist"}],
      [key |-> "mechanism", seats |-> {"theory_builder", "adversarial_falsifier"}]>>

DimensionKeys == [i \in DOMAIN DIMENSIONS |-> DIMENSIONS[i].key]

Rank(key) == CHOOSE i \in DOMAIN DimensionKeys : DimensionKeys[i] = key

DefaultDimension ==
    [finding |-> "evidence", challenge |-> "mechanism", blindspot |-> "mechanism",
     boundary |-> "boundary", conflict |-> "mechanism", test |-> "causality",
     dissent |-> "mechanism", study |-> "causality", judgment |-> "mechanism"]

Classify(item) ==
    LET default == DefaultDimension[item.kind]
        leaders == Leaders[item.text]
    IN  IF leaders = {} \/ default \in leaders THEN default
        ELSE CHOOSE key \in leaders : \A other \in leaders : Rank(key) <= Rank(other)

STANCES == <<"affirmative", "negative", "conditional", "undetermined">>

BothSides == {"affirmative", "negative"}

\* What the rows are like.  Every judgment has a stance: one that declares none is read
\* for it (infer_stance).
ASSUME RecordedRowAssumption ==
    /\ RecordedRow \subseteq CouncilRow
    /\ \A r \in RecordedRow :
          /\ r.kind = "judgment" => r.stance \in ToSet(STANCES)
          /\ r.kind = "consensus" => r.section \in {"boundary", "conflict", "test"}
    /\ \A text \in DOMAIN Leaders : Leaders[text] \subseteq ToSet(DimensionKeys)
    /\ ModelSteps \subseteq ToSet(DimensionKeys)

\* The first n of a sequence.
UpTo(s, n) == SubSeq(s, 1, IF Len(s) < n THEN Len(s) ELSE n)

(***************************************************************************)
(* The map filed without a model                                           *)
(***************************************************************************)

DeterministicPositions(items) ==
    LET judgments == OfKind(items, "judgment")
        challenges == OfKind(items, "challenge")
        Holders(stance) == Chosen(judgments, {i \in ToSet(judgments) : i.stance = stance})
        Position(stance) ==
            LET seats == {h.seat : h \in ToSet(Holders(stance))}
                raised == Chosen(challenges, {i \in ToSet(challenges) :
                                                (i.seat \in seats) = (stance # "affirmative")})
            IN  [stance |-> stance,
                 refs |-> Ids(Holders(stance)) \cup Ids(UpTo(raised, ShownPerField))]
    IN  IF judgments = <<>> THEN {}
        ELSE {Position(stance) : stance \in
                {s \in ToSet(STANCES) : s \in BothSides \/ Holders(s) # <<>>}}

Folded(pool, shown) == Ids(pool) \ shown

DeterministicStep(dimension, items) ==
    LET pool == Chosen(items, {i \in ToSet(items) :
                                 i.kind # "judgment" /\ Classify(i) = dimension.key})
        Pool(kinds) == Chosen(pool, {i \in ToSet(pool) : i.kind \in kinds})
        Of(seat) == {i \in ToSet(items) : i.kind = "judgment" /\ i.seat = seat}
        \* One judgment for a seat: the last.
        owners == {Last(Chosen(items, Of(seat))).id : seat \in {s \in dimension.seats : Of(s) # {}}}
        shown == Ids(Pool({"dissent"}))
                   \cup Ids(UpTo(Pool({"finding"}), ShownPerField))
                   \cup Ids(UpTo(Pool({"boundary"}) \o Pool({"challenge"}), ShownPerField))
                   \cup Ids(UpTo(Pool({"blindspot", "conflict"}), ShownPerField))
                   \cup Ids(UpTo(Pool({"test", "study"}), 1))
    IN  [dimension |-> dimension.key, refs |-> owners \cup shown, related |-> Folded(pool, shown)]

DeterministicMap(items) ==
    LET steps == [i \in DOMAIN DIMENSIONS |-> DeterministicStep(DIMENSIONS[i], items)]
    IN  [mode |-> "deterministic", items |-> items, cited |-> {},
         positions |-> DeterministicPositions(items),
         steps |-> Chosen(steps, {s \in ToSet(steps) : s.refs # {} \/ s.related # {}}),
         unassigned |-> {}]

(***************************************************************************)
(* The map the model writes                                                *)
(***************************************************************************)

\* A reply: its steps in the model's order, one position or none, and what verdicts,
\* cruxes and next steps cite.
NoPosition == [stance |-> "none", refs |-> {}]

Citable(items) == {{}} \cup {{id} : id \in Ids(items) \cup {Unknown}}

WrittenStep(items) == [dimension : ModelSteps, refs : Citable(items)]

BareStep == [dimension : ModelSteps, refs : {{}}]

StepLists(items) == {<<s>> : s \in WrittenStep(items)} \cup (BareStep \X WrittenStep(items))

Sides(items) == [stance : {"affirmative", "conditional"}, refs : Citable(items)]

Reply(items) ==
    [bottom_line : {"said"}, cited : {{}}, steps : StepLists(items), position : {NoPosition}]
      \cup [bottom_line : {"said"}, cited : Citable(items), steps : {<<s>> : s \in BareStep},
            position : Sides(items)]
      \cup [bottom_line : {"said", ""}, cited : {{}}, steps : {<<>>}, position : {NoPosition}]

\* parse_model_map raises.
Unusable(reply) == reply.bottom_line = "" \/ reply.steps = <<>>

\* A mistake: a citation is taken at its word.
AnyRef(refs, items) == refs

KnownRefs(refs, items) == refs \cap Ids(items)

\* _parse_positions: a side nobody argued is added, if there are positions at all.
ParsedPositions(position, items) ==
    IF position = NoPosition \/ era # "now" THEN {}
    ELSE {[position EXCEPT !.refs = KnownRefs(@, items)]}
           \cup {[stance |-> side, refs |-> {}] : side \in BothSides \ {position.stance}}

CitedIn(map) ==
    map.cited \cup (UNION {p.refs : p \in map.positions})
      \cup (UNION {map.steps[i].refs : i \in DOMAIN map.steps})

\* A mistake: what no step's question covers is left out.
NoRest(items, ids) == {}

Rest(items, ids) == ids

\* _file_uncited: under the first step of its dimension, or unassigned.  Judgments are
\* shown whole elsewhere.
FileUncited(map, items) ==
    LET uncited == {i \in ToSet(items) : i.kind # "judgment" /\ i.id \notin CitedIn(map)}
        First(key) == {n \in DOMAIN map.steps :
                         /\ map.steps[n].dimension = key
                         /\ \A m \in 1 .. n - 1 : map.steps[m].dimension # key}
    IN  [map EXCEPT
           !.steps = [n \in DOMAIN @ |->
               [dimension |-> @[n].dimension, refs |-> @[n].refs,
                related |-> {i.id : i \in {u \in uncited : n \in First(Classify(u))}}]],
           !.unassigned = Rest(items, {i.id : i \in {u \in uncited : First(Classify(u)) = {}}})]

\* Sorted by the place of their question in the spine, otherwise in the model's order.
InOrder(steps) ==
    FlattenSeq([n \in DOMAIN DIMENSIONS |->
        Chosen(steps, {s \in ToSet(steps) : s.dimension = DIMENSIONS[n].key})])

ParseModelMap(reply, items) ==
    LET known(step) == [step EXCEPT !.refs = KnownRefs(@, items)]
    IN  FileUncited(
          [mode |-> "model", items |-> items, cited |-> KnownRefs(reply.cited, items),
           positions |-> ParsedPositions(reply.position, items),
           steps |-> InOrder([n \in DOMAIN reply.steps |-> known(reply.steps[n])]),
           unassigned |-> {}], items)

(***************************************************************************)
(* What is stored, and what a reader is shown                              *)
(***************************************************************************)

NoMap == [mode |-> "none"]

\* _paper_payload_dict.  Earlier programs stored no map, or one without positions.
Payload(map, fallback) ==
    [map |-> IF era = "before maps" THEN NoMap
             ELSE IF era = "now" THEN map ELSE [map EXCEPT !.positions = {}],
     positions |-> era = "now", fallback |-> fallback, derived |-> FALSE]

\* ensure_reasoning_map, _with_positions: a view on reading, the event stays as it is.
Shown(paper) ==
    IF paper.map = NoMap THEN
        [paper EXCEPT !.map = DeterministicMap(Catalog(Material)), !.derived = TRUE,
                      !.positions = TRUE]
    ELSE IF paper.positions THEN paper
    ELSE LET positions == DeterministicPositions(paper.map.items)
         IN  [paper EXCEPT !.map.positions = positions, !.positions = positions # {},
                           !.derived = positions # {}]

-----------------------------------------------------------------------------
(* A run *)

ReportInit ==
    /\ recorded = <<>> /\ admitted = 0
    /\ taskState = "RUNNING" /\ at = "council" /\ gate = "ahead"
    /\ catalogue = <<>> /\ papersOut = <<>>
    /\ hasModel \in BOOLEAN
    /\ era \in {"now", "before maps", "before positions"}
    /\ losses = 0

\* The council deliberates: not a run that only has to write its paper again.
Holding == at = "council" /\ taskState = "RUNNING"

\* What the phases on this side of the gate append.  Out of budget, a pass still has its
\* final rejudgment, but no joint modeling.  No phase appends a study.
PhaseRows ==
    [ahead |-> {"finding", "challenge", "blindspot"},
     passed |-> {"consensus", "judgment", "dissent"},
     skipped |-> {"judgment", "dissent"}]

\* A certificate of dissent repeats its author's judgment, which stands before it.
Restated(r) ==
    \E j \in ToSet(recorded) : j.kind = "judgment" /\ j.seat = r.seat /\ j.text = r.text

\* A phase commits a row, once.
RecordRow ==
    /\ Holding /\ Len(recorded) < MaxRows
    /\ \E r \in RecordedRow \ ToSet(recorded) :
          /\ r.kind \in PhaseRows[gate]
          /\ r.kind = "dissent" => Restated(r)
          /\ recorded' = Append(recorded, r)
    /\ UNCHANGED <<admitted, taskState, at, gate, catalogue, papersOut, hasModel, era, losses>>

\* A pass that is not past the gate halts before joint modeling, for guidance.
ParkCouncil ==
    /\ Holding /\ gate = "ahead"
    /\ at' = "parked" /\ taskState' = "AWAITING_COUNCIL_INPUT"
    /\ UNCHANGED <<recorded, admitted, gate, catalogue, papersOut, hasModel, era, losses>>

\* Budget exhaustion takes priority over the gate: there is nothing left to steer.
OverrunGate ==
    /\ Holding /\ gate = "ahead" /\ MaxOverruns > 0
    /\ gate' = "skipped"
    /\ UNCHANGED <<recorded, admitted, taskState, at, catalogue, papersOut, hasModel, era, losses>>

\* A mistake: run_task is done with a pass that parked, and leaves its events pending.
ResumeUnprojected ==
    /\ at = "parked"
    /\ at' = "council" /\ taskState' = "RUNNING" /\ gate' = "passed"
    /\ UNCHANGED <<recorded, admitted, catalogue, papersOut, hasModel, era, losses>>

\* The pass behind the gate: its worker has projected the parked pass before it claims
\* again, unless it died or gave the projection up.
ResumeCouncil ==
    /\ at = "parked"
    /\ \/ admitted = Len(recorded) /\ UNCHANGED losses
       \/ admitted < Len(recorded) /\ losses < MaxLosses /\ losses' = losses + 1
    /\ at' = "council" /\ taskState' = "RUNNING" /\ gate' = "passed"
    /\ UNCHANGED <<recorded, admitted, catalogue, papersOut, hasModel, era>>

\* run_task, once the deliberation has committed, or backfill_projections for a task
\* nobody attends: never for a running one.
ProjectGraph ==
    /\ taskState # "RUNNING" /\ admitted < Len(recorded)
    /\ admitted' = Len(recorded)
    /\ UNCHANGED <<recorded, taskState, at, gate, catalogue, papersOut, hasModel, era, losses>>

\* deliberate ends, with a terminal status, and synthesize_paper builds its brief, in one
\* transaction.
Synthesize ==
    /\ at = "council" /\ gate # "ahead"
    /\ catalogue' = Catalog(Material)
    /\ at' = IF hasModel THEN "stream" ELSE "fallback"
    /\ UNCHANGED <<recorded, admitted, taskState, gate, papersOut, hasModel, era, losses>>

\* An append under a key that was used: the stored event, if it says the same.
StorePaper(key, paper) ==
    /\ key \in DOMAIN papersOut => papersOut[key] = paper
    /\ papersOut' = [k \in DOMAIN papersOut \cup {key} |-> IF k = key THEN paper ELSE papersOut[k]]

\* A usable reply.
WritePaper ==
    /\ at \in {"stream", "invoke"}
    /\ \E reply \in Reply(catalogue) :
          /\ ~Unusable(reply)
          /\ StorePaper("final", Payload(ParseModelMap(reply, catalogue), FALSE))
    /\ at' = "done" /\ taskState' = "COMPLETED" /\ catalogue' = <<>>
    /\ UNCHANGED <<recorded, admitted, gate, hasModel, era, losses>>

\* A reply that cannot be parsed or repaired; its audit row committed the status.
RefuseReply ==
    /\ at \in {"stream", "invoke"}
    /\ at' = "fallback" /\ taskState' = "COMPLETED"
    /\ UNCHANGED <<recorded, admitted, gate, catalogue, papersOut, hasModel, era, losses>>

\* _call_synthesizer: a stream that fails is followed by one plain call.
FailCall ==
    /\ at \in {"stream", "invoke"}
    /\ at' = IF at = "stream" THEN "invoke" ELSE "fallback"
    /\ UNCHANGED <<recorded, admitted, taskState, gate, catalogue, papersOut, hasModel, era, losses>>

\* _emit_fallback_paper.
FallBack ==
    /\ at = "fallback"
    /\ StorePaper("final", Payload(DeterministicMap(catalogue), TRUE))
    /\ at' = "done" /\ taskState' = "COMPLETED" /\ catalogue' = <<>>
    /\ UNCHANGED <<recorded, admitted, gate, hasModel, era, losses>>

\* The session is lost while the paper is written: the run resumes, with what it had
\* committed, and writes the paper anew.
LoseSession ==
    /\ at \in {"stream", "invoke", "fallback"} /\ losses < MaxLosses
    /\ at' = "council" /\ catalogue' = <<>> /\ losses' = losses + 1
    /\ UNCHANGED <<recorded, admitted, taskState, gate, papersOut, hasModel, era>>

\* _mark_failed: the run fails, and an emergency paper is written if it can be.
FailRun ==
    /\ Holding
    /\ at' = "done" /\ taskState' = "FAILED" /\ catalogue' = <<>>
    /\ \/ StorePaper("emergency", Payload(DeterministicMap(Catalog(Material)), TRUE))
       \/ UNCHANGED papersOut
    /\ UNCHANGED <<recorded, admitted, gate, hasModel, era, losses>>

ReportNext ==
    \/ RecordRow \/ ParkCouncil \/ OverrunGate \/ ResumeCouncil \/ ProjectGraph \/ Synthesize
    \/ WritePaper \/ RefuseReply \/ FailCall \/ FallBack \/ LoseSession \/ FailRun

ReportSpec == ReportInit /\ [][ReportNext]_reportVars

-----------------------------------------------------------------------------
(* Properties *)

Maps == {Shown(papersOut[key]).map : key \in DOMAIN papersOut}

\* Every variable holds a value of its type.
ReportTypeOK ==
    /\ ToSet(recorded) \subseteq RecordedRow /\ admitted \in 0 .. Len(recorded)
    /\ taskState \in {"RUNNING", "AWAITING_COUNCIL_INPUT", "COMPLETED", "FAILED"}
    /\ at \in {"council", "parked", "stream", "invoke", "fallback", "done"}
    /\ gate \in DOMAIN PhaseRows
    /\ IsInjective([i \in DOMAIN catalogue |-> catalogue[i].id])
    /\ DOMAIN papersOut \subseteq {"final", "emergency"}
    /\ losses \in 0 .. MaxLosses

\* Nothing outside the catalogue is cited or filed; every item is, and in one place only
\* if nothing cites it.
Filed(m) ==
    LET folded == UNION {m.steps[n].related : n \in DOMAIN m.steps}
        Folds(id) == {n \in DOMAIN m.steps : id \in m.steps[n].related}
    IN  /\ CitedIn(m) \cup folded \cup m.unassigned \subseteq Ids(m.items)
        /\ \A i \in ToSet(m.items) :
              IF i.kind = "judgment" THEN m.mode = "deterministic" => i.id \in CitedIn(m)
              ELSE /\ i.id \in CitedIn(m) \cup folded \cup m.unassigned
                   /\ Cardinality(Folds(i.id)) <= 1
                   /\ i.id \in m.unassigned => Folds(i.id) = {}
        /\ m.positions # {} => BothSides \subseteq {p.stance : p \in m.positions}

\* reasoning_map.py: "every catalogue item ends up somewhere -- a step's citations, a
\* step's related items, or unassigned -- so organising the summary never silently drops
\* a minority position", whatever the model answered; a judgment is cited where no model
\* chose otherwise; and where sides are laid out, both are.
EveryItemIsFiled == ReportTypeOK /\ \A m \in Maps : Filed(m)

\* What the council has said that the brief takes from the graph.
Spoken == {r \in ToSet(recorded) : r.kind \in NodeKinds}

Reports(items, r) == \E i \in ToSet(items) : i.text = r.text

\* The paper is made from all that the council has said.
Seen ==
    "final" \in DOMAIN papersOut /\ papersOut["final"].map # NoMap =>
        \A r \in Spoken : Reports(papersOut["final"].map.items, r)

\* synthesis.py: the map is made from "everything the council produced".  Violated: the
\* nodes of the brief are those the projector has admitted, and a first pass that spends
\* its budget before the gate is projected after the transaction that writes its paper.
PaperSeesTheCouncil == Seen

\* A pass that was parked has its nodes when it writes: run_task projects at the park,
\* and what comes after the gate is read from the ledger or repeats what is.
GuidedPaperSeesTheCouncil == gate = "passed" /\ losses = 0 => Seen

\* From the council to the reader nothing gets lost: what a guided council said is in the
\* catalogue of its paper, and what is in the catalogue of any paper is on its map.
NothingIsLostOnTheWay == EveryItemIsFiled /\ GuidedPaperSeesTheCouncil
=============================================================================
