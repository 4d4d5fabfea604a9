----------------------------- MODULE EvidenceGate -----------------------------
(***************************************************************************)
(* FullEvidenceGate.audit (packages/evidence/gate.py): what the six stages *)
(* make of one candidate event, as a function of the event and of the      *)
(* graph written so far.  The stages run in order and stop at the first    *)
(* fatal defect; only the disposition they end with is kept here, not the  *)
(* audit rows they leave.                                                  *)
(***************************************************************************)
EXTENDS Integers

CONSTANT NoNode  \* an event without a source_id

\* EvidenceNodeType; every other event type is a process event.
NodeTypes == {"ResearchQuestion", "Claim", "Source", "StudyFinding", "Construct",
              "Context", "Blindspot", "DebateCapsule", "DiscriminatingStudy",
              "DissentCertificate"}

Tiers == <<"ADMIT", "SOURCE_ONLY", "DISCOVERY_ONLY", "TOOL_LEAD_ONLY">>

Dispositions == {Tiers[t] : t \in 1 .. 4} \cup {"QUARANTINE"}

\* A candidate e is a record with the fields
\*   kind        event_type
\*   level       evidence_level, "D" when there is none
\*   node        the identity node_id_for gives it
\*   source      source_id or NoNode
\*   finding     finding_id is set
\*   claim       claim_id is set
\*   documented  DOI, title and authors are there, or the upload waives them
\*   retracted   the payload says so
\*   authentic   pdf_matches
\*   quoted      exact_quote is not blank
\*   method      the mean of the six scores: "strong", "weak" (below the
\*               threshold) or "unusable" (below the floor)
\*   overclaims  it carries a claim type, or a claim_id and hence a default
\*               one, that its study design cannot support
\*   dissent     the statement and target of a fork, or NoNode
\*   targets     the nodes its payload asks edges to

\* Stage 3: a retracted or forged source, a finding without any.
SourceRefused(e) ==
    IF e.source = NoNode
    THEN e.kind = "StudyFinding"
    ELSE e.retracted \/ ~e.authentic

\* Stages 4 and 5.
FindingRefused(e) == e.finding /\ (~e.quoted \/ e.method = "unusable")

\* Stage 6.  The graph maps a node's identity to the event it was written from.
ClaimRefused(e, graph) ==
    \/ e.overclaims
    \/ /\ e.claim
       /\ \/ e.node \in DOMAIN graph /\ graph[e.node].kind # e.kind
          \/ /\ e.dissent # NoNode
             /\ \E n \in DOMAIN graph \ {e.node} :
                   graph[n].kind = "Claim" /\ graph[n].dissent = e.dissent

Refused(e, graph) ==
    SourceRefused(e) \/ FindingRefused(e) \/ ClaimRefused(e, graph)

\* Defects that cost a tier each.
Majors(e) ==
    (IF e.source # NoNode /\ ~e.documented THEN 1 ELSE 0)
        + (IF e.finding /\ e.method = "weak" THEN 1 ELSE 0)

BaseTier(e) ==
    CASE e.level = "A" -> 1
      [] e.level = "B" -> 2
      [] e.level = "C" -> 3
      [] OTHER -> 4

Tier(e) == LET t == BaseTier(e) + Majors(e) IN IF t > 4 THEN 4 ELSE t

Audit(e, graph) == IF Refused(e, graph) THEN "QUARANTINE" ELSE Tiers[Tier(e)]

\* The ledger status _project_one gives an event.
Verdicts == {"process_only", "quarantined", "lead", "admitted"}

\* A mistake: the disposition itself becomes the status.
VerdictUnnamed(e, graph) ==
    IF e.kind \in NodeTypes THEN Audit(e, graph) ELSE "process_only"

Verdict(e, graph) ==
    CASE e.kind \notin NodeTypes -> "process_only"
      [] e.kind \in NodeTypes /\ Audit(e, graph) = "QUARANTINE" -> "quarantined"
      [] e.kind \in NodeTypes
            /\ Audit(e, graph) \in {"DISCOVERY_ONLY", "TOOL_LEAD_ONLY"} -> "lead"
      [] OTHER -> "admitted"
=============================================================================
