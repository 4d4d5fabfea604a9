-------------------------- MODULE MCEvidencePipeline --------------------------
(* A small instance of EvidencePipeline for TLC. *)
EXTENDS EvidencePipeline, TLC

CONSTANTS
    s1, s2, f1, f2, t1,  \* nodes: two sources, a finding of each, a trace
    e1, e2               \* emitters

LOCAL Base ==
    [kind |-> "Source", level |-> "B", node |-> s1, source |-> s1,
     finding |-> FALSE, claim |-> FALSE, documented |-> TRUE, retracted |-> FALSE,
     authentic |-> TRUE, quoted |-> TRUE, method |-> "strong",
     overclaims |-> FALSE, dissent |-> NoNode, targets |-> {},
     key |-> "source1", payload |-> 1, trace |-> FALSE]

SourceEvent == Base

\* The same source, found again in a later phase.
SourceAgain == [Base EXCEPT !.key = "source1b", !.payload = 2]

FindingEvent == [Base EXCEPT !.kind = "StudyFinding", !.level = "A", !.node = f1,
                             !.finding = TRUE, !.key = "finding1"]

\* A re-run phase describes the finding otherwise.
FindingRetold == [FindingEvent EXCEPT !.payload = 2]

\* A DOI whose record has no title: worth a lead, not a node.
UntitledSource == [Base EXCEPT !.node = s2, !.source = s2, !.documented = FALSE,
                               !.key = "source2"]

FindingOfUntitled == [FindingEvent EXCEPT !.node = f2, !.source = s2,
                                          !.key = "finding2"]

Trace(n) == [Base EXCEPT !.kind = "MODEL_REASONING_CAPTURED", !.node = t1,
                         !.source = NoNode, !.level = "D", !.key = "reasoning",
                         !.payload = n, !.trace = TRUE]

\* A pass of the council, and a session of another one.
MCEmits == (e1 :> {SourceEvent, SourceAgain, FindingEvent, FindingRetold})
               @@ (e2 :> {UntitledSource, FindingOfUntitled})

MCEvent == UNION Range(MCEmits)

Symmetry == Permutations(Projector)

OrphanEvent == {SourceEvent, UntitledSource, FindingOfUntitled, Trace(1), Trace(2)}

OrphanEmits == (e1 :> OrphanEvent)
=============================================================================
