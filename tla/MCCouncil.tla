------------------------------ MODULE MCCouncil ------------------------------
(***************************************************************************)
(* Small instances of the council's protocol, of its acquisition phase, of *)
(* what it remembers and of the paper it ends with, which share no state   *)
(* and are checked side by side: a behaviour is one of CouncilProtocol,    *)
(* Acquisition, SeatMemory or Report, as `part` says, and leaves the       *)
(* others as they begin.                                                   *)
(***************************************************************************)
EXTENDS MCCouncilProtocol, Acquisition, SeatMemory, MCReport

CONSTANTS p1, p2, p3, t1, t2, u1, m1, m2

MCPaper == {p1, p2, p3}
MCText == {t1, t2}
MCAdversarial == {t2}
MCUserDois == {p1, p2}
MCUpload == {u1}
MCRetracted == {p2}
MCAfterCutoff == {p3}
MCOffTopic == {p1}

MCMembers == <<m1, m2>>
MCPhaseKinds == <<"DissentCertificate", "Claim", "PRECOMMITMENT", "CONSENSUS_DRAFTED",
                  "CHALLENGE_RAISED">>
MCWeight == [s \in {m1, m2} |->
    [k \in COLLECTIVE_EVENT_TYPES |->
        IF (k = "Claim" /\ s = m1) \/ k = "DissentCertificate" THEN 1 ELSE 0]]

VARIABLE part

councilVars == <<part, vars, acqVars, memoryVars, reportVars>>

CouncilInit ==
    /\ part \in {"protocol", "acquisition", "memory", "report"}
    /\ Init /\ AcqInit /\ MemoryInit
    /\ ReportInit /\ (part # "report" => hasModel /\ era = "now")

Deliberating == part = "protocol" /\ UNCHANGED <<part, acqVars, memoryVars, reportVars>>
Acquiring == part = "acquisition" /\ UNCHANGED <<part, vars, memoryVars, reportVars>>
Remembering == part = "memory" /\ UNCHANGED <<part, vars, acqVars, reportVars>>
Reporting == part = "report" /\ UNCHANGED <<part, vars, acqVars, memoryVars>>

CouncilNext ==
    \/ Deliberating /\ Next
    \/ Acquiring /\ AcqNext
    \/ Remembering /\ MemoryNext
    \/ Reporting /\ ReportNext

\* The fairness of FairSpec, for the behaviours that deliberate.
CouncilSpec ==
    /\ CouncilInit /\ [][CouncilNext]_councilVars
    /\ WF_councilVars(Deliberating /\ Pass)
    /\ WF_councilVars(Deliberating /\ ExpireGate)

\* QueuedTaskFinishes of CouncilProtocol: a queued task finishes, however the gate,
\* rewinds and lost passes are mixed.
DeliberationFinishes == part = "protocol" => QueuedTaskFinishes
=============================================================================
