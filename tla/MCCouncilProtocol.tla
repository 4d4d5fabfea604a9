------------------------- MODULE MCCouncilProtocol -------------------------
(* A small instance of CouncilProtocol for TLC. *)
EXTENDS CouncilProtocol

CONSTANT text

MCGuidance == {text}

MCAlwaysRun == {NPhases}
=============================================================================
