------------------------------- MODULE MCReport -------------------------------
(* A small instance of Report for TLC: six rows that share three texts. *)
EXTENDS Report

MCLeaders == [plain |-> {}, causes |-> {"causality"}, limits |-> {"boundary", "causality"}]

MCRow(kind, seat, text, stance, strong, section) ==
    [kind |-> kind, seat |-> seat, text |-> text, stance |-> stance, strong |-> strong,
     section |-> section]

MCRecordedRow ==
    {MCRow("judgment", "causal_scientist", "plain", "affirmative", FALSE, "none"),
     MCRow("challenge", "theory_builder", "causes", "none", TRUE, "none"),
     MCRow("finding", "none", "causes", "none", FALSE, "none"),
     MCRow("blindspot", "none", "causes", "none", TRUE, "none"),
     MCRow("consensus", "none", "limits", "none", FALSE, "conflict"),
     MCRow("dissent", "causal_scientist", "plain", "none", FALSE, "none")}
=============================================================================
