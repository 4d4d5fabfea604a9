--------------------------- MODULE MCCouncilFloor ---------------------------
(***************************************************************************)
(* What happens inside the council's phases, in three parts that share no  *)
(* state and are checked side by side: a behaviour collects the seats      *)
(* (SeatCollection), makes one seat's call (ModelCall) or holds the rounds *)
(* (CouncilRounds), as `part` says, and leaves the others as they begin.   *)
(***************************************************************************)
EXTENDS SeatCollection, ModelCall, CouncilRounds

CONSTANTS s1, s2, c1, x1, n1

MCRoster == <<s1, s2>>
MCClaims == {c1}
MCSources == {x1}
MCQuarantine == {n1}

VARIABLE part

floorVars == <<part, collectVars, callVars, roundVars>>

FloorInit ==
    /\ part \in {"seats", "call", "rounds"}
    /\ SeatInit /\ (part # "seats" => provider)
    /\ CallInit /\ (part # "call" => leg = "stream" /\ forced)
    /\ RoundInit /\ (part # "rounds" => confirmed = {})

Collecting == part = "seats" /\ UNCHANGED <<part, callVars, roundVars>>
Calling == part = "call" /\ UNCHANGED <<part, collectVars, roundVars>>
Debating == part = "rounds" /\ UNCHANGED <<part, collectVars, callVars>>

FloorNext ==
    \/ Collecting /\ SeatNext
    \/ Calling /\ CallNext
    \/ Debating /\ RoundNext

\* The fairness of FairSeats, for the behaviours that collect.
FloorSpec == FloorInit /\ [][FloorNext]_floorVars /\ WF_floorVars(Collecting /\ Progress)

\* Every variable holds a value of its type.
FloorTypeOK == SeatTypeOK /\ CallTypeOK /\ RoundTypeOK

\* A pass of SeatCollection ends, and with it the council's phases, even if no vendor
\* ever answers.
PassEnds == part = "seats" => <>[](passOutcome # "running")
=============================================================================
