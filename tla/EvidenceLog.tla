------------------------------ MODULE EvidenceLog ------------------------------
(***************************************************************************)
(* What the evidence pipeline of a task promises: one log that only grows  *)
(* at its end, each entry of it judged once, in order, and a subscriber    *)
(* that gets every entry, in order, exactly once.                          *)
(***************************************************************************)
EXTENDS Integers

CONSTANT Judgement  \* what judging an entry may leave behind

VARIABLES
    log,        \* position -> entry
    judged,     \* position -> judgement, for a prefix of the log
    delivered   \* position -> entry, what the subscriber has got

vars == <<log, judged, delivered>>

IsPrefix(set) == \A i \in set : 1 .. i \subseteq set

Extends(new, old) ==
    /\ DOMAIN old \subseteq DOMAIN new
    /\ \A i \in DOMAIN old : new[i] = old[i]

Init ==
    /\ DOMAIN log = {}
    /\ DOMAIN judged = {}
    /\ DOMAIN delivered = {}

Publish ==
    /\ Extends(log', log)
    /\ DOMAIN log' \subseteq Nat \ {0}
    /\ IsPrefix(DOMAIN log')
    /\ UNCHANGED <<judged, delivered>>

Judge ==
    /\ Extends(judged', judged)
    /\ IsPrefix(DOMAIN judged')
    /\ DOMAIN judged' \subseteq DOMAIN log
    /\ \A i \in DOMAIN judged' : judged'[i] \in Judgement
    /\ UNCHANGED <<log, delivered>>

Deliver ==
    /\ Extends(delivered', delivered)
    /\ IsPrefix(DOMAIN delivered')
    /\ Extends(log, delivered')
    /\ UNCHANGED <<log, judged>>

Next == Publish \/ Judge \/ Deliver

Spec == Init /\ [][Next]_vars
=============================================================================
