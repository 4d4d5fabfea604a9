----------------------------- MODULE MCTaskDesk -----------------------------
(***************************************************************************)
(* Small instances of a task's lifecycle and of what the API does around   *)
(* it, checked side by side: a behaviour is one of TaskLifecycle,          *)
(* Accounts, TaskDesk, FollowUp, Knowledge or Skills, as `part` says, and  *)
(* leaves the others as they begin.                                        *)
(***************************************************************************)
EXTENDS TaskLifecycle, Accounts, TaskDesk, FollowUp, Knowledge, Skills, TLC

VARIABLE part

deskSide == <<accVars, deskVars, followVars>>
librarySide == <<knowVars, skillVars>>
recoveryVars == <<part, vars, deskSide, librarySide>>

RecoveryInit ==
    /\ part \in {"lifecycle", "accounts", "desk", "followup", "knowledge", "skills"}
    /\ Init /\ AccInit /\ DeskInit /\ FollowInit /\ KnowInit /\ SkillsInit

Living == part = "lifecycle" /\ UNCHANGED <<part, deskSide, librarySide>>
SigningIn == part = "accounts" /\ UNCHANGED <<part, vars, deskVars, followVars, librarySide>>
Serving == part = "desk" /\ UNCHANGED <<part, vars, accVars, followVars, librarySide>>
Answering == part = "followup" /\ UNCHANGED <<part, vars, accVars, deskVars, librarySide>>
Collecting == part = "knowledge" /\ UNCHANGED <<part, vars, deskSide, skillVars>>
Instructing == part = "skills" /\ UNCHANGED <<part, vars, deskSide, knowVars>>

RecoveryNext ==
    \/ Living /\ SerialNext
    \/ SigningIn /\ AccNext
    \/ Serving /\ DeskNext
    \/ Answering /\ FollowNext
    \/ Collecting /\ KnowNext
    \/ Instructing /\ SkillsNext

RecoverySpec == RecoveryInit /\ [][RecoveryNext]_recoveryVars

\* A collection that shares a name with a repository of one skill, and a repository
\* that carries none.
MCCarries ==
    [r \in Repository |-> IF r = "collection" THEN <<"n1", "n2">> ELSE IF r = "single" THEN <<"n1">> ELSE <<>>]

\* Requests are alike.
Symmetry == Permutations(Handler)
=============================================================================
