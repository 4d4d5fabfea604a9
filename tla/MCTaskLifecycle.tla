--------------------------- MODULE MCTaskLifecycle ---------------------------
(* A small instance of TaskLifecycle for TLC. *)
EXTENDS TaskLifecycle, TLC

Symmetry == Permutations(Worker) \cup Permutations(Client)
=============================================================================
