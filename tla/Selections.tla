------------------------------ MODULE Selections ------------------------------
(***************************************************************************)
(* What several modules take out of a sequence.                            *)
(***************************************************************************)
EXTENDS Integers, Sequences, SequencesExt

\* The elements that are in T, in their order.
Chosen(s, T) == FlattenSeq([i \in DOMAIN s |-> IF s[i] \in T THEN <<s[i]>> ELSE <<>>])
=============================================================================
