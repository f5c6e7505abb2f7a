------------------------------ MODULE MCCodex ------------------------------
(***************************************************************************)
(* Codex with interchangeable entities and builders.                       *)
(***************************************************************************)
EXTENDS Codex, TLC

Symmetric == Permutations(Entities) \cup Permutations(Builders)
=============================================================================
