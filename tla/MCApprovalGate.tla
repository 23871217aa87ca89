--------------------------- MODULE MCApprovalGate ---------------------------
(***************************************************************************)
(* Small instances of ApprovalGate.  Requests are interchangeable: what     *)
(* tells them apart is what they ask for.                                  *)
(***************************************************************************)
EXTENDS ApprovalGate, TLC

Symmetry == Permutations(Request)
=============================================================================
