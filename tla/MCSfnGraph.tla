----------------------------- MODULE MCSfnGraph -----------------------------
(***************************************************************************)
(* Small instances of SfnGraph: three states, where the real graph has        *)
(* eight, and two events to a page, so that a history has several pages.     *)
(***************************************************************************)
EXTENDS SfnGraph, TLC

Symmetry == Permutations(Fetch)
=============================================================================
