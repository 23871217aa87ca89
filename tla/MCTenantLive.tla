---------------------------- MODULE MCTenantLive ----------------------------
(***************************************************************************)
(* Small instances of TenantLive: two suppliers, one request of any kind     *)
(* among others, and three lines of two items.                              *)
(***************************************************************************)
EXTENDS TenantLive, TLC

CONSTANTS s1, s2, acknowledge, reject

MCSupplier == {s1, s2}
MCDecisions == {acknowledge, reject}
Symmetry == Permutations(MCSupplier) \cup Permutations(MCDecisions)
MCLines == <<[item |-> "i1", total |-> 2], [item |-> "i2", total |-> 3],
             [item |-> "i1", total |-> 5]>>

(* Items in one category, in two, or in none that the catalogue knows. *)
Categorise == UNION {[I -> {"c1", "c2"}] : I \in SUBSET {"i1", "i2"}}
MCCatalogues ==
  {[category |-> f, quadrant |-> q, suppliers |-> [c1 |-> <<"s1", "s2">>, c2 |-> <<>>]] :
     f \in Categorise, q \in {<<>>, [c1 |-> "leverage", c2 |-> "not in the table"]}}
=============================================================================
