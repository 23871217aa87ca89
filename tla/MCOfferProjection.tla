-------------------------- MODULE MCOfferProjection --------------------------
(* Small instances of OfferProjection for TLC. *)
EXTENDS OfferProjection, TLC

CONSTANTS Open

(* A negotiation that is approved when its row is first written. *)
MCMovesIn == {<<Absent, Approved>>}

(* One pass through the gate, without and with a cycle back. *)
MCMoves == {<<Absent, Open>>, <<Open, Approved>>}
MCMovesBack == MCMoves \cup {<<Approved, Open>>}

(* uuids are drawn at random and only compared. *)
Uuids == Permutations(SynOrder)

=============================================================================
