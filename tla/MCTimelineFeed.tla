--------------------------- MODULE MCTimelineFeed ---------------------------
(***************************************************************************)
(* A small instance of TimelineFeed: a row, and an award that a snapshot    *)
(* may fail to read.                                                       *)
(***************************************************************************)
EXTENDS TimelineFeed

CONSTANT award

MCFirst == {Row}
MCLate == {award}
=============================================================================
