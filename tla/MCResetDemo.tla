---------------------------- MODULE MCResetDemo ----------------------------
(***************************************************************************)
(* Two negotiations of the demo tenant and one of another tenant, each with *)
(* a communication; a communication keyed by the tenant, which makes two    *)
(* batches of them; and a row of the session cache, which is nobody's.      *)
(***************************************************************************)
EXTENDS ResetDemo

CONSTANTS n1, n2, nx, c1, c2, cx, ct, kx

MCTableOf == [r \in Row |->
  CASE r \in {n1, n2, nx} -> "negotiations"
    [] r \in {c1, c2, cx, ct} -> "communications"
    [] r = kx -> "agent-session-cache"]

MCMine == Row \ {nx, cx, kx}

MCNegOf == [r \in Row |->
  CASE r = c1 -> n1 [] r = c2 -> n2 [] r = cx -> nx [] OTHER -> NoNeg]
=============================================================================
