--------------------------- MODULE MCTokenClaims ---------------------------
(***************************************************************************)
(* TokenClaims with two tokens and three replicas: one with an exact       *)
(* clock, one a tick behind, one with the cleanup off.  The clock outlives *)
(* every expiry by the largest lag.                                        *)
(***************************************************************************)
EXTENDS TokenClaims

CONSTANTS t1, t2, r1, r2, r3

MCExpiry == [t \in Tokens |-> IF t = t1 THEN 1 ELSE 3]

MCLag == [r \in Replicas |-> IF r = r2 THEN 1 ELSE 0]

=============================================================================
