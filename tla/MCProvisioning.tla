--------------------------- MODULE MCProvisioning ---------------------------
(***************************************************************************)
(* Provisioning on small instances: two logins of one identity that may    *)
(* run at the same time, and a login of another identity that shares the   *)
(* email, or the username, of the first.                                   *)
(***************************************************************************)
EXTENDS Provisioning, TLC

CONSTANTS l1, l2, l3, u1, u2, e1, x1, x2, g1, g2, f1

Claim(x, n, e, f, gs) ==
    [sub |-> x, username |-> n, email |-> e, friendly_name |-> f,
     groups |-> gs]

\* One identity logs in twice, with a friendly name the second time; the
\* other has the same email.
SharedEmail ==
    [l \in Logins |->
        CASE l = l1 -> Claim(x1, u1, e1, None, <<g1, g2>>)
          [] l = l2 -> Claim(x1, u1, e1, f1, <<g1, g2>>)
          [] OTHER  -> Claim(x2, u2, e1, None, <<g2>>)]

\* One identity logs in twice; the other derives the same username.
SharedUsername ==
    [l \in Logins |->
        IF l = l3 THEN Claim(x2, u1, None, None, <<g2>>)
                  ELSE Claim(x1, u1, e1, f1, <<g1>>)]

=============================================================================
