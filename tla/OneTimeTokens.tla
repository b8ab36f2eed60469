---------------------------- MODULE OneTimeTokens ----------------------------
(***************************************************************************)
(* What the claims of token ids promise to lakeFS: while a token is valid, *)
(* its id is accepted at most once.  What happens to the id of a token     *)
(* that has expired does not matter, since lakeFS refuses the token itself.*)
(***************************************************************************)
EXTENDS Naturals

CONSTANTS Tokens, Expiry

VARIABLES now, used

Live(t) == now < Expiry[t]

Init == now = 0 /\ used = {}

Accept(t) ==
    /\ Live(t)
    /\ t \notin used
    /\ used' = used \cup {t}
    /\ UNCHANGED now

\* Time passes; the tokens that expire are forgotten.
Tick ==
    /\ now' = now + 1
    /\ used' = {t \in used : now' < Expiry[t]}

Next == Tick \/ \E t \in Tokens : Accept(t)

Spec == Init /\ [][Next]_<<now, used>>

=============================================================================
