---------------------------- MODULE MCAuthzStore ----------------------------
(***************************************************************************)
(* AuthzStore, and the answers of both stores in each of its states, on a  *)
(* small instance: two usernames (so that the unique columns can clash),   *)
(* two groups (so that a policy can be held through both), one of          *)
(* everything else, and three identity values (so that a name can be       *)
(* deleted and created again while ids are burnt).                         *)
(***************************************************************************)
EXTENDS StoreAnswers, TLC

\* The names of users and of groups are interchangeable: no action orders them.
Symmetry == Permutations(Usernames) \cup Permutations(Groups)

=============================================================================
