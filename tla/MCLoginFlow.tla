---------------------------- MODULE MCLoginFlow -----------------------------
(***************************************************************************)
(* LoginFlow on a small instance: two connections of one browser and two   *)
(* logins, so that tabs can overwrite each other; the ID token of one of   *)
(* them fits its cookie, that of the other does not; a flow and a request  *)
(* that each last one tick, and three ticks, so that both can run out.     *)
(***************************************************************************)
EXTENDS LoginFlow

=============================================================================
