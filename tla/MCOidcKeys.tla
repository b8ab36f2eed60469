----------------------------- MODULE MCOidcKeys -----------------------------
(* OidcKeys for small sets of logins.  Its runs check liveness, so logins  *)
(* are not declared symmetric.                                             *)
EXTENDS OidcKeys

=============================================================================
