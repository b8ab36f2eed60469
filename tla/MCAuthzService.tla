--------------------------- MODULE MCAuthzService ---------------------------
(***************************************************************************)
(* AuthzService on small instances.  One handler with an arbitrary         *)
(* environment of single-call requests meets every interleaving of a list  *)
(* or of an update, because what a second handler does to the tables is    *)
(* also a step of the environment; the property on creates compares two    *)
(* answers and takes two handlers.                                         *)
(***************************************************************************)
EXTENDS AuthzService, TLC

\* The handlers are interchangeable.
HandlerSymmetry == Permutations(Handlers)

=============================================================================
