------------------------------ MODULE MCPages -------------------------------
(***************************************************************************)
(* A list of up to five keys, one of them outside the prefix, pages of one *)
(* to three rows and walks of at most three pages: a walk can complete,    *)
(* meet a deleted cursor row, and be cut.                                  *)
(***************************************************************************)
EXTENDS Pages

MCAmounts == {-1, 0, 1, 2}

=============================================================================
