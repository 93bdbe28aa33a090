--------------------------- MODULE MCIdentityApi ----------------------------
(***************************************************************************)
(* A small instance of IdentityApi for TLC: the tables of MCIdentity.      *)
(***************************************************************************)
EXTENDS IdentityApi, MCIdentity
=============================================================================
