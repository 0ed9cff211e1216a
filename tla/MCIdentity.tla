------------------------------ MODULE MCIdentity ------------------------------
(* Small instances of Identity for TLC.                                     *)
EXTENDS Identity
=============================================================================
