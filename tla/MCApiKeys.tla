-------------------------------- MODULE MCApiKeys --------------------------------
(***************************************************************************)
(* A small instance of ApiKeys, and with it of Migrations, for TLC.        *)
(***************************************************************************)
EXTENDS ApiKeys
================================================================================
