------------------------------- MODULE MCConnPool -------------------------------
(***************************************************************************)
(* A small instance of ConnPool for TLC.                                   *)
(***************************************************************************)
EXTENDS ConnPool
================================================================================
