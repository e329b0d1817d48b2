----------------------------- MODULE MCLoginLimiter -----------------------------
(***************************************************************************)
(* A small instance of LoginLimiter for TLC.  There is no symmetry, for    *)
(* the run checks liveness.                                                *)
(***************************************************************************)
EXTENDS LoginLimiter, TLC
================================================================================
