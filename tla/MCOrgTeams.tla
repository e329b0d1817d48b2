------------------------------- MODULE MCOrgTeams -------------------------------
(***************************************************************************)
(* A small instance of OrgTeams and TeamLists for TLC.  There is no        *)
(* symmetry, for the run checks liveness.                                  *)
(***************************************************************************)
EXTENDS TeamLists
================================================================================
