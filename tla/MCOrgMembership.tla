---------------------------- MODULE MCOrgMembership ----------------------------
(***************************************************************************)
(* Small instances of OrgMembership for TLC.                               *)
(***************************************************************************)
EXTENDS OrgMembership, TLC

Symmetry == Permutations(User) \union Permutations(Org)
            \union Permutations(Invite) \union Permutations(Request)
================================================================================
