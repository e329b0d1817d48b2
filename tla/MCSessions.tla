------------------------------ MODULE MCSessions ------------------------------
(***************************************************************************)
(* Small instances of Sessions for TLC.                                    *)
(***************************************************************************)
EXTENDS Sessions, TLC

Symmetry == Permutations(Token) \union Permutations(User) \union Permutations(Request)
===============================================================================
