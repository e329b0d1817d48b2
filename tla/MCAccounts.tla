------------------------------- MODULE MCAccounts -------------------------------
(***************************************************************************)
(* Small instances of Accounts for TLC.                                    *)
(***************************************************************************)
EXTENDS Accounts, TLC

Symmetry == Permutations(Account) \union Permutations(Password) \union Permutations(GoogleId)
            \union Permutations(Name) \union Permutations(Request)
================================================================================
