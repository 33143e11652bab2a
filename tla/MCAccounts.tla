------------------------------ MODULE MCAccounts ------------------------------
(* Small instances of Accounts for TLC. *)
EXTENDS Accounts, TLC

AccountSymmetry ==
    Permutations(Workers) \cup Permutations(Names) \cup Permutations(Nicks)
        \cup Permutations(Passwords)
================================================================================
