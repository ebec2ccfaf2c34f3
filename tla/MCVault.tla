------------------------------- MODULE MCVault -------------------------------
(* Vault on a small instance. *)
EXTENDS Vault, TLC

Symmetry == Permutations(Device) \cup Permutations(IP) \cup Permutations(Name)
            \cup Permutations(Token) \cup Permutations(Call)
            \cup Permutations(Group) \cup Permutations(Password)

===============================================================================
