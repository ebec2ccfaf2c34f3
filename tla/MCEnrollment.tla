----------------------------- MODULE MCEnrollment -----------------------------
(* Enrollment on a small instance. *)
EXTENDS Enrollment, TLC

Symmetry == Permutations(Device) \cup Permutations(IP) \cup Permutations(Name)
            \cup Permutations(Token) \cup Permutations(Request)

===============================================================================
