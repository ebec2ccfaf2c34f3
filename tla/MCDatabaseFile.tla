---------------------------- MODULE MCDatabaseFile ----------------------------
(* DatabaseFile on a small instance. *)
EXTENDS DatabaseFile, TLC

\* For safety only.
Symmetry == Permutations(Import)

\* Once an import or a journal has met another, most properties promise nothing
\* any more: only the imports are followed further, and no crash.
QuietOnceDisturbed == disturbed => crashes = 0 /\ req = [r \in Request |-> Idle]

===============================================================================
