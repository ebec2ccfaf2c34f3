--------------------------- MODULE MCSignUpLocking ---------------------------
(* SignUpLocking on a small instance. *)
EXTENDS SignUpLocking

===============================================================================
