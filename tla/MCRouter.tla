-------------------------------- MODULE MCRouter --------------------------------
(* Router on a small instance: words of two bits, and the numbers of the code. *)
EXTENDS Router

===============================================================================
