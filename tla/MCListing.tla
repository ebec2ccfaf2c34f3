------------------------------- MODULE MCListing -------------------------------
(* Listing on a small instance. *)
EXTENDS Listing

===============================================================================
