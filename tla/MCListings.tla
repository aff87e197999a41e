------------------------------ MODULE MCListings ------------------------------
(* Instances of Listings for TLC. *)
EXTENDS Listings

MCIds == 1..3
===============================================================================
