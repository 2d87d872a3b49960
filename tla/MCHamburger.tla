---------------------------- MODULE MCHamburger ----------------------------
(* Three orders, two of them with onion, on two workers: one order packs   *)
(* while another waits for its handler, and any timer may fail.            *)
EXTENDS Hamburger
=============================================================================
