--------------------------- MODULE MCCookingTime ---------------------------
(* The numbers of main: 20 orders, 4 threads and the 8 burners of a cooker. *)
EXTENDS CookingTime
=============================================================================
