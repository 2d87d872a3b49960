---------------------------- MODULE MCCafeteria ----------------------------
(* Three orders on two threads, so that the third one does not pass the    *)
(* latch, and two burners, for which the six ingredients queue.            *)
EXTENDS Cafeteria

MCUsers == Orders \X Kinds
=============================================================================
