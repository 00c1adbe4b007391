---------------------------- MODULE MCWorkThread ----------------------------
(* The instances of WorkThread: the jobs are model values of the .cfg files. *)
(* Two of them are enough for one to be in hand while another waits.         *)
EXTENDS WorkThread
=============================================================================
