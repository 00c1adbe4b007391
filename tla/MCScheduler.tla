---- MODULE MCScheduler ----
(* Two sockets, one after the other or at once, at one address or two. *)
EXTENDS Scheduler
MCSocks == 1..2
MCAddrs == 1..2
============================
