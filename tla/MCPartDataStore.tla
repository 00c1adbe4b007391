---- MODULE MCPartDataStore ----
(* A file of two blocks. *)
EXTENDS PartDataStore
MCBlocks == {1, 2}
================================
