---------------------------- MODULE MCSharedFile ----------------------------
(* Instances of SharedFile: a directory of the download's own besides the      *)
(* Incoming directory.                                                         *)
EXTENDS SharedFile

CONSTANTS own, inc

TwoDirs  == {own, inc}
OwnHome  == {own}
=============================================================================
