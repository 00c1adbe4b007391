----------------------------- MODULE MCTorrent -----------------------------
(* An instance of Torrent for TLC: a seed, and a peer that has nothing at    *)
(* first and gets a part.                                                    *)
EXTENDS Torrent

OneSeed == [c \in Peers |-> IF c = "seed" THEN {Chunks} ELSE {{}}]
OneGain == [c \in Peers |-> IF c = "seed" THEN {} ELSE {1}]
=============================================================================
