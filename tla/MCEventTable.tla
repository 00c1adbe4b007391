---------------------------- MODULE MCEventTable ----------------------------
(* Two tables: two objects of the first, and of the second one object and the *)
(* source of the timed callbacks, which are about objects of both.            *)
EXTENDS EventTable
CONSTANTS a, b, timer
MCTables   == 1..2
MCObjects  == {a, b, timer}
MCTable    == [o \in MCObjects |-> IF o = a THEN 1 ELSE 2]
MCImmortal == {timer}
=============================================================================
