----------------------------- MODULE MCRangeList -----------------------------
(* RangeList over a type of few values.  When Top < Size - 1 no range has the   *)
(* type's last value; with Top = Size - 1 they may.                             *)
EXTENDS RangeList
=============================================================================
