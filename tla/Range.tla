-------------------------------- MODULE Range --------------------------------
(***************************************************************************)
(* hnbase/range.h: closed ranges of an unsigned integer type.  Size is the *)
(* number of values of that type, 2^32 for Range32 and 2^64 for Range64;   *)
(* arithmetic on it wraps.  (Range8 and Range16 are promoted to int before *)
(* they are added to, so they do not wrap.)                                *)
(***************************************************************************)
EXTENDS Integers, Sequences

CONSTANT Size

ASSUME SizeAssumption == Size \in Nat /\ Size > 1

Positions == 0..(Size - 1)

\* Every Range object: the constructors refuse an end before the begin.
Ranges == {r \in [begin : Positions, end : Positions] : r.begin <= r.end}

MkRange(b, e) == [begin |-> b, end |-> e]

Dec(x) == IF x = 0 THEN Size - 1 ELSE x - 1
Inc(x) == IF x = Size - 1 THEN 0 ELSE x + 1

\* What a range stands for; the code has no such function.
Points(r) == r.begin .. r.end

Mid(r) == r.begin + (r.end - r.begin) \div 2

\* operator<
Before(r, s) == Mid(r) < Mid(s)

Holds(r, x) == r.begin <= x /\ x <= r.end

ContainsFull(r, x) == r.begin <= x.begin /\ x.end <= r.end

\* Range::contains(): a range "contains" another when the two overlap.
Overlaps(r, x) == Holds(r, x.begin) \/ Holds(r, x.end) \/ ContainsFull(x, r)

Borders(r, x) == Dec(r.begin) = x.end \/ Inc(r.end) = x.begin

\* The last two assignments see the result of the first two.
Merged(r, x) ==
    LET b  == IF x.begin < r.begin THEN x.begin ELSE r.begin
        e  == IF r.end < x.end THEN x.end ELSE r.end
        e2 == IF Inc(e) = x.begin THEN x.end ELSE e
        b2 == IF Dec(b) = x.end THEN x.begin ELSE b
    IN  MkRange(b2, e2)

\* erase() returns a tribool and leaves up to two ranges: here, their sequence.
Erased(r, x) ==
    IF ContainsFull(x, r) THEN <<>>
    ELSE IF x.begin <= r.begin THEN <<MkRange(x.end + 1, r.end)>>
    ELSE IF r.end <= x.end THEN <<MkRange(r.begin, x.begin - 1)>>
    ELSE <<MkRange(r.begin, x.begin - 1), MkRange(x.end + 1, r.end)>>
=============================================================================
