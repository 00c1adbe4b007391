------------------------------ MODULE RangeList ------------------------------
(***************************************************************************)
(* hnbase/rangelist.h: ranges in a std::multiset ordered by their middle.  *)
(* merge() and erase() keep the ranges apart; push() and remove() handle   *)
(* exact ranges that may overlap.  No caller mixes the two kinds of calls  *)
(* on one list: its use is chosen once.                                    *)
(***************************************************************************)
EXTENDS Range, Sequences, SequencesExt

CONSTANTS
    Top,         \* the highest position the callers merge or erase
    PushTop,     \* bound: the highest position they push or remove
    MaxPushed    \* bound: length of a list built with push()

ASSUME TopAssumption == Top \in Positions /\ PushTop \in Positions /\ MaxPushed \in Nat

VARIABLES use,     \* "merging" or "pushing" (not in the code)
          ranges,  \* m_ranges in iteration order
          points,  \* the positions that ought to be covered (not in the code)
          last     \* the last call that returned something, and what

listVars == <<use, ranges, points, last>>

Inputs == {r \in Ranges : r.end <= Top}
Pushed == {r \in Ranges : r.end <= PushTop}
None == [call |-> "none"]

CoveredBy(l) == UNION {Points(l[i]) : i \in DOMAIN l}

ListTypeOK ==
    /\ use \in {"merging", "pushing"}
    /\ ranges \in Seq(Ranges)
    /\ points \in SUBSET Positions

ListInit ==
    /\ use \in {"merging", "pushing"}
    /\ ranges = <<>> /\ points = {} /\ last = None

-----------------------------------------------------------------------------
(* The multiset: iterators are indices, Len + 1 is end().                    *)

LowerIter(l, r) ==
    CHOOSE i \in 1..(Len(l) + 1) :
        /\ i <= Len(l) => ~Before(l[i], r)
        /\ \A k \in 1..(i - 1) : Before(l[k], r)

\* insert() puts a range after those with the same middle.
UpperIter(l, r) ==
    CHOOSE i \in 1..(Len(l) + 1) :
        /\ i <= Len(l) => Before(r, l[i])
        /\ \A k \in 1..(i - 1) : ~Before(r, l[k])

Insert(l, r) == InsertAt(l, UpperIter(l, r), r)

\* Mutation: the walk down to the first range that overlaps is forgotten.
GetContainsHere(l, r) ==
    LET i == LowerIter(l, r)
    IN  IF i <= Len(l) /\ Overlaps(l[i], r) THEN i ELSE Len(l) + 1

GetContains(l, r) ==
    LET i == LowerIter(l, r)
    IN  IF i <= Len(l) /\ Overlaps(l[i], r)
        THEN CHOOSE k \in 1..i : /\ \A m \in k..i : Overlaps(l[m], r)
                                 /\ k > 1 => ~Overlaps(l[k - 1], r)
        ELSE IF i > 1 /\ Overlaps(l[i - 1], r) THEN i - 1
        ELSE Len(l) + 1

GetBorders(l, r) ==
    LET i == LowerIter(l, r)
    IN  IF i <= Len(l) /\ Borders(l[i], r) THEN i
        ELSE IF i > 1 THEN (IF Borders(l[i - 1], r) THEN i - 1 ELSE Len(l) + 1)
        ELSE IF i < Len(l) /\ Borders(l[i + 1], r) THEN i + 1
        ELSE Len(l) + 1

ListContains(l, r) == GetContains(l, r) <= Len(l)

\* The second test looks at the range before the first overlapping one.
ListContainsFull(l, r) ==
    LET i == GetContains(l, r)
    IN  \/ i <= Len(l) /\ ContainsFull(l[i], r)
        \/ i > 1 /\ ContainsFull(l[i - 1], r)

-----------------------------------------------------------------------------
(* merge() and erase()                                                       *)

\* One pass of a loop of merge(): a range that overlaps s.range, or in the second
\* loop borders on it, leaves s.list for s.range.
MergePass(s, bordering) ==
    LET i == IF bordering THEN GetBorders(s.list, s.range) ELSE GetContains(s.list, s.range)
    IN  IF i > Len(s.list) THEN s
        ELSE [list |-> RemoveAt(s.list, i), range |-> Merged(s.range, s.list[i])]

\* A loop is over after at most as many passes as there are ranges.
Absorb(s, bordering) ==
    LET after[n \in Nat] == IF n = 0 THEN s ELSE MergePass(after[n - 1], bordering)
    IN  after[Len(s.list)]

MergeInto(l, r) ==
    LET s == Absorb(Absorb([list |-> l, range |-> r], FALSE), TRUE)
    IN  Insert(s.list, s.range)

\* One pass of erase(): what is left of a range that overlaps r replaces it.
ErasePass(l, r) ==
    LET i     == GetContains(l, r)
        rest  == Erased(l[i], r)
        other == RemoveAt(l, i)
    IN  IF i > Len(l) THEN l
        ELSE IF rest = <<>> THEN other
        ELSE IF Len(rest) = 1 THEN Insert(other, rest[1])
        ELSE Insert(Insert(other, rest[1]), rest[2])

EraseFrom(l, r) ==
    LET after[n \in Nat] == IF n = 0 THEN l ELSE ErasePass(after[n - 1], r)
    IN  after[Len(l)]

Merge(r) ==
    /\ ranges' = MergeInto(ranges, r)
    /\ points' = points \cup Points(r)
    /\ UNCHANGED last

Erase(r) ==
    /\ ranges' = EraseFrom(ranges, r)
    /\ points' = points \ Points(r)
    /\ UNCHANGED last

-----------------------------------------------------------------------------
(* push() and remove()                                                       *)

\* find() may return any element equivalent to r, that is with its middle.
Found(l, r) == {i \in DOMAIN l : Mid(l[i]) = Mid(r)}

\* Mutation: the equivalent range found is taken for the range itself.
RemoveEquivalent(r) ==
    \/ /\ Found(ranges, r) = {}
       /\ last' = [call |-> "remove", range |-> r, ok |-> FALSE]
       /\ UNCHANGED <<ranges, points>>
    \/ \E i \in Found(ranges, r) :
          /\ ranges' = RemoveAt(ranges, i)
          /\ last' = [call |-> "remove", range |-> r, ok |-> TRUE]
          /\ UNCHANGED points

PushExact(r) ==
    \/ /\ \E i \in Found(ranges, r) : ranges[i] = r
       /\ last' = [call |-> "push", range |-> r, ok |-> FALSE]
       /\ UNCHANGED <<ranges, points>>
    \/ /\ Found(ranges, r) # {} => \E i \in Found(ranges, r) : ranges[i] # r
       /\ ranges' = Insert(ranges, r)
       /\ last' = [call |-> "push", range |-> r, ok |-> TRUE]
       /\ UNCHANGED points

RemoveExact(r) ==
    \/ \E i \in Found(ranges, r) :
          /\ ranges[i] = r
          /\ ranges' = RemoveAt(ranges, i)
          /\ last' = [call |-> "remove", range |-> r, ok |-> TRUE]
          /\ UNCHANGED points
    \/ /\ Found(ranges, r) # {} => \E i \in Found(ranges, r) : ranges[i] # r
       /\ last' = [call |-> "remove", range |-> r, ok |-> FALSE]
       /\ UNCHANGED <<ranges, points>>

-----------------------------------------------------------------------------
Merging == use = "merging" /\ \E r \in Inputs : Merge(r) \/ Erase(r)

Pushing ==
    /\ use = "pushing"
    /\ \E r \in Pushed : (Len(ranges) < MaxPushed /\ PushExact(r)) \/ RemoveExact(r)

ListNext == (Merging \/ Pushing) /\ UNCHANGED use

ListSpec == ListInit /\ [][ListNext]_listVars

-----------------------------------------------------------------------------
(* Properties *)

Apart(l) == \A i, k \in DOMAIN l : i # k => ~Overlaps(l[i], l[k])

\* The list covers exactly the positions merged and not erased since, with the
\* fewest ranges, none of which touch, and "Ranges in RangeList are guaranteed to
\* be ordered based on Range begin values" although they are sorted by their
\* middles: the callers of front(), back() and begin() rely on it.
Exact ==
    use = "merging" =>
    /\ CoveredBy(ranges) = points
    /\ \A i \in 2..Len(ranges) : ranges[i - 1].end + 1 < ranges[i].begin

\* contains() finds an overlap wherever it is, although it looks only around the
\* position of the middle; containsFull() is true of exactly the covered ranges.
LookupsExact ==
    use = "merging" => \A r \in Inputs :
        /\ ListContains(ranges, r) <=> Points(r) \cap points # {}
        /\ ListContainsFull(ranges, r) <=> Points(r) \subseteq points

\* A list of merge() and erase() may be used as the set of its positions, as PartData
\* does: what it covers is right, and so is what it is asked.
ListExact == Exact /\ LookupsExact

\* rangelist.h says of getContains(): "It is guaranteed that the returned range is
\* the first range (first in the sense of lower-value) range that contains the
\* questioned range."  This is false when the range at lower_bound() does not
\* overlap.
GetContainsIsFirst ==
    \A r \in Inputs :
        LET i == GetContains(ranges, r)
        IN  i <= Len(ranges) => \A k \in 1..(i - 1) : ~Overlaps(ranges[k], r)

\* push() says it returns "false if it already existed (e.g. duplicates are not
\* allowed)": no range is in the list twice.  This is false when another range
\* with the same middle is found first.
NoDuplicates == \A i, k \in DOMAIN ranges : ranges[i] = ranges[k] => i = k

\* As long as the ranges pushed do not overlap (the files of a torrent do not),
\* push() refuses and remove() finds exactly the ranges in the list, and remove()
\* takes out nothing else.
ExactWhenApart ==
    [][use = "pushing" /\ Apart(ranges) /\ last' # last =>
          LET r  == last'.range
              in(l) == \E i \in DOMAIN l : l[i] = r
          IN  /\ last'.call = "push" => (last'.ok <=> ~in(ranges))
              /\ last'.call = "remove" => (last'.ok <=> in(ranges))
              /\ \A i \in DOMAIN ranges :
                    ranges[i] # r => \E k \in DOMAIN ranges' : ranges'[k] = ranges[i]]_listVars
=============================================================================
