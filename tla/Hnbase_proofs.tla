---------------------------- MODULE Hnbase_proofs ----------------------------
(***************************************************************************)
(* Two parts of hnbase.                                                    *)
(*                                                                         *)
(* Range and RangeList, at every size of the integer type: the operations  *)
(* of Range on the positions a range stands for, and that a list that is   *)
(* only merged to and erased from covers exactly what it ought to and is   *)
(* asked correctly.                                                        *)
(*                                                                         *)
(* WorkThread, for every set of jobs, any number of passes and of nested   *)
(* Pausers: its safety properties, and that it implements JobQueue.  All   *)
(* follows from one inductive invariant, IInv: which positions of the      *)
(* worker go with a job in hand, that such a job is not complete, and that *)
(* a job with a result is complete or about to be.                         *)
(***************************************************************************)
EXTENDS RangeList, WorkThread, SequenceTheorems, FiniteSetTheorems, WellFoundedInduction, TLAPS

-----------------------------------------------------------------------------
(* Range.                                                                    *)

\* Two ranges "contain" each other in the sense of range.h when they share a
\* position: looking at the two ends and at full containment is enough.
THEOREM OverlapIsCommonPoint ==
  ASSUME NEW r \in Ranges, NEW s \in Ranges
  PROVE  Overlaps(r, s) <=> \E p \in Positions : p \in Points(r) /\ p \in Points(s)
<1>1. ASSUME Overlaps(r, s)
      PROVE  \E p \in Positions : p \in Points(r) /\ p \in Points(s)
  <2>1. CASE Holds(r, s.begin)
    BY <2>1, SizeAssumption DEF Holds, Points, Ranges, Positions
  <2>2. CASE Holds(r, s.end)
    BY <2>2, SizeAssumption DEF Holds, Points, Ranges, Positions
  <2>3. CASE ContainsFull(s, r)
    BY <2>3, SizeAssumption DEF ContainsFull, Points, Ranges, Positions
  <2>4. QED BY <1>1, <2>1, <2>2, <2>3 DEF Overlaps
<1>2. ASSUME NEW p \in Positions, p \in Points(r), p \in Points(s)
      PROVE  Overlaps(r, s)
  BY <1>2, SizeAssumption
     DEF Overlaps, Holds, ContainsFull, Points, Ranges, Positions
<1>3. QED BY <1>1, <1>2

\* Touching without a common position.
Adjacent(r, x) == r.end + 1 = x.begin \/ x.end + 1 = r.begin

\* Neither range reaches the largest value of the type.
BelowTop(r, x) == r.end < Size - 1 /\ x.end < Size - 1

\* merge() of two ranges that overlap or touch covers exactly what the two
\* covered.  The assumption is needed: at the top of the type m_end + 1 wraps.
THEOREM MergeIsUnion ==
  ASSUME NEW r \in Ranges, NEW x \in Ranges, BelowTop(r, x),
         Overlaps(r, x) \/ Adjacent(r, x)
  PROVE  /\ Merged(r, x) \in Ranges
         /\ \A p \in Positions :
               p \in Points(Merged(r, x)) <=> p \in Points(r) \/ p \in Points(x)
<1> DEFINE b == IF x.begin < r.begin THEN x.begin ELSE r.begin
           e == IF r.end < x.end THEN x.end ELSE r.end
<1>1. /\ r.begin \in 0..(Size - 1) /\ r.end \in 0..(Size - 1) /\ r.begin <= r.end
      /\ x.begin \in 0..(Size - 1) /\ x.end \in 0..(Size - 1) /\ x.begin <= x.end
      /\ Size \in Nat
  BY SizeAssumption DEF Ranges, Positions
<1>2. Merged(r, x) = MkRange(b, e)
  BY <1>1 DEF Merged, Inc, Dec, BelowTop
<1>3. b <= e /\ b \in 0..(Size - 1) /\ e \in 0..(Size - 1)
  BY <1>1
<1>4. Merged(r, x) \in Ranges
  BY <1>2, <1>3 DEF MkRange, Ranges, Positions
<1>5. ASSUME NEW p \in Positions
      PROVE  b <= p /\ p <= e <=> \/ r.begin <= p /\ p <= r.end
                                  \/ x.begin <= p /\ p <= x.end
  BY <1>1, <1>5 DEF Overlaps, Adjacent, Holds, ContainsFull, Positions
<1>6. QED
  BY <1>1, <1>2, <1>3, <1>4, <1>5 DEF Points, MkRange, Positions

\* erase() leaves exactly the positions of r that are not in x, in at most two
\* ranges that are well formed, in order, apart, and do not overlap x: each pass of
\* the loop of RangeList::erase() makes progress.
THEOREM EraseIsDifference ==
  ASSUME NEW r \in Ranges, NEW x \in Ranges, Overlaps(r, x)
  PROVE  /\ Erased(r, x) \in Seq(Ranges) /\ Len(Erased(r, x)) \in 0..2
         /\ \A i \in DOMAIN Erased(r, x) :
               /\ ~Overlaps(Erased(r, x)[i], x)
               /\ r.begin <= Erased(r, x)[i].begin /\ Erased(r, x)[i].end <= r.end
         /\ Len(Erased(r, x)) = 2 => Erased(r, x)[1].end + 1 < Erased(r, x)[2].begin
         /\ \A p \in Positions :
               (\E i \in DOMAIN Erased(r, x) : p \in Points(Erased(r, x)[i]))
                   <=> p \in Points(r) /\ p \notin Points(x)
<1>1. /\ r.begin \in 0..(Size - 1) /\ r.end \in 0..(Size - 1) /\ r.begin <= r.end
      /\ x.begin \in 0..(Size - 1) /\ x.end \in 0..(Size - 1) /\ x.begin <= x.end
      /\ Size \in Nat
  BY SizeAssumption DEF Ranges, Positions
<1> DEFINE low == MkRange(r.begin, x.begin - 1)
           high == MkRange(x.end + 1, r.end)
<1> USE <1>1 DEF Ranges, Positions, Points, Overlaps, Holds, ContainsFull, MkRange
<1>2. CASE ContainsFull(x, r)
  <2>1. Erased(r, x) = <<>>
    BY <1>2 DEF Erased
  <2>2. QED BY <1>2, <2>1
<1>3. CASE ~ContainsFull(x, r) /\ x.begin <= r.begin
  <2>1. Erased(r, x) = <<high>>
    BY <1>3 DEF Erased
  <2>2. high \in Ranges
    BY <1>3
  <2>3. QED BY <1>3, <2>1, <2>2
<1>4. CASE ~ContainsFull(x, r) /\ ~(x.begin <= r.begin) /\ r.end <= x.end
  <2>1. Erased(r, x) = <<low>>
    BY <1>4 DEF Erased
  <2>2. low \in Ranges
    BY <1>4
  <2>3. QED BY <1>4, <2>1, <2>2
<1>5. CASE ~ContainsFull(x, r) /\ ~(x.begin <= r.begin) /\ ~(r.end <= x.end)
  <2>1. Erased(r, x) = <<low, high>>
    BY <1>5 DEF Erased
  <2>2. low \in Ranges /\ high \in Ranges
    BY <1>5
  <2>3. /\ Erased(r, x) \in Seq(Ranges) /\ Len(Erased(r, x)) = 2
        /\ DOMAIN Erased(r, x) = {1, 2} /\ Erased(r, x)[1] = low /\ Erased(r, x)[2] = high
    BY <2>1, <2>2
  <2>4. QED BY <1>5, <2>3
<1>6. QED BY <1>2, <1>3, <1>4, <1>5

\* The middle of a range is in it.
LEMMA MidWithin ==
  ASSUME NEW r \in Ranges
  PROVE  /\ r.begin \in Nat /\ r.end \in Nat /\ r.begin <= r.end /\ r.end <= Size - 1
         /\ Mid(r) \in Int /\ r.begin <= Mid(r) /\ Mid(r) <= r.end
<1>1. r.begin \in Nat /\ r.end \in Nat /\ r.begin <= r.end /\ r.end <= Size - 1
  BY SizeAssumption DEF Ranges, Positions
<1>2. \A b, e \in Nat : b <= e => b <= b + (e - b) \div 2 /\ b + (e - b) \div 2 <= e
  OBVIOUS
<1>3. QED BY <1>1, <1>2 DEF Mid

\* Ranges that do not overlap are ordered by their middle as by their begin, which
\* is why a std::multiset ordered by the middle can hold them.
THEOREM ApartMeansOrdered ==
  ASSUME NEW r \in Ranges, NEW s \in Ranges, ~Overlaps(r, s)
  PROVE  Before(r, s) <=> r.begin < s.begin
<1>1. r.end < s.begin \/ s.end < r.begin
  BY MidWithin DEF Overlaps, Holds, ContainsFull
<1>2. QED BY <1>1, MidWithin DEF Before

\* Overlapping as a comparison of ends.
LEMMA OverlapsIs ==
  ASSUME NEW r \in Ranges, NEW x \in Ranges
  PROVE  Overlaps(r, x) <=> r.begin <= x.end /\ x.begin <= r.end
BY MidWithin DEF Overlaps, Holds, ContainsFull

\* Away from the top of the type borders() means touching.
LEMMA BordersIs ==
  ASSUME NEW r \in Ranges, NEW x \in Ranges, BelowTop(r, x)
  PROVE  Borders(r, x) <=> Adjacent(r, x)
BY MidWithin, SizeAssumption DEF Borders, Adjacent, BelowTop, Dec, Inc

-----------------------------------------------------------------------------
(* Numbers: the least of a set, and what comes of repeating a step.          *)

\* Every set of numbers that is not empty has a least.
LEMMA Least ==
  ASSUME NEW T, T \subseteq Nat, T # {}
  PROVE  \E n \in T : \A m \in T : n <= m
<1>1. PICK n \in T : \A m \in T : <<m, n>> \notin OpToRel(<, Nat)
  BY NatLessThanWellFounded, WFMin
<1>2. \A m \in T : ~(m < n)
  BY <1>1 DEF OpToRel
<1>3. ASSUME NEW m \in T PROVE n <= m
  <2>1. m \in Nat /\ n \in Nat
    OBVIOUS
  <2>2. QED BY <1>2, <2>1
<1>4. QED BY <1>3

\* If P is a set of numbers that has 0 and with each number the next, it has all.
LEMMA Induction ==
  ASSUME NEW P, 0 \in P, \A n \in Nat : n \in P => n + 1 \in P
  PROVE  Nat \subseteq P
<1> SUFFICES ASSUME Nat \ P # {} PROVE FALSE
  OBVIOUS
<1>1. PICK n \in Nat \ P : \A m \in Nat \ P : n <= m
  BY Least
<1>2. n - 1 \in Nat /\ n - 1 \in P
  BY <1>1
<1>3. QED BY <1>1, <1>2

\* The first n values of x, step[x], step[step[x]], ...
Started(S, step, x, n) ==
    {g \in [0..n -> S] : g[0] = x /\ \A k \in 0..(n - 1) : g[k + 1] = step[g[k]]}

\* There is a start of any length.
LEMMA Starts ==
  ASSUME NEW S, NEW step \in [S -> S], NEW x \in S
  PROVE  \A n \in Nat : Started(S, step, x, n) # {}
<1> DEFINE P == {n \in Nat : Started(S, step, x, n) # {}}
<1>1. 0 \in P
  <2>1. [k \in 0..0 |-> x] \in Started(S, step, x, 0)
    BY DEF Started
  <2>2. QED BY <2>1
<1>2. ASSUME NEW n \in Nat, n \in P PROVE n + 1 \in P
  <2>1. PICK g : g \in Started(S, step, x, n)
    BY <1>2
  <2>2. g \in [0..n -> S] /\ g[0] = x /\ \A k \in 0..(n - 1) : g[k + 1] = step[g[k]]
    BY <2>1 DEF Started
  <2> DEFINE h == [k \in 0..(n + 1) |-> IF k = n + 1 THEN step[g[n]] ELSE g[k]]
  <2>3. h \in [0..(n + 1) -> S] /\ h[0] = x
    BY <2>2
  <2>4. \A k \in 0..n : h[k + 1] = step[h[k]]
    BY <2>2
  <2>5. h \in Started(S, step, x, n + 1)
    BY <2>3, <2>4 DEF Started
  <2>6. QED BY <2>5
<1> HIDE DEF P
<1>3. Nat \subseteq P
  BY <1>1, <1>2, Induction
<1>4. QED BY <1>3 DEF P

\* Two starts agree where both are defined.
LEMMA StartsAgree ==
  ASSUME NEW S, NEW step \in [S -> S], NEW x \in S, NEW m \in Nat, NEW n \in Nat, m <= n,
         NEW g \in Started(S, step, x, m), NEW h \in Started(S, step, x, n)
  PROVE  \A k \in 0..m : g[k] = h[k]
<1> DEFINE P == {k \in Nat : k <= m => g[k] = h[k]}
<1>1. 0 \in P
  BY DEF Started
<1>2. ASSUME NEW k \in Nat, k \in P PROVE k + 1 \in P
  BY <1>2 DEF Started
<1> HIDE DEF P
<1>3. Nat \subseteq P
  BY <1>1, <1>2, Induction
<1>4. QED BY <1>3 DEF P

Repeats(f, S, step, x) ==
    f \in [Nat -> S] /\ f[0] = x /\ \A n \in Nat : f[n + 1] = step[f[n]]

\* Some function on all numbers repeats the step: how the loops' recursive functions exist.
LEMMA Iterates ==
  ASSUME NEW S, NEW step \in [S -> S], NEW x \in S
  PROVE  \E f : Repeats(f, S, step, x)
<1> DEFINE g(n) == CHOOSE h : h \in Started(S, step, x, n)
           f == [n \in Nat |-> g(n)[n]]
<1>1. \A n \in Nat : g(n) \in Started(S, step, x, n)
  BY Starts
<1> HIDE DEF g
<1>2. f \in [Nat -> S] /\ f[0] = x
  BY <1>1 DEF Started
<1>3. ASSUME NEW n \in Nat PROVE f[n + 1] = step[f[n]]
  <2>1. g(n) \in Started(S, step, x, n) /\ g(n + 1) \in Started(S, step, x, n + 1)
    BY <1>1
  <2>2. g(n)[n] = g(n + 1)[n]
    BY <2>1, StartsAgree
  <2>3. g(n + 1)[n + 1] = step[g(n + 1)[n]]
    BY <2>1 DEF Started
  <2>4. QED BY <2>2, <2>3
<1>4. QED BY <1>2, <1>3 DEF Repeats

-----------------------------------------------------------------------------
(* Lists of ranges that do not touch.                                        *)

Elems(l) == {l[i] : i \in DOMAIN l}

\* Neither a common position nor neighbours.
Far(r, x) == r.end + 1 < x.begin \/ x.end + 1 < r.begin

Spread(l) == \A i, k \in DOMAIN l : i < k => l[i].end + 1 < l[k].begin

Lists == {l \in Seq(Inputs) : Spread(l)}

\* What an element of a list is.
LEMMA Element ==
  ASSUME NEW l \in Lists, NEW i \in 1..Len(l)
  PROVE  l[i] \in Inputs /\ l[i] \in Ranges
BY DEF Lists, Inputs

\* Elements of a list are in the order of their places.
LEMMA Ordered ==
  ASSUME NEW l \in Lists, NEW i \in 1..Len(l), NEW k \in 1..Len(l), i < k
  PROVE  /\ l[i].end + 1 < l[k].begin /\ Mid(l[i]) < Mid(l[k])
         /\ Far(l[i], l[k]) /\ Far(l[k], l[i])
<1>1. l[i] \in Ranges /\ l[k] \in Ranges
  BY Element
<1>2. l[i].end + 1 < l[k].begin
  BY DEF Lists, Spread
<1>3. QED BY <1>1, <1>2, MidWithin DEF Far

\* Two different places of a list hold ranges that are far from each other.
LEMMA Different ==
  ASSUME NEW l \in Lists, NEW i \in 1..Len(l), NEW k \in 1..Len(l), i # k
  PROVE  Far(l[i], l[k]) /\ l[i] # l[k]
<1>1. Far(l[i], l[k])
  BY Ordered
<1>2. l[i] \in Ranges
  BY Element
<1>3. QED BY <1>1, <1>2, MidWithin DEF Far

\* Far ranges neither overlap nor touch.
LEMMA FarIs ==
  ASSUME NEW r \in Ranges, NEW x \in Ranges
  PROVE  Far(r, x) <=> ~Overlaps(r, x) /\ ~Adjacent(r, x)
BY OverlapsIs, MidWithin DEF Far, Adjacent

\* What a list covers is what its elements cover.
LEMMA Covers ==
  ASSUME NEW l \in Seq(Ranges)
  PROVE  CoveredBy(l) = UNION {Points(x) : x \in Elems(l)}
BY DEF CoveredBy, Elems

\* lower_bound(): the first that is not before r.
LEMMA LowerIs ==
  ASSUME NEW l \in Lists, NEW r \in Ranges
  PROVE  /\ LowerIter(l, r) \in 1..(Len(l) + 1)
         /\ \A k \in 1..Len(l) : IF k < LowerIter(l, r) THEN Mid(l[k]) < Mid(r)
                                                        ELSE Mid(r) <= Mid(l[k])
<1> DEFINE T == {i \in 1..(Len(l) + 1) : i <= Len(l) => ~Before(l[i], r)}
           i == LowerIter(l, r)
<1>1. Len(l) \in Nat /\ Len(l) + 1 \in T
  BY DEF Lists
<1>2. PICK n \in T : \A m \in T : n <= m
  <2>1. T \subseteq Nat /\ T # {}
    BY <1>1
  <2> HIDE DEF T
  <2>2. QED BY <2>1, Least
<1>3. \A k \in 1..(n - 1) : Before(l[k], r)
  BY <1>1, <1>2
<1>4. /\ i \in 1..(Len(l) + 1)
      /\ i <= Len(l) => ~Before(l[i], r)
      /\ \A k \in 1..(i - 1) : Before(l[k], r)
  BY <1>2, <1>3 DEF LowerIter
<1> HIDE DEF i
<1>5. ASSUME NEW k \in 1..Len(l)
      PROVE  IF k < i THEN Mid(l[k]) < Mid(r) ELSE Mid(r) <= Mid(l[k])
  <2>1. Mid(l[k]) \in Int /\ Mid(r) \in Int
    BY Element, MidWithin
  <2>2. CASE k < i
    BY <1>1, <1>4, <2>2 DEF Before
  <2>3. CASE k >= i
    <3>1. i \in 1..Len(l) /\ ~(Mid(l[i]) < Mid(r))
      BY <1>1, <1>4, <2>3 DEF Before
    <3>2. Mid(l[i]) \in Int
      BY <3>1, Element, MidWithin
    <3>3. i = k \/ Mid(l[i]) < Mid(l[k])
      BY <2>3, <3>1, Ordered
    <3>4. QED BY <2>1, <2>3, <3>1, <3>2, <3>3
  <2>4. QED BY <1>1, <1>4, <2>2, <2>3
<1>6. QED BY <1>4, <1>5 DEF i

\* insert() finds a place in any list.
LEMMA UpperIn ==
  ASSUME NEW l \in Seq(Ranges), NEW r \in Ranges
  PROVE  /\ UpperIter(l, r) \in 1..(Len(l) + 1)
         /\ UpperIter(l, r) <= Len(l) => Before(r, l[UpperIter(l, r)])
         /\ \A k \in 1..(UpperIter(l, r) - 1) : ~Before(r, l[k])
<1> DEFINE T == {i \in 1..(Len(l) + 1) : i <= Len(l) => Before(r, l[i])}
<1>1. Len(l) \in Nat /\ Len(l) + 1 \in T
  OBVIOUS
<1>2. PICK n \in T : \A m \in T : n <= m
  <2>1. T \subseteq Nat /\ T # {}
    BY <1>1
  <2> HIDE DEF T
  <2>2. QED BY <2>1, Least
<1>3. \A k \in 1..(n - 1) : ~Before(r, l[k])
  BY <1>1, <1>2
<1>4. QED BY <1>2, <1>3 DEF UpperIter

\* upper_bound(): the first that is after r.
LEMMA UpperIs ==
  ASSUME NEW l \in Lists, NEW r \in Ranges
  PROVE  /\ UpperIter(l, r) \in 1..(Len(l) + 1)
         /\ \A k \in 1..Len(l) : IF k < UpperIter(l, r) THEN Mid(l[k]) <= Mid(r)
                                                        ELSE Mid(r) < Mid(l[k])
<1> DEFINE i == UpperIter(l, r)
<1>1. Len(l) \in Nat /\ l \in Seq(Ranges)
  BY DEF Lists, Inputs
<1>2. /\ i \in 1..(Len(l) + 1)
      /\ i <= Len(l) => Before(r, l[i])
      /\ \A k \in 1..(i - 1) : ~Before(r, l[k])
  BY <1>1, UpperIn
<1> HIDE DEF i
<1>3. ASSUME NEW k \in 1..Len(l)
      PROVE  IF k < i THEN Mid(l[k]) <= Mid(r) ELSE Mid(r) < Mid(l[k])
  <2>1. Mid(l[k]) \in Int /\ Mid(r) \in Int
    BY Element, MidWithin
  <2>2. CASE k < i
    BY <1>1, <1>2, <2>1, <2>2 DEF Before
  <2>3. CASE k >= i
    <3>1. i \in 1..Len(l) /\ Mid(r) < Mid(l[i])
      BY <1>1, <1>2, <2>3 DEF Before
    <3>2. Mid(l[i]) \in Int
      BY <3>1, Element, MidWithin
    <3>3. i = k \/ Mid(l[i]) < Mid(l[k])
      BY <2>3, <3>1, Ordered
    <3>4. QED BY <2>1, <2>3, <3>1, <3>2, <3>3
  <2>4. QED BY <1>1, <1>2, <2>2, <2>3
<1>4. QED BY <1>2, <1>3 DEF i

\* The library's RemoveAt() and InsertAt(), element by element.
LEMMA RemovedIs ==
  ASSUME NEW S, NEW l \in Seq(S), NEW i \in 1..Len(l)
  PROVE  /\ RemoveAt(l, i) \in Seq(S) /\ Len(RemoveAt(l, i)) = Len(l) - 1
         /\ \A k \in 1..(Len(l) - 1) : RemoveAt(l, i)[k] = IF k < i THEN l[k] ELSE l[k + 1]
<1> DEFINE a == SubSeq(l, 1, i - 1)
           z == SubSeq(l, i + 1, Len(l))
<1>1. Len(l) \in Nat /\ i \in Nat /\ \A k \in 1..Len(l) : l[k] \in S
  OBVIOUS
<1>2. /\ a \in Seq(S) /\ Len(a) = i - 1
      /\ \A k \in 1..(i - 1) : a[k] = l[k]
  BY <1>1, SubSeqProperties
<1>3. /\ z \in Seq(S) /\ Len(z) = Len(l) - i
      /\ \A k \in 1..(Len(l) - i) : z[k] = l[i + k]
  <2>1. /\ z \in Seq(S) /\ Len(z) = IF i + 1 <= Len(l) THEN Len(l) - (i + 1) + 1 ELSE 0
        /\ \A k \in 1..(Len(l) - (i + 1) + 1) : z[k] = l[i + 1 + k - 1]
    BY <1>1, SubSeqProperties
  <2> HIDE DEF z
  <2>2. QED BY <1>1, <2>1
<1> HIDE DEF a, z
<1>4. RemoveAt(l, i) = a \o z
  BY DEF RemoveAt, a, z
<1>5. /\ a \o z \in Seq(S) /\ Len(a \o z) = Len(a) + Len(z)
      /\ \A k \in 1..(Len(a) + Len(z)) :
            (a \o z)[k] = IF k <= Len(a) THEN a[k] ELSE z[k - Len(a)]
  BY <1>2, <1>3, ConcatProperties
<1> DEFINE m == a \o z
<1> HIDE DEF m
<1>6. /\ m \in Seq(S) /\ Len(m) = Len(l) - 1
      /\ \A k \in 1..(Len(l) - 1) : m[k] = IF k <= i - 1 THEN a[k] ELSE z[k - (i - 1)]
  BY <1>1, <1>2, <1>3, <1>5 DEF m
<1>7. ASSUME NEW k \in 1..(Len(l) - 1) PROVE m[k] = IF k < i THEN l[k] ELSE l[k + 1]
  BY <1>1, <1>2, <1>3, <1>6
<1>8. QED BY <1>4, <1>6, <1>7 DEF m

\* InsertAt().
LEMMA InsertedIs ==
  ASSUME NEW S, NEW l \in Seq(S), NEW r \in S, NEW u \in 1..(Len(l) + 1)
  PROVE  /\ InsertAt(l, u, r) \in Seq(S) /\ Len(InsertAt(l, u, r)) = Len(l) + 1
         /\ \A k \in 1..(Len(l) + 1) :
               InsertAt(l, u, r)[k] = IF k < u THEN l[k] ELSE IF k = u THEN r ELSE l[k - 1]
<1> DEFINE a == SubSeq(l, 1, u - 1)
           z == SubSeq(l, u, Len(l))
           b == a \o <<r>>
           m == b \o z
<1>1. Len(l) \in Nat /\ u \in Nat /\ \A k \in 1..Len(l) : l[k] \in S
  OBVIOUS
<1>2. /\ a \in Seq(S) /\ Len(a) = u - 1
      /\ \A k \in 1..(u - 1) : a[k] = l[k]
  BY <1>1, SubSeqProperties
<1>3. /\ z \in Seq(S) /\ Len(z) = Len(l) - u + 1
      /\ \A k \in 1..(Len(l) - u + 1) : z[k] = l[u + k - 1]
  <2>1. /\ z \in Seq(S) /\ Len(z) = IF u <= Len(l) THEN Len(l) - u + 1 ELSE 0
        /\ \A k \in 1..(Len(l) - u + 1) : z[k] = l[u + k - 1]
    BY <1>1, SubSeqProperties
  <2> HIDE DEF z
  <2>2. QED BY <1>1, <2>1
<1> HIDE DEF a, z
<1>4. /\ b \in Seq(S) /\ Len(b) = u
      /\ \A k \in 1..u : b[k] = IF k < u THEN l[k] ELSE r
  <2>1. <<r>> \in Seq(S) /\ Len(<<r>>) = 1 /\ <<r>>[1] = r
    OBVIOUS
  <2>2. /\ b \in Seq(S) /\ Len(b) = Len(a) + 1
        /\ \A k \in 1..(Len(a) + 1) : b[k] = IF k <= Len(a) THEN a[k] ELSE <<r>>[k - Len(a)]
    BY <1>2, <2>1, ConcatProperties
  <2> HIDE DEF b
  <2>3. ASSUME NEW k \in 1..u PROVE b[k] = IF k < u THEN l[k] ELSE r
    <3>1. b[k] = IF k <= u - 1 THEN a[k] ELSE <<r>>[k - (u - 1)]
      BY <1>1, <1>2, <2>2
    <3>2. QED BY <1>1, <1>2, <3>1
  <2>4. QED BY <1>1, <1>2, <2>2, <2>3
<1> HIDE DEF b
<1>5. /\ m \in Seq(S) /\ Len(m) = Len(b) + Len(z)
      /\ \A k \in 1..(Len(b) + Len(z)) : m[k] = IF k <= Len(b) THEN b[k] ELSE z[k - Len(b)]
  BY <1>3, <1>4, ConcatProperties
<1> HIDE DEF m
<1>6. /\ Len(m) = Len(l) + 1
      /\ \A k \in 1..(Len(l) + 1) : m[k] = IF k <= u THEN b[k] ELSE z[k - u]
  BY <1>1, <1>3, <1>4, <1>5
<1>7. ASSUME NEW k \in 1..(Len(l) + 1)
      PROVE  m[k] = IF k < u THEN l[k] ELSE IF k = u THEN r ELSE l[k - 1]
  <2>1. CASE k <= u
    BY <1>1, <1>4, <1>6, <2>1
  <2>2. CASE k > u
    <3>1. k - u \in 1..(Len(l) - u + 1) /\ u + (k - u) - 1 = k - 1
      BY <1>1, <2>2
    <3>2. z[k - u] = l[u + (k - u) - 1]
      BY <1>3, <3>1
    <3>3. m[k] = z[k - u]
      BY <1>1, <1>6, <2>2
    <3>4. QED BY <1>1, <2>2, <3>1, <3>2, <3>3
  <2>3. QED BY <1>1, <2>1, <2>2
<1>8. InsertAt(l, u, r) = m
  BY DEF InsertAt, a, z, b, m
<1>9. QED BY <1>5, <1>6, <1>7, <1>8

\* An element taken out.
LEMMA RemoveKeeps ==
  ASSUME NEW l \in Lists, NEW i \in 1..Len(l)
  PROVE  /\ RemoveAt(l, i) \in Lists /\ Len(RemoveAt(l, i)) = Len(l) - 1
         /\ Elems(RemoveAt(l, i)) = Elems(l) \ {l[i]}
<1> DEFINE m == RemoveAt(l, i)
<1>1. l \in Seq(Inputs) /\ Len(l) \in Nat /\ DOMAIN l = 1..Len(l)
  BY DEF Lists
<1>2. /\ m \in Seq(Inputs) /\ Len(m) = Len(l) - 1
      /\ \A k \in 1..(Len(l) - 1) : m[k] = IF k < i THEN l[k] ELSE l[k + 1]
  BY <1>1, RemovedIs
<1> HIDE DEF m
<1>3. DOMAIN m = 1..Len(m) /\ \A k \in 1..Len(m) : m[k] = IF k < i THEN l[k] ELSE l[k + 1]
  BY <1>2
<1>4. Spread(m)
  <2> SUFFICES ASSUME NEW j \in 1..Len(m), NEW k \in 1..Len(m), j < k
               PROVE  m[j].end + 1 < m[k].begin
    BY <1>3 DEF Spread
  <2>1. PICK a \in 1..Len(l) : m[j] = l[a] /\ a = IF j < i THEN j ELSE j + 1
    BY <1>1, <1>2, <1>3
  <2>2. PICK b \in 1..Len(l) : m[k] = l[b] /\ b = IF k < i THEN k ELSE k + 1
    BY <1>1, <1>2, <1>3
  <2>3. a < b
    BY <2>1, <2>2
  <2>4. QED BY <2>1, <2>2, <2>3, Ordered
<1>5. ASSUME NEW x PROVE x \in Elems(m) <=> x \in Elems(l) /\ x # l[i]
  <2>1. ASSUME x \in Elems(m) PROVE x \in Elems(l) /\ x # l[i]
    <3>1. PICK k \in 1..Len(m) : x = m[k]
      BY <1>3, <2>1 DEF Elems
    <3>2. PICK b \in 1..Len(l) : m[k] = l[b] /\ b = IF k < i THEN k ELSE k + 1
      BY <1>1, <1>2, <1>3
    <3>3. b # i
      BY <3>2
    <3>4. QED BY <1>1, <3>1, <3>2, <3>3, Different DEF Elems
  <2>2. ASSUME x \in Elems(l), x # l[i] PROVE x \in Elems(m)
    <3>1. PICK b \in 1..Len(l) : x = l[b]
      BY <1>1, <2>2 DEF Elems
    <3>2. b # i
      BY <2>2, <3>1
    <3>3. CASE b < i
      <4>1. b \in 1..Len(m) /\ m[b] = x
        BY <1>1, <1>2, <1>3, <3>1, <3>3
      <4>2. QED BY <1>3, <4>1 DEF Elems
    <3>4. CASE b > i
      <4>1. b - 1 \in 1..Len(m) /\ m[b - 1] = x
        BY <1>1, <1>2, <1>3, <3>1, <3>4
      <4>2. QED BY <1>3, <4>1 DEF Elems
    <3>5. QED BY <3>2, <3>3, <3>4
  <2>3. QED BY <2>1, <2>2
<1>6. QED BY <1>2, <1>4, <1>5 DEF Lists, m

\* What insert() makes of any list.
LEMMA InsertIs ==
  ASSUME NEW S, NEW l \in Seq(S), NEW r \in S, UpperIter(l, r) \in 1..(Len(l) + 1)
  PROVE  /\ Insert(l, r) \in Seq(S) /\ Len(Insert(l, r)) = Len(l) + 1
         /\ \A k \in 1..(Len(l) + 1) :
               Insert(l, r)[k] = IF k < UpperIter(l, r) THEN l[k]
                                 ELSE IF k = UpperIter(l, r) THEN r ELSE l[k - 1]
         /\ Elems(Insert(l, r)) = Elems(l) \cup {r}
<1>0. PICK u \in 1..(Len(l) + 1) : u = UpperIter(l, r)
  OBVIOUS
<1> DEFINE m == InsertAt(l, u, r)
<1>1. Len(l) \in Nat /\ DOMAIN l = 1..Len(l) /\ Insert(l, r) = m
  BY <1>0 DEF Insert
<1>2. /\ m \in Seq(S) /\ Len(m) = Len(l) + 1
      /\ \A k \in 1..(Len(l) + 1) : m[k] = IF k < u THEN l[k] ELSE IF k = u THEN r ELSE l[k - 1]
  BY InsertedIs
<1> HIDE DEF m
<1>3. DOMAIN m = 1..Len(m)
  BY <1>2
<1>4. ASSUME NEW x PROVE x \in Elems(m) <=> x \in Elems(l) \/ x = r
  <2>1. ASSUME x \in Elems(m) PROVE x \in Elems(l) \/ x = r
    <3>1. PICK k \in 1..(Len(l) + 1) : x = m[k]
      BY <1>2, <1>3, <2>1 DEF Elems
    <3>2. CASE k < u
      <4>1. k \in 1..Len(l) /\ x = l[k]
        BY <1>1, <1>2, <3>1, <3>2
      <4>2. QED BY <1>1, <4>1 DEF Elems
    <3>3. CASE k > u
      <4>1. k - 1 \in 1..Len(l) /\ x = l[k - 1]
        BY <1>1, <1>2, <3>1, <3>3
      <4>2. QED BY <1>1, <4>1 DEF Elems
    <3>4. QED BY <1>1, <1>2, <3>1, <3>2, <3>3
  <2>2. ASSUME x \in Elems(l) PROVE x \in Elems(m)
    <3>1. PICK k \in 1..Len(l) : x = l[k]
      BY <1>1, <2>2 DEF Elems
    <3>2. CASE k < u
      <4>1. k \in 1..Len(m) /\ m[k] = x
        BY <1>1, <1>2, <3>1, <3>2
      <4>2. QED BY <1>3, <4>1 DEF Elems
    <3>3. CASE k >= u
      <4>1. k + 1 \in 1..Len(m) /\ m[k + 1] = x
        BY <1>1, <1>2, <3>1, <3>3
      <4>2. QED BY <1>3, <4>1 DEF Elems
    <3>4. QED BY <1>1, <3>2, <3>3
  <2>3. m[u] = r /\ u \in DOMAIN m
    BY <1>1, <1>2, <1>3
  <2>4. QED BY <2>1, <2>2, <2>3 DEF Elems
<1>5. QED BY <1>0, <1>1, <1>2, <1>4

\* A range far from all others is put in its place.
LEMMA InsertKeeps ==
  ASSUME NEW l \in Lists, NEW r \in Inputs, \A k \in 1..Len(l) : Far(l[k], r)
  PROVE  /\ Insert(l, r) \in Lists /\ Elems(Insert(l, r)) = Elems(l) \cup {r}
<1> DEFINE u == UpperIter(l, r)
           m == Insert(l, r)
<1>1. l \in Seq(Inputs) /\ r \in Ranges /\ Len(l) \in Nat
  BY DEF Lists, Inputs
<1>2. /\ u \in 1..(Len(l) + 1)
      /\ \A k \in 1..Len(l) : IF k < u THEN Mid(l[k]) <= Mid(r) ELSE Mid(r) < Mid(l[k])
  BY <1>1, UpperIs
<1>3. /\ m \in Seq(Inputs) /\ Len(m) = Len(l) + 1 /\ Elems(m) = Elems(l) \cup {r}
      /\ \A k \in 1..(Len(l) + 1) : m[k] = IF k < u THEN l[k] ELSE IF k = u THEN r ELSE l[k - 1]
  BY <1>1, <1>2, InsertIs
<1> HIDE DEF u, m
<1>4. ASSUME NEW k \in 1..Len(l)
      PROVE  IF k < u THEN l[k].end + 1 < r.begin ELSE r.end + 1 < l[k].begin
  <2>1. l[k] \in Ranges /\ Far(l[k], r)
    BY Element
  <2>2. IF k < u THEN Mid(l[k]) <= Mid(r) ELSE Mid(r) < Mid(l[k])
    BY <1>2
  <2>3. QED BY <1>1, <2>1, <2>2, MidWithin DEF Far
<1>5. Spread(m)
  <2> SUFFICES ASSUME NEW j \in 1..Len(m), NEW k \in 1..Len(m), j < k
               PROVE  m[j].end + 1 < m[k].begin
    BY <1>3 DEF Spread
  <2>1. CASE j = u
    <3>1. k - 1 \in 1..Len(l) /\ m[j] = r /\ m[k] = l[k - 1] /\ ~(k - 1 < u)
      BY <1>1, <1>2, <1>3, <2>1
    <3>2. QED BY <1>4, <3>1
  <2>2. CASE k = u
    <3>1. j \in 1..Len(l) /\ m[k] = r /\ m[j] = l[j] /\ j < u
      BY <1>1, <1>2, <1>3, <2>2
    <3>2. QED BY <1>4, <3>1
  <2>3. CASE j # u /\ k # u
    <3>1. PICK a \in 1..Len(l) : m[j] = l[a] /\ a = IF j < u THEN j ELSE j - 1
      BY <1>1, <1>2, <1>3, <2>3
    <3>2. PICK b \in 1..Len(l) : m[k] = l[b] /\ b = IF k < u THEN k ELSE k - 1
      BY <1>1, <1>2, <1>3, <2>3
    <3>3. a < b
      BY <1>2, <2>3, <3>1, <3>2
    <3>4. QED BY <3>1, <3>2, <3>3, Ordered
  <2>4. QED BY <2>1, <2>2, <2>3
<1>6. QED BY <1>3, <1>5 DEF Lists, m

-----------------------------------------------------------------------------
(* What the look-ups find.                                                   *)

\* If a range whose middle is lower than r's does not reach r, what is before it does
\* not even touch r; and the same on the other side.
LEMMA OutOfReach ==
  ASSUME NEW x \in Ranges, NEW y \in Ranges, NEW r \in Ranges, ~Overlaps(y, r)
  PROVE  /\ Mid(y) < Mid(r) => (x.end + 1 < y.begin => x.end + 1 < r.begin)
         /\ Mid(r) <= Mid(y) => (y.end + 1 < x.begin => r.end + 1 < x.begin)
<1>1. y.end < r.begin \/ r.end < y.begin
  <2>1. y.begin \in Nat /\ y.end \in Nat /\ r.begin \in Nat /\ r.end \in Nat
    BY MidWithin
  <2>2. QED BY <2>1, OverlapsIs
<1>2. CASE y.end < r.begin
  <2>1. /\ y.begin \in Nat /\ y.end \in Nat /\ r.begin \in Nat /\ x.end \in Nat
        /\ Mid(y) \in Int /\ Mid(r) \in Int
        /\ y.begin <= y.end /\ Mid(y) <= y.end /\ r.begin <= Mid(r)
    BY MidWithin
  <2>2. Mid(y) < Mid(r)
    BY <1>2, <2>1
  <2>3. x.end + 1 < y.begin => x.end + 1 < r.begin
    BY <1>2, <2>1
  <2>4. ~(Mid(r) <= Mid(y))
    BY <2>1, <2>2
  <2>5. QED BY <2>2, <2>3, <2>4
<1>3. CASE r.end < y.begin
  <2>1. /\ y.begin \in Nat /\ y.end \in Nat /\ r.end \in Nat /\ x.begin \in Nat
        /\ Mid(y) \in Int /\ Mid(r) \in Int
        /\ y.begin <= y.end /\ y.begin <= Mid(y) /\ Mid(r) <= r.end
    BY MidWithin
  <2>2. Mid(r) < Mid(y)
    BY <1>3, <2>1
  <2>3. y.end + 1 < x.begin => r.end + 1 < x.begin
    BY <1>3, <2>1
  <2>4. ~(Mid(y) < Mid(r))
    BY <2>1, <2>2
  <2>5. QED BY <2>2, <2>3, <2>4
<1>4. QED BY <1>1, <1>2, <1>3

\* getContains() finds a range that overlaps r if there is one.
LEMMA GetContainsIs ==
  ASSUME NEW l \in Lists, NEW r \in Ranges
  PROVE  /\ GetContains(l, r) \in 1..(Len(l) + 1)
         /\ GetContains(l, r) <= Len(l) => Overlaps(l[GetContains(l, r)], r)
         /\ GetContains(l, r) > Len(l) => \A k \in 1..Len(l) : ~Overlaps(l[k], r)
<1> DEFINE i == LowerIter(l, r)
           g == GetContains(l, r)
<1>1. /\ Len(l) \in Nat /\ i \in 1..(Len(l) + 1)
      /\ \A k \in 1..Len(l) : IF k < i THEN Mid(l[k]) < Mid(r) ELSE Mid(r) <= Mid(l[k])
  BY LowerIs DEF Lists
<1>2. CASE i <= Len(l) /\ Overlaps(l[i], r)
  <2> DEFINE T == {k \in 1..i : \A m \in k..i : Overlaps(l[m], r)}
  <2>1. i \in T
    BY <1>1, <1>2
  <2>2. PICK k \in T : \A m \in T : k <= m
    <3>1. T \subseteq Nat /\ T # {}
      BY <1>1, <2>1
    <3> HIDE DEF T
    <3>2. QED BY <3>1, Least
  <2>3. k > 1 => ~Overlaps(l[k - 1], r)
    BY <1>1, <2>2
  <2>4. g = CHOOSE n \in 1..i : /\ \A m \in n..i : Overlaps(l[m], r)
                                /\ n > 1 => ~Overlaps(l[n - 1], r)
    BY <1>2 DEF GetContains
  <2>5. g \in 1..i /\ \A m \in g..i : Overlaps(l[m], r)
    BY <2>2, <2>3, <2>4
  <2> HIDE DEF g, i, T
  <2>6. g \in 1..Len(l) /\ g \in g..i
    BY <1>1, <1>2, <2>5
  <2>7. QED BY <1>1, <2>5, <2>6 DEF g
<1>3. CASE ~(i <= Len(l) /\ Overlaps(l[i], r)) /\ i > 1 /\ Overlaps(l[i - 1], r)
  <2>1. g = i - 1
    BY <1>3 DEF GetContains
  <2> HIDE DEF g, i
  <2>2. g \in 1..Len(l)
    BY <1>1, <1>3, <2>1
  <2>3. QED BY <1>1, <1>3, <2>1, <2>2 DEF g
<1>4. CASE ~(i <= Len(l) /\ Overlaps(l[i], r)) /\ ~(i > 1 /\ Overlaps(l[i - 1], r))
  <2>1. g = Len(l) + 1
    BY <1>4 DEF GetContains
  <2> HIDE DEF g, i
  <2>2. ASSUME NEW k \in 1..Len(l), Overlaps(l[k], r) PROVE FALSE
    <3>1. l[k].begin <= r.end /\ r.begin <= l[k].end /\ l[k] \in Ranges
      BY <2>2, OverlapsIs, Element
    <3>2. CASE k < i
      <4>1. i - 1 \in 1..Len(l) /\ k <= i - 1 /\ i - 1 < i /\ i > 1
        BY <1>1, <3>2
      <4>2. l[i - 1] \in Ranges /\ ~Overlaps(l[i - 1], r) /\ Mid(l[i - 1]) < Mid(r)
        BY <1>1, <1>4, <4>1, Element
      <4>3. k # i - 1
        BY <2>2, <4>2
      <4>4. l[k].end + 1 < l[i - 1].begin
        BY <4>1, <4>3, Ordered
      <4>5. l[k].end + 1 < r.begin
        BY <3>1, <4>2, <4>4, OutOfReach
      <4>6. QED BY <3>1, <4>5, MidWithin
    <3>3. CASE k >= i
      <4>1. i \in 1..Len(l)
        BY <1>1, <3>3
      <4>2. l[i] \in Ranges /\ ~Overlaps(l[i], r) /\ Mid(r) <= Mid(l[i])
        BY <1>1, <1>4, <4>1, Element
      <4>3. k # i
        BY <2>2, <4>2
      <4>4. l[i].end + 1 < l[k].begin
        BY <3>3, <4>1, <4>3, Ordered
      <4>5. r.end + 1 < l[k].begin
        BY <3>1, <4>2, <4>4, OutOfReach
      <4>6. QED BY <3>1, <4>5, MidWithin
    <3>4. QED BY <1>1, <3>2, <3>3
  <2>3. QED BY <1>1, <2>1, <2>2 DEF g
<1>5. QED BY <1>2, <1>3, <1>4

\* If nothing overlaps r, what borders on it is beside the place of its middle.
LEMMA GetBordersIs ==
  ASSUME Top < Size - 1, NEW l \in Lists, NEW r \in Inputs,
         \A k \in 1..Len(l) : ~Overlaps(l[k], r)
  PROVE  /\ GetBorders(l, r) \in 1..(Len(l) + 1)
         /\ GetBorders(l, r) <= Len(l) => Adjacent(l[GetBorders(l, r)], r)
         /\ GetBorders(l, r) > Len(l) => \A k \in 1..Len(l) : Far(l[k], r)
<1> DEFINE i == LowerIter(l, r)
           g == GetBorders(l, r)
<1>0. Len(l) \in Nat /\ r \in Ranges
  BY DEF Lists, Inputs
<1>1. /\ i \in 1..(Len(l) + 1)
      /\ \A k \in 1..Len(l) : IF k < i THEN Mid(l[k]) < Mid(r) ELSE Mid(r) <= Mid(l[k])
  BY <1>0, LowerIs
<1>2. ASSUME NEW k \in 1..Len(l)
      PROVE  /\ l[k] \in Ranges /\ (Borders(l[k], r) <=> Adjacent(l[k], r))
             /\ Far(l[k], r) <=> ~Adjacent(l[k], r)
  <2>1. l[k] \in Ranges /\ BelowTop(l[k], r)
    BY <1>0, Element, MidWithin, TopAssumption, SizeAssumption DEF BelowTop, Inputs, Positions
  <2>2. QED BY <1>0, <2>1, BordersIs, FarIs
<1>3. CASE i <= Len(l) /\ Borders(l[i], r)
  <2>1. g = i
    BY <1>3 DEF GetBorders
  <2> HIDE DEF g, i
  <2>2. QED BY <1>0, <1>1, <1>2, <1>3, <2>1 DEF g
<1>4. CASE ~(i <= Len(l) /\ Borders(l[i], r)) /\ i > 1 /\ Borders(l[i - 1], r)
  <2>1. g = i - 1
    BY <1>4 DEF GetBorders
  <2> HIDE DEF g, i
  <2>2. i - 1 \in 1..Len(l)
    BY <1>0, <1>1, <1>4
  <2>3. QED BY <1>0, <1>2, <1>4, <2>1, <2>2 DEF g
<1>5. CASE ~(i <= Len(l) /\ Borders(l[i], r)) /\ ~(i > 1 /\ Borders(l[i - 1], r))
  <2> HIDE DEF i
  <2>1. ASSUME NEW k \in 1..Len(l) PROVE Far(l[k], r)
    <3>1. l[k] \in Ranges /\ ~Overlaps(l[k], r)
      BY <1>2
    <3>2. CASE k < i - 1
      <4>1. i - 1 \in 1..Len(l) /\ i - 1 < i
        BY <1>0, <1>1, <3>2
      <4>2. l[i - 1] \in Ranges /\ ~Overlaps(l[i - 1], r) /\ Mid(l[i - 1]) < Mid(r)
        BY <1>1, <1>2, <4>1
      <4>3. l[k].end + 1 < l[i - 1].begin
        BY <3>2, <4>1, Ordered
      <4>4. l[k].end + 1 < r.begin
        BY <1>0, <3>1, <4>2, <4>3, OutOfReach
      <4>5. QED BY <4>4 DEF Far
    <3>3. CASE k = i - 1
      <4>1. i > 1 /\ ~Borders(l[k], r)
        BY <1>1, <1>5, <3>3
      <4>2. QED BY <1>2, <4>1
    <3>4. CASE k = i
      <4>1. ~Borders(l[k], r)
        BY <1>0, <1>5, <3>4
      <4>2. QED BY <1>2, <4>1
    <3>5. CASE k > i
      <4>1. i \in 1..Len(l)
        BY <1>0, <1>1, <3>5
      <4>2. l[i] \in Ranges /\ ~Overlaps(l[i], r) /\ Mid(r) <= Mid(l[i])
        BY <1>1, <1>2, <4>1
      <4>3. l[i].end + 1 < l[k].begin
        BY <3>5, <4>1, Ordered
      <4>4. r.end + 1 < l[k].begin
        BY <1>0, <3>1, <4>2, <4>3, OutOfReach
      <4>5. QED BY <4>4 DEF Far
    <3>6. QED BY <1>0, <1>1, <3>2, <3>3, <3>4, <3>5
  <2>2. g = Len(l) + 1
    <3>1. i < Len(l) => ~Borders(l[i + 1], r)
      <4>1. i < Len(l) => i + 1 \in 1..Len(l)
        BY <1>0, <1>1
      <4>2. QED BY <1>2, <2>1, <4>1
    <3>2. ~(i <= Len(l) /\ Borders(l[i], r)) /\ (i > 1 => ~Borders(l[i - 1], r))
      BY <1>5
    <3>3. QED BY <3>1, <3>2 DEF GetBorders, i
  <2> HIDE DEF g
  <2>3. QED BY <1>0, <2>1, <2>2 DEF g
<1>6. QED BY <1>3, <1>4, <1>5

-----------------------------------------------------------------------------
(* merge().                                                                  *)

\* The positions of a range are positions of the type.
LEMMA PointsIn ==
  ASSUME NEW r \in Ranges
  PROVE  /\ Points(r) \subseteq Positions /\ r.begin \in Points(r) /\ r.end \in Points(r)
         /\ \A p \in Positions : p \in Points(r) <=> r.begin <= p /\ p <= r.end
<1>1. /\ r.begin \in 0..(Size - 1) /\ r.end \in 0..(Size - 1) /\ r.begin <= r.end
      /\ Size \in Int
  BY SizeAssumption DEF Ranges, Positions
<1>2. QED BY <1>1 DEF Points, Positions

\* Range::merge() as RangeList calls it stays below the top of the type.
LEMMA MergedIs ==
  ASSUME Top < Size - 1, NEW r \in Inputs, NEW x \in Inputs, Overlaps(x, r) \/ Adjacent(x, r)
  PROVE  /\ Merged(r, x) \in Inputs /\ Merged(r, x) \in Ranges
         /\ Points(Merged(r, x)) = Points(r) \cup Points(x)
<1>1. r \in Ranges /\ x \in Ranges /\ r.end <= Top /\ x.end <= Top
  BY DEF Inputs
<1>2. /\ r.end \in Nat /\ x.end \in Nat /\ r.begin \in Nat /\ x.begin \in Nat
      /\ Top \in Int /\ Size \in Int
  BY <1>1, MidWithin, TopAssumption, SizeAssumption DEF Positions
<1>3. BelowTop(r, x)
  BY <1>1, <1>2 DEF BelowTop
<1>4. Overlaps(r, x) \/ Adjacent(r, x)
  BY <1>1, <1>2, OverlapsIs DEF Adjacent
<1>5. /\ Merged(r, x) \in Ranges
      /\ \A p \in Positions : p \in Points(Merged(r, x)) <=> p \in Points(r) \/ p \in Points(x)
  BY <1>1, <1>3, <1>4, MergeIsUnion
<1>6. Points(Merged(r, x)) = Points(r) \cup Points(x)
  BY <1>1, <1>5, PointsIn
<1>7. Merged(r, x).end <= Top
  <2>1. Merged(r, x).end \in Positions
        /\ (Merged(r, x).end \in Points(r) \/ Merged(r, x).end \in Points(x))
    BY <1>5, <1>6, PointsIn
  <2>2. Merged(r, x).end <= r.end \/ Merged(r, x).end <= x.end
    BY <1>1, <2>1, PointsIn
  <2>3. Merged(r, x).end \in Int
    BY <1>5, MidWithin
  <2>4. QED BY <1>1, <1>2, <2>2, <2>3
<1>8. QED BY <1>5, <1>6, <1>7 DEF Inputs

\* What overlaps a merged range overlapped one of the two.
LEMMA MergedApart ==
  ASSUME Top < Size - 1, NEW r \in Inputs, NEW x \in Inputs, Overlaps(x, r) \/ Adjacent(x, r),
         NEW y \in Ranges, ~Overlaps(y, r), ~Overlaps(y, x)
  PROVE  ~Overlaps(y, Merged(r, x))
<1>1. /\ r \in Ranges /\ x \in Ranges /\ Merged(r, x) \in Ranges
      /\ Points(Merged(r, x)) = Points(r) \cup Points(x)
  BY MergedIs DEF Inputs
<1>2. QED BY <1>1, OverlapIsCommonPoint

\* A list and a range on the way to be merged.
States == [list : Lists, range : Inputs]
All(s) == CoveredBy(s.list) \cup Points(s.range)
Clear(s) == \A k \in 1..Len(s.list) : ~Overlaps(s.list[k], s.range)
Over(s, bordering) ==
    \A k \in 1..Len(s.list) : IF bordering THEN Far(s.list[k], s.range)
                                           ELSE ~Overlaps(s.list[k], s.range)
Ready(bordering) == {s \in States : bordering => Clear(s)}

\* A pass of either loop loses no position, and takes a range off the list until it is over.
LEMMA MergePassKeeps ==
  ASSUME Top < Size - 1, NEW b \in BOOLEAN, NEW s \in Ready(b)
  PROVE  /\ MergePass(s, b) \in Ready(b) /\ All(MergePass(s, b)) = All(s)
         /\ \/ Len(MergePass(s, b).list) = Len(s.list) - 1
            \/ MergePass(s, b) = s /\ Over(s, b)
<1> DEFINE l == s.list
           r == s.range
           i == IF b THEN GetBorders(l, r) ELSE GetContains(l, r)
<1>1. /\ l \in Lists /\ r \in Inputs /\ r \in Ranges /\ Len(l) \in Nat
      /\ l \in Seq(Ranges)
      /\ b => Clear(s)
  BY DEF Ready, States, Inputs, Lists
<1>2. /\ i \in 1..(Len(l) + 1)
      /\ i <= Len(l) => Overlaps(l[i], r) \/ Adjacent(l[i], r)
      /\ i > Len(l) => Over(s, b)
  <2>1. CASE b
    <3>1. i = GetBorders(l, r) /\ \A k \in 1..Len(l) : ~Overlaps(l[k], r)
      BY <1>1, <2>1 DEF Clear
    <3>2. /\ i \in 1..(Len(l) + 1)
          /\ i <= Len(l) => Adjacent(l[i], r)
          /\ i > Len(l) => \A k \in 1..Len(l) : Far(l[k], r)
      BY <1>1, <3>1, GetBordersIs
    <3>3. QED BY <2>1, <3>2 DEF Over
  <2>2. CASE ~b
    BY <1>1, <2>2, GetContainsIs DEF Over
  <2>3. QED BY <2>1, <2>2
<1>3. CASE i > Len(l)
  BY <1>2, <1>3 DEF MergePass
<1>4. CASE i <= Len(l)
  <2> DEFINE m == RemoveAt(l, i)
             t == [list |-> m, range |-> Merged(r, l[i])]
  <2>1. MergePass(s, b) = t
    <3>1. ~(i > Len(l))
      BY <1>1, <1>2, <1>4
    <3>2. QED BY <3>1 DEF MergePass
  <2>2. i \in 1..Len(l) /\ l[i] \in Inputs /\ l[i] \in Ranges
        /\ (Overlaps(l[i], r) \/ Adjacent(l[i], r))
    BY <1>1, <1>2, <1>4, Element
  <2> HIDE DEF i
  <2>3. m \in Lists /\ Len(m) = Len(l) - 1 /\ Elems(m) = Elems(l) \ {l[i]}
    BY <1>1, <2>2, RemoveKeeps
  <2>4. /\ Merged(r, l[i]) \in Inputs /\ Merged(r, l[i]) \in Ranges
        /\ Points(Merged(r, l[i])) = Points(r) \cup Points(l[i])
    BY <1>1, <2>2, MergedIs
  <2> HIDE DEF m
  <2>5. t \in States /\ t.list = m /\ t.range = Merged(r, l[i])
    BY <2>3, <2>4 DEF States
  <2>6. All(t) = All(s)
    <3>1. l[i] \in Elems(l)
      BY <1>1, <2>2 DEF Elems
    <3>2. m \in Seq(Ranges)
      BY <2>3 DEF Lists, Inputs
    <3>3. /\ CoveredBy(l) = UNION {Points(x) : x \in Elems(l)}
          /\ CoveredBy(m) = UNION {Points(x) : x \in Elems(m)}
      BY <1>1, <3>2, Covers
    <3>4. CoveredBy(l) = CoveredBy(m) \cup Points(l[i])
      BY <2>3, <3>1, <3>3
    <3>5. QED BY <2>4, <2>5, <3>4 DEF All
  <2>7. ASSUME b PROVE Clear(t)
    <3> SUFFICES ASSUME NEW k \in 1..Len(m) PROVE ~Overlaps(m[k], Merged(r, l[i]))
      BY <2>5 DEF Clear
    <3>1. m[k] \in Elems(m) /\ m[k] \in Ranges
      BY <2>3, Element DEF Elems, Lists
    <3>2. m[k] \in Elems(l) /\ m[k] # l[i] /\ DOMAIN l = 1..Len(l)
      BY <1>1, <2>3, <3>1
    <3>6. PICK n \in 1..Len(l) : m[k] = l[n] /\ n # i
      BY <3>2 DEF Elems
    <3>3. ~Overlaps(m[k], r)
      BY <1>1, <2>7, <3>6 DEF Clear
    <3>4. ~Overlaps(m[k], l[i])
      BY <1>1, <2>2, <3>1, <3>6, Different, FarIs
    <3>5. QED BY <1>1, <2>2, <3>1, <3>3, <3>4, MergedApart
  <2>8. QED BY <2>1, <2>3, <2>5, <2>6, <2>7 DEF Ready
<1>5. QED BY <1>1, <1>2, <1>3, <1>4

\* A loop that is over stays so.
LEMMA OverStops ==
  ASSUME Top < Size - 1, NEW b \in BOOLEAN, NEW s \in Ready(b), Over(s, b)
  PROVE  MergePass(s, b) = s
<1> DEFINE l == s.list
           r == s.range
           i == IF b THEN GetBorders(l, r) ELSE GetContains(l, r)
<1>1. /\ l \in Lists /\ r \in Inputs /\ r \in Ranges /\ Len(l) \in Nat
      /\ b => Clear(s)
  BY DEF Ready, States, Inputs, Lists
<1>2. i > Len(l)
  <2>1. CASE b
    <3>1. /\ i \in 1..(Len(l) + 1) /\ \A k \in 1..Len(l) : Far(l[k], r)
          /\ (i <= Len(l) => Adjacent(l[i], r))
      BY <1>1, <2>1, GetBordersIs DEF Clear, Over
    <3> HIDE DEF i
    <3>2. QED BY <1>1, <3>1, Element, FarIs
  <2>2. CASE ~b
    <3>1. /\ i \in 1..(Len(l) + 1) /\ \A k \in 1..Len(l) : ~Overlaps(l[k], r)
          /\ (i <= Len(l) => Overlaps(l[i], r))
      BY <1>1, <2>2, GetContainsIs DEF Over
    <3> HIDE DEF i
    <3>2. QED BY <1>1, <3>1
  <2>3. QED BY <2>1, <2>2
<1>3. QED BY <1>2 DEF MergePass

\* The recursive function of a loop is one: it starts with s and goes on by step.
LEMMA AbsorbSteps ==
  ASSUME Top < Size - 1, NEW b \in BOOLEAN, NEW s \in Ready(b)
  PROVE  \E after : /\ Absorb(s, b) = after[Len(s.list)]
                    /\ after[0] = s
                    /\ \A n \in Nat : after[n + 1] = MergePass(after[n], b)
<1> DEFINE Eq(g) == g = [n \in Nat |-> IF n = 0 THEN s ELSE MergePass(g[n - 1], b)]
           after == CHOOSE g : Eq(g)
<1>1. Absorb(s, b) = after[Len(s.list)]
  BY DEF Absorb
<1>2. \E g : Eq(g)
  <2>0. PICK S : S = Ready(b)
    OBVIOUS
  <2>1. PICK step \in [S -> S] : \A t \in S : step[t] = MergePass(t, b)
    <3>1. [t \in S |-> MergePass(t, b)] \in [S -> S]
      BY <2>0, MergePassKeeps
    <3>2. QED BY <3>1
  <2>7. PICK f : Repeats(f, S, step, s)
    BY <2>0, Iterates
  <2>2. f \in [Nat -> S] /\ f[0] = s /\ \A n \in Nat : f[n + 1] = step[f[n]]
    BY <2>7 DEF Repeats
  <2>3. ASSUME NEW n \in Nat PROVE f[n] = IF n = 0 THEN s ELSE MergePass(f[n - 1], b)
    <3>1. CASE n = 0
      BY <2>2, <3>1
    <3>2. CASE n # 0
      <4>1. n - 1 \in Nat /\ (n - 1) + 1 = n
        BY <3>2
      <4>2. f[n] = step[f[n - 1]] /\ f[n - 1] \in S
        BY <2>2, <4>1
      <4>3. QED BY <2>1, <3>2, <4>2
    <3>3. QED BY <3>1, <3>2
  <2>4. f = [n \in Nat |-> f[n]]
    BY <2>2
  <2>5. f = [n \in Nat |-> IF n = 0 THEN s ELSE MergePass(f[n - 1], b)]
    BY <2>3, <2>4
  <2>6. QED BY <2>5
<1>3. Eq(after)
  <2> HIDE DEF Eq
  <2>1. QED BY <1>2
<1> HIDE DEF after
<1>4. after[0] = s /\ \A n \in Nat : after[n + 1] = MergePass(after[n], b)
  BY <1>3
<1>5. QED BY <1>1, <1>4

\* A loop of merge() comes to its end: there are as many passes as ranges on the list.
LEMMA AbsorbIs ==
  ASSUME Top < Size - 1, NEW b \in BOOLEAN, NEW s \in Ready(b)
  PROVE  /\ Absorb(s, b) \in Ready(b) /\ All(Absorb(s, b)) = All(s)
         /\ Over(Absorb(s, b), b)
<1>0. \A t \in Ready(b) : Len(t.list) \in Nat
  BY DEF Ready, States, Lists
<1>1. PICK m \in Nat : m = Len(s.list)
  BY <1>0
<1>2. PICK after : /\ Absorb(s, b) = after[m]
                   /\ after[0] = s
                   /\ \A n \in Nat : after[n + 1] = MergePass(after[n], b)
  BY SMTT(20), <1>1, AbsorbSteps
<1> DEFINE Good(n, t) == /\ t \in Ready(b) /\ All(t) = All(s)
                         /\ Len(t.list) + n = m \/ Over(t, b)
           P == {n \in Nat : Good(n, after[n])}
<1>3. 0 \in P
  BY <1>1, <1>2
<1>4. ASSUME NEW n \in Nat, n \in P PROVE n + 1 \in P
  <2>1. PICK t : t = after[n] /\ Good(n, t)
    BY <1>4
  <2>2. PICK u : u = after[n + 1] /\ u = MergePass(t, b)
    BY <1>2, <2>1
  <2>3. u \in Ready(b) /\ All(u) = All(s)
    BY <2>1, <2>2, MergePassKeeps
  <2>4. ASSUME Over(t, b) PROVE Good(n + 1, u)
    <3>1. u = t
      BY <2>1, <2>2, <2>4, OverStops
    <3>2. Over(u, b)
      BY <2>4, <3>1
    <3>3. QED BY <2>3, <3>2
  <2>5. ASSUME ~Over(t, b) PROVE Good(n + 1, u)
    <3>1. Len(u.list) = Len(t.list) - 1 /\ Len(t.list) + n = m
      BY <2>1, <2>2, <2>5, MergePassKeeps
    <3>2. PICK x \in Nat : x = Len(t.list)
      BY <1>0, <2>1
    <3>3. PICK y \in Nat : y = Len(u.list)
      BY <1>0, <2>3
    <3>4. y = x - 1
      BY <3>1, <3>2, <3>3
    <3>5. x + n = m
      BY <3>1, <3>2
    <3>6. y + (n + 1) = m
      BY <3>4, <3>5
    <3>7. QED BY <2>3, <3>3, <3>6
  <2>6. Good(n + 1, u)
    BY <2>4, <2>5
  <2> HIDE DEF Good
  <2>7. n + 1 \in Nat /\ Good(n + 1, after[n + 1])
    BY <2>2, <2>6
  <2>8. QED BY <2>7
<1> HIDE DEF P
<1>5. Nat \subseteq P
  BY <1>3, <1>4, Induction
<1>6. PICK t : t = after[m] /\ Good(m, t)
  BY <1>5 DEF P
<1>7. Over(t, b)
  <2>1. PICK x \in Nat : x = Len(t.list)
    BY <1>0, <1>6
  <2>2. x + m = m => x = 0
    OBVIOUS
  <2>3. Len(t.list) + m = m => Len(t.list) = 0
    BY <2>1, <2>2
  <2>4. Len(t.list) = 0 => Over(t, b)
    BY DEF Over
  <2>5. QED BY <1>6, <2>3, <2>4
<1>8. QED BY <1>2, <1>6, <1>7

\* merge() makes a list that covers what was covered and the range, and nothing else.
LEMMA MergeIs ==
  ASSUME Top < Size - 1, NEW l \in Lists, NEW r \in Inputs
  PROVE  MergeInto(l, r) \in Lists /\ CoveredBy(MergeInto(l, r)) = CoveredBy(l) \cup Points(r)
<1> DEFINE s == [list |-> l, range |-> r]
           t == Absorb(s, FALSE)
           u == Absorb(t, TRUE)
<1>1. s \in Ready(FALSE) /\ All(s) = CoveredBy(l) \cup Points(r)
  BY DEF Ready, States, All
<1> HIDE DEF s
<1>2. t \in Ready(FALSE) /\ All(t) = All(s) /\ Over(t, FALSE)
  BY <1>1, AbsorbIs
<1> HIDE DEF t
<1>3. t \in Ready(TRUE)
  BY <1>2 DEF Ready, Over, Clear
<1>4. u \in Ready(TRUE) /\ All(u) = All(t) /\ Over(u, TRUE)
  BY <1>3, AbsorbIs
<1> HIDE DEF u
<1>5. u.list \in Lists /\ u.range \in Inputs /\ \A k \in 1..Len(u.list) : Far(u.list[k], u.range)
  BY <1>4 DEF Ready, States, Over
<1>6. /\ Insert(u.list, u.range) \in Lists
      /\ Elems(Insert(u.list, u.range)) = Elems(u.list) \cup {u.range}
  BY <1>5, InsertKeeps
<1>7. CoveredBy(Insert(u.list, u.range)) = All(u)
  <2>1. u.list \in Seq(Ranges) /\ Insert(u.list, u.range) \in Seq(Ranges)
    BY <1>5, <1>6 DEF Lists, Inputs
  <2>2. QED BY <1>6, <2>1, Covers DEF All
<1>8. MergeInto(l, r) = Insert(u.list, u.range)
  BY DEF MergeInto, s, t, u
<1>9. QED BY <1>1, <1>2, <1>4, <1>6, <1>7, <1>8

-----------------------------------------------------------------------------
(* contains() and containsFull().                                            *)

\* A list covers the positions of its elements.
LEMMA CoveredAt ==
  ASSUME NEW l \in Lists
  PROVE  /\ \A p : p \in CoveredBy(l) <=> \E k \in 1..Len(l) : p \in Points(l[k])
         /\ CoveredBy(l) \subseteq Positions
<1>1. DOMAIN l = 1..Len(l)
  BY DEF Lists
<1>2. \A k \in 1..Len(l) : Points(l[k]) \subseteq Positions
  BY Element, PointsIn
<1>3. QED BY <1>1, <1>2 DEF CoveredBy

\* Two elements of a list have no common position.
LEMMA NotShared ==
  ASSUME NEW l \in Lists, NEW i \in 1..Len(l), NEW k \in 1..Len(l),
         NEW p \in Points(l[i]), p \in Points(l[k])
  PROVE  i = k
<1> SUFFICES ASSUME i # k PROVE FALSE
  OBVIOUS
<1>1. l[i] \in Ranges /\ l[k] \in Ranges /\ Far(l[i], l[k])
  BY Element, Different
<1>2. ~Overlaps(l[i], l[k])
  BY <1>1, FarIs
<1>3. QED BY <1>1, <1>2, PointsIn, OverlapIsCommonPoint

\* contains() is asked correctly.
LEMMA ContainsAnswers ==
  ASSUME NEW l \in Lists, NEW r \in Ranges
  PROVE  ListContains(l, r) <=> Points(r) \cap CoveredBy(l) # {}
<1>1. Len(l) \in Nat
  BY DEF Lists
<1>2. ASSUME NEW k \in 1..Len(l)
      PROVE  Overlaps(l[k], r) <=> \E p \in Positions : p \in Points(l[k]) /\ p \in Points(r)
  BY Element, OverlapIsCommonPoint
<1>3. ListContains(l, r) <=> \E k \in 1..Len(l) : Overlaps(l[k], r)
  <2>1. PICK g \in 1..(Len(l) + 1) : g = GetContains(l, r)
    BY GetContainsIs
  <2>2. /\ g <= Len(l) => Overlaps(l[g], r)
        /\ g > Len(l) => \A k \in 1..Len(l) : ~Overlaps(l[k], r)
    BY <2>1, GetContainsIs
  <2>3. ListContains(l, r) <=> g <= Len(l)
    BY <2>1 DEF ListContains
  <2>4. QED BY <1>1, <2>2, <2>3
<1>4. QED BY <1>2, <1>3, CoveredAt, PointsIn

\* containsFull() is asked correctly.
LEMMA FullAnswers ==
  ASSUME NEW l \in Lists, NEW r \in Ranges
  PROVE  ListContainsFull(l, r) <=> Points(r) \subseteq CoveredBy(l)
<1>0. Len(l) \in Nat
  BY DEF Lists
<1>1. PICK g \in 1..(Len(l) + 1) : g = GetContains(l, r)
  BY GetContainsIs
<1>2. ListContainsFull(l, r) <=> \/ g <= Len(l) /\ ContainsFull(l[g], r)
                                 \/ g > 1 /\ ContainsFull(l[g - 1], r)
  BY <1>1 DEF ListContainsFull
<1>3. ASSUME NEW k \in 1..Len(l), ContainsFull(l[k], r)
      PROVE  Points(r) \subseteq CoveredBy(l)
  <2>1. l[k] \in Ranges
    BY Element
  <2>2. Points(r) \subseteq Points(l[k])
    BY <1>3, <2>1, MidWithin DEF Points, ContainsFull
  <2>3. QED BY <2>2, CoveredAt
<1>4. ASSUME Points(r) \subseteq CoveredBy(l)
      PROVE  g <= Len(l) /\ ContainsFull(l[g], r)
  <2>1. r.begin \in Points(r) /\ r.end \in Points(r) /\ r.begin \in Nat /\ r.end \in Nat
        /\ r.begin <= r.end
    BY PointsIn, MidWithin
  <2>2. PICK j \in 1..Len(l) : r.begin \in Points(l[j])
    BY <1>4, <2>1, CoveredAt
  <2>3. l[j] \in Ranges /\ l[j].begin \in Nat /\ l[j].end \in Nat
    BY Element, MidWithin
  <2>4. l[j].begin <= r.begin /\ r.begin <= l[j].end
    BY <2>1, <2>2, <2>3 DEF Points
  <2>5. r.end <= l[j].end
    <3> SUFFICES ASSUME l[j].end < r.end PROVE FALSE
      BY <2>1, <2>3
    <3>1. l[j].end + 1 \in Points(r)
      BY <2>1, <2>3, <2>4 DEF Points
    <3>2. PICK k \in 1..Len(l) : l[j].end + 1 \in Points(l[k])
      BY <1>4, <3>1, CoveredAt
    <3>3. l[k] \in Ranges /\ l[k].begin \in Nat /\ l[k].end \in Nat
      BY Element, MidWithin
    <3>4. l[k].begin <= l[j].end + 1 /\ l[j].end + 1 <= l[k].end
      BY <2>3, <3>2, <3>3 DEF Points
    <3>5. j # k
      BY <2>3, <3>4
    <3>6. Far(l[j], l[k])
      BY <3>5, Different
    <3>7. l[j].end + 1 < l[k].begin \/ l[k].end + 1 < l[j].begin
      BY <3>6 DEF Far
    <3>8. l[j].begin <= l[j].end
      BY <2>3, MidWithin
    <3>9. QED BY <2>3, <3>3, <3>4, <3>7, <3>8
  <2>6. ContainsFull(l[j], r)
    BY <2>4, <2>5 DEF ContainsFull
  <2>7. Overlaps(l[j], r)
    BY <2>1, <2>3, <2>4, <2>5, OverlapsIs
  <2>8. g \in 1..Len(l) /\ Overlaps(l[g], r)
    BY <1>0, <1>1, <2>7, GetContainsIs
  <2>9. PICK p \in Positions : p \in Points(l[g]) /\ p \in Points(r)
    BY <2>8, Element, OverlapIsCommonPoint
  <2>10. p \in Points(l[j])
    <3>1. p \in Int /\ r.begin <= p /\ p <= r.end
      BY <2>9 DEF Points
    <3>2. QED BY <2>1, <2>3, <2>4, <2>5, <3>1 DEF Points
  <2>11. g = j
    BY <2>8, <2>9, <2>10, NotShared
  <2>12. QED BY <2>6, <2>8, <2>11
<1>5. QED
  <2>1. g <= Len(l) => g \in 1..Len(l)
    BY <1>0
  <2>2. g > 1 => g - 1 \in 1..Len(l)
    BY <1>0
  <2>3. QED BY <1>2, <1>3, <1>4, <2>1, <2>2

-----------------------------------------------------------------------------
(* erase().                                                                  *)

\* The elements of l that overlap r.
Struck(l, r) == {x \in Elems(l) : Overlaps(x, r)}

\* Range::erase() as RangeList calls it.
LEMMA ErasedIs ==
  ASSUME NEW x \in Inputs, NEW r \in Ranges, Overlaps(x, r)
  PROVE  /\ Erased(x, r) \in Seq(Inputs) /\ Len(Erased(x, r)) \in 0..2
         /\ \A i \in 1..Len(Erased(x, r)) :
               /\ ~Overlaps(Erased(x, r)[i], r)
               /\ x.begin <= Erased(x, r)[i].begin /\ Erased(x, r)[i].end <= x.end
         /\ Len(Erased(x, r)) = 2 => Erased(x, r)[1].end + 1 < Erased(x, r)[2].begin
         /\ UNION {Points(Erased(x, r)[i]) : i \in 1..Len(Erased(x, r))} = Points(x) \ Points(r)
<1>1. x \in Ranges /\ x.end <= Top /\ Top \in Int
  BY TopAssumption, SizeAssumption DEF Inputs, Positions
<1>2. PICK e : e = Erased(x, r)
  OBVIOUS
<1>3. /\ e \in Seq(Ranges) /\ Len(e) \in 0..2 /\ DOMAIN e = 1..Len(e)
      /\ \A i \in 1..Len(e) :
            ~Overlaps(e[i], r) /\ x.begin <= e[i].begin /\ e[i].end <= x.end
      /\ Len(e) = 2 => e[1].end + 1 < e[2].begin
      /\ \A p \in Positions :
            (\E i \in 1..Len(e) : p \in Points(e[i])) <=> p \in Points(x) /\ p \notin Points(r)
  <2>1. e \in Seq(Ranges) /\ DOMAIN e = 1..Len(e)
    BY <1>1, <1>2, EraseIsDifference
  <2>2. QED BY <1>1, <1>2, <2>1, EraseIsDifference
<1>4. \A i \in 1..Len(e) : e[i] \in Ranges /\ e[i] \in Inputs
  <2> SUFFICES ASSUME NEW i \in 1..Len(e) PROVE e[i] \in Ranges /\ e[i] \in Inputs
    OBVIOUS
  <2>1. e[i] \in Ranges /\ e[i].end <= x.end
    BY <1>3
  <2>2. e[i].end <= Top
    BY <1>1, <2>1, MidWithin
  <2>3. QED BY <2>1, <2>2 DEF Inputs
<1>5. e \in Seq(Inputs)
  BY <1>3, <1>4
<1>6. UNION {Points(e[i]) : i \in 1..Len(e)} = Points(x) \ Points(r)
  <2>1. Points(x) \subseteq Positions /\ \A i \in 1..Len(e) : Points(e[i]) \subseteq Positions
    BY <1>1, <1>4, PointsIn
  <2>2. QED BY <1>3, <2>1
<1>7. QED BY <1>2, <1>3, <1>5, <1>6

\* A part of an element is far from the other elements.
LEMMA PartFar ==
  ASSUME NEW x \in Ranges, NEW y \in Ranges, NEW e \in Ranges, Far(y, x),
         x.begin <= e.begin, e.end <= x.end
  PROVE  Far(y, e)
BY MidWithin DEF Far

\* A pass of erase() changes no position outside r, and leaves one overlapping range less.
LEMMA ErasePassKeeps ==
  ASSUME NEW l \in Lists, NEW r \in Ranges
  PROVE  /\ ErasePass(l, r) \in Lists
         /\ CoveredBy(ErasePass(l, r)) \ Points(r) = CoveredBy(l) \ Points(r)
         /\ \/ ErasePass(l, r) = l /\ Struck(l, r) = {}
            \/ \E x \in Struck(l, r) : Struck(ErasePass(l, r), r) = Struck(l, r) \ {x}
<1>0. Len(l) \in Nat /\ l \in Seq(Ranges) /\ DOMAIN l = 1..Len(l)
  BY DEF Lists, Inputs
<1>1. PICK i \in 1..(Len(l) + 1) : i = GetContains(l, r)
  BY GetContainsIs
<1>2. /\ i <= Len(l) => Overlaps(l[i], r)
      /\ i > Len(l) => \A k \in 1..Len(l) : ~Overlaps(l[k], r)
  BY <1>1, GetContainsIs
<1>3. CASE i > Len(l)
  <2>1. ErasePass(l, r) = l
    BY <1>1, <1>3 DEF ErasePass
  <2>2. Struck(l, r) = {}
    BY <1>0, <1>2, <1>3 DEF Struck, Elems
  <2>3. QED BY <2>1, <2>2
<1>4. CASE i <= Len(l)
  <2>1. i \in 1..Len(l) /\ Overlaps(l[i], r) /\ ~(i > Len(l))
    BY <1>0, <1>2, <1>4
  <2>2. PICK x : x = l[i]
    OBVIOUS
  <2>3. x \in Inputs /\ x \in Ranges /\ x \in Elems(l) /\ Overlaps(x, r)
    BY <1>0, <2>1, <2>2, Element DEF Elems
  <2>4. PICK m : m = RemoveAt(l, i)
    OBVIOUS
  <2>5. m \in Lists /\ Elems(m) = Elems(l) \ {x}
    BY <2>1, <2>2, <2>4, RemoveKeeps
  <2>6. PICK e : e = Erased(x, r)
    OBVIOUS
  <2>7. /\ e \in Seq(Inputs) /\ Len(e) \in 0..2
        /\ \A k \in 1..Len(e) :
              ~Overlaps(e[k], r) /\ x.begin <= e[k].begin /\ e[k].end <= x.end
        /\ Len(e) = 2 => e[1].end + 1 < e[2].begin
        /\ UNION {Points(e[k]) : k \in 1..Len(e)} = Points(x) \ Points(r)
    BY <2>3, <2>6, ErasedIs
  <2>8. PICK t : t = ErasePass(l, r)
    OBVIOUS
  <2>9. t = IF e = <<>> THEN m ELSE IF Len(e) = 1 THEN Insert(m, e[1])
            ELSE Insert(Insert(m, e[1]), e[2])
    BY <1>1, <2>1, <2>2, <2>4, <2>6, <2>8 DEF ErasePass
  <2>10. \A k \in 1..Len(m) : \A j \in 1..Len(e) : Far(m[k], e[j])
    <3> SUFFICES ASSUME NEW k \in 1..Len(m), NEW j \in 1..Len(e) PROVE Far(m[k], e[j])
      OBVIOUS
    <3>1. m[k] \in Elems(m) /\ m[k] \in Ranges
      BY <2>5, Element DEF Elems, Lists
    <3>2. m[k] \in Elems(l) /\ m[k] # l[i]
      BY <2>2, <2>5, <3>1
    <3>3. PICK n \in 1..Len(l) : m[k] = l[n] /\ n # i
      BY <1>0, <3>2 DEF Elems
    <3>4. Far(m[k], x)
      BY <2>1, <2>2, <3>3, Different
    <3>5. e[j] \in Ranges /\ x.begin <= e[j].begin /\ e[j].end <= x.end
      BY <2>7 DEF Inputs
    <3>6. QED BY <2>3, <3>1, <3>4, <3>5, PartFar
  <2>11. t \in Lists /\ Elems(t) = Elems(m) \cup {e[k] : k \in 1..Len(e)}
    <3>1. CASE Len(e) = 0
      <4>1. e = <<>>
        BY <2>7, <3>1
      <4>2. QED BY <2>5, <2>9, <3>1, <4>1
    <3>2. CASE Len(e) = 1
      <4>0. 1 \in 1..Len(e) /\ DOMAIN e = 1..Len(e)
        BY <2>7, <3>2
      <4>1. e # <<>> /\ 1 \in 1..Len(e) /\ e[1] \in Inputs
        <5>1. e[1] \in Inputs
          BY <2>7, <4>0
        <5>2. e # <<>>
          <6>1. e \in Seq(Inputs) /\ Len(e) # 0
            BY <2>7, <3>2
          <6>2. QED BY <6>1, EmptySeq
        <5>3. QED BY <4>0, <5>1, <5>2
      <4>2. Insert(m, e[1]) \in Lists /\ Elems(Insert(m, e[1])) = Elems(m) \cup {e[1]}
        BY <2>5, <2>10, <4>1, InsertKeeps
      <4>3. {e[k] : k \in 1..Len(e)} = {e[1]}
        BY <3>2
      <4>4. QED BY <2>9, <3>2, <4>1, <4>2, <4>3
    <3>3. CASE Len(e) = 2
      <4>0. 1 \in 1..Len(e) /\ 2 \in 1..Len(e) /\ DOMAIN e = 1..Len(e)
        BY <2>7, <3>3
      <4>1. e # <<>> /\ 1 \in 1..Len(e) /\ 2 \in 1..Len(e) /\ e[1] \in Inputs /\ e[2] \in Inputs
        <5>1. e[1] \in Inputs /\ e[2] \in Inputs
          BY <2>7, <4>0
        <5>2. e # <<>>
          <6>1. e \in Seq(Inputs) /\ Len(e) # 0
            BY <2>7, <3>3
          <6>2. QED BY <6>1, EmptySeq
        <5>3. QED BY <4>0, <5>1, <5>2
      <4>2. PICK n : n = Insert(m, e[1])
        OBVIOUS
      <4>3. n \in Lists /\ Elems(n) = Elems(m) \cup {e[1]}
        BY <2>5, <2>10, <4>1, <4>2, InsertKeeps
      <4>4. \A k \in 1..Len(n) : Far(n[k], e[2])
        <5> SUFFICES ASSUME NEW k \in 1..Len(n) PROVE Far(n[k], e[2])
          OBVIOUS
        <5>1. n[k] \in Elems(m) \/ n[k] = e[1]
          <6>1. n[k] \in Elems(n)
            BY <4>3 DEF Elems, Lists
          <6>2. QED BY <4>3, <6>1
        <5>2. CASE n[k] = e[1]
          BY <2>7, <3>3, <5>2 DEF Far
        <5>3. CASE n[k] \in Elems(m)
          <6>1. DOMAIN m = 1..Len(m)
            BY <2>5 DEF Lists
          <6>2. PICK j \in 1..Len(m) : n[k] = m[j]
            BY <5>3, <6>1 DEF Elems
          <6>3. QED BY <2>10, <4>1, <6>2
        <5>4. QED BY <5>1, <5>2, <5>3
      <4>5. Insert(n, e[2]) \in Lists /\ Elems(Insert(n, e[2])) = Elems(n) \cup {e[2]}
        BY <4>1, <4>3, <4>4, InsertKeeps
      <4>6. {e[k] : k \in 1..Len(e)} = {e[1], e[2]}
        BY <3>3
      <4>7. t = Insert(n, e[2])
        BY <2>9, <3>3, <4>1, <4>2
      <4>8. QED BY <4>3, <4>5, <4>6, <4>7
    <3>4. QED BY <2>7, <3>1, <3>2, <3>3
  <2>12. CoveredBy(t) \ Points(r) = CoveredBy(l) \ Points(r)
    <3>1. t \in Seq(Ranges)
      BY <2>11 DEF Lists, Inputs
    <3>2. /\ \A p : p \in CoveredBy(t) <=> \E y \in Elems(t) : p \in Points(y)
          /\ \A p : p \in CoveredBy(l) <=> \E y \in Elems(l) : p \in Points(y)
      BY <1>0, <3>1, Covers
    <3>3. \A p : (\E k \in 1..Len(e) : p \in Points(e[k])) <=> p \in Points(x) /\ p \notin Points(r)
      BY <2>7
    <3>4. \A p : p \in CoveredBy(l) <=> p \in Points(x) \/ \E y \in Elems(m) : p \in Points(y)
      BY <2>3, <2>5, <3>2
    <3>5. \A p : p \in CoveredBy(t) <=> \/ \E k \in 1..Len(e) : p \in Points(e[k])
                                      \/ \E y \in Elems(m) : p \in Points(y)
      BY <2>11, <3>2
    <3>6. QED BY <3>3, <3>4, <3>5
  <2>13. Struck(t, r) = Struck(l, r) \ {x} /\ x \in Struck(l, r)
    BY <2>3, <2>5, <2>7, <2>11 DEF Struck
  <2>14. QED BY <2>8, <2>11, <2>12, <2>13
<1>5. QED BY <1>0, <1>3, <1>4

\* The recursive function of erase() is one.
LEMMA EraseSteps ==
  ASSUME NEW l \in Lists, NEW r \in Ranges
  PROVE  \E after : /\ EraseFrom(l, r) = after[Len(l)]
                    /\ after[0] = l
                    /\ \A n \in Nat : after[n + 1] = ErasePass(after[n], r)
<1> DEFINE Eq(g) == g = [n \in Nat |-> IF n = 0 THEN l ELSE ErasePass(g[n - 1], r)]
           after == CHOOSE g : Eq(g)
<1>1. EraseFrom(l, r) = after[Len(l)]
  BY DEF EraseFrom
<1>2. \E g : Eq(g)
  <2>1. PICK step \in [Lists -> Lists] : \A t \in Lists : step[t] = ErasePass(t, r)
    <3>1. [t \in Lists |-> ErasePass(t, r)] \in [Lists -> Lists]
      BY ErasePassKeeps
    <3>2. QED BY <3>1
  <2>2. PICK f : Repeats(f, Lists, step, l)
    BY Iterates
  <2>3. f \in [Nat -> Lists] /\ f[0] = l /\ \A n \in Nat : f[n + 1] = step[f[n]]
    BY <2>2 DEF Repeats
  <2>4. ASSUME NEW n \in Nat PROVE f[n] = IF n = 0 THEN l ELSE ErasePass(f[n - 1], r)
    <3>1. CASE n = 0
      BY <2>3, <3>1
    <3>2. CASE n # 0
      <4>1. n - 1 \in Nat /\ (n - 1) + 1 = n
        BY <3>2
      <4>2. f[n] = step[f[n - 1]] /\ f[n - 1] \in Lists
        BY <2>3, <4>1
      <4>3. QED BY <2>1, <3>2, <4>2
    <3>3. QED BY <3>1, <3>2
  <2>5. f = [n \in Nat |-> f[n]]
    BY <2>3
  <2>6. f = [n \in Nat |-> IF n = 0 THEN l ELSE ErasePass(f[n - 1], r)]
    BY <2>4, <2>5
  <2>7. QED BY <2>6
<1>3. Eq(after)
  <2> HIDE DEF Eq
  <2>1. QED BY <1>2
<1> HIDE DEF after
<1>4. after[0] = l /\ \A n \in Nat : after[n + 1] = ErasePass(after[n], r)
  BY <1>3
<1>5. QED BY <1>1, <1>4

\* A list has as many elements as places at most.
LEMMA FewElems ==
  ASSUME NEW l \in Lists, NEW r \in Ranges
  PROVE  /\ IsFiniteSet(Struck(l, r)) /\ Cardinality(Struck(l, r)) \in Nat
         /\ Cardinality(Struck(l, r)) <= Len(l)
<1>1. Len(l) \in Nat /\ DOMAIN l = 1..Len(l)
  BY DEF Lists
<1>2. IsFiniteSet(1..Len(l)) /\ Cardinality(1..Len(l)) = Len(l)
  <2>1. 1 \in Int /\ Len(l) \in Int
    BY <1>1
  <2>2. /\ IsFiniteSet(1..Len(l))
        /\ Cardinality(1..Len(l)) = IF 1 > Len(l) THEN 0 ELSE Len(l) - 1 + 1
    BY <2>1, FS_Interval
  <2>3. QED BY <1>1, <2>2
<1>3. l \in Surjection(1..Len(l), Elems(l))
  <2>1. l \in Seq(Inputs)
    BY DEF Lists
  <2>2. l = [i \in 1..Len(l) |-> l[i]]
    BY <1>1, <2>1
  <2>3. \A i \in 1..Len(l) : l[i] \in Elems(l)
    BY <1>1 DEF Elems
  <2>4. l \in [1..Len(l) -> Elems(l)]
    BY <2>2, <2>3
  <2>5. \A x \in Elems(l) : \E i \in 1..Len(l) : l[i] = x
    BY <1>1 DEF Elems
  <2>6. QED BY <2>4, <2>5 DEF Surjection
<1>4. IsFiniteSet(Elems(l)) /\ Cardinality(Elems(l)) <= Len(l)
  BY <1>2, <1>3, FS_Surjection
<1>5. Struck(l, r) \subseteq Elems(l)
  BY DEF Struck
<1>6. IsFiniteSet(Struck(l, r)) /\ Cardinality(Struck(l, r)) <= Cardinality(Elems(l))
  BY <1>4, <1>5, FS_Subset
<1>7. Cardinality(Elems(l)) \in Nat /\ Cardinality(Struck(l, r)) \in Nat
  BY <1>4, <1>6, FS_CardinalityType
<1>8. QED BY <1>1, <1>4, <1>6, <1>7

\* erase() takes exactly the positions of r away.
LEMMA EraseIs ==
  ASSUME NEW l \in Lists, NEW r \in Ranges
  PROVE  EraseFrom(l, r) \in Lists /\ CoveredBy(EraseFrom(l, r)) = CoveredBy(l) \ Points(r)
<1>1. PICK m \in Nat : m = Len(l)
  BY DEF Lists
<1>2. PICK after : /\ EraseFrom(l, r) = after[m]
                   /\ after[0] = l
                   /\ \A n \in Nat : after[n + 1] = ErasePass(after[n], r)
  BY <1>1, EraseSteps
<1> DEFINE Good(n, t) == /\ t \in Lists
                         /\ CoveredBy(t) \ Points(r) = CoveredBy(l) \ Points(r)
                         /\ Struck(t, r) = {} \/ Cardinality(Struck(t, r)) + n <= m
           P == {n \in Nat : Good(n, after[n])}
<1>3. 0 \in P
  <2>1. PICK c \in Nat : c = Cardinality(Struck(l, r))
    BY FewElems
  <2>2. c + 0 <= m
    BY <1>1, <2>1, FewElems
  <2>3. Good(0, l)
    BY <2>1, <2>2
  <2> HIDE DEF Good
  <2>4. QED BY <1>2, <2>3
<1>4. ASSUME NEW n \in Nat, n \in P PROVE n + 1 \in P
  <2>1. PICK t : t = after[n] /\ Good(n, t)
    BY <1>4
  <2>2. PICK u : u = after[n + 1] /\ u = ErasePass(t, r)
    BY <1>2, <2>1
  <2>3. /\ u \in Lists /\ CoveredBy(u) \ Points(r) = CoveredBy(l) \ Points(r)
        /\ \/ u = t /\ Struck(t, r) = {}
           \/ \E x \in Struck(t, r) : Struck(u, r) = Struck(t, r) \ {x}
    BY <2>1, <2>2, ErasePassKeeps
  <2>4. ASSUME u = t, Struck(t, r) = {} PROVE Good(n + 1, u)
    BY <2>3, <2>4
  <2>5. ASSUME NEW x \in Struck(t, r), Struck(u, r) = Struck(t, r) \ {x}
        PROVE  Good(n + 1, u)
    <3>1. PICK c \in Nat : c = Cardinality(Struck(t, r))
      BY <2>1, FewElems
    <3>2. c + n <= m
      BY <2>1, <2>5, <3>1
    <3>3. IsFiniteSet(Struck(t, r))
      BY <2>1, FewElems
    <3>4. Cardinality(Struck(u, r)) = c - 1
      BY <2>5, <3>1, <3>3, FS_RemoveElement
    <3>5. PICK d \in Nat : d = Cardinality(Struck(u, r))
      BY <2>3, FewElems
    <3>6. d + (n + 1) <= m
      BY <3>2, <3>4, <3>5
    <3>7. QED BY <2>3, <3>5, <3>6
  <2>6. Good(n + 1, u)
    BY <2>3, <2>4, <2>5
  <2> HIDE DEF Good
  <2>7. n + 1 \in Nat /\ Good(n + 1, after[n + 1])
    BY <2>2, <2>6
  <2>8. QED BY <2>7
<1> HIDE DEF P
<1>5. Nat \subseteq P
  BY <1>3, <1>4, Induction
<1>6. PICK t : t = after[m] /\ Good(m, t)
  BY <1>5 DEF P
<1>7. Struck(t, r) = {}
  <2>1. PICK c \in Nat : c = Cardinality(Struck(t, r))
    BY <1>6, FewElems
  <2>2. c + m <= m => c = 0
    OBVIOUS
  <2>3. IsFiniteSet(Struck(t, r))
    BY <1>6, FewElems
  <2>4. c = 0 => Struck(t, r) = {}
    BY <2>1, <2>3, FS_EmptySet
  <2>5. QED BY <1>6, <2>1, <2>2, <2>4
<1>8. Points(r) \cap CoveredBy(t) = {}
  <2>1. ~ListContains(t, r)
    <3>1. PICK g \in 1..(Len(t) + 1) : g = GetContains(t, r)
      BY <1>6, GetContainsIs
    <3>2. g <= Len(t) => Overlaps(t[g], r)
      BY <1>6, <3>1, GetContainsIs
    <3>3. Len(t) \in Nat /\ DOMAIN t = 1..Len(t)
      BY <1>6 DEF Lists
    <3>4. ~(g <= Len(t))
      BY <1>7, <3>2, <3>3 DEF Struck, Elems
    <3>5. QED BY <3>1, <3>4 DEF ListContains
  <2>2. QED BY <1>6, <2>1, ContainsAnswers
<1>9. QED BY <1>2, <1>6, <1>8

-----------------------------------------------------------------------------
(* The list as a state machine.                                              *)

PushedInv == use = "pushing" => ranges \in Seq(Ranges)

MergedInv ==
    /\ use \in {"merging", "pushing"}
    /\ points \in SUBSET Positions
    /\ use = "merging" => ranges \in Lists
    /\ use = "merging" => CoveredBy(ranges) = points

\* push() and remove() keep a list of ranges.
LEMMA StepPushed ==
  ASSUME PushedInv, [ListNext]_listVars
  PROVE  PushedInv'
<1> SUFFICES ASSUME use = "pushing", use' = use, ranges \in Seq(Ranges)
             PROVE  ranges' \in Seq(Ranges)
  BY DEF PushedInv, ListNext, listVars
<1>1. CASE UNCHANGED listVars
  BY <1>1 DEF listVars
<1>2. CASE Pushing
  <2>1. PICK r \in Ranges : PushExact(r) \/ RemoveExact(r)
    BY <1>2 DEF Pushing, Pushed
  <2>2. Insert(ranges, r) \in Seq(Ranges)
    BY UpperIn, InsertIs
  <2>3. \A i \in Found(ranges, r) : RemoveAt(ranges, i) \in Seq(Ranges)
    <3> SUFFICES ASSUME NEW i \in Found(ranges, r)
                 PROVE  RemoveAt(ranges, i) \in Seq(Ranges)
      OBVIOUS
    <3>1. i \in 1..Len(ranges)
      BY DEF Found
    <3>2. QED BY <3>1, RemovedIs
  <2>4. QED BY <2>1, <2>2, <2>3 DEF PushExact, RemoveExact
<1>3. ~Merging
  BY DEF Merging
<1>4. QED BY <1>1, <1>2, <1>3 DEF ListNext

\* merge() and erase() keep the invariant.
LEMMA StepMerged ==
  ASSUME Top < Size - 1, MergedInv, [ListNext]_listVars
  PROVE  MergedInv'
<1>1. CASE UNCHANGED listVars
  BY <1>1 DEF listVars, MergedInv
<1>2. CASE Merging /\ UNCHANGED use
  <2>1. PICK r \in Inputs : Merge(r) \/ Erase(r)
    BY <1>2 DEF Merging
  <2>2. /\ ranges \in Lists /\ CoveredBy(ranges) = points /\ use' = use
        /\ use \in {"merging", "pushing"} /\ r \in Ranges
        /\ points \in SUBSET Positions /\ Points(r) \subseteq Positions
    BY <1>2, PointsIn DEF Merging, MergedInv, Inputs
  <2>3. CASE Merge(r)
    BY <2>2, <2>3, MergeIs DEF Merge, MergedInv
  <2>4. CASE Erase(r)
    BY <2>2, <2>4, EraseIs DEF Erase, MergedInv
  <2>5. QED BY <2>1, <2>3, <2>4
<1>3. CASE Pushing /\ UNCHANGED use
  <2>1. use = "pushing" /\ use' = use
    BY <1>3 DEF Pushing
  <2>2. points' = points
    BY <1>3 DEF Pushing, PushExact, RemoveExact
  <2>3. QED BY <2>1, <2>2 DEF MergedInv
<1>4. QED BY <1>1, <1>2, <1>3 DEF ListNext

\* The list at the start.
LEMMA EmptyIs ==
  /\ <<>> \in Lists /\ <<>> \in Seq(Ranges) /\ CoveredBy(<<>>) = {}
BY DEF Lists, Spread, CoveredBy

\* Both invariants hold, as far as no merged range has the last value of the type.
LEMMA MergedAlways ==
  ASSUME Top < Size - 1
  PROVE  ListSpec => [](MergedInv /\ PushedInv)
<1>1. ListInit => MergedInv /\ PushedInv
  BY EmptyIs DEF ListInit, MergedInv, PushedInv
<1>2. MergedInv /\ PushedInv /\ [ListNext]_listVars => (MergedInv /\ PushedInv)'
  BY StepMerged, StepPushed
<1>3. QED BY <1>1, <1>2, PTL DEF ListSpec

\* As long as nothing merged reaches the largest value of the type, the list holds
\* ranges of the type.
THEOREM ListTypeCorrect ==
  ASSUME Top < Size - 1
  PROVE  ListSpec => []ListTypeOK
<1>1. MergedInv /\ PushedInv => ListTypeOK
  BY DEF MergedInv, PushedInv, ListTypeOK, Lists, Inputs
<1>2. QED BY <1>1, MergedAlways, PTL

\* A list that is merged to and erased from covers exactly the positions it ought to
\* with the fewest ranges, in order, and contains() and containsFull() answer for
\* exactly these, at every size of the type and with any number of ranges.  The
\* assumption is needed: merge() compares with wrapped values at the largest one.
THEOREM ListsExact ==
  ASSUME Top < Size - 1
  PROVE  ListSpec => []ListExact
<1>1. MergedInv => ListExact
  <2> SUFFICES ASSUME MergedInv, use = "merging" PROVE ListExact
    BY DEF ListExact, Exact, LookupsExact
  <2>1. ranges \in Lists /\ CoveredBy(ranges) = points
    BY DEF MergedInv
  <2>2. Exact
    <3>1. Len(ranges) \in Nat
      BY <2>1 DEF Lists
    <3>2. ASSUME NEW i \in 2..Len(ranges) PROVE ranges[i - 1].end + 1 < ranges[i].begin
      <4>1. i - 1 \in 1..Len(ranges) /\ i \in 1..Len(ranges) /\ i - 1 < i
        BY <3>1
      <4>2. QED BY <2>1, <4>1, Ordered
    <3>3. QED BY <2>1, <3>2 DEF Exact
  <2>3. LookupsExact
    <3> SUFFICES ASSUME NEW r \in Inputs
                 PROVE  /\ ListContains(ranges, r) <=> Points(r) \cap points # {}
                        /\ ListContainsFull(ranges, r) <=> Points(r) \subseteq points
      BY DEF LookupsExact
    <3>1. r \in Ranges
      BY DEF Inputs
    <3>2. QED BY <2>1, <3>1, ContainsAnswers, FullAnswers
  <2>4. QED BY <2>2, <2>3 DEF ListExact
<1>2. QED BY <1>1, MergedAlways, PTL

\* Among ranges apart from each other the one that find() may return is the only one
\* with its middle.
LEMMA OneFound ==
  ASSUME NEW l \in Seq(Ranges), Apart(l), NEW r \in Ranges,
         NEW i \in Found(l, r), NEW k \in Found(l, r)
  PROVE  i = k
<1>1. /\ i \in DOMAIN l /\ k \in DOMAIN l /\ l[i] \in Ranges /\ l[k] \in Ranges
      /\ Mid(l[i]) = Mid(l[k])
  BY DEF Found
<1>2. Overlaps(l[i], l[k])
  <2>1. /\ l[i].begin \in Nat /\ l[i].end \in Nat /\ Mid(l[i]) \in Int
        /\ l[i].begin <= Mid(l[i]) /\ Mid(l[i]) <= l[i].end
    BY <1>1, MidWithin
  <2>2. /\ l[k].begin \in Nat /\ l[k].end \in Nat
        /\ l[k].begin <= Mid(l[i]) /\ Mid(l[i]) <= l[k].end
    BY <1>1, MidWithin
  <2>3. l[i].begin <= l[k].end /\ l[k].begin <= l[i].end
    BY <2>1, <2>2
  <2>4. QED BY <1>1, <2>3, OverlapsIs
<1>3. QED BY <1>1, <1>2 DEF Apart

\* A call of push() or remove() is exact when the ranges on the list are apart.
LEMMA StepExact ==
  ASSUME PushedInv, [ListNext]_listVars, use = "pushing", Apart(ranges), last' # last
  PROVE  LET r  == last'.range
             in(l) == \E i \in DOMAIN l : l[i] = r
         IN  /\ last'.call = "push" => (last'.ok <=> ~in(ranges))
             /\ last'.call = "remove" => (last'.ok <=> in(ranges))
             /\ \A i \in DOMAIN ranges :
                   ranges[i] # r => \E k \in DOMAIN ranges' : ranges'[k] = ranges[i]
<1>1. ranges \in Seq(Ranges) /\ DOMAIN ranges = 1..Len(ranges) /\ Len(ranges) \in Nat
  BY DEF PushedInv
<1>2. PICK r \in Ranges : PushExact(r) \/ RemoveExact(r)
  BY DEF ListNext, Merging, Pushing, Pushed, listVars
<1> DEFINE in == \E i \in DOMAIN ranges : ranges[i] = r
           Kept == \A i \in DOMAIN ranges :
                      ranges[i] # r => \E k \in DOMAIN ranges' : ranges'[k] = ranges[i]
<1>3. in <=> \E i \in Found(ranges, r) : ranges[i] = r
  BY DEF Found
<1>4. (Found(ranges, r) # {} => \E i \in Found(ranges, r) : ranges[i] # r) => ~in
  BY <1>1, <1>3, OneFound
<1>5. ranges' = ranges => Kept
  OBVIOUS
<1>6. ASSUME ranges' = Insert(ranges, r) PROVE Kept
  <2>1. Elems(Insert(ranges, r)) = Elems(ranges) \cup {r}
    <3>1. UpperIter(ranges, r) \in 1..(Len(ranges) + 1)
      BY <1>1, UpperIn
    <3>2. QED BY <1>1, <3>1, InsertIs
  <2>2. Elems(ranges') = Elems(ranges) \cup {r}
    BY <1>6, <2>1
  <2>3. ASSUME NEW i \in DOMAIN ranges
        PROVE  \E k \in DOMAIN ranges' : ranges'[k] = ranges[i]
    <3>1. ranges[i] \in Elems(ranges)
      BY DEF Elems
    <3>2. ranges[i] \in Elems(ranges')
      BY <2>2, <3>1
    <3>3. QED BY <3>2 DEF Elems
  <2>4. QED BY <2>3
<1>7. ASSUME NEW i \in Found(ranges, r), ranges[i] = r, ranges' = RemoveAt(ranges, i)
      PROVE  Kept
  <2>1. i \in 1..Len(ranges)
    BY <1>1 DEF Found
  <2>2. /\ DOMAIN ranges' = 1..(Len(ranges) - 1)
        /\ \A k \in 1..(Len(ranges) - 1) :
              ranges'[k] = IF k < i THEN ranges[k] ELSE ranges[k + 1]
    <3>1. PICK m : m = RemoveAt(ranges, i)
      OBVIOUS
    <3>2. /\ m \in Seq(Ranges) /\ Len(m) = Len(ranges) - 1
          /\ \A k \in 1..(Len(ranges) - 1) : m[k] = IF k < i THEN ranges[k] ELSE ranges[k + 1]
      BY <1>1, <2>1, <3>1, RemovedIs
    <3>3. DOMAIN m = 1..(Len(ranges) - 1)
      BY <3>2
    <3>4. ranges' = m
      BY <1>7, <3>1
    <3>5. QED BY <3>2, <3>3, <3>4
  <2> SUFFICES ASSUME NEW j \in 1..Len(ranges), ranges[j] # r
               PROVE  \E k \in DOMAIN ranges' : ranges'[k] = ranges[j]
    BY <1>1
  <2>3. j < i \/ j > i
    BY <1>7, <2>1
  <2>4. CASE j < i
    BY <1>1, <2>1, <2>2, <2>4
  <2>5. CASE j > i
    <3>1. j - 1 \in 1..(Len(ranges) - 1) /\ ~(j - 1 < i) /\ (j - 1) + 1 = j
      BY <1>1, <2>1, <2>5
    <3>2. QED BY <2>2, <3>1
  <2>6. QED BY <2>3, <2>4, <2>5
<1> HIDE DEF in, Kept
<1>8. /\ last'.range = r /\ Kept
      /\ last'.call = "push" => (last'.ok <=> ~in)
      /\ last'.call = "remove" => (last'.ok <=> in)
  <2>1. CASE PushExact(r)
    BY <1>3, <1>4, <1>5, <1>6, <2>1 DEF PushExact
  <2>2. CASE RemoveExact(r)
    BY <1>3, <1>4, <1>5, <1>7, <2>2 DEF RemoveExact
  <2>3. QED BY <1>2, <2>1, <2>2
<1>9. QED BY <1>8 DEF in, Kept

\* While the ranges pushed do not overlap, push() and remove() are exact although
\* find() knows a range only by its middle: with any number of ranges, and up to the
\* largest value of the type.
THEOREM PushedExact == ListSpec => ExactWhenApart
<1>1. ListInit => PushedInv
  BY EmptyIs DEF ListInit, PushedInv
<1>2. PushedInv /\ [ListNext]_listVars => PushedInv'
  BY StepPushed
<1>3. PushedInv /\ [ListNext]_listVars =>
        [use = "pushing" /\ Apart(ranges) /\ last' # last =>
          LET r  == last'.range
              in(l) == \E i \in DOMAIN l : l[i] = r
          IN  /\ last'.call = "push" => (last'.ok <=> ~in(ranges))
              /\ last'.call = "remove" => (last'.ok <=> in(ranges))
              /\ \A i \in DOMAIN ranges :
                    ranges[i] # r => \E k \in DOMAIN ranges' : ranges'[k] = ranges[i]]_listVars
  BY StepExact
<1>4. QED BY <1>1, <1>2, <1>3, PTL DEF ListSpec, ExactWhenApart

-----------------------------------------------------------------------------
(* The worker thread.                                                      *)

InHand == {"askRunning", "process", "pauseLock"}

\* The worker's position tells whether it holds a job, and of what kind.
WorkerHasJob ==
    /\ pc \in InHand \cup {"answered", "pausedSleep"} => wrk # NoJob
    /\ pc \in {"fetch", "sleep"} => wrk = NoJob
    /\ pc \in InHand => ~complete[wrk]

\* A result is posted once: afterwards the job is complete, or the worker is
\* about to mark it so.
ResultOnce ==
    \A i \in DOMAIN results :
        complete[results[i]] \/ (pc = "answered" /\ wrk = results[i])

\* While paused the worker may finish one pass, the one it had decided on.
PausedSlack == pauserCount > 0 => slack = 0 \/ (slack = 1 /\ pc # "process")

OnlyPosted ==
    /\ \A i \in DOMAIN queue : queue[i] \in posted
    /\ wrk # NoJob => wrk \in posted

PassesPosted == \A j \in Jobs : passes[j] > 0 => j \in posted

\* A cancelled job has the pass it may still make to spare.
CancelSlack ==
    \A j \in Jobs : ~valid[j] /\ DecidedOn(j) => passes[j] + 1 <= limit[j]

\* A job in the queue was not worked on, is in it once, and is not held.
WaitingUntouched ==
    \A i \in DOMAIN queue :
        /\ passes[queue[i]] = 0
        /\ wrk # queue[i]
        /\ \A k \in DOMAIN queue : queue[i] = queue[k] => i = k

IInv ==
    /\ TypeOK
    /\ NoJobLeftBehind
    /\ OneAtATime
    /\ CancelHolds
    /\ CancelSlack
    /\ PauserNesting
    /\ WorkerHasJob
    /\ ResultOnce
    /\ PausedSlack
    /\ OnlyPosted
    /\ PassesPosted
    /\ WaitingUntouched

-----------------------------------------------------------------------------

\* Initially nobody holds, waits for, or has done anything.
LEMMA InitIInv == Init => IInv
<1> SUFFICES ASSUME Init PROVE IInv
  OBVIOUS
<1>1. TypeOK
  <2>1. queue \in Seq(Jobs) /\ results \in Seq(Jobs)
    BY EmptySeq DEF Init
  <2>2. /\ valid \in [Jobs -> BOOLEAN] /\ hashValid \in [Jobs -> BOOLEAN]
        /\ complete \in [Jobs -> BOOLEAN]
    BY DEF Init
  <2>3. exiting \in BOOLEAN /\ running \in BOOLEAN
    BY Zenon DEF Init
  <2>4. passes \in [Jobs -> 0..MaxPasses] /\ pauserCount \in 0..MaxPausers /\ slack \in Nat
    BY WorkThreadAssumption DEF Init
  <2>5. QED BY <2>1, <2>2, <2>3, <2>4 DEF Init, TypeOK, WorkerPcs, MainPcs
<1>2. NoJobLeftBehind /\ OneAtATime /\ CancelHolds /\ CancelSlack
      /\ PassesPosted /\ WaitingUntouched
  BY WorkThreadAssumption DEF Init, NoJobLeftBehind, OneAtATime, CancelHolds,
     CancelSlack, DecidedOn, PassesPosted, WaitingUntouched
<1>3. PauserNesting /\ WorkerHasJob /\ ResultOnce /\ PausedSlack /\ OnlyPosted
  BY DEF Init, PauserNesting, WorkerHasJob, InHand, ResultOnce, PausedSlack, OnlyPosted
<1>4. QED BY <1>1, <1>2, <1>3 DEF IInv

\* No step leaves the types.
LEMMA StepTypeOK == TypeOK /\ [Next]_vars => TypeOK'
<1> SUFFICES ASSUME TypeOK, [Next]_vars PROVE TypeOK'
  OBVIOUS
<1> USE WorkThreadAssumption DEF mutable
<1>1. CASE CheckExit \/ Test \/ AskRunning \/ PauseWait
  BY <1>1 DEF CheckExit, Test, AskRunning, PauseWait, TypeOK, WorkerPcs
<1>2. CASE Fetch
  <2>0. queue \in Seq(Jobs)
    BY DEF TypeOK
  <2>1. queue' \in Seq(Jobs) /\ wrk' \in Jobs \cup {NoJob}
    <3>1. CASE queue # <<>>
      BY <1>2, <2>0, <3>1, HeadTailProperties DEF Fetch
    <3>2. CASE queue = <<>>
      BY <1>2, <3>2 DEF Fetch, TypeOK
    <3>3. QED BY <3>1, <3>2
  <2>2. QED BY <1>2, <2>1 DEF Fetch, TypeOK, WorkerPcs
<1>3. CASE SetComplete
  BY <1>3 DEF SetComplete, TypeOK, WorkerPcs
<1>4. ASSUME NEW j \in Jobs, Pass(j) PROVE passes' \in [Jobs -> 0..MaxPasses] /\ slack' \in Nat
  BY <1>4 DEF Pass, TypeOK
<1>5. ASSUME NEW j \in Jobs, ProcessMore(j) \/ ProcessThrow(j) PROVE TypeOK'
  BY <1>4, <1>5 DEF ProcessMore, ProcessThrow, TypeOK, WorkerPcs
<1>6. ASSUME NEW j \in Jobs, ProcessAnswer(j) PROVE TypeOK'
  <2>1. results' \in Seq(Jobs)
    BY <1>6 DEF ProcessAnswer, TypeOK
  <2>2. QED BY <1>4, <1>6, <2>1 DEF ProcessAnswer, TypeOK, WorkerPcs
<1>7. Notified \in WorkerPcs
  BY DEF Notified, TypeOK, WorkerPcs
<1>8. CASE SpuriousWakeup \/ ResumeNotify \/ Exit \/ Join
  BY <1>7, <1>8 DEF SpuriousWakeup, ResumeNotify, Exit, Join, TypeOK, MainPcs
<1>9. ASSUME NEW j \in Jobs, PostWork(j) PROVE TypeOK'
  <2>1. queue' \in Seq(Jobs)
    BY <1>9 DEF PostWork, TypeOK
  <2>2. QED BY <1>7, <1>9, <2>1 DEF PostWork, TypeOK
<1>10. ASSUME NEW j \in Jobs, Cancel(j) \/ Invalidate(j) PROVE TypeOK'
  <2>1. CASE Cancel(j)
    <3>1. limit' \in [Jobs -> Nat]
      <4>1. passes[j] + (IF DecidedOn(j) THEN 1 ELSE 0) \in Nat
        BY DEF TypeOK
      <4> QED BY <2>1, <4>1 DEF Cancel, TypeOK
    <3> QED BY <2>1, <3>1 DEF Cancel, TypeOK
  <2>2. CASE Invalidate(j)
    BY <2>2 DEF Invalidate, TypeOK
  <2> QED BY <1>10, <2>1, <2>2
<1>11. CASE PauserBegin
  <2>1. pauserCount' \in 0..MaxPausers /\ slack' \in Nat
    BY <1>11 DEF PauserBegin, TypeOK
  <2>2. running' \in BOOLEAN
    BY <1>11, Zenon DEF PauserBegin, TypeOK
  <2>3. QED BY <1>11, <2>1, <2>2 DEF PauserBegin, TypeOK
<1>12. CASE PauserEnd
  <2>1. pauserCount' \in 0..MaxPausers
    BY <1>12 DEF PauserEnd, TypeOK
  <2>2. running' \in BOOLEAN
    BY <1>12, Zenon DEF PauserEnd, TypeOK
  <2>3. QED BY <1>12, <2>1, <2>2 DEF PauserEnd, TypeOK, MainPcs
<1>13. CASE UNCHANGED vars
  BY <1>13 DEF vars, TypeOK
<1>14. QED
  BY <1>1, <1>2, <1>3, <1>5, <1>6, <1>8, <1>9, <1>10, <1>11, <1>12, <1>13
     DEF Next, Worker, Main

\* What is true of the jobs in the queue: only Fetch and PostWork change it.
LEMMA StepWaiting == IInv /\ [Next]_vars => WaitingUntouched'
<1> SUFFICES ASSUME IInv, [Next]_vars PROVE WaitingUntouched'
  OBVIOUS
<1>0. queue \in Seq(Jobs)
  BY DEF IInv, TypeOK
<1>1. CASE Fetch
  <2>1. CASE queue # <<>>
    <3>1. /\ Head(queue) = queue[1] /\ 1 \in DOMAIN queue
          /\ \A i \in DOMAIN Tail(queue) : /\ Tail(queue)[i] = queue[i + 1]
                                           /\ i + 1 \in DOMAIN queue
                                           /\ i \in Nat \ {0}
      BY <1>0, <2>1
    <3>2. wrk' = queue[1] /\ queue' = Tail(queue) /\ passes' = passes
      BY <1>1, <2>1, <3>1 DEF Fetch
    <3>3. QED BY <3>1, <3>2 DEF IInv, WaitingUntouched
  <2>2. CASE queue = <<>>
    BY <1>1, <2>2 DEF Fetch, WaitingUntouched
  <2>3. QED BY <2>1, <2>2
<1>2. ASSUME NEW j \in Jobs, PostWork(j) PROVE WaitingUntouched'
  <2>1. /\ DOMAIN Append(queue, j) = DOMAIN queue \cup {Len(queue) + 1}
        /\ \A i \in DOMAIN queue : Append(queue, j)[i] = queue[i]
        /\ Append(queue, j)[Len(queue) + 1] = j
        /\ Len(queue) + 1 \notin DOMAIN queue
    BY <1>0
  <2>2. /\ \A i \in DOMAIN queue : queue[i] # j
        /\ wrk # j /\ passes[j] = 0
    BY <1>2, WorkThreadAssumption DEF PostWork, IInv, OnlyPosted, PassesPosted, TypeOK
  <2>3. queue' = Append(queue, j) /\ UNCHANGED <<wrk, passes>>
    BY <1>2 DEF PostWork
  <2>4. QED BY <2>1, <2>2, <2>3 DEF IInv, WaitingUntouched
<1>3. ASSUME NEW j \in Jobs, ProcessMore(j) \/ ProcessAnswer(j) \/ ProcessThrow(j)
      PROVE  WaitingUntouched'
  <2>1. /\ \A i \in DOMAIN queue : queue[i] # j
        /\ \A k \in Jobs : k # j => passes'[k] = passes[k]
        /\ queue' = queue
        /\ wrk' \in {wrk, NoJob}
    BY <1>3 DEF ProcessMore, ProcessAnswer, ProcessThrow, Pass, mutable, IInv, TypeOK,
       WaitingUntouched
  <2>2. \A i \in DOMAIN queue : queue[i] \in Jobs /\ queue[i] # NoJob
    BY <1>0, WorkThreadAssumption
  <2>3. QED BY <2>1, <2>2 DEF IInv, WaitingUntouched
<1>4. CASE Test
  <2>1. queue' = queue /\ passes' = passes /\ wrk' \in {wrk, NoJob}
    BY <1>4 DEF Test, mutable
  <2>2. \A i \in DOMAIN queue : queue[i] # NoJob
    BY <1>0, WorkThreadAssumption
  <2>3. QED BY <2>1, <2>2 DEF IInv, WaitingUntouched
<1>5. CASE UNCHANGED <<queue, wrk, passes>>
  BY <1>5 DEF IInv, WaitingUntouched
<1>6. QED
  BY <1>1, <1>2, <1>3, <1>4, <1>5 DEF Next, Worker, Main, CheckExit, AskRunning, PauseWait,
     SetComplete, SpuriousWakeup, Cancel, Invalidate, PauserBegin, PauserEnd,
     ResumeNotify, Exit, Join, mutable, vars

\* A cancel leaves room for the pass that was decided on; a pass of a cancelled job
\* uses that room up, and Test lets no cancelled job have another.
LEMMA StepCancel == IInv /\ [Next]_vars => CancelHolds' /\ CancelSlack'
<1> SUFFICES ASSUME IInv, [Next]_vars PROVE CancelHolds' /\ CancelSlack'
  OBVIOUS
<1>1. /\ passes \in [Jobs -> 0..MaxPasses] /\ limit \in [Jobs -> Nat]
      /\ valid \in [Jobs -> BOOLEAN] /\ NoJob \notin Jobs /\ MaxPasses \in Nat
  BY WorkThreadAssumption DEF IInv, TypeOK
<1>2. CancelHolds /\ CancelSlack
  BY DEF IInv
<1>3. ASSUME NEW j \in Jobs, Cancel(j) PROVE CancelHolds' /\ CancelSlack'
  <2>1. \A i \in Jobs : i # j => valid'[i] = valid[i] /\ limit'[i] = limit[i]
    BY <1>1, <1>3 DEF Cancel
  <2>2. passes' = passes /\ (\A i \in Jobs : DecidedOn(i)' <=> DecidedOn(i))
    BY <1>3 DEF Cancel, DecidedOn
  <2>3. CASE ~valid[j]
    BY <1>1, <1>2, <1>3, <2>1, <2>2, <2>3 DEF Cancel, CancelHolds, CancelSlack
  <2>4. CASE valid[j]
    <3>1. limit'[j] = passes[j] + IF DecidedOn(j) THEN 1 ELSE 0
      BY <1>1, <1>3, <2>4 DEF Cancel
    <3> QED BY <1>1, <1>2, <2>1, <2>2, <3>1 DEF CancelHolds, CancelSlack
  <2> QED BY <2>3, <2>4
<1>4. ASSUME NEW j \in Jobs, ProcessMore(j) \/ ProcessAnswer(j) \/ ProcessThrow(j)
      PROVE  CancelHolds' /\ CancelSlack'
  <2>1. /\ DecidedOn(j) /\ UNCHANGED <<valid, limit>>
        /\ passes'[j] = passes[j] + 1 /\ \A i \in Jobs : i # j => passes'[i] = passes[i]
    BY <1>1, <1>4 DEF ProcessMore, ProcessAnswer, ProcessThrow, Pass, DecidedOn, mutable
  <2>2. \A i \in Jobs : ~DecidedOn(i)'
    BY <1>4 DEF ProcessMore, ProcessAnswer, ProcessThrow, DecidedOn
  <2> QED BY <1>1, <1>2, <2>1, <2>2 DEF CancelHolds, CancelSlack
<1>5. CASE Test
  <2>1. UNCHANGED <<valid, limit, passes>> /\ \A i \in Jobs : DecidedOn(i)' => valid[i]
    BY <1>5 DEF Test, DecidedOn, mutable
  <2> QED BY <1>2, <2>1 DEF CancelHolds, CancelSlack
<1>6. ASSUME UNCHANGED <<valid, limit, passes>>, \A i \in Jobs : DecidedOn(i)' => DecidedOn(i)
      PROVE  CancelHolds' /\ CancelSlack'
  BY <1>2, <1>6 DEF CancelHolds, CancelSlack
<1>7. CASE CheckExit \/ Fetch \/ AskRunning \/ PauseWait \/ SetComplete \/ SpuriousWakeup
  <2>1. UNCHANGED <<valid, limit, passes>>
    BY <1>7 DEF CheckExit, Fetch, AskRunning, PauseWait, SetComplete, SpuriousWakeup, mutable
  <2>2. \A i \in Jobs : DecidedOn(i)' => DecidedOn(i)
    BY <1>7 DEF CheckExit, Fetch, AskRunning, PauseWait, SetComplete, SpuriousWakeup,
       Notified, DecidedOn
  <2> QED BY <1>6, <2>1, <2>2
<1>8. ASSUME NEW j \in Jobs, PostWork(j) \/ Invalidate(j) PROVE CancelHolds' /\ CancelSlack'
  <2>1. UNCHANGED <<valid, limit, passes, wrk>> /\ pc' \in {pc, Notified}
    BY <1>8 DEF PostWork, Invalidate
  <2>2. \A i \in Jobs : DecidedOn(i)' => DecidedOn(i)
    BY <2>1 DEF Notified, DecidedOn
  <2> QED BY <1>6, <2>1, <2>2
<1>9. CASE PauserBegin \/ PauserEnd \/ ResumeNotify \/ Exit \/ Join \/ UNCHANGED vars
  <2>1. UNCHANGED <<valid, limit, passes, wrk>> /\ pc' \in {pc, Notified}
    BY <1>9 DEF PauserBegin, PauserEnd, ResumeNotify, Exit, Join, mutable, vars
  <2>2. \A i \in Jobs : DecidedOn(i)' => DecidedOn(i)
    BY <2>1 DEF Notified, DecidedOn
  <2> QED BY <1>6, <2>1, <2>2
<1> QED BY <1>3, <1>4, <1>5, <1>7, <1>8, <1>9 DEF Next, Worker, Main

\* The other conjuncts, one action at a time.
LEMMA StepIInv == IInv /\ [Next]_vars => IInv'
<1> SUFFICES ASSUME IInv, [Next]_vars PROVE IInv'
  OBVIOUS
<1>0. TypeOK'
  BY StepTypeOK DEF IInv
<1>a. WaitingUntouched'
  BY StepWaiting
<1>b. CancelHolds' /\ CancelSlack'
  BY StepCancel
<1>c. queue \in Seq(Jobs)
  BY DEF IInv, TypeOK
<1>d. ASSUME queue # <<>>
      PROVE  /\ Head(queue) \in Jobs
             /\ \A i \in DOMAIN Tail(queue) : Tail(queue)[i] = queue[i + 1]
             /\ \A i \in DOMAIN Tail(queue) : i + 1 \in DOMAIN queue
             /\ Head(queue) = queue[1] /\ 1 \in DOMAIN queue
  BY <1>c, <1>d
<1>e. ASSUME NEW j \in Jobs
      PROVE  /\ DOMAIN Append(queue, j) = DOMAIN queue \cup {Len(queue) + 1}
             /\ \A i \in DOMAIN queue : Append(queue, j)[i] = queue[i]
             /\ Append(queue, j)[Len(queue) + 1] = j
  BY <1>c
<1> USE WorkThreadAssumption, <1>0, <1>a, <1>b
        DEF IInv, NoJobLeftBehind, OneAtATime, PassesPosted, PauserNesting, WorkerHasJob, InHand,
            ResultOnce, PausedSlack, OnlyPosted, TypeOK, WorkerPcs, mutable
<1>1. CASE CheckExit
  BY <1>1 DEF CheckExit
<1>2. CASE Fetch
  <2>1. CASE queue # <<>>
    <3>1. /\ Head(queue) \in Jobs
          /\ \A i \in DOMAIN Tail(queue) : Tail(queue)[i] = queue[i + 1]
          /\ \A i \in DOMAIN Tail(queue) : i + 1 \in DOMAIN queue
          /\ Head(queue) = queue[1] /\ 1 \in DOMAIN queue
      BY <1>d, <2>1, Zenon
    <3>2. OnlyPosted'
      BY <1>2, <2>1, <3>1 DEF Fetch
    <3>3. QED BY <1>2, <2>1, <3>1, <3>2 DEF Fetch
  <2>2. CASE queue = <<>>
    BY <1>2, <2>2 DEF Fetch
  <2>3. QED BY <2>1, <2>2
<1>3. CASE Test
  BY <1>3 DEF Test
<1>4. CASE AskRunning
  BY <1>4 DEF AskRunning
<1>5. CASE PauseWait
  BY <1>5 DEF PauseWait
<1>6. CASE SetComplete
  BY <1>6 DEF SetComplete
<1>7. ASSUME NEW j \in Jobs, ProcessMore(j) PROVE IInv'
  <2>1. OneAtATime' /\ PassesPosted' /\ OnlyPosted'
    BY <1>7 DEF ProcessMore, Pass
  <2>2. NoJobLeftBehind' /\ PauserNesting' /\ WorkerHasJob' /\ ResultOnce'
    BY <1>7 DEF ProcessMore, Pass
  <2>3. PausedSlack'
    BY <1>7 DEF ProcessMore, Pass
  <2> HIDE DEF NoJobLeftBehind, OneAtATime, PassesPosted, PauserNesting, WorkerHasJob,
               ResultOnce, PausedSlack, OnlyPosted, TypeOK
  <2>4. QED BY <2>1, <2>2, <2>3
<1>8. ASSUME NEW j \in Jobs, ProcessAnswer(j) PROVE IInv'
  <2>1. OneAtATime' /\ PassesPosted' /\ OnlyPosted'
    BY <1>8 DEF ProcessAnswer, Pass
  <2>2. NoJobLeftBehind' /\ PauserNesting' /\ WorkerHasJob' /\ ResultOnce'
    BY <1>8 DEF ProcessAnswer, Pass
  <2>3. PausedSlack'
    BY <1>8 DEF ProcessAnswer, Pass
  <2> HIDE DEF NoJobLeftBehind, OneAtATime, PassesPosted, PauserNesting, WorkerHasJob,
               ResultOnce, PausedSlack, OnlyPosted, TypeOK
  <2>4. QED BY <2>1, <2>2, <2>3
<1>9. ASSUME NEW j \in Jobs, ProcessThrow(j) PROVE IInv'
  <2>1. OneAtATime' /\ PassesPosted' /\ OnlyPosted'
    BY <1>9 DEF ProcessThrow, Pass
  <2>2. NoJobLeftBehind' /\ PauserNesting' /\ WorkerHasJob' /\ ResultOnce'
    BY <1>9 DEF ProcessThrow, Pass
  <2>3. PausedSlack'
    BY <1>9 DEF ProcessThrow, Pass
  <2> HIDE DEF NoJobLeftBehind, OneAtATime, PassesPosted, PauserNesting, WorkerHasJob,
               ResultOnce, PausedSlack, OnlyPosted, TypeOK
  <2>4. QED BY <2>1, <2>2, <2>3
<1>10. CASE SpuriousWakeup
  BY <1>10 DEF SpuriousWakeup, Notified
<1>11. ASSUME NEW j \in Jobs, PostWork(j) PROVE IInv'
  <2>1. NoJobLeftBehind' /\ PausedSlack' /\ PauserNesting'
    BY <1>11 DEF PostWork, Notified
  <2>2. OnlyPosted' /\ PassesPosted'
    BY <1>11, <1>e DEF PostWork
  <2>3. OneAtATime' /\ WorkerHasJob' /\ ResultOnce'
    BY <1>11 DEF PostWork, Notified
  <2> HIDE DEF NoJobLeftBehind, OneAtATime, PassesPosted, PauserNesting, WorkerHasJob,
               ResultOnce, PausedSlack, OnlyPosted, TypeOK
  <2> QED BY <2>1, <2>2, <2>3
<1>12. ASSUME NEW j \in Jobs, Cancel(j) \/ Invalidate(j) PROVE IInv'
  <2>1. CASE Cancel(j)
    <3>1. OneAtATime' /\ PauserNesting'
      BY <2>1 DEF Cancel
    <3>2. QED BY <2>1, <3>1 DEF Cancel
  <2>2. CASE Invalidate(j)
    BY <2>2 DEF Invalidate
  <2>3. QED BY <1>12, <2>1, <2>2
<1>13. CASE PauserBegin
  <2>1. PauserNesting'
    <3>1. pauserCount' # 0
      BY <1>13 DEF PauserBegin
    <3>2. running' = FALSE
      BY <1>13, Zenon DEF PauserBegin
    <3>3. QED BY <3>1, <3>2, Zenon
  <2>2. PausedSlack'
    <3>1. CASE pauserCount = 0
      <4>1. slack' = 0
        BY <1>13, <3>1 DEF PauserBegin
      <4>2. QED BY <4>1, Zenon
    <3>2. CASE pauserCount # 0
      <4>1. pauserCount > 0 /\ slack' = slack /\ pc' = pc
        BY <1>13, <3>2 DEF PauserBegin
      <4>2. QED BY <4>1, Zenon
    <3>3. QED BY <3>1, <3>2
  <2>3. QED BY <1>13, <2>1, <2>2 DEF PauserBegin
<1>14. CASE PauserEnd
  BY <1>14 DEF PauserEnd
<1>15. CASE ResumeNotify \/ Exit \/ Join
  <2>1. CASE ResumeNotify
    BY <2>1 DEF ResumeNotify, Notified
  <2>2. CASE Exit
    BY <2>2 DEF Exit, Notified
  <2>3. CASE Join
    BY <2>3 DEF Join
  <2> QED BY <1>15, <2>1, <2>2, <2>3
<1>16. CASE UNCHANGED vars
  BY <1>16 DEF vars
<1>17. QED
  BY <1>1, <1>2, <1>3, <1>4, <1>5, <1>6, <1>7, <1>8, <1>9, <1>10, <1>11, <1>12,
     <1>13, <1>14, <1>15, <1>16 DEF Next, Worker, Main

\* The inductive invariant holds throughout (workthread.cpp, threadLoop()).
THEOREM Invariance == Spec => []IInv
  BY InitIInv, StepIInv, PTL DEF Spec

\* No job waits in the queue while the worker sleeps for want of one.
THEOREM NeverLeftBehind == Spec => []NoJobLeftBehind
  BY Invariance, PTL DEF IInv

\* Only one job is in progress at any time, pauses included.
THEOREM Serial == Spec => []OneAtATime
  BY Invariance, PTL DEF IInv

\* While any Pauser exists at most the pass already decided on is made.
THEOREM PausersHold == Spec => []PauserHolds
<1>1. IInv => PauserHolds
  BY DEF IInv, PausedSlack, PauserHolds
<1>2. QED BY <1>1, Invariance, PTL

\* The variables keep their types: of the worker's positions, and of the counts
\* of Pausers and passes, which stay in their bounds.
THEOREM TypeCorrect == Spec => []TypeOK
  BY Invariance, PTL DEF IInv

\* A cancelled job makes no pass but the one the worker had decided on when it was
\* cancelled: none if it waited, lay between two passes or was put aside by a pause.
THEOREM CancelTakesEffect == Spec => []CancelHolds
  BY Invariance, PTL DEF IInv

-----------------------------------------------------------------------------
(* WorkThread implements JobQueue.                                           *)

\* A thread that was just created is an empty queue.
LEMMA InitPromise == Init => Promise!Init
  BY DEF Init, Promise!Init

\* Nothing JobQueue shows changes.
Quiet == UNCHANGED <<queue, wrk, passes, results, posted>>

\* Every step of the two threads is a step of the queue or changes nothing in it.
LEMMA StepPromise == IInv /\ [Next]_vars => [Promise!Next]_(Promise!jobVars)
<1> SUFFICES ASSUME IInv, [Next]_vars PROVE [Promise!Next]_(Promise!jobVars)
  OBVIOUS
<1>1. Quiet => UNCHANGED Promise!jobVars
  BY DEF Quiet, Promise!jobVars
<1>2. CASE Fetch
  BY <1>2 DEF Fetch, IInv, WorkerHasJob, Quiet, Promise!Next, Promise!Take, Promise!jobVars
<1>3. CASE Test
  BY <1>3 DEF Test, mutable, Promise!Next, Promise!Release, Promise!jobVars
<1>4. ASSUME NEW j \in Jobs, Pass(j)
      PROVE  /\ \A i \in DOMAIN results : results[i] # j
             /\ {k \in Jobs : passes'[k] > 0} = {k \in Jobs : passes[k] > 0} \cup {j}
  BY <1>4 DEF Pass, IInv, TypeOK, WorkerHasJob, InHand, ResultOnce
<1>5. ASSUME NEW j \in Jobs, ProcessMore(j) PROVE Promise!Work(FALSE)
  BY <1>4, <1>5, WorkThreadAssumption DEF ProcessMore, Pass, mutable, Promise!Work
<1>6. ASSUME NEW j \in Jobs, ProcessAnswer(j) PROVE Promise!Work(TRUE)
  BY <1>4, <1>6, WorkThreadAssumption DEF ProcessAnswer, Pass, mutable, Promise!Work
<1>7. ASSUME NEW j \in Jobs, ProcessThrow(j) PROVE Promise!Release(TRUE)
  BY <1>4, <1>7, WorkThreadAssumption DEF ProcessThrow, Pass, mutable, Promise!Release
<1>8. ASSUME NEW j \in Jobs, PostWork(j) PROVE Promise!Post(j)
  BY <1>8 DEF PostWork, Promise!Post
<1>9. CASE \/ CheckExit \/ AskRunning \/ PauseWait \/ SetComplete \/ SpuriousWakeup
           \/ PauserBegin \/ PauserEnd \/ ResumeNotify \/ Exit \/ Join
           \/ (\E j \in Jobs : Cancel(j) \/ Invalidate(j)) \/ UNCHANGED vars
  BY <1>1, <1>9 DEF Quiet, CheckExit, AskRunning, PauseWait, SetComplete, SpuriousWakeup,
     PauserBegin, PauserEnd, ResumeNotify, Exit, Join, Cancel, Invalidate, mutable, vars
<1>10. QED
  BY <1>2, <1>3, <1>5, <1>6, <1>7, <1>8, <1>9 DEF Next, Worker, Main, Promise!Next

\* The class delivers what JobQueue promises, for every interleaving of its two
\* threads.
THEOREM Refinement == Spec => ImplementsJobQueue
  BY InitPromise, StepPromise, Invariance, PTL DEF Spec, Promise!Spec, ImplementsJobQueue
=============================================================================
