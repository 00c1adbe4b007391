------------------------- MODULE EventTable_proofs -------------------------
(***************************************************************************)
(* Proofs about EventTable: a handler is never called for an event one of  *)
(* whose objects is gone, and the tables implement Mailbox.                *)
(*                                                                         *)
(* The argument: an event waits in the stream of its table, the queue with *)
(* the delayed events behind it; no event is twice in the streams, nor in  *)
(* them once it was handled, and all in a stream are of sources of that    *)
(* table.  What is to be deleted waits in its table too, and goes when the *)
(* queue of that table is empty: so its last event went before.            *)
(***************************************************************************)
EXTENDS EventTable, SequenceTheorems, FiniteSetTheorems, TLAPS

-----------------------------------------------------------------------------
(* The inductive invariant.                                                  *)

\* The events that can be made: that of a mortal source is about its source.
Events == {e \in EventSet : e.src \notin Immortal => e.needs = {e.src}}

\* The types, with what the queues hold.
Types ==
    /\ pending \in [Tables -> Seq(Events)] /\ delayed \in [Tables -> Seq(Events)]
    /\ toDelete \in [Tables -> SUBSET Objects]
    /\ sigMap \in [Objects -> SUBSET Handlers] /\ allSig \in [Tables -> SUBSET Handlers]
    /\ alive \in SUBSET Objects /\ tick \in 0..MaxTick
    /\ pc \in {"wait", "move", "lock", "dispatch", "call", "delete"}
    /\ table \in Tables
    /\ calls \in [src : SUBSET Handlers, all : SUBSET Handlers]
    /\ notified \in BOOLEAN /\ count \in 0..MaxEvents
    /\ doomed \in SUBSET Objects /\ delivered \in SUBSET Events

\* What an event waits in from its post to its delivery: the queue, with the
\* delayed events behind it.
Stream(t) == pending[t] \o delayed[t]

\* The events of q are of table t, were posted among the first n, each once, and
\* none of them is in D.
Fine(q, t, n, D) ==
    \A i \in DOMAIN q :
       /\ Table[q[i].src] = t /\ q[i].id <= n /\ q[i] \notin D
       /\ \A j \in DOMAIN q : q[i].id = q[j].id => i = j

\* No event is in two places, nor handled twice.
Once ==
    /\ \A t \in Tables : Fine(Stream(t), t, count, delivered)
    /\ \A e \in delivered : e.id <= count

\* What safeDelete() was given waits in its table until it goes.
Dying ==
    /\ Immortal \subseteq alive
    /\ \A t \in Tables : \A o \in toDelete[t] :
          Table[o] = t /\ o \in doomed /\ o \in alive /\ o \notin Immortal

\* The event whose handlers are called is the first, and what it is about is
\* there; nothing is deleted before the queue is empty.
Handling ==
    /\ pc = "call" => /\ pending[table] # <<>> /\ Valid(Front) /\ Front.src \in alive
    /\ pc = "delete" => pending[table] = <<>>

IInv == Types /\ Once /\ Dying /\ Handling

-----------------------------------------------------------------------------
(* Queues.                                                                   *)

\* r is q with e after its first n events.
Inserted(r, q, n, e) ==
    /\ n \in 0..Len(q) /\ r \in Seq(Events) /\ Len(r) = Len(q) + 1
    /\ \A i \in 1..Len(r) :
          r[i] = IF i <= n THEN q[i] ELSE IF i = n + 1 THEN e ELSE q[i - 1]

\* What the concatenation of two queues is.
LEMMA Joined ==
  ASSUME NEW p \in Seq(Events), NEW d \in Seq(Events)
  PROVE  /\ p \o d \in Seq(Events) /\ Len(p) \in Nat /\ Len(d) \in Nat
         /\ Len(p \o d) = Len(p) + Len(d) /\ DOMAIN (p \o d) = 1..(Len(p) + Len(d))
         /\ \A i \in 1..(Len(p) + Len(d)) :
               (p \o d)[i] = IF i <= Len(p) THEN p[i] ELSE d[i - Len(p)]
BY ConcatProperties

\* A part of a queue.
LEMMA Part ==
  ASSUME NEW q \in Seq(Events), NEW m \in Int, NEW n \in Int, 1 <= m, m <= n + 1, n <= Len(q)
  PROVE  /\ SubSeq(q, m, n) \in Seq(Events) /\ Len(SubSeq(q, m, n)) = n - m + 1
         /\ \A i \in 1..(n - m + 1) : SubSeq(q, m, n)[i] = q[m + i - 1]
<1>1. \A i \in m..n : q[i] \in Events
  OBVIOUS
<1>2. /\ SubSeq(q, m, n) \in Seq(Events)
      /\ Len(SubSeq(q, m, n)) = IF m <= n THEN n - m + 1 ELSE 0
      /\ \A i \in 1..(n - m + 1) : SubSeq(q, m, n)[i] = q[m + i - 1]
  BY <1>1, SubSeqProperties
<1>3. QED BY <1>2

\* postEvent(): an event goes to the end of the queue, before the delayed ones.
LEMMA AppendInserts ==
  ASSUME NEW p \in Seq(Events), NEW d \in Seq(Events), NEW e \in Events
  PROVE  Inserted(Append(p, e) \o d, p \o d, Len(p), e)
<1> DEFINE a == Append(p, e)
<1>1. /\ a \in Seq(Events) /\ Len(a) = Len(p) + 1 /\ a[Len(p) + 1] = e
      /\ \A i \in 1..Len(p) : a[i] = p[i]
  BY AppendProperties
<1> HIDE DEF a
<1>2. /\ a \o d \in Seq(Events) /\ Len(a \o d) = Len(p) + 1 + Len(d)
      /\ \A i \in 1..(Len(p) + 1 + Len(d)) :
            (a \o d)[i] = IF i <= Len(p) + 1 THEN a[i] ELSE d[i - (Len(p) + 1)]
  <2>1. /\ a \o d \in Seq(Events) /\ Len(a \o d) = Len(a) + Len(d)
        /\ \A i \in 1..(Len(a) + Len(d)) :
              (a \o d)[i] = IF i <= Len(a) THEN a[i] ELSE d[i - Len(a)]
    BY <1>1, Joined
  <2>2. QED BY <1>1, <2>1
<1>3. /\ Len(p) \in Nat /\ Len(d) \in Nat /\ Len(p \o d) = Len(p) + Len(d)
      /\ \A i \in 1..(Len(p) + Len(d)) :
            (p \o d)[i] = IF i <= Len(p) THEN p[i] ELSE d[i - Len(p)]
  BY Joined
<1>4. ASSUME NEW i \in 1..(Len(p) + 1 + Len(d))
      PROVE  (a \o d)[i] = IF i <= Len(p) THEN (p \o d)[i]
                           ELSE IF i = Len(p) + 1 THEN e ELSE (p \o d)[i - 1]
  <2>1. CASE i <= Len(p)
    BY <1>1, <1>2, <1>3, <2>1
  <2>2. CASE i = Len(p) + 1
    BY <1>1, <1>2, <1>3, <2>2
  <2>3. CASE i > Len(p) + 1
    <3>1. i - 1 \in 1..(Len(p) + Len(d)) /\ i - 1 > Len(p) /\ i - (Len(p) + 1) = i - 1 - Len(p)
      BY <1>3, <2>3
    <3>2. (p \o d)[i - 1] = d[i - 1 - Len(p)]
      BY <1>3, <3>1
    <3>3. QED BY <1>2, <1>3, <2>3, <3>1, <3>2
  <2>4. i <= Len(p) \/ i = Len(p) + 1 \/ i > Len(p) + 1
    BY <1>3
  <2>5. QED BY <2>1, <2>2, <2>3, <2>4
<1>5. QED BY <1>2, <1>3, <1>4 DEF Inserted, a

\* A delayed event is inserted among the delayed ones.
LEMMA Amid ==
  ASSUME NEW d \in Seq(Events), NEW e \in Events, NEW n \in 0..Len(d)
  PROVE  Inserted(SubSeq(d, 1, n) \o <<e>> \o SubSeq(d, n + 1, Len(d)), d, n, e)
<1> DEFINE a == SubSeq(d, 1, n)
           z == SubSeq(d, n + 1, Len(d))
           b == a \o <<e>>
<1>0. Len(d) \in Nat /\ n \in Nat /\ n <= Len(d)
  OBVIOUS
<1>1. a \in Seq(Events) /\ Len(a) = n /\ \A i \in 1..n : a[i] = d[i]
  <2>1. /\ a \in Seq(Events) /\ Len(a) = n - 1 + 1
        /\ \A i \in 1..(n - 1 + 1) : a[i] = d[1 + i - 1]
    BY <1>0, Part
  <2> HIDE DEF a
  <2>2. QED BY <1>0, <2>1
<1>2. /\ z \in Seq(Events) /\ Len(z) = Len(d) - n
      /\ \A i \in 1..(Len(d) - n) : z[i] = d[n + i]
  <2>1. /\ z \in Seq(Events) /\ Len(z) = Len(d) - (n + 1) + 1
        /\ \A i \in 1..(Len(d) - (n + 1) + 1) : z[i] = d[n + 1 + i - 1]
    BY <1>0, Part
  <2> HIDE DEF z
  <2>2. QED BY <1>0, <2>1
<1>3. b = Append(a, e)
  BY <1>1
<1>4. /\ b \in Seq(Events) /\ Len(b) = n + 1 /\ b[n + 1] = e
      /\ \A i \in 1..n : b[i] = a[i]
  BY <1>1, <1>3, AppendProperties
<1> HIDE DEF a, b, z
<1>5. /\ b \o z \in Seq(Events) /\ Len(b \o z) = n + 1 + (Len(d) - n)
      /\ \A i \in 1..(n + 1 + (Len(d) - n)) :
            (b \o z)[i] = IF i <= n + 1 THEN b[i] ELSE z[i - (n + 1)]
  <2>1. /\ b \o z \in Seq(Events) /\ Len(b \o z) = Len(b) + Len(z)
        /\ \A i \in 1..(Len(b) + Len(z)) :
              (b \o z)[i] = IF i <= Len(b) THEN b[i] ELSE z[i - Len(b)]
    BY <1>2, <1>4, Joined
  <2>2. QED BY <1>2, <1>4, <2>1
<1>6. ASSUME NEW i \in 1..(Len(d) + 1)
      PROVE  (b \o z)[i] = IF i <= n THEN d[i] ELSE IF i = n + 1 THEN e ELSE d[i - 1]
  <2>1. (b \o z)[i] = IF i <= n + 1 THEN b[i] ELSE z[i - (n + 1)]
    BY <1>0, <1>5
  <2>2. CASE i <= n
    BY <1>0, <1>1, <1>4, <2>1, <2>2
  <2>3. CASE i = n + 1
    BY <1>0, <1>4, <2>1, <2>3
  <2>4. CASE i > n + 1
    <3>1. i - (n + 1) \in 1..(Len(d) - n) /\ n + (i - (n + 1)) = i - 1
      BY <1>0, <2>4
    <3>2. z[i - (n + 1)] = d[i - 1]
      BY <1>2, <3>1
    <3>3. QED BY <1>0, <2>1, <2>4, <3>2
  <2>5. i <= n \/ i = n + 1 \/ i > n + 1
    BY <1>0
  <2>6. QED BY <2>2, <2>3, <2>4, <2>5
<1>7. Len(b \o z) = Len(d) + 1
  BY <1>0, <1>5
<1>8. Inserted(b \o z, d, n, e)
  BY <1>0, <1>5, <1>6, <1>7 DEF Inserted
<1>9. QED BY <1>8 DEF a, b, z

\* An event inserted among the delayed ones is inserted in the stream.
LEMMA DelayInserts ==
  ASSUME NEW p \in Seq(Events), NEW d \in Seq(Events), NEW c \in Seq(Events), NEW e \in Events,
         NEW n, Inserted(c, d, n, e)
  PROVE  Inserted(p \o c, p \o d, Len(p) + n, e)
<1>1. /\ n \in 0..Len(d) /\ Len(c) = Len(d) + 1 /\ Len(d) \in Nat
      /\ \A i \in 1..(Len(d) + 1) :
            c[i] = IF i <= n THEN d[i] ELSE IF i = n + 1 THEN e ELSE d[i - 1]
  BY DEF Inserted
<1>2. /\ p \o c \in Seq(Events) /\ Len(p \o c) = Len(p) + Len(c) /\ Len(p) \in Nat
      /\ \A i \in 1..(Len(p) + Len(c)) :
            (p \o c)[i] = IF i <= Len(p) THEN p[i] ELSE c[i - Len(p)]
  BY Joined
<1>3. /\ Len(p \o d) = Len(p) + Len(d)
      /\ \A i \in 1..(Len(p) + Len(d)) :
            (p \o d)[i] = IF i <= Len(p) THEN p[i] ELSE d[i - Len(p)]
  BY Joined
<1>4. ASSUME NEW i \in 1..(Len(p) + Len(d) + 1)
      PROVE  (p \o c)[i] = IF i <= Len(p) + n THEN (p \o d)[i]
                           ELSE IF i = Len(p) + n + 1 THEN e ELSE (p \o d)[i - 1]
  <2>1. (p \o c)[i] = IF i <= Len(p) THEN p[i] ELSE c[i - Len(p)]
    BY <1>1, <1>2
  <2>2. CASE i <= Len(p)
    BY <1>1, <1>2, <1>3, <2>1, <2>2
  <2>3. ASSUME i > Len(p)
        PROVE  c[i - Len(p)] = IF i - Len(p) <= n THEN d[i - Len(p)]
                               ELSE IF i - Len(p) = n + 1 THEN e ELSE d[i - Len(p) - 1]
    <3>1. i - Len(p) \in 1..(Len(d) + 1)
      BY <1>1, <1>2, <2>3
    <3>2. QED BY <1>1, <3>1
  <2>4. CASE i > Len(p) /\ i <= Len(p) + n
    <3>1. (p \o d)[i] = d[i - Len(p)]
      BY <1>1, <1>2, <1>3, <2>4
    <3>2. QED BY <1>1, <1>2, <2>1, <2>3, <2>4, <3>1
  <2>5. CASE i = Len(p) + n + 1
    BY <1>1, <1>2, <2>1, <2>3, <2>5
  <2>6. CASE i > Len(p) + n + 1
    <3>1. i - 1 \in 1..(Len(p) + Len(d)) /\ ~(i - 1 <= Len(p)) /\ i - 1 - Len(p) = i - Len(p) - 1
      BY <1>1, <1>2, <2>6
    <3>2. (p \o d)[i - 1] = d[i - Len(p) - 1]
      BY <1>3, <3>1
    <3>3. QED BY <1>1, <1>2, <2>1, <2>3, <2>6, <3>2
  <2>7. \/ i <= Len(p) \/ (i > Len(p) /\ i <= Len(p) + n)
        \/ i = Len(p) + n + 1 \/ i > Len(p) + n + 1
    <3>1. i \in Int /\ Len(p) \in Int /\ n \in Int
      BY <1>1, <1>2
    <3>2. QED BY <3>1
  <2>8. QED BY <2>2, <2>4, <2>5, <2>6, <2>7
<1>5. Len(p) + n \in 0..Len(p \o d) /\ Len(p \o c) = Len(p \o d) + 1
  BY <1>1, <1>2, <1>3
<1>6. \A i \in 1..Len(p \o c) :
         (p \o c)[i] = IF i <= Len(p) + n THEN (p \o d)[i]
                       ELSE IF i = Len(p) + n + 1 THEN e ELSE (p \o d)[i - 1]
  BY <1>1, <1>2, <1>4
<1>7. QED BY <1>2, <1>5, <1>6 DEF Inserted

\* A new event has a number that no other has.
LEMMA FineInserted ==
  ASSUME NEW q \in Seq(Events), NEW r \in Seq(Events), NEW n, NEW e \in Events, NEW t,
         NEW c \in Nat, NEW D, \A x \in D : x.id <= c,
         Inserted(r, q, n, e), Fine(q, t, c, D), Table[e.src] = t, e.id = c + 1
  PROVE  Fine(r, t, c + 1, D)
<1>1. /\ n \in 0..Len(q) /\ Len(r) = Len(q) + 1 /\ Len(q) \in Nat
      /\ DOMAIN r = 1..(Len(q) + 1) /\ DOMAIN q = 1..Len(q)
      /\ \A i \in 1..(Len(q) + 1) :
            r[i] = IF i <= n THEN q[i] ELSE IF i = n + 1 THEN e ELSE q[i - 1]
  BY DEF Inserted
<1> DEFINE back(i) == IF i <= n THEN i ELSE i - 1
<1>2. ASSUME NEW i \in DOMAIN r, i # n + 1
      PROVE  back(i) \in DOMAIN q /\ r[i] = q[back(i)]
  BY <1>1, <1>2
<1>3. \A i \in DOMAIN q : Table[q[i].src] = t /\ q[i].id <= c /\ q[i].id \in Nat /\ q[i] \notin D
  <2>1. \A i \in DOMAIN q : q[i].id \in Nat
    BY EventTableAssumption DEF Events, EventSet
  <2>2. QED BY <2>1 DEF Fine
<1>4. r[n + 1] = e
  BY <1>1
<1>5. e \notin D
  <2>1. ~(c + 1 <= c)
    OBVIOUS
  <2>2. QED BY <2>1
<1>6. ASSUME NEW i \in DOMAIN r
      PROVE  Table[r[i].src] = t /\ r[i].id <= c + 1 /\ r[i] \notin D
  <2>1. CASE i = n + 1
    BY <1>4, <1>5, <2>1
  <2>2. CASE i # n + 1
    <3>1. back(i) \in DOMAIN q /\ r[i] = q[back(i)]
      BY <1>2, <2>2
    <3> HIDE DEF back
    <3>2. QED BY <1>3, <3>1
  <2>3. QED BY <2>1, <2>2
<1>7. ASSUME NEW i \in DOMAIN r, NEW j \in DOMAIN r, r[i].id = r[j].id PROVE i = j
  <2>1. CASE i # n + 1 /\ j # n + 1
    <3>1. /\ back(i) \in DOMAIN q /\ r[i] = q[back(i)]
          /\ back(j) \in DOMAIN q /\ r[j] = q[back(j)]
      BY <1>2, <2>1
    <3>2. back(i) = back(j)
      <4> HIDE DEF back
      <4>1. QED BY <1>7, <3>1 DEF Fine
    <3>3. QED BY <1>1, <2>1, <3>2
  <2>2. CASE i = n + 1 /\ j # n + 1
    <3>1. back(j) \in DOMAIN q /\ r[j] = q[back(j)]
      BY <1>2, <2>2
    <3> HIDE DEF back
    <3>2. QED BY <1>3, <1>4, <1>7, <2>2, <3>1
  <2>3. CASE j = n + 1 /\ i # n + 1
    <3>1. back(i) \in DOMAIN q /\ r[i] = q[back(i)]
      BY <1>2, <2>3
    <3> HIDE DEF back
    <3>2. QED BY <1>3, <1>4, <1>7, <2>3, <3>1
  <2>4. QED BY <2>1, <2>2, <2>3
<1>8. QED BY <1>6, <1>7 DEF Fine

\* The streams of the other tables do not notice.
LEMMA FineMore ==
  ASSUME NEW q \in Seq(Events), NEW t, NEW c \in Nat, NEW D, Fine(q, t, c, D)
  PROVE  Fine(q, t, c + 1, D)
<1>1. \A i \in DOMAIN q : q[i].id \in Nat
  BY EventTableAssumption DEF Events, EventSet
<1>2. QED BY <1>1 DEF Fine

\* Events that become due go from the head of the delayed ones to the end of the
\* queue: the stream is the same.
LEMMA MoveSame ==
  ASSUME NEW p \in Seq(Events), NEW d \in Seq(Events), NEW k \in 0..Len(d)
  PROVE  LET r == (p \o SubSeq(d, 1, k)) \o SubSeq(d, k + 1, Len(d))
         IN  /\ p \o SubSeq(d, 1, k) \in Seq(Events) /\ SubSeq(d, k + 1, Len(d)) \in Seq(Events)
             /\ Len(p \o SubSeq(d, 1, k)) = Len(p) + k
             /\ \A i \in 1..Len(p) : (p \o SubSeq(d, 1, k))[i] = p[i]
             /\ Len(r) = Len(p \o d) /\ \A i \in 1..Len(r) : r[i] = (p \o d)[i]
<1> DEFINE a == SubSeq(d, 1, k)
           z == SubSeq(d, k + 1, Len(d))
           b == p \o a
           r == b \o z
<1>0. Len(d) \in Nat /\ k \in Nat /\ k <= Len(d) /\ Len(p) \in Nat
  OBVIOUS
<1>1. a \in Seq(Events) /\ Len(a) = k /\ \A i \in 1..k : a[i] = d[i]
  <2>1. /\ a \in Seq(Events) /\ Len(a) = k - 1 + 1
        /\ \A i \in 1..(k - 1 + 1) : a[i] = d[1 + i - 1]
    BY <1>0, Part
  <2> HIDE DEF a
  <2>2. QED BY <1>0, <2>1
<1>2. /\ z \in Seq(Events) /\ Len(z) = Len(d) - k
      /\ \A i \in 1..(Len(d) - k) : z[i] = d[k + i]
  <2>1. /\ z \in Seq(Events) /\ Len(z) = Len(d) - (k + 1) + 1
        /\ \A i \in 1..(Len(d) - (k + 1) + 1) : z[i] = d[k + 1 + i - 1]
    BY <1>0, Part
  <2> HIDE DEF z
  <2>2. QED BY <1>0, <2>1
<1> HIDE DEF a, z
<1>3. /\ b \in Seq(Events) /\ Len(b) = Len(p) + k
      /\ \A i \in 1..(Len(p) + k) : b[i] = IF i <= Len(p) THEN p[i] ELSE a[i - Len(p)]
  <2>1. /\ b \in Seq(Events) /\ Len(b) = Len(p) + Len(a)
        /\ \A i \in 1..(Len(p) + Len(a)) : b[i] = IF i <= Len(p) THEN p[i] ELSE a[i - Len(p)]
    BY <1>1, Joined
  <2>2. QED BY <1>1, <2>1
<1> HIDE DEF b
<1>4. /\ Len(r) = Len(p) + Len(d)
      /\ \A i \in 1..(Len(p) + Len(d)) :
            r[i] = IF i <= Len(p) + k THEN b[i] ELSE z[i - (Len(p) + k)]
  <2>1. /\ Len(r) = Len(b) + Len(z)
        /\ \A i \in 1..(Len(b) + Len(z)) :
              r[i] = IF i <= Len(b) THEN b[i] ELSE z[i - Len(b)]
    BY <1>2, <1>3, Joined
  <2>2. Len(b) + Len(z) = Len(p) + Len(d)
    BY <1>0, <1>2, <1>3
  <2>3. QED BY <1>3, <2>1, <2>2
<1>5. /\ Len(p \o d) = Len(p) + Len(d)
      /\ \A i \in 1..(Len(p) + Len(d)) :
            (p \o d)[i] = IF i <= Len(p) THEN p[i] ELSE d[i - Len(p)]
  BY Joined
<1>6. ASSUME NEW i \in 1..(Len(p) + Len(d)) PROVE r[i] = (p \o d)[i]
  <2>0. i \in Int /\ i >= 1 /\ i <= Len(p) + Len(d)
    BY <1>0
  <2> HIDE DEF r
  <2>1. CASE i <= Len(p)
    BY <1>0, <1>3, <1>4, <1>5, <2>0, <2>1
  <2>2. CASE i > Len(p) /\ i <= Len(p) + k
    <3>1. i - Len(p) \in 1..k /\ i \in 1..(Len(p) + k) /\ ~(i <= Len(p))
      BY <1>0, <2>0, <2>2
    <3>2. b[i] = a[i - Len(p)] /\ a[i - Len(p)] = d[i - Len(p)]
      BY <1>1, <1>3, <3>1
    <3>3. QED BY <1>4, <1>5, <2>2, <3>1, <3>2
  <2>3. CASE i > Len(p) + k
    <3>1. /\ i - (Len(p) + k) \in 1..(Len(d) - k) /\ k + (i - (Len(p) + k)) = i - Len(p)
          /\ ~(i <= Len(p)) /\ ~(i <= Len(p) + k)
      BY <1>0, <2>0, <2>3
    <3>2. z[i - (Len(p) + k)] = d[i - Len(p)]
      BY <1>2, <3>1
    <3>3. QED BY <1>4, <1>5, <3>1, <3>2
  <2>4. i <= Len(p) \/ (i > Len(p) /\ i <= Len(p) + k) \/ i > Len(p) + k
    BY <1>0, <2>0
  <2>5. QED BY <2>1, <2>2, <2>3, <2>4
<1>7. \A i \in 1..Len(p) : b[i] = p[i]
  BY <1>0, <1>3
<1>8. Len(r) = Len(p \o d) /\ \A i \in 1..Len(r) : r[i] = (p \o d)[i]
  BY <1>4, <1>5, <1>6
<1>9. QED BY <1>2, <1>3, <1>7, <1>8 DEF a, z, b

\* A queue with the same events in the same places is as fine.
LEMMA FineSame ==
  ASSUME NEW q \in Seq(Events), NEW r \in Seq(Events), NEW t, NEW c, NEW D, Fine(q, t, c, D),
         Len(r) = Len(q), \A i \in 1..Len(r) : r[i] = q[i]
  PROVE  Fine(r, t, c, D)
<1>1. DOMAIN r = 1..Len(r) /\ DOMAIN q = 1..Len(q)
  OBVIOUS
<1>2. QED BY <1>1 DEF Fine

\* The first event of a stream goes: it is not among the rest.
LEMMA FinePopped ==
  ASSUME NEW p \in Seq(Events), NEW d \in Seq(Events), p # <<>>, NEW t, NEW c, NEW D,
         Fine(p \o d, t, c, D)
  PROVE  /\ Head(p) \in Events /\ Tail(p) \in Seq(Events)
         /\ Table[Head(p).src] = t /\ Head(p).id <= c /\ Head(p) \notin D
         /\ Fine(Tail(p) \o d, t, c, D \cup {Head(p)})
<1> DEFINE q == p \o d
           a == Tail(p)
           r == a \o d
<1>1. /\ Head(p) \in Events /\ a \in Seq(Events) /\ Len(a) = Len(p) - 1
      /\ \A i \in 1..Len(a) : a[i] = p[i + 1]
  BY HeadTailProperties
<1>2. Head(p) = p[1] /\ Len(p) \in Nat /\ Len(p) >= 1 /\ Len(d) \in Nat
  OBVIOUS
<1> HIDE DEF a
<1>3. /\ q \in Seq(Events) /\ Len(q) = Len(p) + Len(d) /\ DOMAIN q = 1..(Len(p) + Len(d))
      /\ \A i \in 1..(Len(p) + Len(d)) : q[i] = IF i <= Len(p) THEN p[i] ELSE d[i - Len(p)]
  BY Joined
<1>4. /\ r \in Seq(Events) /\ DOMAIN r = 1..(Len(a) + Len(d))
      /\ \A i \in 1..(Len(a) + Len(d)) : r[i] = IF i <= Len(a) THEN a[i] ELSE d[i - Len(a)]
  BY <1>1, Joined
<1> HIDE DEF q, r
<1>5. ASSUME NEW i \in DOMAIN r PROVE i \in Int /\ i >= 1 /\ i + 1 \in DOMAIN q /\ r[i] = q[i + 1]
  <2>1. i \in Int /\ i >= 1 /\ i <= Len(p) - 1 + Len(d)
    BY <1>1, <1>4
  <2>2. i + 1 \in 1..(Len(p) + Len(d)) /\ i \in 1..(Len(a) + Len(d))
    BY <1>1, <1>2, <2>1
  <2>3. CASE i <= Len(p) - 1
    <3>1. i + 1 <= Len(p) /\ i <= Len(a) /\ i \in 1..Len(a)
      BY <1>1, <1>2, <2>1, <2>3
    <3>2. r[i] = a[i] /\ a[i] = p[i + 1] /\ q[i + 1] = p[i + 1]
      BY <1>1, <1>3, <1>4, <2>2, <3>1
    <3>3. QED BY <1>3, <2>1, <2>2, <3>2
  <2>4. CASE i > Len(p) - 1
    <3>1. ~(i + 1 <= Len(p)) /\ ~(i <= Len(a)) /\ i + 1 - Len(p) = i - Len(a)
      BY <1>1, <1>2, <2>1, <2>4
    <3>2. r[i] = d[i - Len(a)] /\ q[i + 1] = d[i + 1 - Len(p)]
      BY <1>3, <1>4, <2>2, <3>1
    <3>3. QED BY <1>3, <2>1, <2>2, <3>1, <3>2
  <2>5. QED BY <1>2, <2>1, <2>3, <2>4
<1>6. 1 \in DOMAIN q /\ q[1] = Head(p)
  BY <1>2, <1>3
<1>7. Table[Head(p).src] = t /\ Head(p).id <= c /\ Head(p) \notin D
  BY <1>6 DEF Fine, q
<1>8. Fine(q, t, c, D)
  BY DEF q
<1>9. ASSUME NEW i \in DOMAIN r
      PROVE  Table[r[i].src] = t /\ r[i].id <= c /\ r[i] \notin D \cup {Head(p)}
  <2>1. i \in Int /\ i >= 1 /\ i + 1 \in DOMAIN q /\ r[i] = q[i + 1] /\ i + 1 # 1
    BY <1>5
  <2>2. q[i + 1].id # q[1].id
    BY <1>6, <1>8, <2>1 DEF Fine
  <2>3. q[i + 1] # Head(p)
    BY <1>6, <2>2
  <2>4. QED BY <1>8, <2>1, <2>3 DEF Fine
<1>10. ASSUME NEW i \in DOMAIN r, NEW j \in DOMAIN r, r[i].id = r[j].id PROVE i = j
  <2>1. /\ i \in Int /\ i + 1 \in DOMAIN q /\ r[i] = q[i + 1]
        /\ j \in Int /\ j + 1 \in DOMAIN q /\ r[j] = q[j + 1]
    BY <1>5
  <2>2. i + 1 = j + 1
    BY <1>8, <1>10, <2>1 DEF Fine
  <2>3. QED BY <2>1, <2>2
<1>11. Fine(r, t, c, D \cup {Head(p)})
  BY <1>9, <1>10 DEF Fine
<1>12. QED BY <1>1, <1>7, <1>11 DEF r, a

\* An event of another table is none of this one.
LEMMA FineOther ==
  ASSUME NEW q \in Seq(Events), NEW t, NEW c, NEW D, Fine(q, t, c, D),
         NEW e, Table[e.src] # t
  PROVE  Fine(q, t, c, D \cup {e})
<1>1. \A i \in DOMAIN q : q[i] # e
  BY DEF Fine
<1>2. QED BY <1>1 DEF Fine

\* Some of the numbers up to n are n at most.
LEMMA CardBound ==
  ASSUME NEW n \in Nat, NEW S, S \subseteq 1..n
  PROVE  Cardinality(S) \in 0..n
<1>1. n \in Int /\ 1 \in Int
  OBVIOUS
<1>2. /\ IsFiniteSet(1..n)
      /\ Cardinality(1..n) = IF 1 > n THEN 0 ELSE n - 1 + 1
  BY <1>1, FS_Interval
<1>3. Cardinality(1..n) = n
  BY <1>1, <1>2
<1>4. Cardinality(S) \in Nat /\ Cardinality(S) <= n
  BY <1>2, <1>3, FS_Subset, FS_CardinalityType
<1>5. QED BY <1>4

\* How many events of a table are due.
LEMMA DueType ==
  ASSUME Types, NEW t \in Tables
  PROVE  Due(t) \in 0..Len(delayed[t])
<1> DEFINE d == delayed[t]
<1>1. DOMAIN d = 1..Len(d) /\ Len(d) \in Nat
  BY DEF Types
<1>2. {i \in DOMAIN d : d[i].at <= tick} \subseteq 1..Len(d)
  BY <1>1
<1>3. QED BY <1>1, <1>2, CardBound DEF Due

-----------------------------------------------------------------------------
(* Events come.                                                              *)

\* What an event that is made is.
LEMMA Made ==
  ASSUME Types, Counted, NEW src \in alive, NEW at \in 0..(2 * MaxTick), NEW e \in NewEvents(src, at)
  PROVE  /\ e \in Events /\ e.id = count + 1 /\ e.src = src /\ e.at = at
         /\ count \in Nat /\ count' = count + 1 /\ count' \in 0..MaxEvents
         /\ Table[src] \in Tables
<1>1. count \in Nat /\ count < MaxEvents /\ count' = count + 1 /\ MaxEvents \in Nat
  BY EventTableAssumption DEF Types, Counted
<1>2. src \in Objects /\ Table[src] \in Tables /\ Objects \ Immortal \subseteq Objects
  BY EventTableAssumption DEF Types
<1>3. PICK needs \in Needs(src) \cap SUBSET alive : e = Event(src, needs, at)
  BY DEF NewEvents
<1>4. needs \in SUBSET Objects /\ (src \notin Immortal => needs = {src})
  BY <1>2, <1>3 DEF Needs
<1>5. count + 1 \in 1..MaxEvents /\ count + 1 \in 0..MaxEvents
  BY <1>1
<1>6. e = [id |-> count + 1, src |-> src, needs |-> needs, at |-> at]
  BY <1>3 DEF Event
<1>7. e \in EventSet
  BY <1>2, <1>4, <1>5, <1>6 DEF EventSet
<1>8. QED BY <1>1, <1>2, <1>4, <1>5, <1>6, <1>7 DEF Events

\* The ticks that events carry.
LEMMA Ticks ==
  ASSUME Types
  PROVE  tick \in 0..(2 * MaxTick) /\ \A delay \in 0..MaxTick : tick + delay \in 0..(2 * MaxTick)
<1>1. MaxTick \in Nat /\ tick \in 0..MaxTick
  BY EventTableAssumption DEF Types
<1>2. QED BY <1>1

\* An event that comes to the stream of its table, wherever, disturbs no stream.
LEMMA StreamsKept ==
  ASSUME Types, Once, NEW e \in Events, NEW n, Table[e.src] \in Tables, e.id = count + 1,
         count \in Nat, count' = count + 1, UNCHANGED delivered,
         Inserted(Stream(Table[e.src])', Stream(Table[e.src]), n, e),
         \A t \in Tables : Stream(t) \in Seq(Events),
         \A t \in Tables \ {Table[e.src]} : Stream(t)' = Stream(t)
  PROVE  Once'
<1>1. \A x \in delivered : x.id <= count /\ x.id \in Nat
  BY EventTableAssumption DEF Types, Once, Events, EventSet
<1>2. ASSUME NEW t \in Tables PROVE Fine(Stream(t)', t, count', delivered')
  <2>1. Fine(Stream(t), t, count, delivered) /\ Stream(t) \in Seq(Events)
    BY DEF Once
  <2>2. CASE t = Table[e.src]
    <3>1. Stream(t)' \in Seq(Events) /\ Inserted(Stream(t)', Stream(t), n, e)
      BY <2>2 DEF Inserted
    <3> DEFINE q == Stream(t)
               r == Stream(t)'
    <3>2. Fine(q, t, count, delivered) /\ q \in Seq(Events) /\ r \in Seq(Events) /\ Inserted(r, q, n, e)
      BY <2>1, <3>1
    <3> HIDE DEF q, r
    <3>3. Fine(r, t, count + 1, delivered)
      BY <1>1, <2>2, <3>2, FineInserted
    <3>4. QED BY <3>3 DEF r
  <2>3. CASE t # Table[e.src]
    <3>1. Stream(t)' = Stream(t)
      BY <2>3
    <3>2. Fine(Stream(t), t, count + 1, delivered)
      BY <2>1, FineMore
    <3>3. QED BY <3>1, <3>2
  <2>4. QED BY <2>2, <2>3
<1>3. \A x \in delivered' : x.id <= count'
  BY <1>1
<1>4. QED BY <1>2, <1>3 DEF Once

\* The streams are queues of events.
LEMMA StreamType == Types => \A t \in Tables : Stream(t) \in Seq(Events)
BY Joined DEF Types, Stream

\* Who posts.
LEMMA PostKeeps ==
  ASSUME Types, Once, NEW src \in alive, NEW e \in NewEvents(src, tick), Counted,
         pending' = [pending EXCEPT ![Table[src]] = Append(@, e)], UNCHANGED <<delayed, delivered>>
  PROVE  /\ pending' \in [Tables -> Seq(Events)] /\ count' \in 0..MaxEvents /\ Once'
         /\ e \in Events /\ e.src = src /\ Table[src] \in Tables
         /\ pending'[Table[src]] = Append(pending[Table[src]], e)
         /\ \A t \in Tables \ {Table[src]} : pending'[t] = pending[t]
<1>1. /\ e \in Events /\ e.id = count + 1 /\ e.src = src
      /\ count \in Nat /\ count' = count + 1 /\ count' \in 0..MaxEvents /\ Table[src] \in Tables
  BY Ticks, Made
<1> DEFINE u == Table[src]
<1>2. u \in Tables
  BY <1>1
<1>3. pending \in [Tables -> Seq(Events)] /\ delayed \in [Tables -> Seq(Events)]
  BY DEF Types
<1> HIDE DEF u
<1>4. pending[u] \in Seq(Events) /\ Append(pending[u], e) \in Seq(Events)
  BY <1>1, <1>2, <1>3, AppendProperties
<1>5. pending' = [pending EXCEPT ![u] = Append(pending[u], e)]
  BY <1>3 DEF u
<1>6. /\ pending' \in [Tables -> Seq(Events)] /\ pending'[u] = Append(pending[u], e)
      /\ \A t \in Tables \ {u} : pending'[t] = pending[t]
  BY <1>2, <1>3, <1>4, <1>5
<1>7. Stream(u)' = Append(pending[u], e) \o delayed[u] /\ Stream(u) = pending[u] \o delayed[u]
  BY <1>6 DEF Stream
<1>8. Inserted(Append(pending[u], e) \o delayed[u], pending[u] \o delayed[u], Len(pending[u]), e)
  BY <1>1, <1>2, <1>3, AppendInserts
<1>9. Inserted(Stream(u)', Stream(u), Len(pending[u]), e)
  BY <1>7, <1>8
<1>10. \A t \in Tables \ {u} : Stream(t)' = Stream(t)
  BY <1>6 DEF Stream
<1>11. Once'
  BY <1>1, <1>9, <1>10, StreamType, StreamsKept DEF u
<1>12. QED BY <1>1, <1>6, <1>11 DEF u

\* Who posts an event for later.
LEMMA DelayKeeps ==
  ASSUME Types, Once, NEW src \in alive, postDelayed(src), UNCHANGED delivered
  PROVE  /\ delayed' \in [Tables -> Seq(Events)] /\ count' \in 0..MaxEvents /\ Once'
         /\ UNCHANGED <<pending, toDelete, doomed, notified>>
<1>1. PICK delay \in 0..MaxTick : \E e \in NewEvents(src, tick + delay) :
        LET d == delayed[Table[src]]
            n == Cardinality({i \in DOMAIN d : d[i].at <= e.at})
        IN  delayed' = [delayed EXCEPT ![Table[src]] =
                           SubSeq(d, 1, n) \o <<e>> \o SubSeq(d, n + 1, Len(d))]
  BY DEF postDelayed
<1> DEFINE u == Table[src]
           d == delayed[u]
<1>2. PICK e \in NewEvents(src, tick + delay) :
        LET n == Cardinality({i \in DOMAIN d : d[i].at <= e.at})
        IN  delayed' = [delayed EXCEPT ![u] =
                           SubSeq(d, 1, n) \o <<e>> \o SubSeq(d, n + 1, Len(d))]
  BY <1>1
<1> DEFINE n == Cardinality({i \in DOMAIN d : d[i].at <= e.at})
           c == SubSeq(d, 1, n) \o <<e>> \o SubSeq(d, n + 1, Len(d))
<1>3. delayed' = [delayed EXCEPT ![u] = c]
  BY <1>2
<1>4. Counted
  BY DEF postDelayed
<1>5. /\ e \in Events /\ e.id = count + 1 /\ e.src = src
      /\ count \in Nat /\ count' = count + 1 /\ count' \in 0..MaxEvents /\ u \in Tables
  BY <1>4, Ticks, Made
<1>6. pending \in [Tables -> Seq(Events)] /\ delayed \in [Tables -> Seq(Events)]
  BY DEF Types
<1> HIDE DEF u
<1>7. d \in Seq(Events) /\ pending[u] \in Seq(Events)
  BY <1>5, <1>6
<1>8. n \in 0..Len(d)
  <2> HIDE DEF d
  <2>1. {i \in DOMAIN d : d[i].at <= e.at} \subseteq 1..Len(d) /\ Len(d) \in Nat
    BY <1>7
  <2>2. QED BY <2>1, CardBound
<1> HIDE DEF n, d
<1>9. Inserted(c, d, n, e) /\ c \in Seq(Events)
  <2>1. Inserted(c, d, n, e)
    BY <1>5, <1>7, <1>8, Amid
  <2> HIDE DEF c
  <2>2. QED BY <2>1 DEF Inserted
<1> HIDE DEF c
<1>10. UNCHANGED <<pending, toDelete, doomed, notified>>
  BY DEF postDelayed
<1>11. /\ delayed' \in [Tables -> Seq(Events)] /\ delayed'[u] = c
       /\ \A t \in Tables \ {u} : delayed'[t] = delayed[t]
  BY <1>3, <1>5, <1>6, <1>9
<1>12. Stream(u)' = pending[u] \o c /\ Stream(u) = pending[u] \o d
  BY <1>10, <1>11 DEF Stream, d
<1>13. Inserted(pending[u] \o c, pending[u] \o d, Len(pending[u]) + n, e)
  BY <1>5, <1>7, <1>9, DelayInserts
<1>14. Inserted(Stream(u)', Stream(u), Len(pending[u]) + n, e)
  BY <1>12, <1>13
<1>15. \A t \in Tables \ {u} : Stream(t)' = Stream(t)
  BY <1>10, <1>11 DEF Stream
<1>16. Once'
  BY <1>5, <1>14, <1>15, StreamType, StreamsKept DEF u
<1>17. QED BY <1>5, <1>10, <1>11, <1>16

-----------------------------------------------------------------------------
(* The steps keep the invariant.                                             *)

\* A step that moves no event keeps the streams.
LEMMA OnceSame ==
  ASSUME Once, UNCHANGED <<pending, delayed, delivered, count>> PROVE Once'
BY DEF Once, Stream

\* What a call leaves to be called.
LEMMA CallingType ==
  ASSUME Types, NEW h, Calling(h)
  PROVE  pc = "call" /\ pc' = pc /\ table' = table
         /\ calls' \in [src : SUBSET Handlers, all : SUBSET Handlers]
BY DEF Types, Calling

\* An event that comes is not before the first.
LEMMA HeadStays ==
  ASSUME Types, Handling, UNCHANGED <<pc, table, alive>>, pc # "delete",
         NEW u \in Tables, NEW e \in Events, pending'[u] = Append(pending[u], e),
         \A t \in Tables \ {u} : pending'[t] = pending[t]
  PROVE  Handling'
<1>1. table \in Tables /\ \A t \in Tables : pending[t] \in Seq(Events)
  BY DEF Types
<1>2. CASE pc' = "call"
  <2>1. pending[table] # <<>> /\ Front.needs \subseteq alive /\ Front.src \in alive
    BY <1>2 DEF Handling, Valid
  <2>2. pending'[table] # <<>> /\ Head(pending'[table]) = Head(pending[table])
    BY <1>1, <2>1
  <2>3. Front' = Front /\ pending'[table'] # <<>>
    BY <2>2 DEF Front
  <2>4. QED BY <1>2, <2>1, <2>3 DEF Handling, Valid
<1>3. CASE pc' # "call"
  BY <1>3 DEF Handling
<1>4. QED BY <1>2, <1>3

\* Nothing that concerns the event in hand changes.
LEMMA HandlingSame ==
  ASSUME Handling, UNCHANGED <<pending, pc, table, alive>> PROVE Handling'
BY DEF Handling, Front, Valid

\* Somebody posts.
LEMMA PostInv ==
  ASSUME IInv, NEW src \in alive, NEW e \in NewEvents(src, tick), Counted,
         pending' = [pending EXCEPT ![Table[src]] = Append(@, e)], UNCHANGED <<delayed, delivered>>,
         UNCHANGED <<signals, alive, tick, pc, table>>,
         calls' \in [src : SUBSET Handlers, all : SUBSET Handlers], notified' = TRUE,
         pc = "call" \/ ~Locked(Table[src]),
         \/ UNCHANGED <<toDelete, doomed>>
         \/ /\ src \notin Immortal
            /\ toDelete' = [toDelete EXCEPT ![Table[src]] = @ \cup {src}]
            /\ doomed' = doomed \cup {src}
  PROVE  IInv'
<1>1. /\ pending' \in [Tables -> Seq(Events)] /\ count' \in 0..MaxEvents /\ Once'
      /\ e \in Events /\ Table[src] \in Tables
      /\ pending'[Table[src]] = Append(pending[Table[src]], e)
      /\ \A t \in Tables \ {Table[src]} : pending'[t] = pending[t]
  BY PostKeeps DEF IInv
<1>2. src \in Objects /\ doomed \in SUBSET Objects /\ toDelete \in [Tables -> SUBSET Objects]
  BY DEF IInv, Types
<1>3. Dying' /\ toDelete' \in [Tables -> SUBSET Objects] /\ doomed' \in SUBSET Objects
  BY <1>1, <1>2 DEF IInv, Dying
<1>4. Types'
  BY <1>1, <1>3 DEF IInv, Types, signals
<1>5. Handling'
  <2>1. CASE pc # "delete"
    BY <1>1, <2>1, HeadStays DEF IInv
  <2>2. CASE pc = "delete"
    <3>1. table # Table[src]
      BY <2>2 DEF Locked
    <3>2. pending'[table] = pending[table]
      BY <1>1, <3>1 DEF IInv, Types
    <3>3. QED BY <2>2, <3>2 DEF IInv, Handling
  <2>3. QED BY <2>1, <2>2
<1>6. QED BY <1>1, <1>3, <1>4, <1>5 DEF IInv

\* Another thread posts.
LEMMA ThreadInv ==
  ASSUME IInv, NEW src \in Objects, ThreadPosts(src) PROVE IInv'
<1>1. /\ src \in alive /\ ~Locked(Table[src]) /\ Counted /\ notified' = TRUE
      /\ UNCHANGED <<signals, alive, tick, main, delivered>>
      /\ UNCHANGED <<delayed, toDelete, doomed>>
  BY DEF ThreadPosts, postEvent
<1>2. PICK e \in NewEvents(src, tick) : pending' = [pending EXCEPT ![Table[src]] = Append(@, e)]
  BY DEF ThreadPosts, postEvent
<1>3. calls' \in [src : SUBSET Handlers, all : SUBSET Handlers]
  BY <1>1 DEF main, IInv, Types
<1>4. QED BY <1>1, <1>2, <1>3, PostInv DEF main

\* A handler posts.
LEMMA PostsInv ==
  ASSUME IInv, NEW h, Posts(h) PROVE IInv'
<1>1. /\ pc = "call" /\ pc' = pc /\ table' = table
      /\ calls' \in [src : SUBSET Handlers, all : SUBSET Handlers]
      /\ UNCHANGED <<signals, alive, tick, delivered>>
  BY CallingType DEF Posts, IInv
<1>2. PICK o \in alive : postEvent(o) \/ postDelayed(o)
  BY DEF Posts
<1>3. CASE postEvent(o)
  <2>1. Counted /\ notified' = TRUE /\ UNCHANGED <<delayed, toDelete, doomed>>
    BY <1>3 DEF postEvent
  <2>2. PICK e \in NewEvents(o, tick) : pending' = [pending EXCEPT ![Table[o]] = Append(@, e)]
    BY <1>3 DEF postEvent
  <2>3. QED BY <1>1, <2>1, <2>2, PostInv
<1>4. CASE postDelayed(o)
  <2>1. /\ delayed' \in [Tables -> Seq(Events)] /\ count' \in 0..MaxEvents /\ Once'
        /\ UNCHANGED <<pending, toDelete, doomed, notified>>
    BY <1>1, <1>4, DelayKeeps DEF IInv
  <2>2. Types'
    BY <1>1, <2>1 DEF IInv, Types, signals
  <2>3. Dying' /\ Handling'
    BY <1>1, <2>1, HandlingSame DEF IInv, Dying
  <2>4. QED BY <2>1, <2>2, <2>3 DEF IInv
<1>5. QED BY <1>2, <1>3, <1>4

\* A handler calls safeDelete().
LEMMA DoomsInv ==
  ASSUME IInv, NEW h, Dooms(h) PROVE IInv'
<1>1. /\ pc = "call" /\ pc' = pc /\ table' = table
      /\ calls' \in [src : SUBSET Handlers, all : SUBSET Handlers]
      /\ UNCHANGED <<signals, alive, tick, delivered>>
  BY CallingType DEF Dooms, IInv
<1>2. PICK o \in alive : safeDelete(o) \/ safeDeleteEvent(o)
  BY DEF Dooms
<1>3. /\ o \notin Immortal
      /\ toDelete' = [toDelete EXCEPT ![Table[o]] = @ \cup {o}]
      /\ doomed' = doomed \cup {o}
  BY <1>2 DEF safeDelete, safeDeleteEvent
<1>4. CASE safeDelete(o)
  <2>1. UNCHANGED <<queues, notified, count>>
    BY <1>4 DEF safeDelete
  <2>2. o \in Objects /\ Table[o] \in Tables /\ doomed \in SUBSET Objects
        /\ toDelete \in [Tables -> SUBSET Objects]
    BY EventTableAssumption DEF IInv, Types
  <2>3. Dying' /\ toDelete' \in [Tables -> SUBSET Objects] /\ doomed' \in SUBSET Objects
    BY <1>1, <1>3, <2>2 DEF IInv, Dying
  <2>4. Types'
    BY <1>1, <2>1, <2>3 DEF IInv, Types, signals, queues
  <2>5. Once' /\ Handling'
    BY <1>1, <2>1, OnceSame, HandlingSame DEF IInv, queues
  <2>6. QED BY <2>3, <2>4, <2>5 DEF IInv
<1>5. CASE safeDeleteEvent(o)
  <2>1. Counted /\ notified' = TRUE /\ UNCHANGED delayed
    BY <1>5 DEF safeDeleteEvent
  <2>2. PICK e \in NewEvents(o, tick) : pending' = [pending EXCEPT ![Table[o]] = Append(@, e)]
    BY <1>5 DEF safeDeleteEvent
  <2>3. QED BY <1>1, <1>3, <2>1, <2>2, PostInv
<1>6. QED BY <1>2, <1>4, <1>5

\* A handler deletes an object that it owns, which the event in hand is not about.
LEMMA KillsInv ==
  ASSUME IInv, NEW h, Kills(h) PROVE IInv'
<1>1. /\ pc = "call" /\ pc' = pc /\ table' = table
      /\ calls' \in [src : SUBSET Handlers, all : SUBSET Handlers]
      /\ UNCHANGED <<queues, toDelete, allSig, tick, notified, count, observer>>
  BY CallingType DEF Kills, IInv
<1>2. PICK o \in alive \ (doomed \cup Immortal \cup Front.needs \cup {Front.src}) :
        alive' = alive \ {o} /\ sigMap' = [sigMap EXCEPT ![o] = {}]
  BY DEF Kills
<1>3. Types'
  BY <1>1, <1>2 DEF IInv, Types, queues, observer
<1>4. Dying'
  BY <1>1, <1>2 DEF IInv, Dying, observer
<1>5. Handling'
  <2>1. pending[table] # <<>> /\ Front.needs \subseteq alive /\ Front.src \in alive
    BY <1>1 DEF IInv, Handling, Valid
  <2>2. Front' = Front /\ pending' = pending
    BY <1>1 DEF Front, queues
  <2>3. QED BY <1>1, <1>2, <2>1, <2>2 DEF Handling, Valid
<1>6. QED BY <1>1, <1>3, <1>4, <1>5, OnceSame DEF IInv, queues, observer

\* Handlers are added and removed.
LEMMA ConnectsInv ==
  ASSUME IInv, NEW h, Connects(h) PROVE IInv'
<1>1. /\ pc = "call" /\ pc' = pc /\ table' = table
      /\ calls' \in [src : SUBSET Handlers, all : SUBSET Handlers]
      /\ UNCHANGED <<queues, toDelete, alive, tick, notified, count, observer>>
  BY CallingType DEF Connects, IInv
<1>2. sigMap' \in [Objects -> SUBSET Handlers] /\ allSig' \in [Tables -> SUBSET Handlers]
  <2>1. sigMap \in [Objects -> SUBSET Handlers] /\ allSig \in [Tables -> SUBSET Handlers]
    BY DEF IInv, Types
  <2>2. ASSUME NEW o \in alive, NEW k \in Handlers,
               sigMap' \in {[sigMap EXCEPT ![o] = @ \cup {k}], [sigMap EXCEPT ![o] = @ \ {k}]}
        PROVE  sigMap' \in [Objects -> SUBSET Handlers]
    BY <2>1, <2>2
  <2>3. ASSUME NEW t \in Tables, NEW k \in Handlers,
               allSig' \in {[allSig EXCEPT ![t] = @ \cup {k}], [allSig EXCEPT ![t] = @ \ {k}]}
        PROVE  allSig' \in [Tables -> SUBSET Handlers]
    BY <2>1, <2>3
  <2>4. QED BY <2>1, <2>2, <2>3 DEF Connects
<1>3. Types'
  BY <1>1, <1>2 DEF IInv, Types, queues, observer
<1>4. Dying' /\ Handling' /\ Once'
  BY <1>1, OnceSame, HandlingSame DEF IInv, Dying, queues, observer
<1>5. QED BY <1>3, <1>4 DEF IInv

\* The delayed events that are due move.
LEMMA MoveInv ==
  ASSUME IInv, Move
  PROVE  /\ IInv' /\ \A t \in Tables \ {table} : pending'[t] = pending[t]
         /\ Len(pending'[table]) >= Len(pending[table])
         /\ \A i \in 1..Len(pending[table]) : pending'[table][i] = pending[table][i]
<1> DEFINE p == pending[table]
           d == delayed[table]
           k == Due(table)
           a == p \o SubSeq(d, 1, k)
           z == SubSeq(d, k + 1, Len(d))
<1>1. /\ pending \in [Tables -> Seq(Events)] /\ delayed \in [Tables -> Seq(Events)]
      /\ table \in Tables /\ k \in 0..Len(d) /\ Types
  BY DueType DEF IInv, Types
<1>2. /\ pending' = [pending EXCEPT ![table] = @ \o SubSeq(delayed[table], 1, Due(table))]
      /\ delayed' = [delayed EXCEPT ![table] = SubSeq(@, Due(table) + 1, Len(@))]
  BY DEF Move
<1>3. pending'[table] = a /\ delayed'[table] = z
  BY <1>1, <1>2
<1>4. \A t \in Tables \ {table} : pending'[t] = pending[t] /\ delayed'[t] = delayed[t]
  BY <1>1, <1>2
<1>5. /\ a \in Seq(Events) /\ z \in Seq(Events) /\ Len(a) = Len(p) + k
      /\ \A i \in 1..Len(p) : a[i] = p[i]
      /\ Len(a \o z) = Len(p \o d) /\ \A i \in 1..Len(a \o z) : (a \o z)[i] = (p \o d)[i]
  <2>1. p \in Seq(Events) /\ d \in Seq(Events) /\ k \in 0..Len(d)
    BY <1>1
  <2> HIDE DEF p, d, k
  <2>2. QED BY <2>1, MoveSame
<1>6. /\ pending' \in [Tables -> Seq(Events)] /\ delayed' \in [Tables -> Seq(Events)]
  <2>1. pending' = [pending EXCEPT ![table] = a] /\ delayed' = [delayed EXCEPT ![table] = z]
    BY <1>1, <1>2
  <2> HIDE DEF a, z
  <2>2. QED BY <1>1, <1>5, <2>1
<1>7. /\ pc' = "lock"
      /\ UNCHANGED <<toDelete, signals, alive, tick, table, calls, notified, count, observer>>
  BY DEF Move
<1>8. Types'
  BY <1>6, <1>7 DEF IInv, Types, signals, observer
<1>9. Once'
  <2>1. ASSUME NEW t \in Tables PROVE Fine(Stream(t)', t, count, delivered)
    <3>1. Fine(Stream(t), t, count, delivered) /\ Stream(t) \in Seq(Events) /\ Stream(t)' \in Seq(Events)
      BY <1>1, <1>8, StreamType, Joined DEF IInv, Once, Types, Stream
    <3>2. CASE t # table
      <4>1. Stream(t)' = Stream(t)
        BY <1>4, <3>2 DEF Stream
      <4>2. QED BY <3>1, <4>1
    <3>3. CASE t = table
      <4>1. Stream(t) = p \o d /\ Stream(t)' = a \o z
        BY <1>3, <3>3 DEF Stream
      <4> DEFINE q == Stream(t)
                 r == Stream(t)'
      <4>2. /\ q \in Seq(Events) /\ r \in Seq(Events) /\ Fine(q, t, count, delivered)
            /\ Len(r) = Len(q) /\ \A i \in 1..Len(r) : r[i] = q[i]
        BY <1>5, <3>1, <4>1
      <4> HIDE DEF q, r
      <4>3. Fine(r, t, count, delivered)
        BY <4>2, FineSame
      <4>4. QED BY <4>3 DEF r
    <3>4. QED BY <3>2, <3>3
  <2>2. QED BY <1>7, <2>1 DEF IInv, Once, observer
<1>10. Dying' /\ Handling'
  BY <1>7 DEF IInv, Dying, Handling, observer
<1>11. Len(a) >= Len(p)
  <2>1. Len(p) \in Nat /\ k \in Nat
    BY <1>1
  <2> HIDE DEF a, p, k
  <2>2. QED BY <1>5, <2>1
<1>12. QED BY <1>3, <1>4, <1>5, <1>8, <1>9, <1>10, <1>11 DEF IInv

\* The first event of the queue in hand leaves it.
LEMMA PopInv ==
  ASSUME IInv, pending[table] # <<>>, Pop, pc \in {"dispatch", "call"}, pc' = "dispatch",
         UNCHANGED <<delayed, toDelete, signals, alive, tick, table, notified, count, doomed>>,
         calls' \in [src : SUBSET Handlers, all : SUBSET Handlers],
         delivered' \in {delivered, delivered \cup {Front}}
  PROVE  IInv' /\ Front \notin delivered
<1> DEFINE p == pending[table]
           d == delayed[table]
<1>1. /\ pending \in [Tables -> Seq(Events)] /\ delayed \in [Tables -> Seq(Events)]
      /\ table \in Tables /\ p \in Seq(Events) /\ d \in Seq(Events) /\ p # <<>>
  BY DEF IInv, Types
<1>2. Fine(p \o d, table, count, delivered)
  BY <1>1 DEF IInv, Once, Stream
<1>3. /\ Front \in Events /\ Tail(p) \in Seq(Events)
      /\ Table[Front.src] = table /\ Front.id <= count /\ Front \notin delivered
      /\ Fine(Tail(p) \o d, table, count, delivered \cup {Front})
  <2> HIDE DEF d
  <2>1. Front = Head(p)
    BY DEF Front
  <2> HIDE DEF p
  <2>2. QED BY <1>1, <1>2, <2>1, FinePopped
<1>4. /\ pending' \in [Tables -> Seq(Events)] /\ pending'[table] = Tail(p)
      /\ \A t \in Tables \ {table} : pending'[t] = pending[t]
  <2>1. pending' = [pending EXCEPT ![table] = Tail(p)]
    BY <1>1 DEF Pop
  <2> HIDE DEF p
  <2>2. QED BY <1>1, <1>3, <2>1
<1>5. Types'
  <2>1. delivered' \in SUBSET Events
    BY <1>3 DEF IInv, Types
  <2>2. QED BY <1>4, <2>1 DEF IInv, Types, signals
<1>6. ASSUME NEW t \in Tables PROVE Fine(Stream(t)', t, count, delivered')
  <2>1. Fine(Stream(t)', t, count, delivered \cup {Front})
    <3>1. CASE t = table
      <4>1. Stream(t)' = Tail(p) \o d
        BY <1>4, <3>1 DEF Stream
      <4>2. QED BY <1>3, <3>1, <4>1
    <3>2. CASE t # table
      <4>1. Stream(t)' = Stream(t)
        BY <1>4, <3>2 DEF Stream
      <4>2. Fine(Stream(t), t, count, delivered) /\ Stream(t) \in Seq(Events)
        BY <1>1, StreamType DEF IInv, Once
      <4>3. Fine(Stream(t), t, count, delivered \cup {Front})
        BY <1>3, <3>2, <4>2, FineOther
      <4>4. QED BY <4>1, <4>3
    <3>3. QED BY <3>1, <3>2
  <2>2. QED BY <2>1 DEF Fine
<1>7. Once'
  <2>1. \A e \in delivered' : e.id <= count'
    BY <1>3 DEF IInv, Once
  <2>2. QED BY <1>6, <2>1 DEF Once
<1>8. Dying' /\ Handling'
  BY DEF IInv, Dying, Handling
<1>9. QED BY <1>3, <1>5, <1>7, <1>8 DEF IInv

\* The main thread goes on without an event.
LEMMA MainInv ==
  ASSUME IInv, Wait \/ Lock \/ Dispatch \/ Drained \/ NextTable PROVE IInv'
<1>1. UNCHANGED <<queues, toDelete, signals, alive, count, observer>>
  BY DEF Wait, Lock, Dispatch, Drained, NextTable
<1>2. Types'
  <2>1. CASE Wait
    <3>1. 1 \in Tables /\ tick' \in 0..MaxTick
      BY <2>1, EventTableAssumption DEF Wait
    <3>2. QED BY <1>1, <2>1, <3>1 DEF Wait, IInv, Types, queues, signals, observer
  <2>2. CASE Lock \/ Drained
    BY <1>1, <2>2 DEF Lock, Drained, IInv, Types, queues, signals, observer
  <2>3. CASE Dispatch
    <3>1. pending[table] \in Seq(Events) /\ pending[table] # <<>> /\ table \in Tables
      BY <2>3 DEF Dispatch, IInv, Types
    <3>2. Front.src \in Objects
      <4>1. Front \in Events
        BY <3>1, HeadTailProperties DEF Front
      <4>2. QED BY <4>1 DEF Events, EventSet
    <3>3. calls' \in [src : SUBSET Handlers, all : SUBSET Handlers]
      BY <2>3, <3>1, <3>2 DEF Dispatch, IInv, Types
    <3>4. QED BY <1>1, <2>3, <3>3 DEF Dispatch, IInv, Types, queues, signals, observer
  <2>4. CASE NextTable
    <3>1. table' \in Tables /\ pc' \in {"move", "wait"}
      BY <2>4, EventTableAssumption DEF NextTable
    <3>2. QED BY <1>1, <2>4, <3>1 DEF NextTable, IInv, Types, queues, signals, observer
  <2>5. QED BY <2>1, <2>2, <2>3, <2>4
<1>3. Once' /\ Dying'
  BY <1>1, OnceSame DEF IInv, Dying, queues, observer
<1>4. Handling'
  <2>1. CASE Wait \/ Lock \/ NextTable
    BY <2>1 DEF Wait, Lock, NextTable, Handling
  <2>2. CASE Drained
    BY <2>2 DEF Drained, Handling, queues
  <2>3. CASE Dispatch
    <3>1. pending' = pending /\ table' = table /\ alive' = alive
      BY <1>1, <2>3 DEF Dispatch, queues
    <3>2. Front' = Front
      BY <3>1 DEF Front
    <3>3. pending[table] # <<>> /\ Front.needs \subseteq alive
      BY <2>3 DEF Dispatch, Valid
    <3>4. Front.src \in alive
      <4>1. Front \in Events
        BY <3>3, HeadTailProperties DEF Front, IInv, Types
      <4>2. Front.src \in Immortal \/ Front.src \in Front.needs
        BY <4>1 DEF Events
      <4>3. QED BY <3>3, <4>2 DEF IInv, Dying
    <3>5. QED BY <2>3, <3>1, <3>2, <3>3, <3>4 DEF Dispatch, Handling, Valid
  <2>4. QED BY <2>1, <2>2, <2>3
<1>5. QED BY <1>2, <1>3, <1>4 DEF IInv

\* checkDelete() deletes an object.
LEMMA DeleteInv ==
  ASSUME IInv, NEW o \in Objects, Delete(o) PROVE IInv'
<1>1. /\ pc = "delete" /\ o \in toDelete[table] /\ alive' = alive \ {o}
      /\ sigMap' = [sigMap EXCEPT ![o] = {}]
      /\ UNCHANGED <<queues, allSig, tick, main, notified, count, delivered>>
  BY DEF Delete
<1>2. PICK D \in SUBSET {x \in alive \ Immortal : Table[x] # table} :
        /\ doomed' = doomed \cup D
        /\ toDelete' = [t \in Tables |-> (toDelete[t] \cup {x \in D : Table[x] = t}) \ {o}]
  BY DEF Delete
<1>3. Table[o] = table /\ o \in doomed /\ o \in alive /\ o \notin Immortal /\ table \in Tables
  BY <1>1 DEF IInv, Dying, Types
<1>4. Types'
  <2>1. sigMap' \in [Objects -> SUBSET Handlers]
    BY <1>1 DEF IInv, Types
  <2>2. doomed' \in SUBSET Objects /\ toDelete' \in [Tables -> SUBSET Objects]
    BY <1>2 DEF IInv, Types
  <2>3. QED BY <1>1, <2>1, <2>2 DEF IInv, Types, queues, main
<1>5. Dying'
  <2>1. Immortal \subseteq alive'
    BY <1>1, <1>3 DEF IInv, Dying
  <2>2. ASSUME NEW t \in Tables, NEW x \in toDelete'[t]
        PROVE  Table[x] = t /\ x \in doomed' /\ x \in alive' /\ x \notin Immortal
    <3>1. x # o /\ (x \in toDelete[t] \/ (x \in D /\ Table[x] = t))
      BY <1>2, <2>2
    <3>2. QED BY <1>1, <1>2, <3>1 DEF IInv, Dying
  <2>3. QED BY <2>1, <2>2 DEF Dying
<1>6. Handling' /\ Once'
  BY <1>1, OnceSame DEF IInv, Handling, queues, main
<1>7. QED BY <1>4, <1>5, <1>6 DEF IInv

-----------------------------------------------------------------------------
(* Every state.                                                              *)

\* Every list is empty when the program starts.
LEMMA InitIInv == Init => IInv
<1> SUFFICES ASSUME Init PROVE IInv
  OBVIOUS
<1>1. Types
  <2>1. <<>> \in Seq(Events)
    OBVIOUS
  <2>2. sigMap \in [Objects -> SUBSET Handlers]
    BY DEF Init
  <2>3. calls \in [src : SUBSET Handlers, all : SUBSET Handlers]
    BY DEF Init, NoCalls
  <2>4. 0 \in 0..MaxTick /\ 0 \in 0..MaxEvents /\ 1 \in Tables
    BY EventTableAssumption
  <2>5. /\ pending \in [Tables -> Seq(Events)] /\ delayed \in [Tables -> Seq(Events)]
        /\ toDelete \in [Tables -> SUBSET Objects] /\ allSig \in [Tables -> SUBSET Handlers]
    BY <2>1 DEF Init
  <2>6. QED BY <2>2, <2>3, <2>4, <2>5 DEF Init, Types
<1>2. Once
  <2>1. \A t \in Tables : Stream(t) = <<>>
    BY DEF Init, Stream
  <2>2. QED BY <2>1 DEF Init, Once, Fine
<1>3. Dying
  BY EventTableAssumption DEF Init, Dying
<1>4. Handling
  BY DEF Init, Handling
<1>5. QED BY <1>1, <1>2, <1>3, <1>4 DEF IInv

\* An event one of whose objects is gone leaves the queue.
LEMMA DropInv ==
  ASSUME IInv, DropInvalid PROVE IInv'
<1>1. /\ pc = "dispatch" /\ pc' = "dispatch" /\ pending[table] # <<>> /\ Pop
      /\ UNCHANGED <<delayed, toDelete, signals, alive, tick, table, notified, count, doomed>>
      /\ delivered' = delivered /\ calls' = calls
  BY DEF DropInvalid, main, observer
<1>2. calls' \in [src : SUBSET Handlers, all : SUBSET Handlers]
  BY <1>1 DEF IInv, Types
<1>3. QED BY <1>1, <1>2, PopInv

\* The event whose handlers were called leaves the queue, and was not handled
\* before.
LEMMA HandledInv ==
  ASSUME IInv, Handled PROVE IInv' /\ pending[table] # <<>> /\ Front \notin delivered
<1>1. /\ pc = "call" /\ pc' = "dispatch" /\ Pop /\ calls' = NoCalls
      /\ UNCHANGED <<delayed, toDelete, signals, alive, tick, table, notified, count, doomed>>
      /\ delivered' = delivered \cup {Front}
  BY DEF Handled
<1>2. calls' \in [src : SUBSET Handlers, all : SUBSET Handlers]
  BY <1>1 DEF NoCalls
<1>3. pending[table] # <<>>
  BY <1>1 DEF IInv, Handling
<1>4. QED BY <1>1, <1>2, <1>3, PopInv

\* The main loop, its handlers and the other threads keep it.
LEMMA StepInv == IInv /\ [Next]_vars => IInv'
<1> SUFFICES ASSUME IInv, [Next]_vars PROVE IInv'
  OBVIOUS
<1>1. CASE Wait \/ Lock \/ Dispatch \/ Drained \/ NextTable
  BY <1>1, MainInv
<1>2. CASE Move
  BY <1>2, MoveInv
<1>3. CASE DropInvalid
  BY <1>3, DropInv
<1>4. CASE Handled
  BY <1>4, HandledInv
<1>5. CASE \E o \in Objects : Delete(o)
  BY <1>5, DeleteInv
<1>6. CASE \E h \in Handlers : Posts(h) \/ Dooms(h) \/ Kills(h) \/ Connects(h)
  BY <1>6, PostsInv, DoomsInv, KillsInv, ConnectsInv
<1>7. CASE \E src \in Objects : ThreadPosts(src)
  BY <1>7, ThreadInv
<1>8. CASE UNCHANGED vars
  <2>1. /\ UNCHANGED <<pending, delayed, toDelete, sigMap, allSig, alive, tick, pc, table>>
        /\ UNCHANGED <<calls, notified, count, doomed, delivered>>
    BY <1>8 DEF vars, queues, signals, main, observer
  <2>2. Types' /\ Dying'
    BY <2>1 DEF IInv, Types, Dying
  <2>3. Once' /\ Handling'
    BY <2>1, OnceSame, HandlingSame DEF IInv
  <2>4. QED BY <2>2, <2>3 DEF IInv
<1>9. QED
  BY <1>1, <1>2, <1>3, <1>4, <1>5, <1>6, <1>7, <1>8 DEF Next, Work

\* The invariant holds throughout (eventbase.cpp, EventMain::process(); event.h,
\* EventTable::process() and checkDelete()).
THEOREM Invariance == Spec => []IInv
  BY InitIInv, StepInv, PTL DEF Spec

\* The variables keep their types: what waits in the queues are events, of the
\* objects there were, and the counters stay in their bounds.
THEOREM TypeCorrect == Spec => []TypeOK
<1>1. IInv => TypeOK
  <2> SUFFICES ASSUME IInv PROVE TypeOK
    OBVIOUS
  <2>1. Events \subseteq EventSet
    BY DEF Events
  <2>2. Seq(Events) \subseteq Seq(EventSet)
    BY <2>1
  <2>3. QED BY <2>1, <2>2 DEF IInv, Types, TypeOK
<1>2. QED BY <1>1, Invariance, PTL

\* A handler is only called for an event whose source and whose other objects are
\* all alive, whatever the handlers before it deleted (event.h, process(): the
\* validators, and the order of the queue and checkDelete()).
THEOREM NoGhostCalled == Spec => []NoGhosts
<1>1. IInv => NoGhosts
  BY DEF IInv, Handling, NoGhosts, Valid
<1>2. QED BY <1>1, Invariance, PTL

-----------------------------------------------------------------------------
(* EventTable implements Mailbox.                                            *)

\* What was in an inbox is the beginning of what is.
LEMMA Prefix ==
  ASSUME NEW S, NEW p \in Seq(S), NEW q \in Seq(S), Len(q) >= Len(p),
         \A i \in 1..Len(p) : q[i] = p[i]
  PROVE  \E n \in 0..Len(q) : p = SubSeq(q, 1, n)
<1> DEFINE n == Len(p)
<1>1. n \in 0..Len(q) /\ SubSeq(q, 1, n) \in Seq(S)
  OBVIOUS
<1>2. Len(SubSeq(q, 1, n)) = n
  BY <1>1
<1>3. \A i \in 1..n : SubSeq(q, 1, n)[i] = p[i]
  BY <1>1
<1>4. p = SubSeq(q, 1, n)
  BY <1>1, <1>2, <1>3, SeqEqual
<1>5. QED BY <1>1, <1>4

\* An event that comes to the end of its queue is posted, safeDelete() with it or
\* not.
LEMMA PostPromised ==
  ASSUME Types, Once, NEW src \in alive, NEW e \in NewEvents(src, tick), Counted,
         pending' = [pending EXCEPT ![Table[src]] = Append(@, e)],
         UNCHANGED <<delayed, delivered, alive>>,
         doomed' \in {doomed, doomed \cup {src}}
  PROVE  Promise!Post(Table[src]) /\ Table[src] \in Tables
<1> DEFINE u == Table[src]
           p == pending[u]
           q == pending'[u]
<1>1. /\ e \in Events /\ e.src = src /\ u \in Tables /\ q = Append(p, e)
      /\ \A t \in Tables \ {u} : pending'[t] = pending[t]
  BY PostKeeps
<1>2. p \in Seq(Events)
  BY <1>1 DEF Types
<1>3. /\ q \in Seq(Events) /\ Len(q) = Len(p) + 1 /\ q[Len(q)] = e /\ q # <<>>
      /\ \A i \in 1..Len(p) : q[i] = p[i]
  BY <1>1, <1>2
<1>4. Len(p) \in Nat
  BY <1>2
<1>5. \E n \in 0..Len(q) : p = SubSeq(q, 1, n)
  BY <1>2, <1>3, <1>4, Prefix
<1>6. doomed' = doomed \/ (q # <<>> /\ doomed' = doomed \cup {q[Len(q)].src})
  BY <1>1, <1>3
<1>7. QED BY <1>1, <1>5, <1>6 DEF Promise!Post

\* What the handlers do.
LEMMA HandlersPromised ==
  ASSUME IInv, NEW h \in Handlers, Posts(h) \/ Dooms(h) \/ Kills(h) \/ Connects(h)
  PROVE  [Promise!Next]_(Promise!vars)
<1>1. CASE Posts(h)
  <2>1. PICK o \in alive : postEvent(o) \/ postDelayed(o)
    BY <1>1 DEF Posts
  <2>2. UNCHANGED <<alive, delivered>>
    BY <1>1 DEF Posts
  <2>3. CASE postEvent(o)
    <3>1. Counted /\ UNCHANGED <<delayed, doomed>>
      BY <2>3 DEF postEvent
    <3>2. PICK e \in NewEvents(o, tick) : pending' = [pending EXCEPT ![Table[o]] = Append(@, e)]
      BY <2>3 DEF postEvent
    <3>3. Promise!Post(Table[o]) /\ Table[o] \in Tables
      BY <2>2, <3>1, <3>2, PostPromised DEF IInv
    <3>4. QED BY <3>3 DEF Promise!Next
  <2>4. CASE postDelayed(o)
    BY <2>2, <2>4 DEF postDelayed, Promise!vars
  <2>5. QED BY <2>1, <2>3, <2>4
<1>2. CASE Dooms(h)
  <2>1. PICK o \in alive : safeDelete(o) \/ safeDeleteEvent(o)
    BY <1>2 DEF Dooms
  <2>2. UNCHANGED <<alive, delivered>> /\ o \in Objects
    BY <1>2 DEF Dooms, IInv, Types
  <2>3. CASE safeDelete(o)
    <3>1. Promise!Doom(o)
      BY <2>2, <2>3 DEF safeDelete, queues, Promise!Doom
    <3>2. QED BY <2>2, <3>1 DEF Promise!Next
  <2>4. CASE safeDeleteEvent(o)
    <3>1. Counted /\ UNCHANGED delayed /\ doomed' = doomed \cup {o}
      BY <2>4 DEF safeDeleteEvent
    <3>2. PICK e \in NewEvents(o, tick) : pending' = [pending EXCEPT ![Table[o]] = Append(@, e)]
      BY <2>4 DEF safeDeleteEvent
    <3>3. Promise!Post(Table[o]) /\ Table[o] \in Tables
      BY <2>2, <3>1, <3>2, PostPromised DEF IInv
    <3>4. QED BY <3>3 DEF Promise!Next
  <2>5. QED BY <2>1, <2>3, <2>4
<1>3. CASE Kills(h)
  <2>1. PICK o \in alive \ (doomed \cup Immortal \cup Front.needs \cup {Front.src}) :
           alive' = alive \ {o}
    BY <1>3 DEF Kills
  <2>2. o \in Objects /\ o \in alive \ doomed /\ UNCHANGED <<pending, doomed, delivered>>
    BY <1>3, <2>1 DEF Kills, queues, observer, IInv, Types
  <2>3. Promise!Kill(o)
    BY <2>1, <2>2 DEF Promise!Kill
  <2>4. QED BY <2>2, <2>3 DEF Promise!Next
<1>4. CASE Connects(h)
  BY <1>4 DEF Connects, queues, observer, Promise!vars
<1>5. QED BY <1>1, <1>2, <1>3, <1>4

\* checkDelete() removes what safeDelete() was given, when no event of it waits in
\* any queue.
LEMMA DeletePromised ==
  ASSUME IInv, NEW o \in Objects, Delete(o) PROVE Promise!Remove(o)
<1>1. /\ pc = "delete" /\ o \in toDelete[table] /\ alive' = alive \ {o}
      /\ UNCHANGED <<pending, delayed, delivered>>
  BY DEF Delete, queues
<1>2. table \in Tables /\ Table[o] = table /\ o \in doomed \cap alive /\ o \notin Immortal
  BY <1>1 DEF IInv, Dying, Types
<1>3. pending[table] = <<>>
  BY <1>1 DEF IInv, Handling
<1>4. ~Promise!Unheard(o)
  <2> SUFFICES ASSUME NEW t \in Tables, NEW i \in 1..Len(pending[t]), pending[t][i].src = o
               PROVE  FALSE
    BY DEF Promise!Unheard
  <2>1. pending[t] \in Seq(Events) /\ delayed[t] \in Seq(Events)
    BY DEF IInv, Types
  <2>2. i \in DOMAIN Stream(t) /\ Stream(t)[i] = pending[t][i]
    <3> DEFINE p == pending[t]
               d == delayed[t]
    <3>1. p \in Seq(Events) /\ d \in Seq(Events) /\ i \in 1..Len(p)
      BY <2>1
    <3> HIDE DEF p, d
    <3>2. i \in DOMAIN (p \o d) /\ (p \o d)[i] = p[i]
      BY <3>1
    <3>3. QED BY <3>2 DEF p, d, Stream
  <2>3. Table[Stream(t)[i].src] = t
    BY <2>2 DEF IInv, Once, Fine
  <2>4. t = table
    BY <2>2, <2>3, <1>2
  <2>5. QED BY <2>4, <1>3
<1>5. PICK D \in SUBSET {x \in alive \ Immortal : Table[x] # table} : doomed' = doomed \cup D
  BY DEF Delete
<1>6. D \subseteq alive'
  BY <1>1, <1>2, <1>5
<1>7. QED BY <1>1, <1>2, <1>4, <1>5, <1>6 DEF Promise!Remove

\* Before anything is posted the tables are empty mailboxes.
LEMMA InitPromise == Init => Promise!Init
  BY DEF Init, Promise!Init

\* Every step of the main loop, of a handler and of another thread is a step of
\* the mailboxes or changes nothing in them.
LEMMA StepPromise == IInv /\ [Next]_vars => [Promise!Next]_(Promise!vars)
<1> SUFFICES ASSUME IInv, [Next]_vars PROVE [Promise!Next]_(Promise!vars)
  OBVIOUS
<1>1. table \in Tables /\ \A t \in Tables : pending[t] \in Seq(Events)
  BY DEF IInv, Types
<1>2. CASE Wait \/ Lock \/ Dispatch \/ Drained \/ NextTable \/ UNCHANGED vars
  BY <1>2 DEF Wait, Lock, Dispatch, Drained, NextTable, vars, queues, observer, Promise!vars
<1>3. CASE Move
  <2>1. /\ IInv' /\ \A t \in Tables \ {table} : pending'[t] = pending[t]
        /\ Len(pending'[table]) >= Len(pending[table])
        /\ \A i \in 1..Len(pending[table]) : pending'[table][i] = pending[table][i]
    BY <1>3, MoveInv
  <2>2. pending[table] \in Seq(Events) /\ pending'[table] \in Seq(Events)
    BY <1>1, <2>1 DEF IInv, Types
  <2>3. \E n \in 0..Len(pending'[table]) : pending[table] = SubSeq(pending'[table], 1, n)
    BY <2>1, <2>2, Prefix
  <2>4. UNCHANGED <<alive, doomed, delivered>>
    BY <1>3 DEF Move, observer
  <2>5. Promise!Post(table)
    BY <2>1, <2>3, <2>4 DEF Promise!Post
  <2>6. QED BY <1>1, <2>5 DEF Promise!Next
<1>4. CASE DropInvalid
  <2>1. Promise!Drop(table)
    BY <1>4 DEF DropInvalid, Pop, Front, Valid, observer, Promise!Drop
  <2>2. QED BY <1>1, <2>1 DEF Promise!Next
<1>5. CASE Handled
  <2>0. Front.needs \subseteq alive /\ Front.src \in alive
    BY <1>5 DEF IInv, Handling, Handled, Valid
  <2>1. Promise!Deliver(table)
    BY <1>5, <2>0, HandledInv DEF Handled, Pop, Front, Promise!Deliver
  <2>2. QED BY <1>1, <2>1 DEF Promise!Next
<1>6. CASE \E o \in Objects : Delete(o)
  BY <1>6, DeletePromised DEF Promise!Next
<1>7. CASE \E h \in Handlers : Posts(h) \/ Dooms(h) \/ Kills(h) \/ Connects(h)
  BY <1>7, HandlersPromised
<1>8. ASSUME NEW src \in Objects, ThreadPosts(src) PROVE [Promise!Next]_(Promise!vars)
  <2>1. src \in alive /\ Counted /\ UNCHANGED <<delayed, delivered, alive, doomed>>
    BY <1>8 DEF ThreadPosts, postEvent
  <2>2. PICK e \in NewEvents(src, tick) : pending' = [pending EXCEPT ![Table[src]] = Append(@, e)]
    BY <1>8 DEF ThreadPosts, postEvent
  <2>3. Promise!Post(Table[src]) /\ Table[src] \in Tables
    BY <2>1, <2>2, PostPromised DEF IInv
  <2>4. QED BY <2>3 DEF Promise!Next
<1>9. QED
  BY <1>2, <1>3, <1>4, <1>5, <1>6, <1>7, <1>8 DEF Next, Work

\* The tables keep what event.h promises, for any number of tables, sources,
\* handlers, events and threads that post: order, one delivery each, and no object
\* deleted by safeDelete() before its last event was handled.
THEOREM Refinement == Spec => ImplementsMailbox
  BY InitPromise, StepPromise, Invariance, PTL DEF Spec, Promise!Spec, ImplementsMailbox
=============================================================================
