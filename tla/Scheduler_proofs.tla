-------------------------- MODULE Scheduler_proofs --------------------------
(***************************************************************************)
(* Proofs about Scheduler, for any number of sockets and addresses and any *)
(* limits, whether the allocator gives out addresses again or not: no slot *)
(* of the connecting sockets is lost, no more sockets are open than are    *)
(* counted, and what select() reported once is served.                     *)
(*                                                                         *)
(* The three rest on one invariant.  What the counts need is an argument   *)
(* about names: requests and events find a socket by its address, so that  *)
(* it must be shown that an event which takes a slot back is never about   *)
(* another socket than the one that lost it.                               *)
(***************************************************************************)
EXTENDS Scheduler, FiniteSetTheorems, SequenceTheorems, TLAPS

-----------------------------------------------------------------------------
(* The inductive invariant.                                                  *)

\* The types, but for the counts: that these stay natural numbers follows from
\* what they count.
Types ==
    /\ SocketsTypeOK
    /\ wrap \in [Socks -> Wrap]
    /\ up \in [Socks -> Reqs] /\ down \in [Socks -> Reqs]
    /\ conn \in [Socks -> Reqs] /\ acc \in Reqs
    /\ accepted \in SUBSET Socks
    /\ connCnt \in Int /\ connectingCnt \in Int
    /\ pc \in Pcs
    /\ left \in SUBSET (Socks \cup {Server})
    /\ rem \in SUBSET (Socks \cup {Server})
    /\ note \in SUBSET (Socks \cup {Server})
    /\ user \in BOOLEAN /\ misled \in SUBSET Socks

\* What the wrappers and the plugins hold exists, and an address is that of one
\* object only; a socket that was not open yet has nothing to read.
Living ==
    /\ \A s \in Socks : Exists(s) => ptr[s] \in Addrs
    /\ \A r, s \in Socks : Exists(r) /\ Exists(s) /\ ptr[r] = ptr[s] => r = s
    /\ \A s \in Socks : Registered(s) => Exists(s) /\ ~impl[s].toDelete
    /\ \A s \in Socks : impl[s].stage \in {"unborn", "fresh", "connecting"} =>
                            ~impl[s].hasData /\ ~impl[s].writable
    /\ \A s \in Socks : impl[s].stage = "unborn" => ~impl[s].toDelete /\ ptr[s] = None

\* An accepted connection is nobody's until the plugin is told, in the same round.
Waiting ==
    /\ \A s \in accepted : /\ Exists(s) /\ ~impl[s].toDelete /\ ~Registered(s)
                           /\ ~impl[s].hasData /\ ~impl[s].writable
    /\ accepted # {} => Server \in note /\ pc \in {"conn", "connNotify"}

\* Who has a slot, or is to get one.
Holding ==
    /\ \A s \in Socks : conn[s] = "valid" => Registered(s) /\ impl[s].stage = "fresh"
    /\ \A s \in Socks : wrap[s].connecting =>
          /\ Registered(s) /\ impl[s].stage # "fresh"
          /\ impl[s].stage = "connecting" \/ Coming(s, Losses \cup {"SOCK_CONNECTED"})

\* The news of a loss is about a socket that is lost, or at an address that only a
\* fresh socket got since; outside the drain it is about one that is still there.
Stale ==
    /\ \A k \in 1..Len(events) : \A s \in Socks :
          events[k].evt \in Losses /\ events[k].at = ptr[s] /\ Exists(s)
             => impl[s].stage \in {"fresh", "closed"}
    /\ pc # "drain" =>
          \A k \in 1..Len(events) :
             /\ events[k].evt \in Losses
             /\ \E s \in Socks : impl[s].stage = "closed" /\ ptr[s] = events[k].at

\* Plugins are not called while a round goes through its requests; those that the
\* second round puts aside stay invalid.
Rounded ==
    /\ pc \in {"down", "up", "conn"} => ~user
    /\ pc = "up" => \A s \in rem \cap Socks : up[s] = "invalid"

LostIn(q) == {k \in 1..Len(q) : q[k].evt \in Losses}
Holders == {s \in Socks : wrap[s].connecting}

\* Every open socket, and every loss to be told, is on the count.
Counting ==
    /\ connectingCnt = Cardinality(Holders) /\ connectingCnt <= ConnectingLimit
    /\ Cardinality(OpenSocks) + Cardinality(LostIn(events)) <= connCnt /\ connCnt <= ConnLimit

IInv ==
    /\ Types /\ Living /\ Waiting /\ Holding /\ Stale /\ Rounded /\ Counting
    /\ ReadsServed /\ WritesServed

-----------------------------------------------------------------------------
(* Requests, wrappers and counts.                                            *)

\* A request that is asked for is wanted; nobody else's is not.
LEMMA AskedKeeps ==
  ASSUME NEW req \in [Socks -> Reqs], NEW s \in Socks
  PROVE  /\ Asked(req, s) \in [Socks -> Reqs]
         /\ Wanted(Asked(req, s), s)
         /\ \A t \in Socks : Wanted(req, t) => Wanted(Asked(req, s), t)
<1>1. CASE ReqAt(req, ptr[s]) # {}
  <2>1. Asked(req, s) = [r \in Socks |-> IF r \in ReqAt(req, ptr[s]) THEN "valid" ELSE req[r]]
    BY <1>1 DEF Asked
  <2>2. QED BY <1>1, <2>1 DEF Wanted, ReqAt, Reqs
<1>2. CASE ReqAt(req, ptr[s]) = {}
  <2>1. Asked(req, s) = [req EXCEPT ![s] = "valid"]
    BY <1>2 DEF Asked
  <2>2. QED BY <1>2, <2>1 DEF Wanted, ReqAt, Reqs
<1>3. QED BY <1>1, <1>2

\* The requests for an address are not valid any more; those for others stay.
LEMMA InvalidatedKeeps ==
  ASSUME NEW req \in [Socks -> Reqs], NEW a
  PROVE  /\ Invalidated(req, a) \in [Socks -> Reqs]
         /\ \A t \in Socks : Invalidated(req, a)[t] = "valid" => req[t] = "valid" /\ ptr[t] # a
         /\ \A t \in Socks : Wanted(req, t) /\ ptr[t] # a => Wanted(Invalidated(req, a), t)
BY DEF Invalidated, Wanted, ReqAt, Reqs

\* A flag that is cleared is off the count.
LEMMA SettledKeeps ==
  ASSUME Types, NEW s \in Socks
  PROVE  /\ Settled(s) \in [Socks -> Wrap]
         /\ \A t \in Socks \ {s} : Settled(s)[t] = wrap[t]
         /\ Settled(s)[s].reg = wrap[s].reg /\ Settled(s)[s].out = wrap[s].out
         /\ ~Settled(s)[s].connecting
BY DEF Types, Settled, Wrap

\* Finite sets of sockets.
LEMMA SockSets ==
  ASSUME NEW S \in SUBSET Socks PROVE IsFiniteSet(S) /\ Cardinality(S) \in Nat
BY SocketsAssumption, FS_Subset, FS_CardinalityType

\* One less holds a slot, if it held one.
LEMMA HolderGone ==
  ASSUME Types, Counting, NEW s \in Socks,
         \A t \in Socks \ {s} : wrap'[t].connecting = wrap[t].connecting,
         ~wrap'[s].connecting, connectingCnt' = SettledCnt(s)
  PROVE  /\ connectingCnt' = Cardinality(Holders') /\ connectingCnt' \in Int
         /\ connectingCnt' <= ConnectingLimit
<1>1. Holders' = Holders \ {s} /\ Holders \in SUBSET Socks /\ Holders' \in SUBSET Socks
  BY DEF Holders
<1>2. /\ IsFiniteSet(Holders) /\ Cardinality(Holders) \in Nat /\ Cardinality(Holders') \in Nat
  BY <1>1, SockSets
<1>3. connectingCnt = Cardinality(Holders) /\ connectingCnt <= ConnectingLimit /\ ConnectingLimit \in Nat
  BY SchedulerAssumption DEF Counting
<1>4. CASE wrap[s].connecting
  <2>1. s \in Holders
    BY <1>4 DEF Holders
  <2>2. Cardinality(Holders') = Cardinality(Holders) - 1
    BY <1>1, <1>2, <2>1, FS_RemoveElement
  <2>3. connectingCnt' = connectingCnt - 1
    BY <1>4 DEF SettledCnt
  <2>4. QED BY <1>2, <1>3, <2>2, <2>3
<1>5. CASE ~wrap[s].connecting
  <2>1. Holders' = Holders
    BY <1>1, <1>5 DEF Holders
  <2>2. connectingCnt' = connectingCnt
    BY <1>5 DEF SettledCnt
  <2>3. QED BY <1>2, <1>3, <2>1, <2>2
<1>6. QED BY <1>4, <1>5

-----------------------------------------------------------------------------
(* Events.                                                                   *)

\* How many losses a queue tells of.
LEMMA LostType ==
  ASSUME NEW q \in Seq(Events) PROVE IsFiniteSet(LostIn(q)) /\ Cardinality(LostIn(q)) \in Nat
<1>1. Len(q) \in Nat /\ LostIn(q) \subseteq 1..Len(q)
  BY DEF LostIn
<1>2. IsFiniteSet(1..Len(q))
  BY <1>1, FS_Interval
<1>3. QED BY <1>1, <1>2, FS_Subset, FS_CardinalityType

\* The first event is taken: one loss less, if it was one.
LEMMA LostTail ==
  ASSUME NEW q \in Seq(Events), q # <<>>
  PROVE  /\ Cardinality(LostIn(Tail(q))) <= Cardinality(LostIn(q))
         /\ Head(q).evt \in Losses => Cardinality(LostIn(Tail(q))) + 1 <= Cardinality(LostIn(q))
<1> DEFINE z == Tail(q)
           A == LostIn(q) \ {1}
           f == [k \in LostIn(z) |-> k + 1]
<1>1. /\ z \in Seq(Events) /\ Len(q) \in Nat /\ Len(q) >= 1 /\ Len(z) = Len(q) - 1
      /\ \A k \in 1..Len(z) : z[k] = q[k + 1]
  OBVIOUS
<1>2. IsFiniteSet(LostIn(q)) /\ Cardinality(LostIn(q)) \in Nat
  BY LostType
<1>3. IsFiniteSet(LostIn(z)) /\ Cardinality(LostIn(z)) \in Nat
  BY <1>1, LostType
<1>4. IsFiniteSet(A) /\ Cardinality(A) = Cardinality(LostIn(q)) - (IF 1 \in LostIn(q) THEN 1 ELSE 0)
  BY <1>2, FS_RemoveElement
<1> HIDE DEF z
<1>5. \A k \in LostIn(z) : k + 1 \in A /\ k \in Int
  BY <1>1 DEF LostIn
<1>6. f \in Injection(LostIn(z), A)
  BY <1>5 DEF Injection, IsInjective
<1>7. Cardinality(LostIn(z)) <= Cardinality(A)
  BY <1>3, <1>4, <1>6, FS_Injection
<1>8. Head(q).evt \in Losses => 1 \in LostIn(q)
  BY <1>1 DEF LostIn
<1>9. QED BY <1>2, <1>3, <1>4, <1>7, <1>8 DEF z

\* An event comes: one loss more at most.
LEMMA LostAppend ==
  ASSUME NEW q \in Seq(Events), NEW e \in Events
  PROVE  Cardinality(LostIn(Append(q, e))) <= Cardinality(LostIn(q)) + 1
<1> DEFINE r == Append(q, e)
<1>1. /\ r \in Seq(Events) /\ Len(q) \in Nat /\ Len(r) = Len(q) + 1
      /\ \A k \in 1..Len(q) : r[k] = q[k]
  OBVIOUS
<1>2. IsFiniteSet(LostIn(q)) /\ Cardinality(LostIn(q)) \in Nat
  BY LostType
<1>3. IsFiniteSet(LostIn(r)) /\ Cardinality(LostIn(r)) \in Nat
  BY <1>1, LostType
<1> HIDE DEF r
<1>4. LostIn(r) \subseteq LostIn(q) \cup {Len(q) + 1}
  BY <1>1 DEF LostIn
<1>5. /\ IsFiniteSet(LostIn(q) \cup {Len(q) + 1})
      /\ Cardinality(LostIn(q) \cup {Len(q) + 1}) <= Cardinality(LostIn(q)) + 1
      /\ Cardinality(LostIn(q) \cup {Len(q) + 1}) \in Nat
  <2> DEFINE B == LostIn(q)
             x == Len(q) + 1
  <2>1. IsFiniteSet(B) /\ Cardinality(B) \in Nat
    BY <1>2
  <2> HIDE DEF B, x
  <2>2. /\ IsFiniteSet(B \cup {x})
        /\ Cardinality(B \cup {x}) = IF x \in B THEN Cardinality(B) ELSE Cardinality(B) + 1
    BY <2>1, FS_AddElement
  <2>3. QED BY <2>1, <2>2 DEF B, x
<1>6. Cardinality(LostIn(r)) <= Cardinality(LostIn(q) \cup {Len(q) + 1})
  BY <1>4, <1>5, FS_Subset
<1>7. QED BY <1>2, <1>3, <1>5, <1>6 DEF r

\* What is to come is to come still when events are added.
LEMMA ComingMore ==
  ASSUME NEW s, NEW K, NEW q \in Seq(Events), events \in Seq(Events),
         events' = events \o q, UNCHANGED ptr, Coming(s, K)
  PROVE  Coming(s, K)'
<1>1. PICK k \in 1..Len(events) : events[k].at = ptr[s] /\ events[k].evt \in K
  BY DEF Coming
<1>2. k \in 1..Len(events') /\ events'[k] = events[k]
  BY <1>1
<1>3. QED BY <1>1, <1>2 DEF Coming

\* What is to come is the first event, or to come after it.
LEMMA ComingTail ==
  ASSUME NEW s, NEW K, events \in Seq(Events), events # <<>>,
         events' = Tail(events), UNCHANGED ptr, Coming(s, K),
         ~(Event.at = ptr[s] /\ Event.evt \in K)
  PROVE  Coming(s, K)'
<1>1. PICK k \in 1..Len(events) : events[k].at = ptr[s] /\ events[k].evt \in K
  BY DEF Coming
<1>2. k # 1
  BY <1>1 DEF Event
<1>3. k - 1 \in 1..Len(events') /\ events'[k - 1] = events[k]
  BY <1>1, <1>2
<1>4. QED BY <1>1, <1>3 DEF Coming

-----------------------------------------------------------------------------
(* The rounds.                                                               *)

\* A step that touches no socket: who is to connect can, and no other request
\* becomes invalid.
LEMMA AskInv ==
  ASSUME IInv, UNCHANGED <<ptr, impl, events, wrap, accepted, cntVars>>,
         pc' = pc \/ (pc # "drain" /\ pc' # "drain"), Types', Rounded',
         \A s \in Socks : conn'[s] = "valid" => Registered(s) /\ impl[s].stage = "fresh",
         \A s \in Socks : down[s] = "valid" => down'[s] = "valid",
         \A s \in Socks : up[s] = "valid" => up'[s] = "valid",
         accepted # {} => Server \in note' /\ pc' \in {"conn", "connNotify"}
  PROVE  IInv'
<1>1. UNCHANGED <<ptr, impl, events, wrap, accepted, connCnt, connectingCnt>>
  BY DEF cntVars
<1>2. Living'
  BY <1>1 DEF IInv, Living, Exists, Registered
<1>3. Waiting'
  BY <1>1 DEF IInv, Waiting, Exists, Registered
<1>4. Holding'
  BY <1>1 DEF IInv, Holding, Registered, Coming
<1>5. Stale'
  BY <1>1 DEF IInv, Stale, Exists
<1>6. Counting'
  BY <1>1 DEF IInv, Counting, Holders, OpenSocks, LostIn
<1>7. \A s \in Socks : Wanted(down, s) => Wanted(down, s)'
  BY <1>1 DEF IInv, Types, Wanted, ReqAt, Reqs
<1>8. \A s \in Socks : Wanted(up, s) => Wanted(up, s)'
  BY <1>1 DEF IInv, Types, Wanted, ReqAt, Reqs
<1>9. ReadsServed'
  BY <1>1, <1>7 DEF IInv, ReadsServed, Registered, Connected, Coming
<1>10. WritesServed'
  BY <1>1, <1>8 DEF IInv, WritesServed, Registered, Connected, Coming
<1>11. QED BY <1>2, <1>3, <1>4, <1>5, <1>6, <1>9, <1>10 DEF IInv

\* The same, when no request to connect becomes valid.
LEMMA RoundInv ==
  ASSUME IInv, UNCHANGED <<sockVars, wrap, accepted, cntVars>>, pc # "drain", pc' # "drain",
         Types', Rounded',
         \A s \in Socks : conn'[s] = "valid" => conn[s] = "valid",
         \A s \in Socks : down[s] = "valid" => down'[s] = "valid",
         \A s \in Socks : up[s] = "valid" => up'[s] = "valid",
         accepted # {} => Server \in note' /\ pc' \in {"conn", "connNotify"}
  PROVE  IInv'
<1>1. \A s \in Socks : conn'[s] = "valid" => Registered(s) /\ impl[s].stage = "fresh"
  BY DEF IInv, Holding
<1>2. QED BY <1>1, AskInv DEF sockVars

\* The types of the sockets and their wrappers.
LEMMA SockTypes ==
  ASSUME Types, UNCHANGED <<sockVars, wrap, accepted, cntVars>>,
         up' \in [Socks -> Reqs], down' \in [Socks -> Reqs], conn' \in [Socks -> Reqs], acc' \in Reqs,
         pc' \in Pcs, user' \in BOOLEAN, misled' \in SUBSET Socks,
         left' \in SUBSET (Socks \cup {Server}), rem' \in SUBSET (Socks \cup {Server}),
         note' \in SUBSET (Socks \cup {Server})
  PROVE  Types'
BY DEF Types, SocketsTypeOK, sockVars, cntVars

\* The main loop goes on to the next round.
LEMMA RoundsBegin ==
  ASSUME IInv, Begin \/ BeginUp \/ End PROVE IInv'
<1>1. /\ UNCHANGED <<sockVars, wrap, reqVars, accepted, cntVars>>
      /\ pc \in {"tables", "downNotify", "connNotify"} /\ pc' \in {"down", "up", "tablesW"}
      /\ left' \in SUBSET Socks /\ rem' = {} /\ note' = {} /\ user' = FALSE /\ misled' = {}
      /\ pc = "connNotify" => note = {}
  BY DEF Begin, BeginUp, End, GoTo
<1>2. accepted = {}
  BY <1>1 DEF IInv, Waiting
<1>3. UNCHANGED <<up, down, conn, acc>>
  BY <1>1 DEF reqVars
<1>4. Types'
  BY <1>1, <1>3, SockTypes DEF IInv, Types, Pcs
<1>5. Rounded'
  BY <1>1 DEF Rounded
<1>6. QED BY <1>1, <1>2, <1>3, <1>4, <1>5, RoundInv

\* The first and the third round are over.
LEMMA RoundsBreak ==
  ASSUME IInv, RecvEnd \/ BreakConn PROVE IInv'
<1>1. /\ UNCHANGED <<sockVars, wrap, reqVars, accepted, cntVars>>
      /\ UNCHANGED <<rem, note, user, misled>> /\ left' = {}
      /\ \/ pc = "down" /\ pc' = "downNotify"
         \/ pc = "conn" /\ pc' = "connNotify"
  BY DEF RecvEnd, BreakConn
<1>2. accepted # {} => Server \in note' /\ pc' \in {"conn", "connNotify"}
  BY <1>1 DEF IInv, Waiting
<1>3. UNCHANGED <<up, down, conn, acc>>
  BY <1>1 DEF reqVars
<1>4. Types'
  BY <1>1, <1>3, SockTypes DEF IInv, Types, Pcs
<1>5. Rounded'
  BY <1>1 DEF Rounded
<1>6. QED BY <1>1, <1>2, <1>3, <1>4, <1>5, RoundInv

\* The second round is over, with the requests it put aside.
LEMMA SendEndInv ==
  ASSUME IInv, SendEnd PROVE IInv'
<1>1. /\ pc = "up" /\ pc' = "conn"
      /\ up' = [s \in Socks |-> IF s \in rem THEN "none" ELSE up[s]]
      /\ UNCHANGED <<sockVars, wrap, down, conn, acc, accepted, cntVars>>
      /\ left' \in SUBSET (Socks \cup {Server})
      /\ rem' = {} /\ note' = {} /\ user' = FALSE /\ misled' = {}
  BY DEF SendEnd, GoTo
<1>2. accepted = {}
  BY <1>1 DEF IInv, Waiting
<1>3. up' \in [Socks -> Reqs]
  BY <1>1 DEF IInv, Types, Reqs
<1>4. \A s \in Socks : up[s] = "valid" => up'[s] = "valid"
  BY <1>1 DEF IInv, Rounded
<1>5. Types'
  BY <1>1, <1>3, SockTypes DEF IInv, Types, Pcs
<1>6. Rounded'
  BY <1>1 DEF Rounded
<1>7. QED BY <1>1, <1>2, <1>4, <1>5, <1>6, RoundInv

\* A request that is not valid is put aside.
LEMMA DiscardInv ==
  ASSUME IInv, NEW s \in Socks,
         Discard("down", down, s) \/ Discard("up", up, s) \/ Discard("conn", conn, s)
  PROVE  IInv'
<1>1. /\ UNCHANGED <<sockVars, wrap, reqVars, accepted, cntVars, pc, note, user, misled>>
      /\ left' = left \ {s} /\ rem' = rem \cup {s}
      /\ pc \in {"down", "up", "conn"} /\ (pc = "up" => up[s] = "invalid")
  BY DEF Discard
<1>2. UNCHANGED <<up, down, conn, acc>>
  BY <1>1 DEF reqVars
<1>3. Types'
  BY <1>1, <1>2, SockTypes DEF IInv, Types
<1>4. Rounded'
  BY <1>1, <1>2 DEF IInv, Rounded
<1>5. accepted # {} => Server \in note' /\ pc' \in {"conn", "connNotify"}
  BY <1>1 DEF IInv, Waiting
<1>6. QED BY <1>1, <1>2, <1>3, <1>4, <1>5, RoundInv

\* A plugin is told what became of a request.
LEMMA NotifyInv ==
  ASSUME IInv, NEW s \in Socks, NotifyRead(s) \/ NotifyConn(s) PROVE IInv'
<1>1. /\ UNCHANGED <<sockVars, wrap, reqVars, accepted, cntVars, pc, rem, misled>>
      /\ note' = note \ {s} /\ left' = rem \cap {s} /\ user' = Registered(s)
      /\ pc \in {"downNotify", "connNotify"}
  BY DEF NotifyRead, NotifyConn
<1>2. UNCHANGED <<up, down, conn, acc>>
  BY <1>1 DEF reqVars
<1>3. user' \in BOOLEAN
  BY <1>1 DEF IInv, Types, Registered, Wrap
<1>4. Types'
  BY <1>1, <1>2, <1>3, SockTypes DEF IInv, Types
<1>5. Rounded'
  BY <1>1 DEF Rounded
<1>6. accepted # {} => Server \in note' /\ pc' \in {"conn", "connNotify"}
  BY <1>1, SchedulerAssumption DEF IInv, Waiting
<1>7. QED BY <1>1, <1>2, <1>4, <1>5, <1>6, RoundInv

\* A request that nothing made valid again is dropped.
LEMMA DropInv ==
  ASSUME IInv, (\E s \in Socks : DropRead(s) \/ DropConn(s)) \/ DropConn(Server) PROVE IInv'
<1>1. PICK s \in Socks \cup {Server} : (s \in Socks /\ DropRead(s)) \/ DropConn(s)
  OBVIOUS
<1>2. /\ UNCHANGED <<sockVars, wrap, up, accepted, cntVars, pc, note, misled>>
      /\ pc \in {"downNotify", "connNotify"}
      /\ rem' = rem \ {s} /\ left' = {} /\ user' = FALSE
  BY <1>1 DEF DropRead, DropConn
<1>3. /\ down' \in [Socks -> Reqs] /\ \A t \in Socks : down[t] = "valid" => down'[t] = "valid"
      /\ conn' \in [Socks -> Reqs] /\ \A t \in Socks : conn'[t] = "valid" => conn[t] = "valid"
      /\ acc' \in Reqs
  <2>1. CASE s \in Socks /\ DropRead(s)
    BY <2>1 DEF DropRead, IInv, Types, Reqs
  <2>2. CASE DropConn(s) /\ s = Server
    BY <2>2 DEF DropConn, IInv, Types, Reqs
  <2>3. CASE DropConn(s) /\ s # Server
    BY <2>3 DEF DropConn, IInv, Types, Reqs
  <2>4. QED BY <1>1, <2>1, <2>2, <2>3
<1>4. Types'
  BY <1>2, <1>3, SockTypes DEF IInv, Types
<1>5. Rounded'
  BY <1>2 DEF Rounded
<1>6. accepted # {} => Server \in note' /\ pc' \in {"conn", "connNotify"}
  BY <1>2 DEF IInv, Waiting
<1>7. QED BY <1>2, <1>3, <1>4, <1>5, <1>6, RoundInv

\* accept() throws: the request stays.
LEMMA AcceptThrowsInv ==
  ASSUME IInv, AcceptThrows PROVE IInv'
<1>1. /\ UNCHANGED <<sockVars, wrap, reqVars, accepted, cntVars, pc, rem, note, user, misled>>
      /\ pc = "conn" /\ left' = left \ {Server}
  BY DEF AcceptThrows
<1>2. UNCHANGED <<up, down, conn, acc>>
  BY <1>1 DEF reqVars
<1>3. Types'
  BY <1>1, <1>2, SockTypes DEF IInv, Types
<1>4. Rounded'
  BY <1>1 DEF IInv, Rounded
<1>5. accepted # {} => Server \in note' /\ pc' \in {"conn", "connNotify"}
  BY <1>1 DEF IInv, Waiting
<1>6. QED BY <1>1, <1>2, <1>3, <1>4, <1>5, RoundInv

-----------------------------------------------------------------------------
(* The plugins' calls.                                                       *)

\* Plugins are not called while a round goes through its requests.
LEMMA Called ==
  ASSUME IInv, CallAllowed, UNCHANGED <<pc, user, rem, up>> \/ UNCHANGED <<pc, user>>
  PROVE  pc \notin {"down", "up", "conn"} /\ Rounded'
BY DEF IInv, Rounded, CallAllowed

\* connect()
LEMMA ConnectInv ==
  ASSUME IInv, NEW s \in Socks, Connect(s) PROVE IInv'
<1>1. /\ UNCHANGED <<sockVars, wrap, up, down, acc, accepted, cntVars, rndVars, user, misled>>
      /\ CallAllowed /\ Registered(s) /\ impl[s].stage = "fresh"
      /\ conn' = [conn EXCEPT ![s] = "valid"]
  BY DEF Connect
<1>2. UNCHANGED <<pc, left, rem, note>>
  BY <1>1 DEF rndVars
<1>3. Types'
  BY <1>1, <1>2, SockTypes DEF IInv, Types, Reqs
<1>4. Rounded'
  BY <1>1, <1>2, Called
<1>5. \A t \in Socks : conn'[t] = "valid" => Registered(t) /\ impl[t].stage = "fresh"
  BY <1>1 DEF IInv, Holding, Types
<1>6. accepted # {} => Server \in note' /\ pc' \in {"conn", "connNotify"}
  BY <1>2 DEF IInv, Waiting
<1>7. QED BY <1>1, <1>2, <1>3, <1>4, <1>5, <1>6, AskInv DEF sockVars

\* write()
LEMMA WriteInv ==
  ASSUME IInv, NEW s \in Socks, Write(s) PROVE IInv'
<1>1. /\ UNCHANGED <<ptr, impl, incoming, watched, toRemove, events>>
      /\ UNCHANGED <<down, conn, acc, accepted, connCnt, connectingCnt>>
      /\ UNCHANGED <<pc, left, rem, note, user, misled>>
      /\ CallAllowed /\ Registered(s)
      /\ wrap' = [wrap EXCEPT ![s].out = TRUE]
      /\ up' = IF ReqAt(up, ptr[s]) # {} \/ Connected(s) THEN Asked(up, s) ELSE up
  BY DEF Write, sockVars, cntVars, rndVars
<1>2. wrap \in [Socks -> Wrap] /\ up \in [Socks -> Reqs]
  BY DEF IInv, Types
<1>3. /\ wrap' \in [Socks -> Wrap]
      /\ \A t \in Socks : wrap'[t].reg = wrap[t].reg /\ wrap'[t].connecting = wrap[t].connecting
      /\ \A t \in Socks \ {s} : wrap'[t] = wrap[t]
  BY <1>1, <1>2 DEF Wrap
<1>4. /\ up' \in [Socks -> Reqs]
      /\ Connected(s) => Wanted(up', s)
      /\ \A t \in Socks : Wanted(up, t) => Wanted(up', t)
  BY <1>1, <1>2, AskedKeeps
<1>5. /\ Connected(s) => Wanted(up, s)'
      /\ \A t \in Socks : Wanted(up, t) => Wanted(up, t)'
  BY <1>1, <1>4 DEF Wanted, ReqAt
<1>6. Types'
  BY <1>1, <1>3, <1>4 DEF IInv, Types, SocketsTypeOK
<1>7. Living'
  BY <1>1, <1>3 DEF IInv, Living, Exists, Registered
<1>8. Waiting'
  BY <1>1, <1>3 DEF IInv, Waiting, Exists, Registered, Types
<1>9. Holding'
  BY <1>1, <1>3 DEF IInv, Holding, Registered, Coming
<1>10. Stale'
  BY <1>1 DEF IInv, Stale, Exists
<1>11. Rounded'
  BY <1>1, Called
<1>12. Counting'
  <2>1. Holders' = Holders
    BY <1>3 DEF Holders
  <2>2. QED BY <1>1, <2>1 DEF IInv, Counting, OpenSocks, LostIn
<1>13. ReadsServed'
  <2>1. \A t \in Socks : Wanted(down, t) => Wanted(down, t)'
    BY <1>1 DEF Wanted, ReqAt
  <2>2. QED BY <1>1, <1>3, <2>1 DEF IInv, ReadsServed, Registered, Connected, Coming
<1>14. WritesServed'
  BY <1>1, <1>3, <1>5 DEF IInv, WritesServed, Registered, Connected, Coming
<1>15. QED BY <1>6, <1>7, <1>8, <1>9, <1>10, <1>11, <1>12, <1>13, <1>14 DEF IInv

\* A new socket has an address that no other has, and is nobody's but the plugin's.
LEMMA NewSocketInv ==
  ASSUME IInv, NEW s \in Socks, NEW a \in Addrs, NewSocket(s, a) PROVE IInv'
<1>1. /\ UNCHANGED <<incoming, watched, toRemove, events>>
      /\ UNCHANGED <<up, down, conn, acc, accepted, connCnt, connectingCnt>>
      /\ UNCHANGED <<pc, left, rem, note, user, misled>>
      /\ CallAllowed /\ impl[s].stage = "unborn" /\ ObjectAt(a) = {}
      /\ ptr' = [ptr EXCEPT ![s] = a]
      /\ impl' = [impl EXCEPT ![s].stage = "fresh"]
      /\ wrap' = [wrap EXCEPT ![s].reg = TRUE]
  BY DEF NewSocket, MayGet, reqVars, cntVars, rndVars
<1>2. /\ ptr \in [Socks -> Addrs \cup {None}] /\ impl \in [Socks -> Impl] /\ wrap \in [Socks -> Wrap]
      /\ up \in [Socks -> Reqs] /\ down \in [Socks -> Reqs] /\ accepted \in SUBSET Socks
  BY DEF IInv, Types, SocketsTypeOK
<1>3. /\ ~Exists(s) /\ ~Registered(s) /\ s \notin accepted /\ ~wrap[s].connecting
      /\ ptr[s] = None /\ ~impl[s].toDelete /\ ~impl[s].hasData /\ ~impl[s].writable
      /\ conn[s] # "valid"
  BY <1>1, <1>2 DEF IInv, Living, Waiting, Holding, Exists
<1>4. /\ ptr'[s] = a /\ \A t \in Socks \ {s} : ptr'[t] = ptr[t] /\ impl'[t] = impl[t] /\ wrap'[t] = wrap[t]
      /\ impl'[s].stage = "fresh" /\ ~impl'[s].toDelete /\ ~impl'[s].hasData /\ ~impl'[s].writable
      /\ wrap'[s].reg /\ ~wrap'[s].connecting /\ impl' \in [Socks -> Impl] /\ wrap' \in [Socks -> Wrap]
      /\ ptr' \in [Socks -> Addrs \cup {None}]
  BY <1>1, <1>2, <1>3 DEF Impl, Wrap, Stages
<1>5. \A t \in Socks \ {s} : Exists(t) => ptr[t] # a /\ ptr[t] \in Addrs /\ ptr[t] # None
  BY <1>1, SocketsAssumption DEF ObjectAt, IInv, Living
<1>6. Types'
  BY <1>1, <1>4 DEF IInv, Types, SocketsTypeOK
<1>7. Living'
  <2>1. \A t \in Socks \ {s} : (Exists(t)' <=> Exists(t)) /\ (Registered(t)' <=> Registered(t))
    BY <1>4 DEF Exists, Registered
  <2>2. Exists(s)'
    BY <1>4 DEF Exists
  <2>3. QED BY <1>4, <1>5, <2>1, <2>2 DEF IInv, Living
<1>8. Waiting'
  BY <1>1, <1>2, <1>3, <1>4 DEF IInv, Waiting, Exists, Registered
<1>9. Holding'
  <2>1. \A t \in Socks \ {s} : \A K : Coming(t, K)' <=> Coming(t, K)
    BY <1>1, <1>4 DEF Coming
  <2>2. QED BY <1>1, <1>3, <1>4, <2>1 DEF IInv, Holding, Registered
<1>10. Stale'
  BY <1>1, <1>4 DEF IInv, Stale, Exists
<1>11. Rounded'
  BY <1>1, Called
<1>12. Counting'
  <2>1. Holders' = Holders
    BY <1>3, <1>4 DEF Holders
  <2>2. OpenSocks' = OpenSocks
    BY <1>1, <1>4 DEF OpenSocks, IsOpen
  <2>3. QED BY <1>1, <2>1, <2>2 DEF IInv, Counting, LostIn
<1>13. \A t \in Socks \ {s} : /\ Exists(t) /\ Wanted(down, t) => Wanted(down, t)'
                              /\ Exists(t) /\ Wanted(up, t) => Wanted(up, t)'
  BY <1>1, <1>3, <1>4, <1>5 DEF Wanted, ReqAt
<1>14. ReadsServed'
  <2> SUFFICES ASSUME NEW t \in Socks, Registered(t)', Connected(t)', impl'[t].hasData
               PROVE  (Wanted(down, t) \/ Coming(t, {"SOCK_READ"}))'
    BY DEF ReadsServed
  <2>1. t # s
    BY <1>4
  <2>2. Registered(t) /\ Exists(t) /\ Connected(t) /\ impl[t].hasData
    BY <1>4, <2>1 DEF Registered, Connected, IInv, Living
  <2>3. Wanted(down, t) \/ Coming(t, {"SOCK_READ"})
    BY <2>2 DEF IInv, ReadsServed
  <2>4. Coming(t, {"SOCK_READ"}) => Coming(t, {"SOCK_READ"})'
    BY <1>1, <1>4, <2>1 DEF Coming
  <2>5. QED BY <1>13, <2>1, <2>2, <2>3, <2>4
<1>15. WritesServed'
  <2> DEFINE K == Losses \cup {"SOCK_WRITE", "SOCK_CONNECTED"}
  <2> SUFFICES ASSUME NEW t \in Socks, Registered(t)', Connected(t)', wrap'[t].out
               PROVE  (Wanted(up, t) \/ ~impl[t].writable \/ Coming(t, K))'
    BY DEF WritesServed
  <2>1. CASE t = s
    BY <1>4, <2>1
  <2>2. CASE t # s
    <3>1. Registered(t) /\ Exists(t) /\ Connected(t) /\ wrap[t].out
      BY <1>4, <2>2 DEF Registered, Connected, IInv, Living
    <3>2. Wanted(up, t) \/ ~impl[t].writable \/ Coming(t, K)
      BY <3>1 DEF IInv, WritesServed
    <3>3. Coming(t, K) => Coming(t, K)'
      BY <1>1, <1>4, <2>2 DEF Coming
    <3>4. QED BY <1>4, <1>13, <2>2, <3>1, <3>2, <3>3
  <2>3. QED BY <2>1, <2>2
<1>16. QED BY <1>6, <1>7, <1>8, <1>9, <1>10, <1>11, <1>12, <1>14, <1>15 DEF IInv

\* One socket less is open.
LEMMA OpenGone ==
  ASSUME NEW s \in Socks, ~IsOpen(impl'[s]),
         \A t \in Socks \ {s} : impl'[t].stage = impl[t].stage
  PROVE  /\ IsFiniteSet(OpenSocks) /\ Cardinality(OpenSocks) \in Nat /\ Cardinality(OpenSocks') \in Nat
         /\ Cardinality(OpenSocks') = Cardinality(OpenSocks) - (IF IsOpen(impl[s]) THEN 1 ELSE 0)
<1>1. OpenSocks' = OpenSocks \ {s} /\ OpenSocks \in SUBSET Socks /\ OpenSocks' \in SUBSET Socks
  BY DEF OpenSocks, IsOpen
<1>2. /\ IsFiniteSet(OpenSocks) /\ Cardinality(OpenSocks) \in Nat /\ Cardinality(OpenSocks') \in Nat
  BY <1>1, SockSets
<1>3. Cardinality(OpenSocks') = IF s \in OpenSocks THEN Cardinality(OpenSocks) - 1
                                                ELSE Cardinality(OpenSocks)
  BY <1>1, <1>2, FS_RemoveElement
<1>4. s \in OpenSocks <=> IsOpen(impl[s])
  BY DEF OpenSocks
<1>5. QED BY <1>2, <1>3, <1>4

\* A socket is closed by its plugin, for good or not, with its requests.
LEMMA CloseInv ==
  ASSUME IInv, NEW s \in Socks, NEW delete \in BOOLEAN, CallAllowed, Registered(s),
         ImplClose(s, delete),
         wrap' = IF delete THEN [Settled(s) EXCEPT ![s].reg = FALSE] ELSE Settled(s),
         connectingCnt' = SettledCnt(s),
         connCnt' = IF IsOpen(impl[s]) THEN connCnt - 1 ELSE connCnt,
         up' = Invalidated(up, ptr[s]), down' = Invalidated(down, ptr[s]),
         conn' = Invalidated(conn, ptr[s]),
         UNCHANGED <<acc, accepted, rndVars, user, misled>>
  PROVE  IInv'
<1>1. /\ impl' = [impl EXCEPT ![s] = [Closed(@) EXCEPT !.toDelete = delete]]
      /\ toRemove' = toRemove \cup {s}
      /\ UNCHANGED <<ptr, incoming, watched, events>>
      /\ UNCHANGED <<acc, accepted, pc, left, rem, note, user, misled>>
  BY DEF ImplClose, rndVars
<1>2. /\ impl \in [Socks -> Impl] /\ wrap \in [Socks -> Wrap] /\ connCnt \in Int
      /\ up \in [Socks -> Reqs] /\ down \in [Socks -> Reqs] /\ conn \in [Socks -> Reqs]
  BY DEF IInv, Types, SocketsTypeOK
<1>3. Exists(s) /\ s \notin accepted /\ \A t \in Socks \ {s} : Exists(t) => ptr[t] # ptr[s]
  BY DEF IInv, Living, Waiting
<1>4. /\ impl' \in [Socks -> Impl] /\ \A t \in Socks \ {s} : impl'[t] = impl[t]
      /\ impl'[s].toDelete = delete
      /\ impl'[s].hasData = impl[s].hasData /\ impl'[s].writable = impl[s].writable
      /\ impl'[s].stage = IF IsOpen(impl[s]) THEN "closed" ELSE impl[s].stage
  BY <1>1, <1>2 DEF Impl, Stages, Closed
<1>5. /\ impl'[s].stage \in {"fresh", "closed"} /\ ~IsOpen(impl'[s]) /\ Exists(s)'
      /\ impl[s].stage = "fresh" => impl'[s].stage = "fresh"
      /\ impl[s].stage = "closed" => impl'[s].stage = "closed"
      /\ impl'[s].stage = "fresh" => impl[s].stage = "fresh"
  BY <1>2, <1>3, <1>4 DEF Impl, Stages, IsOpen, Exists
<1>6. /\ Settled(s) \in [Socks -> Wrap] /\ \A t \in Socks \ {s} : Settled(s)[t] = wrap[t]
      /\ Settled(s)[s].reg = wrap[s].reg /\ Settled(s)[s].out = wrap[s].out
      /\ ~Settled(s)[s].connecting
  BY SettledKeeps DEF IInv
<1>7. /\ wrap' \in [Socks -> Wrap] /\ \A t \in Socks \ {s} : wrap'[t] = wrap[t]
      /\ ~wrap'[s].connecting /\ (wrap'[s].reg <=> ~delete)
  BY <1>6 DEF Wrap, Registered
<1>8. /\ up' \in [Socks -> Reqs] /\ down' \in [Socks -> Reqs] /\ conn' \in [Socks -> Reqs]
      /\ \A t \in Socks : conn'[t] = "valid" => conn[t] = "valid" /\ ptr[t] # ptr[s]
      /\ \A t \in Socks : Wanted(up, t) /\ ptr[t] # ptr[s] => Wanted(up', t)
      /\ \A t \in Socks : Wanted(down, t) /\ ptr[t] # ptr[s] => Wanted(down', t)
  BY <1>2, InvalidatedKeeps
<1>9. /\ \A t \in Socks : Wanted(up, t) /\ ptr[t] # ptr[s] => Wanted(up, t)'
      /\ \A t \in Socks : Wanted(down, t) /\ ptr[t] # ptr[s] => Wanted(down, t)'
  BY <1>1, <1>8 DEF Wanted, ReqAt
<1>10. /\ connectingCnt' = Cardinality(Holders') /\ connectingCnt' \in Int
       /\ connectingCnt' <= ConnectingLimit
  BY <1>7, HolderGone DEF IInv
<1>11. Types'
  BY <1>1, <1>2, <1>4, <1>7, <1>8, <1>10 DEF IInv, Types, SocketsTypeOK
<1>12. \A t \in Socks \ {s} : (Exists(t)' <=> Exists(t)) /\ (Registered(t)' <=> Registered(t))
                              /\ (Connected(t)' <=> Connected(t))
  BY <1>4, <1>7 DEF Exists, Registered, Connected
<1>13. Living'
  BY <1>1, <1>3, <1>4, <1>5, <1>7, <1>12 DEF IInv, Living, Registered
<1>14. Waiting'
  BY <1>1, <1>3, <1>4, <1>12 DEF IInv, Waiting, Types
<1>15. Holding'
  BY <1>1, <1>4, <1>7, <1>8, <1>12 DEF IInv, Holding, Coming
<1>16. Stale'
  <2>1. \A k \in 1..Len(events)' : \A t \in Socks :
          events'[k].evt \in Losses /\ events'[k].at = ptr'[t] /\ Exists(t)'
             => impl'[t].stage \in {"fresh", "closed"}
    BY <1>1, <1>4, <1>5, <1>12 DEF IInv, Stale
  <2>2. \A t \in Socks : impl[t].stage = "closed" => impl'[t].stage = "closed"
    BY <1>4, <1>5
  <2>3. QED BY <1>1, <2>1, <2>2 DEF IInv, Stale
<1>17. Rounded'
  BY <1>1, Called
<1>18. Counting'
  <2>1. /\ Cardinality(OpenSocks) \in Nat /\ Cardinality(OpenSocks') \in Nat
        /\ Cardinality(OpenSocks') = Cardinality(OpenSocks) - (IF IsOpen(impl[s]) THEN 1 ELSE 0)
    BY <1>4, <1>5, OpenGone
  <2>2. Cardinality(LostIn(events)) \in Nat /\ LostIn(events)' = LostIn(events)
    BY <1>1, LostType DEF IInv, Types, SocketsTypeOK, LostIn
  <2>3. Cardinality(OpenSocks) + Cardinality(LostIn(events)) <= connCnt /\ connCnt <= ConnLimit
    BY DEF IInv, Counting
  <2>4. Cardinality(OpenSocks') + Cardinality(LostIn(events)) <= connCnt' /\ connCnt' <= ConnLimit
    BY <1>2, <2>1, <2>2, <2>3, SchedulerAssumption
  <2>5. QED BY <1>10, <2>2, <2>4 DEF Counting
<1>19. ASSUME NEW t \in Socks, Registered(t)', Connected(t)'
       PROVE  /\ t # s /\ ptr[t] # ptr[s] /\ Registered(t) /\ Connected(t)
              /\ impl'[t] = impl[t] /\ wrap'[t] = wrap[t]
  <2>1. t # s
    BY <1>5, <1>19 DEF Connected
  <2>2. Registered(t) /\ Connected(t) /\ Exists(t)
    BY <1>12, <1>19, <2>1 DEF IInv, Living
  <2>3. QED BY <1>3, <1>4, <1>7, <2>1, <2>2
<1>20. ReadsServed'
  BY <1>1, <1>9, <1>19 DEF IInv, ReadsServed, Coming
<1>21. WritesServed'
  BY <1>1, <1>9, <1>19 DEF IInv, WritesServed, Coming
<1>22. QED
  BY <1>11, <1>13, <1>14, <1>15, <1>16, <1>17, <1>18, <1>20, <1>21 DEF IInv

\* Who is closed already only gives its slot back.
LEMMA SettleInv ==
  ASSUME IInv, NEW s \in Socks, CallAllowed, ~IsOpen(impl[s]), Registered(s),
         wrap' = Settled(s), connectingCnt' = SettledCnt(s),
         UNCHANGED <<sockVars, reqVars, connCnt, accepted, rndVars, user, misled>>
  PROVE  IInv'
<1>1. /\ UNCHANGED <<ptr, impl, incoming, watched, toRemove, events>>
      /\ UNCHANGED <<up, down, conn, acc, accepted, connCnt>>
      /\ UNCHANGED <<pc, left, rem, note, user, misled>>
  BY DEF sockVars, reqVars, rndVars
<1>2. /\ wrap' \in [Socks -> Wrap] /\ \A t \in Socks \ {s} : wrap'[t] = wrap[t]
      /\ ~wrap'[s].connecting /\ wrap'[s].reg = wrap[s].reg /\ wrap'[s].out = wrap[s].out
  BY SettledKeeps DEF IInv
<1>3. /\ connectingCnt' = Cardinality(Holders') /\ connectingCnt' \in Int
      /\ connectingCnt' <= ConnectingLimit
  BY <1>2, HolderGone DEF IInv
<1>4. Types'
  BY <1>1, <1>2, <1>3 DEF IInv, Types, SocketsTypeOK
<1>5. Living'
  BY <1>1, <1>2 DEF IInv, Living, Exists, Registered
<1>6. Waiting'
  BY <1>1, <1>2 DEF IInv, Waiting, Exists, Registered, Types
<1>7. Holding'
  BY <1>1, <1>2 DEF IInv, Holding, Registered, Coming
<1>8. Stale'
  BY <1>1 DEF IInv, Stale, Exists
<1>9. Rounded'
  BY <1>1, Called
<1>10. Counting'
  BY <1>1, <1>3 DEF IInv, Counting, OpenSocks, LostIn
<1>11. /\ \A t \in Socks : Wanted(down, t) => Wanted(down, t)'
       /\ \A t \in Socks : Wanted(up, t) => Wanted(up, t)'
  BY <1>1 DEF Wanted, ReqAt
<1>12. ReadsServed'
  BY <1>1, <1>2, <1>11 DEF IInv, ReadsServed, Registered, Connected, Coming
<1>13. WritesServed'
  BY <1>1, <1>2, <1>11 DEF IInv, WritesServed, Registered, Connected, Coming
<1>14. QED
  BY <1>4, <1>5, <1>6, <1>7, <1>8, <1>9, <1>10, <1>12, <1>13 DEF IInv

\* disconnect()
LEMMA DisconnectInv ==
  ASSUME IInv, NEW s \in Socks, Disconnect(s) PROVE IInv'
<1>1. /\ CallAllowed /\ Registered(s) /\ wrap' = Settled(s) /\ connectingCnt' = SettledCnt(s)
      /\ UNCHANGED <<acc, accepted, rndVars, user, misled>>
  BY DEF Disconnect
<1>2. CASE IsOpen(impl[s])
  BY <1>1, <1>2, CloseInv DEF Disconnect
<1>3. CASE ~IsOpen(impl[s])
  <2>1. UNCHANGED <<sockVars, connCnt, up, down, conn>>
    BY <1>3 DEF Disconnect
  <2>2. QED BY <1>1, <1>3, <2>1, SettleInv DEF reqVars
<1>4. QED BY <1>2, <1>3

\* ~SSocket()
LEMMA DestroyInv ==
  ASSUME IInv, NEW s \in Socks, Destroy(s) PROVE IInv'
<1>1. /\ CallAllowed /\ Registered(s) /\ ImplClose(s, TRUE)
      /\ wrap' = [Settled(s) EXCEPT ![s].reg = FALSE] /\ connectingCnt' = SettledCnt(s)
      /\ connCnt' = IF IsOpen(impl[s]) THEN connCnt - 1 ELSE connCnt
      /\ up' = Invalidated(up, ptr[s]) /\ down' = Invalidated(down, ptr[s])
      /\ conn' = Invalidated(conn, ptr[s])
      /\ UNCHANGED <<acc, accepted, rndVars, user, misled>>
  BY DEF Destroy
<1>2. QED BY <1>1, CloseInv

-----------------------------------------------------------------------------
(* Data and connections.                                                     *)

\* What read() and write() leave of the object they reach, and tell of it.
LEMMA UsedSock ==
  ASSUME IInv, NEW t \in Socks, Exists(t), NEW op \in {"read", "write"},
         \/ Connected(t) /\ ImplFail(t, op)
         \/ Connected(t) /\ ImplMove(t, op)
         \/ ~Connected(t) /\ UNCHANGED sockVars
  PROVE  /\ UNCHANGED <<ptr, incoming, watched>> /\ impl' \in [Socks -> Impl]
         /\ toRemove' \in SUBSET Socks /\ events' \in Seq(Events)
         /\ \A u \in Socks \ {t} : impl'[u] = impl[u]
         /\ impl'[t].toDelete = impl[t].toDelete
         /\ \/ impl'[t].stage = impl[t].stage /\ events' = events
            \/ /\ impl[t].stage = "connected" /\ impl'[t].stage = "closed"
               /\ events' = Append(events, [at |-> ptr[t], evt |-> "SOCK_LOST"])
               /\ [at |-> ptr[t], evt |-> "SOCK_LOST"] \in Events
         /\ impl'[t].hasData => impl[t].hasData
         /\ impl'[t].writable => impl[t].writable
         /\ Connected(t)' => ~(IF op = "read" THEN impl'[t].hasData ELSE impl'[t].writable)
<1>1. /\ impl \in [Socks -> Impl] /\ events \in Seq(Events) /\ ptr[t] \in Addrs /\ ptr[t] # None
      /\ toRemove \in SUBSET Socks
  BY SocketsAssumption DEF IInv, Types, SocketsTypeOK, Living
<1>2. CASE Connected(t) /\ ImplFail(t, op)
  <2>1. /\ impl' = [impl EXCEPT ![t] = Used(Closed(@), op)] /\ toRemove' = toRemove \cup {t}
        /\ events' = events \o Posted(t, "SOCK_LOST") /\ UNCHANGED <<ptr, incoming, watched>>
    BY <1>2 DEF ImplFail
  <2>2. [at |-> ptr[t], evt |-> "SOCK_LOST"] \in Events
    BY <1>1 DEF Events, Kinds, Losses
  <2>3. events' = Append(events, [at |-> ptr[t], evt |-> "SOCK_LOST"])
    BY <1>1, <2>1, <2>2 DEF Posted
  <2>4. Closed(impl[t]) = [impl[t] EXCEPT !.stage = "closed"]
    BY <1>1, <1>2 DEF Connected, Closed, IsOpen, Impl
  <2>5. /\ impl' \in [Socks -> Impl] /\ impl'[t].stage = "closed"
        /\ impl'[t].toDelete = impl[t].toDelete
        /\ impl'[t].hasData => impl[t].hasData
        /\ impl'[t].writable => impl[t].writable
        /\ \A u \in Socks \ {t} : impl'[u] = impl[u]
    BY <1>1, <2>1, <2>4 DEF Used, Impl, Stages
  <2>6. impl[t].stage = "connected" /\ ~Connected(t)'
    BY <1>2, <2>5 DEF Connected
  <2>7. events' \in Seq(Events) /\ toRemove' \in SUBSET Socks
    <3> DEFINE e == [at |-> ptr[t], evt |-> "SOCK_LOST"]
    <3>1. e \in Events /\ events' = Append(events, e)
      BY <2>2, <2>3
    <3> HIDE DEF e
    <3>2. Append(events, e) \in Seq(Events)
      BY <1>1, <3>1
    <3>3. QED BY <1>1, <2>1, <3>1, <3>2
  <2>8. QED BY <2>1, <2>2, <2>3, <2>5, <2>6, <2>7
<1>3. CASE Connected(t) /\ ImplMove(t, op)
  <2>1. /\ impl' = [impl EXCEPT ![t] = Used(@, op)] /\ UNCHANGED <<ptr, incoming, watched, toRemove, events>>
    BY <1>3 DEF ImplMove
  <2>2. QED BY <1>1, <2>1 DEF Used, Impl, Stages
<1>4. CASE ~Connected(t) /\ UNCHANGED sockVars
  BY <1>1, <1>4 DEF Connected, sockVars
<1>5. QED BY <1>2, <1>3, <1>4

\* A round uses the object that has the address of a request.
LEMMA UsedInv ==
  ASSUME IInv, NEW t \in Socks, Exists(t), NEW op \in {"read", "write"},
         \/ Connected(t) /\ ImplFail(t, op)
         \/ Connected(t) /\ ImplMove(t, op)
         \/ ~Connected(t) /\ UNCHANGED sockVars,
         pc \in {"down", "up"}, UNCHANGED <<conn, acc, accepted, cntVars, pc, user>>,
         wrap' \in [Socks -> Wrap], up' \in [Socks -> Reqs], down' \in [Socks -> Reqs],
         left' \in SUBSET (Socks \cup {Server}), rem' \in SUBSET (Socks \cup {Server}),
         note' \in SUBSET (Socks \cup {Server}), misled' \in SUBSET Socks,
         \A u \in Socks : /\ wrap'[u].reg = wrap[u].reg /\ wrap'[u].connecting = wrap[u].connecting
                          /\ wrap'[u].out => wrap[u].out,
         \A u \in Socks : Wanted(down, u) /\ ptr[u] # ptr[t] => Wanted(down, u)',
         \A u \in Socks : Wanted(up, u) /\ ptr[u] # ptr[t] => Wanted(up, u)',
         IF op = "read" THEN UNCHANGED up ELSE UNCHANGED down,
         pc = "up" => \A u \in rem' \cap Socks : up'[u] = "invalid"
  PROVE  IInv'
<1>1. /\ UNCHANGED <<ptr, incoming, watched>> /\ impl' \in [Socks -> Impl]
      /\ toRemove' \in SUBSET Socks /\ events' \in Seq(Events)
      /\ \A u \in Socks \ {t} : impl'[u] = impl[u]
      /\ impl'[t].toDelete = impl[t].toDelete
      /\ \/ impl'[t].stage = impl[t].stage /\ events' = events
         \/ /\ impl[t].stage = "connected" /\ impl'[t].stage = "closed"
            /\ events' = Append(events, [at |-> ptr[t], evt |-> "SOCK_LOST"])
            /\ [at |-> ptr[t], evt |-> "SOCK_LOST"] \in Events
      /\ impl'[t].hasData => impl[t].hasData
      /\ impl'[t].writable => impl[t].writable
      /\ Connected(t)' => ~(IF op = "read" THEN impl'[t].hasData ELSE impl'[t].writable)
  BY UsedSock
<1> DEFINE e == [at |-> ptr[t], evt |-> "SOCK_LOST"]
<1>2. events \in Seq(Events) /\ UNCHANGED <<connCnt, connectingCnt>> /\ connCnt \in Int
  BY DEF IInv, Types, SocketsTypeOK, cntVars
<1>3. \A u \in Socks \ {t} : Exists(u) => ptr[u] # ptr[t]
  BY DEF IInv, Living
<1>4. \A K : \A u \in Socks : Coming(u, K) => Coming(u, K)'
  <2>1. CASE events' = events
    BY <1>1, <2>1 DEF Coming
  <2>2. CASE events' = Append(events, e) /\ e \in Events
    <3>1. events' = events \o <<e>> /\ <<e>> \in Seq(Events)
      BY <1>2, <2>2
    <3>2. QED BY <1>1, <1>2, <3>1, ComingMore
  <2>3. QED BY <1>1, <2>1, <2>2
<1>5. \A u \in Socks : (Exists(u)' <=> Exists(u)) /\ (Registered(u)' <=> Registered(u))
                        /\ (Connected(u)' => Connected(u))
  BY <1>1 DEF Exists, Registered, Connected
<1>6. \A u \in Socks : impl[u].stage # "connected" => impl'[u].stage = impl[u].stage
  BY <1>1
<1>7. Types'
  BY <1>1, <1>2 DEF IInv, Types, SocketsTypeOK
<1>8. Living'
  <2>1. \A u \in Socks : impl'[u].stage \in {"unborn", "fresh", "connecting"} =>
          impl[u].stage = impl'[u].stage /\ (impl'[u].hasData => impl[u].hasData)
                                         /\ (impl'[u].writable => impl[u].writable)
    BY <1>1
  <2>2. \A u \in Socks : impl'[u].toDelete = impl[u].toDelete
    BY <1>1
  <2>3. QED BY <1>1, <1>5, <2>1, <2>2 DEF IInv, Living
<1>9. Waiting'
  <2>1. accepted' = {}
    BY DEF IInv, Waiting
  <2>2. QED BY <2>1 DEF Waiting
<1>10. Holding'
  <2>1. \A u \in Socks : impl[u].stage \in {"fresh", "connecting"} => impl'[u].stage = impl[u].stage
    BY <1>6
  <2>2. \A u \in Socks : impl[u].stage # "fresh" => impl'[u].stage # "fresh"
    BY <1>1
  <2>3. QED BY <1>4, <1>5, <2>1, <2>2 DEF IInv, Holding
<1>11. Stale'
  <2>1. CASE impl'[t].stage = impl[t].stage /\ events' = events
    <3>1. \A u \in Socks : impl'[u].stage = impl[u].stage
      BY <1>1, <2>1
    <3>2. QED BY <1>1, <1>5, <2>1, <3>1 DEF IInv, Stale
  <2>2. CASE /\ impl[t].stage = "connected" /\ impl'[t].stage = "closed"
             /\ events' = Append(events, e) /\ e \in Events
    <3>1. /\ Len(events') = Len(events) + 1 /\ Len(events) \in Nat /\ events'[Len(events')] = e
          /\ \A k \in 1..Len(events) : events'[k] = events[k]
      BY <1>2, <2>2
    <3>2. ASSUME NEW k \in 1..Len(events') PROVE k \in 1..Len(events) \/ events'[k] = e
      BY <3>1
    <3>3. e.evt \in Losses /\ e.at = ptr[t]
      BY DEF Losses
    <3>4. ASSUME NEW k \in 1..Len(events'), NEW u \in Socks,
                 events'[k].evt \in Losses, events'[k].at = ptr[u], Exists(u)
          PROVE  impl'[u].stage \in {"fresh", "closed"}
      <4>1. CASE k \in 1..Len(events)
        <5>1. impl[u].stage \in {"fresh", "closed"}
          BY <3>1, <3>4, <4>1 DEF IInv, Stale
        <5>2. QED BY <1>6, <5>1
      <4>2. CASE events'[k] = e
        BY <1>3, <2>2, <3>3, <3>4, <4>2
      <4>3. QED BY <3>2, <4>1, <4>2
    <3>5. ASSUME NEW k \in 1..Len(events'), pc # "drain"
          PROVE  /\ events'[k].evt \in Losses
                 /\ \E u \in Socks : impl'[u].stage = "closed" /\ ptr[u] = events'[k].at
      <4>1. CASE k \in 1..Len(events)
        <5>1. PICK u \in Socks : impl[u].stage = "closed" /\ ptr[u] = events[k].at
          BY <3>5, <4>1 DEF IInv, Stale
        <5>2. impl'[u].stage = "closed"
          BY <1>6, <5>1
        <5>3. QED BY <3>1, <3>5, <4>1, <5>1, <5>2 DEF IInv, Stale
      <4>2. CASE events'[k] = e
        BY <2>2, <3>3, <4>2
      <4>3. QED BY <3>2, <4>1, <4>2
    <3>6. QED BY <1>1, <1>5, <3>4, <3>5 DEF Stale
  <2>3. QED BY <1>1, <2>1, <2>2
<1>12. Rounded'
  BY DEF IInv, Rounded
<1>13. Counting'
  <2>1. Holders' = Holders
    BY DEF Holders
  <2>2. Cardinality(LostIn(events)) \in Nat /\ Cardinality(LostIn(events')) \in Nat
    BY <1>1, <1>2, LostType
  <2>3. Cardinality(OpenSocks) + Cardinality(LostIn(events)) <= connCnt
    BY DEF IInv, Counting
  <2>4. CASE impl'[t].stage = impl[t].stage /\ events' = events
    <3>1. OpenSocks' = OpenSocks
      BY <1>1, <2>4 DEF OpenSocks, IsOpen
    <3>2. QED BY <1>2, <2>1, <2>4, <3>1 DEF IInv, Counting
  <2>5. CASE /\ impl[t].stage = "connected" /\ impl'[t].stage = "closed"
             /\ events' = Append(events, e) /\ e \in Events
    <3>1. ~IsOpen(impl'[t]) /\ IsOpen(impl[t])
      BY <2>5 DEF IsOpen
    <3>2. /\ Cardinality(OpenSocks) \in Nat /\ Cardinality(OpenSocks') \in Nat
          /\ Cardinality(OpenSocks') = Cardinality(OpenSocks) - 1
      BY <1>1, <3>1, OpenGone
    <3>3. Cardinality(LostIn(events')) <= Cardinality(LostIn(events)) + 1
      BY <1>2, <2>5, LostAppend
    <3>4. Cardinality(OpenSocks') + Cardinality(LostIn(events')) <= connCnt'
      BY <1>2, <2>2, <2>3, <3>2, <3>3
    <3>5. QED BY <1>2, <2>1, <3>4 DEF IInv, Counting
  <2>6. QED BY <1>1, <2>4, <2>5
<1>14. ReadsServed'
  <2> SUFFICES ASSUME NEW u \in Socks, Registered(u)', Connected(u)', impl'[u].hasData
               PROVE  (Wanted(down, u) \/ Coming(u, {"SOCK_READ"}))'
    BY DEF ReadsServed
  <2>1. Registered(u) /\ Connected(u) /\ impl[u].hasData /\ Exists(u)
    BY <1>1, <1>5 DEF IInv, Living
  <2>2. Wanted(down, u) \/ Coming(u, {"SOCK_READ"})
    BY <2>1 DEF IInv, ReadsServed
  <2>3. CASE u # t
    BY <1>3, <1>4, <2>1, <2>2, <2>3
  <2>4. CASE u = t /\ op = "write"
    <3>1. Wanted(down, u) => Wanted(down, u)'
      BY <1>1, <2>4 DEF Wanted, ReqAt
    <3>2. QED BY <1>4, <2>2, <3>1
  <2>5. QED BY <1>1, <2>3, <2>4
<1>15. WritesServed'
  <2> DEFINE K == Losses \cup {"SOCK_WRITE", "SOCK_CONNECTED"}
  <2> SUFFICES ASSUME NEW u \in Socks, Registered(u)', Connected(u)', wrap'[u].out
               PROVE  (Wanted(up, u) \/ ~impl[u].writable \/ Coming(u, K))'
    BY DEF WritesServed
  <2>1. Registered(u) /\ Connected(u) /\ wrap[u].out /\ Exists(u)
    BY <1>5 DEF IInv, Living
  <2>2. Wanted(up, u) \/ ~impl[u].writable \/ Coming(u, K)
    BY <2>1 DEF IInv, WritesServed
  <2>3. CASE u # t
    BY <1>1, <1>3, <1>4, <2>1, <2>2, <2>3
  <2>4. CASE u = t /\ op = "read"
    <3>1. Wanted(up, u) => Wanted(up, u)'
      BY <1>1, <2>4 DEF Wanted, ReqAt
    <3>2. QED BY <1>1, <1>4, <2>2, <2>4, <3>1
  <2>5. QED BY <1>1, <2>3, <2>4
<1>16. QED
  BY <1>7, <1>8, <1>9, <1>10, <1>11, <1>12, <1>13, <1>14, <1>15 DEF IInv

\* handleDownloads()
LEMMA RecvInv ==
  ASSUME IInv, NEW s \in Socks, NEW result \in {"part", "full", "lost", "throws"}, Recv(s, result)
  PROVE  IInv'
<1>1. /\ pc = "down" /\ down[s] = "valid"
      /\ left' = left \ {s} /\ note' = note \cup {s}
      /\ UNCHANGED <<wrap, up, conn, acc, accepted, cntVars, pc, user>>
      /\ \/ UNCHANGED <<down, rem>>
         \/ down' = [down EXCEPT ![s] = "invalid"] /\ rem' = rem \cup {s}
  BY DEF Recv
<1>2. PICK t \in ObjectAt(ptr[s]) :
        /\ (result = "throws") <=> ~Connected(t)
        /\ CASE result = "lost"   -> ImplFail(t, "read")
             [] result = "throws" -> UNCHANGED sockVars
             [] OTHER             -> ImplMove(t, "read")
        /\ misled' = IF t = s THEN misled ELSE misled \cup {t}
  BY DEF Recv
<1>3. t \in Socks /\ Exists(t) /\ ptr[t] = ptr[s]
  BY DEF ObjectAt
<1>4. \/ Connected(t) /\ ImplFail(t, "read")
      \/ Connected(t) /\ ImplMove(t, "read")
      \/ ~Connected(t) /\ UNCHANGED sockVars
  BY <1>2
<1>5. down \in [Socks -> Reqs] /\ wrap \in [Socks -> Wrap] /\ up \in [Socks -> Reqs]
  BY DEF IInv, Types
<1>6. /\ down' \in [Socks -> Reqs] /\ \A u \in Socks \ {s} : down'[u] = down[u]
      /\ rem' \in SUBSET (Socks \cup {Server}) /\ left' \in SUBSET (Socks \cup {Server})
      /\ note' \in SUBSET (Socks \cup {Server}) /\ misled' \in SUBSET Socks
  BY <1>1, <1>2, <1>3 DEF IInv, Types, Reqs
<1>7. UNCHANGED ptr
  BY <1>3, <1>4, UsedSock
<1>8. /\ \A u \in Socks : Wanted(down, u) /\ ptr[u] # ptr[t] => Wanted(down, u)'
      /\ \A u \in Socks : Wanted(up, u) /\ ptr[u] # ptr[t] => Wanted(up, u)'
  BY <1>1, <1>3, <1>6, <1>7 DEF Wanted, ReqAt
<1>9. QED BY <1>1, <1>3, <1>4, <1>5, <1>6, <1>8, UsedInv

\* handleUploads()
LEMMA SendInv ==
  ASSUME IInv, NEW s \in Socks, NEW result \in {"all", "part", "lost", "throws"}, Send(s, result)
  PROVE  IInv'
<1>1. /\ pc = "up" /\ up[s] = "valid" /\ left' = left \ {s}
      /\ wrap' = IF result = "all" THEN [wrap EXCEPT ![s].out = FALSE] ELSE wrap
      /\ UNCHANGED <<down, conn, acc, accepted, cntVars, pc, note, user>>
      /\ \/ UNCHANGED <<up, rem>>
         \/ up' = [up EXCEPT ![s] = "invalid"] /\ rem' = rem \cup {s}
  BY DEF Send
<1>2. PICK t \in ObjectAt(ptr[s]) :
        /\ (result = "throws") <=> ~Connected(t)
        /\ CASE result = "lost"   -> ImplFail(t, "write")
             [] result = "throws" -> UNCHANGED sockVars
             [] OTHER             -> ImplMove(t, "write")
        /\ misled' = IF t = s \/ result # "all" THEN misled ELSE misled \cup {s}
  BY DEF Send
<1>3. t \in Socks /\ Exists(t) /\ ptr[t] = ptr[s]
  BY DEF ObjectAt
<1>4. \/ Connected(t) /\ ImplFail(t, "write")
      \/ Connected(t) /\ ImplMove(t, "write")
      \/ ~Connected(t) /\ UNCHANGED sockVars
  BY <1>2
<1>5. down \in [Socks -> Reqs] /\ wrap \in [Socks -> Wrap] /\ up \in [Socks -> Reqs]
  BY DEF IInv, Types
<1>6. /\ up' \in [Socks -> Reqs] /\ \A u \in Socks \ {s} : up'[u] = up[u]
      /\ rem' \in SUBSET (Socks \cup {Server}) /\ left' \in SUBSET (Socks \cup {Server})
      /\ misled' \in SUBSET Socks
      /\ \A u \in rem' \cap Socks : up'[u] = "invalid"
  BY <1>1, <1>2, <1>3 DEF IInv, Types, Reqs, Rounded
<1>7. /\ wrap' \in [Socks -> Wrap]
      /\ \A u \in Socks : /\ wrap'[u].reg = wrap[u].reg /\ wrap'[u].connecting = wrap[u].connecting
                          /\ wrap'[u].out => wrap[u].out
  BY <1>1, <1>5 DEF Wrap
<1>8. UNCHANGED ptr
  BY <1>3, <1>4, UsedSock
<1>9. /\ \A u \in Socks : Wanted(up, u) /\ ptr[u] # ptr[t] => Wanted(up, u)'
      /\ \A u \in Socks : Wanted(down, u) /\ ptr[u] # ptr[t] => Wanted(down, u)'
  BY <1>1, <1>3, <1>6, <1>8 DEF Wanted, ReqAt
<1>10. note' \in SUBSET (Socks \cup {Server})
  BY <1>1 DEF IInv, Types
<1>11. QED BY <1>1, <1>3, <1>4, <1>5, <1>6, <1>7, <1>9, <1>10, UsedInv

\* The peer is not allowed.
LEMMA AcceptBlockedInv ==
  ASSUME IInv, AcceptBlocked PROVE IInv'
<1>1. /\ pc = "conn" /\ left' = left \ {Server} /\ rem' = rem \cup {Server} /\ acc' = "invalid"
      /\ incoming' = FALSE
      /\ UNCHANGED <<ptr, impl, watched, toRemove, events, wrap, up, down, conn, accepted>>
      /\ UNCHANGED <<cntVars, pc, note, user, misled>>
  BY DEF AcceptBlocked
<1>2. Types'
  BY <1>1 DEF IInv, Types, SocketsTypeOK, cntVars, Reqs
<1>3. Rounded'
  BY <1>1 DEF IInv, Rounded
<1>4. \A s \in Socks : conn'[s] = "valid" => Registered(s) /\ impl[s].stage = "fresh"
  BY <1>1 DEF IInv, Holding
<1>5. accepted # {} => Server \in note' /\ pc' \in {"conn", "connNotify"}
  BY <1>1 DEF IInv, Waiting
<1>6. QED BY <1>1, <1>2, <1>3, <1>4, <1>5, AskInv

\* Outside the drain no loss is to be told at the address of a socket that was not
\* open, or of none.
LEMMA NoNews ==
  ASSUME IInv, pc # "drain", NEW a, \A t \in Socks : ptr[t] = a => impl[t].stage # "closed"
  PROVE  \A k \in 1..Len(events) : events[k].at # a
BY DEF IInv, Stale

\* One socket more is open.
LEMMA OpenMore ==
  ASSUME NEW s \in Socks, ~IsOpen(impl[s]), IsOpen(impl'[s]),
         \A t \in Socks \ {s} : impl'[t].stage = impl[t].stage
  PROVE  /\ Cardinality(OpenSocks) \in Nat /\ Cardinality(OpenSocks') \in Nat
         /\ Cardinality(OpenSocks') = Cardinality(OpenSocks) + 1
<1>1. OpenSocks' = OpenSocks \cup {s} /\ s \notin OpenSocks
      /\ OpenSocks \in SUBSET Socks /\ OpenSocks' \in SUBSET Socks
  BY DEF OpenSocks, IsOpen
<1>2. /\ IsFiniteSet(OpenSocks) /\ Cardinality(OpenSocks) \in Nat /\ Cardinality(OpenSocks') \in Nat
  BY <1>1, SockSets
<1>3. QED BY <1>1, <1>2, FS_AddElement

\* connect() of the object.
LEMMA DoConnOk ==
  ASSUME IInv, NEW s \in Socks, DoConn(s, TRUE) PROVE IInv'
<1>1. /\ pc = "conn" /\ conn[s] = "valid" /\ connCnt < ConnLimit /\ connectingCnt < ConnectingLimit
      /\ left' = left \ {s} /\ rem' = rem \cup {s} /\ conn' = [conn EXCEPT ![s] = "invalid"]
      /\ impl' = [impl EXCEPT ![s].stage = "connecting"] /\ watched' = watched \cup {s}
      /\ UNCHANGED <<ptr, incoming, toRemove, events>>
      /\ wrap' = [wrap EXCEPT ![s].connecting = TRUE]
      /\ connectingCnt' = IF wrap[s].connecting THEN connectingCnt ELSE connectingCnt + 1
      /\ connCnt' = connCnt + 1
      /\ UNCHANGED <<note, up, down, acc, accepted, pc, user, misled>>
  BY DEF DoConn, Granted, ImplConnect
<1>2. /\ impl \in [Socks -> Impl] /\ wrap \in [Socks -> Wrap] /\ connCnt \in Int /\ connectingCnt \in Int
      /\ up \in [Socks -> Reqs] /\ down \in [Socks -> Reqs] /\ conn \in [Socks -> Reqs]
  BY DEF IInv, Types, SocketsTypeOK
<1>3. /\ Registered(s) /\ impl[s].stage = "fresh" /\ Exists(s) /\ s \notin accepted /\ ~wrap[s].connecting
      /\ ~impl[s].hasData /\ ~impl[s].writable
      /\ \A t \in Socks \ {s} : Exists(t) => ptr[t] # ptr[s]
  BY <1>1 DEF IInv, Holding, Living, Waiting
<1>4. /\ impl' \in [Socks -> Impl] /\ \A t \in Socks \ {s} : impl'[t] = impl[t]
      /\ impl'[s].stage = "connecting" /\ impl'[s].toDelete = impl[s].toDelete
      /\ ~impl'[s].hasData /\ ~impl'[s].writable
  BY <1>1, <1>2, <1>3 DEF Impl, Stages
<1>5. /\ wrap' \in [Socks -> Wrap] /\ \A t \in Socks \ {s} : wrap'[t] = wrap[t]
      /\ wrap'[s].connecting /\ wrap'[s].reg = wrap[s].reg /\ wrap'[s].out = wrap[s].out
  BY <1>1, <1>2 DEF Wrap
<1>6. conn' \in [Socks -> Reqs] /\ \A t \in Socks : conn'[t] = "valid" => t # s /\ conn[t] = "valid"
  BY <1>1, <1>2 DEF Reqs
<1>7. \A t \in Socks : (Exists(t)' <=> Exists(t)) /\ (Registered(t)' <=> Registered(t))
                       /\ (Connected(t)' <=> Connected(t))
  BY <1>3, <1>4, <1>5 DEF Exists, Registered, Connected
<1>8. Types'
  BY <1>1, <1>2, <1>4, <1>5, <1>6 DEF IInv, Types, SocketsTypeOK
<1>9. Living'
  BY <1>1, <1>3, <1>4, <1>7 DEF IInv, Living
<1>10. Waiting'
  BY <1>1, <1>3, <1>4, <1>7 DEF IInv, Waiting, Types
<1>11. Holding'
  BY <1>1, <1>3, <1>4, <1>5, <1>6, <1>7 DEF IInv, Holding, Coming
<1>12. Stale'
  <2>1. \A t \in Socks : ptr[t] = ptr[s] => impl[t].stage # "closed"
    BY <1>3 DEF Exists
  <2>2. \A k \in 1..Len(events) : events[k].at # ptr[s]
    BY <1>1, <2>1, NoNews
  <2>3. \A t \in Socks : impl[t].stage = "closed" => impl'[t].stage = "closed"
    BY <1>3, <1>4
  <2>4. QED BY <1>1, <1>4, <1>7, <2>2, <2>3 DEF IInv, Stale
<1>13. Rounded'
  BY <1>1 DEF IInv, Rounded
<1>14. Counting'
  <2>1. /\ Cardinality(OpenSocks) \in Nat /\ Cardinality(OpenSocks') \in Nat
        /\ Cardinality(OpenSocks') = Cardinality(OpenSocks) + 1
    BY <1>3, <1>4, OpenMore DEF IsOpen
  <2>2. /\ Holders' = Holders \cup {s} /\ s \notin Holders /\ Holders \in SUBSET Socks
    BY <1>3, <1>5 DEF Holders
  <2>3. Cardinality(Holders') = Cardinality(Holders) + 1 /\ Cardinality(Holders) \in Nat
    BY <2>2, SockSets, FS_AddElement
  <2>4. /\ Cardinality(LostIn(events)) \in Nat /\ LostIn(events)' = LostIn(events)
    BY <1>1, LostType DEF IInv, Types, SocketsTypeOK, LostIn
  <2>5. /\ Cardinality(OpenSocks) + Cardinality(LostIn(events)) <= connCnt
        /\ connectingCnt = Cardinality(Holders)
    BY DEF IInv, Counting
  <2>6. /\ Cardinality(OpenSocks') + Cardinality(LostIn(events)) <= connCnt' /\ connCnt' <= ConnLimit
        /\ connectingCnt' = Cardinality(Holders') /\ connectingCnt' <= ConnectingLimit
    BY <1>1, <1>2, <1>3, <2>1, <2>3, <2>4, <2>5, SchedulerAssumption
  <2>7. QED BY <2>4, <2>6 DEF Counting
<1>15. /\ \A t \in Socks : Wanted(down, t) => Wanted(down, t)'
       /\ \A t \in Socks : Wanted(up, t) => Wanted(up, t)'
  BY <1>1 DEF Wanted, ReqAt
<1>16. \A t \in Socks : Connected(t)' => t # s
  BY <1>4 DEF Connected
<1>17. ReadsServed'
  BY <1>1, <1>4, <1>7, <1>15, <1>16 DEF IInv, ReadsServed, Coming
<1>18. WritesServed'
  BY <1>1, <1>4, <1>5, <1>7, <1>15, <1>16 DEF IInv, WritesServed, Coming
<1>19. QED
  BY <1>8, <1>9, <1>10, <1>11, <1>12, <1>13, <1>14, <1>17, <1>18 DEF IInv

\* connect() throws.
LEMMA DoConnFails ==
  ASSUME IInv, NEW s \in Socks, DoConn(s, FALSE) PROVE IInv'
<1>1. /\ pc = "conn" /\ conn[s] = "valid"
      /\ left' = left \ {s} /\ rem' = rem \cup {s} /\ conn' = [conn EXCEPT ![s] = "invalid"]
      /\ impl' = [impl EXCEPT ![s].stage = "closed"] /\ note' = note \cup {s}
      /\ UNCHANGED <<ptr, incoming, watched, toRemove, events, connCnt>>
      /\ wrap' = Settled(s) /\ connectingCnt' = SettledCnt(s)
      /\ UNCHANGED <<up, down, acc, accepted, pc, user, misled>>
  BY DEF DoConn
<1>2. /\ impl \in [Socks -> Impl] /\ wrap \in [Socks -> Wrap] /\ connCnt \in Int
      /\ up \in [Socks -> Reqs] /\ down \in [Socks -> Reqs] /\ conn \in [Socks -> Reqs]
  BY DEF IInv, Types, SocketsTypeOK
<1>3. /\ Registered(s) /\ impl[s].stage = "fresh" /\ Exists(s) /\ s \notin accepted
  BY <1>1 DEF IInv, Holding, Living, Waiting
<1>4. /\ impl' \in [Socks -> Impl] /\ \A t \in Socks \ {s} : impl'[t] = impl[t]
      /\ impl'[s].stage = "closed" /\ impl'[s].toDelete = impl[s].toDelete
  BY <1>1, <1>2 DEF Impl, Stages
<1>5. /\ wrap' \in [Socks -> Wrap] /\ \A t \in Socks \ {s} : wrap'[t] = wrap[t]
      /\ ~wrap'[s].connecting /\ wrap'[s].reg = wrap[s].reg /\ wrap'[s].out = wrap[s].out
  BY <1>1, SettledKeeps DEF IInv
<1>6. conn' \in [Socks -> Reqs] /\ \A t \in Socks : conn'[t] = "valid" => t # s /\ conn[t] = "valid"
  BY <1>1, <1>2 DEF Reqs
<1>7. \A t \in Socks : (Exists(t)' <=> Exists(t)) /\ (Registered(t)' <=> Registered(t))
                       /\ (Connected(t)' <=> Connected(t))
  BY <1>3, <1>4, <1>5 DEF Exists, Registered, Connected
<1>8. /\ connectingCnt' = Cardinality(Holders') /\ connectingCnt' \in Int
      /\ connectingCnt' <= ConnectingLimit
  BY <1>1, <1>5, HolderGone DEF IInv
<1>9. Types'
  BY <1>1, <1>2, <1>4, <1>5, <1>6, <1>8 DEF IInv, Types, SocketsTypeOK
<1>10. Living'
  BY <1>1, <1>3, <1>4, <1>7 DEF IInv, Living
<1>11. Waiting'
  BY <1>1, <1>3, <1>4, <1>7 DEF IInv, Waiting, Types
<1>12. Holding'
  BY <1>1, <1>4, <1>5, <1>6, <1>7 DEF IInv, Holding, Coming
<1>13. Stale'
  <2>1. \A t \in Socks : impl[t].stage = "closed" => impl'[t].stage = "closed"
    BY <1>4
  <2>2. QED BY <1>1, <1>4, <1>7, <2>1 DEF IInv, Stale
<1>14. Rounded'
  BY <1>1 DEF IInv, Rounded
<1>15. Counting'
  <2>1. OpenSocks' = OpenSocks
    BY <1>3, <1>4 DEF OpenSocks, IsOpen
  <2>2. QED BY <1>1, <1>8, <2>1 DEF IInv, Counting, LostIn
<1>16. /\ \A t \in Socks : Wanted(down, t) => Wanted(down, t)'
       /\ \A t \in Socks : Wanted(up, t) => Wanted(up, t)'
  BY <1>1 DEF Wanted, ReqAt
<1>17. \A t \in Socks : Connected(t)' => t # s
  BY <1>4 DEF Connected
<1>18. ReadsServed'
  BY <1>1, <1>4, <1>7, <1>16, <1>17 DEF IInv, ReadsServed, Coming
<1>19. WritesServed'
  BY <1>1, <1>4, <1>5, <1>7, <1>16, <1>17 DEF IInv, WritesServed, Coming
<1>20. QED
  BY <1>9, <1>10, <1>11, <1>12, <1>13, <1>14, <1>15, <1>18, <1>19 DEF IInv

\* An incoming connection is open, and waits for the plugin.
LEMMA AcceptInv ==
  ASSUME IInv, NEW s \in Socks, NEW a \in Addrs, Accept(s, a) PROVE IInv'
<1>1. /\ pc = "conn" /\ connCnt < ConnLimit /\ impl[s].stage = "unborn" /\ ObjectAt(a) = {}
      /\ ptr' = [ptr EXCEPT ![s] = a] /\ impl' = [impl EXCEPT ![s].stage = "connected"]
      /\ watched' = watched \cup {s} /\ incoming' = FALSE /\ accepted' = accepted \cup {s}
      /\ connCnt' = connCnt + 1 /\ acc' = "invalid" /\ left' = left \ {Server}
      /\ rem' = rem \cup {Server} /\ note' = note \cup {Server}
      /\ UNCHANGED <<toRemove, events, wrap, up, down, conn, connectingCnt, pc, user, misled>>
  BY DEF Accept, Granted, MayGet
<1>2. /\ ptr \in [Socks -> Addrs \cup {None}] /\ impl \in [Socks -> Impl] /\ wrap \in [Socks -> Wrap]
      /\ connCnt \in Int /\ accepted \in SUBSET Socks
  BY DEF IInv, Types, SocketsTypeOK
<1>3. /\ ~Exists(s) /\ ~Registered(s) /\ s \notin accepted /\ ~wrap[s].connecting
      /\ ptr[s] = None /\ ~impl[s].toDelete /\ ~impl[s].hasData /\ ~impl[s].writable
      /\ conn[s] # "valid"
  BY <1>1, <1>2 DEF IInv, Living, Waiting, Holding, Exists
<1>4. /\ ptr'[s] = a /\ \A t \in Socks \ {s} : ptr'[t] = ptr[t] /\ impl'[t] = impl[t]
      /\ impl'[s].stage = "connected" /\ ~impl'[s].toDelete /\ ~impl'[s].hasData /\ ~impl'[s].writable
      /\ impl' \in [Socks -> Impl] /\ ptr' \in [Socks -> Addrs \cup {None}]
  BY <1>1, <1>2, <1>3 DEF Impl, Stages
<1>5. \A t \in Socks \ {s} : Exists(t) => ptr[t] # a /\ ptr[t] \in Addrs /\ ptr[t] # None
  BY <1>1, SocketsAssumption DEF ObjectAt, IInv, Living
<1>6. Types'
  <2>1. /\ SocketsTypeOK' /\ wrap' \in [Socks -> Wrap] /\ accepted' \in SUBSET Socks
        /\ connCnt' \in Int /\ acc' \in Reqs
    <3>1. toRemove' \in SUBSET Socks /\ events' \in Seq(Events) /\ wrap' \in [Socks -> Wrap]
      BY <1>1 DEF IInv, Types, SocketsTypeOK
    <3>2. connCnt' \in Int
      BY <1>1, <1>2
    <3>3. incoming' \in BOOLEAN /\ acc' \in Reqs
      BY <1>1 DEF Reqs
    <3>4. watched' \in SUBSET Socks /\ accepted' \in SUBSET Socks
      BY <1>1, <1>2 DEF IInv, Types, SocketsTypeOK
    <3>5. QED BY <1>4, <3>1, <3>2, <3>3, <3>4 DEF SocketsTypeOK
  <2>2. /\ left' \in SUBSET (Socks \cup {Server}) /\ rem' \in SUBSET (Socks \cup {Server})
        /\ note' \in SUBSET (Socks \cup {Server})
    BY <1>1 DEF IInv, Types
  <2>3. QED BY <1>1, <2>1, <2>2 DEF IInv, Types
<1>7. /\ \A t \in Socks \ {s} : (Exists(t)' <=> Exists(t)) /\ (Connected(t)' <=> Connected(t))
      /\ \A t \in Socks : Registered(t)' <=> Registered(t)
      /\ Exists(s)'
  BY <1>1, <1>4 DEF Exists, Registered, Connected
<1>8. Living'
  BY <1>3, <1>4, <1>5, <1>7 DEF IInv, Living
<1>9. Waiting'
  BY <1>1, <1>2, <1>3, <1>4, <1>7 DEF IInv, Waiting
<1>10. Holding'
  <2>1. \A t \in Socks \ {s} : \A K : Coming(t, K)' <=> Coming(t, K)
    BY <1>1, <1>4 DEF Coming
  <2>2. QED BY <1>1, <1>3, <1>4, <1>7, <2>1 DEF IInv, Holding
<1>11. Stale'
  <2>1. \A k \in 1..Len(events) : \E t \in Socks : impl[t].stage = "closed" /\ ptr[t] = events[k].at
    BY <1>1 DEF IInv, Stale
  <2>2. \A t \in Socks : impl[t].stage = "closed" => t # s /\ ptr[t] # a
    BY <1>1, <1>5 DEF Exists
  <2>3. \A k \in 1..Len(events) : events[k].at # a
    BY <2>1, <2>2
  <2>4. QED BY <1>1, <1>4, <1>7, <2>2, <2>3 DEF IInv, Stale
<1>12. Rounded'
  BY <1>1 DEF IInv, Rounded
<1>13. Counting'
  <2>1. /\ Cardinality(OpenSocks) \in Nat /\ Cardinality(OpenSocks') \in Nat
        /\ Cardinality(OpenSocks') = Cardinality(OpenSocks) + 1
    BY <1>1, <1>4, OpenMore DEF IsOpen
  <2>2. Holders' = Holders
    BY <1>1 DEF Holders
  <2>3. /\ Cardinality(LostIn(events)) \in Nat /\ LostIn(events)' = LostIn(events)
    BY <1>1, LostType DEF IInv, Types, SocketsTypeOK, LostIn
  <2>4. Cardinality(OpenSocks) + Cardinality(LostIn(events)) <= connCnt
    BY DEF IInv, Counting
  <2>5. Cardinality(OpenSocks') + Cardinality(LostIn(events)) <= connCnt' /\ connCnt' <= ConnLimit
    BY <1>1, <1>2, <2>1, <2>3, <2>4, SchedulerAssumption
  <2>6. QED BY <1>1, <2>2, <2>3, <2>5 DEF IInv, Counting
<1>14. ASSUME NEW t \in Socks, Registered(t)', Connected(t)'
       PROVE  /\ t # s /\ Exists(t) /\ Registered(t) /\ Connected(t) /\ impl'[t] = impl[t] /\ ptr'[t] = ptr[t]
              /\ Wanted(down, t) => Wanted(down, t)'
              /\ Wanted(up, t) => Wanted(up, t)'
  <2>1. t # s /\ Registered(t) /\ Exists(t) /\ Connected(t)
    BY <1>3, <1>7, <1>14 DEF IInv, Living
  <2>2. ptr[t] # ptr[s]
    BY <1>3, <1>5, <2>1
  <2>3. \A r \in Socks : ptr[r] = ptr[t] => ptr'[r] = ptr[r] /\ ptr'[t] = ptr[t]
    BY <1>4, <2>1, <2>2
  <2>4. /\ Wanted(down, t) => Wanted(down, t)'
        /\ Wanted(up, t) => Wanted(up, t)'
    BY <1>1, <2>3 DEF Wanted, ReqAt
  <2>5. QED BY <1>4, <2>1, <2>4
<1>15. ReadsServed'
  <2> SUFFICES ASSUME NEW t \in Socks, Registered(t)', Connected(t)', impl'[t].hasData
               PROVE  (Wanted(down, t) \/ Coming(t, {"SOCK_READ"}))'
    BY DEF ReadsServed
  <2>1. Wanted(down, t) \/ Coming(t, {"SOCK_READ"})
    BY <1>14 DEF IInv, ReadsServed
  <2>2. QED BY <1>1, <1>14, <2>1 DEF Coming
<1>16. WritesServed'
  <2> DEFINE K == Losses \cup {"SOCK_WRITE", "SOCK_CONNECTED"}
  <2> SUFFICES ASSUME NEW t \in Socks, Registered(t)', Connected(t)', wrap'[t].out
               PROVE  (Wanted(up, t) \/ ~impl[t].writable \/ Coming(t, K))'
    BY DEF WritesServed
  <2>1. Wanted(up, t) \/ ~impl[t].writable \/ Coming(t, K)
    BY <1>1, <1>14 DEF IInv, WritesServed
  <2>2. QED BY <1>1, <1>14, <2>1 DEF Coming
<1>17. QED
  BY <1>6, <1>8, <1>9, <1>10, <1>11, <1>12, <1>13, <1>15, <1>16 DEF IInv

\* The plugin takes the connections that were accepted: nothing came over them yet.
LEMMA NotifyAcceptInv ==
  ASSUME IInv, NotifyAccept PROVE IInv'
<1>1. /\ pc = "connNotify" /\ left = {} /\ note' = note \ {Server} /\ left' = rem \cap {Server}
      /\ wrap' = [s \in Socks |-> [wrap[s] EXCEPT !.reg = @ \/ s \in accepted]]
      /\ accepted' = {} /\ user' = TRUE
      /\ UNCHANGED <<ptr, impl, incoming, watched, toRemove, events>>
      /\ UNCHANGED <<up, down, conn, acc, connCnt, connectingCnt, pc, rem, misled>>
  BY DEF NotifyAccept, sockVars, reqVars, cntVars
<1>2. wrap \in [Socks -> Wrap] /\ accepted \in SUBSET Socks
  BY DEF IInv, Types
<1>3. /\ wrap' \in [Socks -> Wrap]
      /\ \A s \in Socks : /\ wrap'[s].reg <=> (wrap[s].reg \/ s \in accepted)
                          /\ wrap'[s].connecting = wrap[s].connecting /\ wrap'[s].out = wrap[s].out
  BY <1>1, <1>2 DEF Wrap
<1>4. Types'
  BY <1>1, <1>3 DEF IInv, Types, SocketsTypeOK
<1>5. Living'
  BY <1>1, <1>3 DEF IInv, Living, Waiting, Exists, Registered
<1>6. Waiting'
  BY <1>1 DEF Waiting
<1>7. Holding'
  BY <1>1, <1>3 DEF IInv, Holding, Registered, Coming
<1>8. Stale'
  BY <1>1 DEF IInv, Stale, Exists
<1>9. Rounded'
  BY <1>1 DEF Rounded
<1>10. Counting'
  <2>1. Holders' = Holders
    BY <1>3 DEF Holders
  <2>2. QED BY <1>1, <2>1 DEF IInv, Counting, OpenSocks, LostIn
<1>11. /\ \A s \in Socks : Wanted(down, s) => Wanted(down, s)'
       /\ \A s \in Socks : Wanted(up, s) => Wanted(up, s)'
  BY <1>1 DEF Wanted, ReqAt
<1>12. \A s \in accepted : ~impl[s].hasData /\ ~impl[s].writable
  BY DEF IInv, Waiting
<1>13. ReadsServed'
  BY <1>1, <1>3, <1>11, <1>12 DEF IInv, ReadsServed, Registered, Connected, Coming
<1>14. WritesServed'
  BY <1>1, <1>3, <1>11, <1>12 DEF IInv, WritesServed, Registered, Connected, Coming
<1>15. QED
  BY <1>4, <1>5, <1>6, <1>7, <1>8, <1>9, <1>10, <1>13, <1>14 DEF IInv

-----------------------------------------------------------------------------
(* The events.                                                               *)

\* The first event is taken: what it is about is settled, or asked for.
LEMMA PopInv ==
  ASSUME IInv, Pop, user' \in BOOLEAN,
         wrap' \in [Socks -> Wrap], up' \in [Socks -> Reqs], down' \in [Socks -> Reqs],
         conn' \in [Socks -> Reqs], acc' \in Reqs,
         connectingCnt' \in Int, connectingCnt' = Cardinality(Holders'), connectingCnt' <= ConnectingLimit,
         \/ connCnt' = connCnt
         \/ connCnt' = connCnt - 1 /\ Event.evt \in Losses,
         \A t \in Socks : wrap'[t].reg = wrap[t].reg /\ wrap'[t].out = wrap[t].out,
         \A t \in Socks : wrap'[t].connecting =>
            wrap[t].connecting /\ ~(Event.at = ptr[t] /\ Event.evt \in Losses \cup {"SOCK_CONNECTED"}),
         \A t \in Socks : conn'[t] = "valid" => conn[t] = "valid",
         \A t \in Socks : Registered(t) /\ Connected(t) =>
            /\ Wanted(down, t) \/ (Event.at = ptr[t] /\ Event.evt = "SOCK_READ") => Wanted(down, t)'
            /\ Wanted(up, t) => Wanted(up, t)'
            /\ wrap[t].out /\ Event.at = ptr[t] /\ Event.evt \in {"SOCK_WRITE", "SOCK_CONNECTED"}
                  => Wanted(up, t)'
  PROVE  IInv'
<1>1. /\ pc = "drain" /\ pc' = pc /\ events # <<>> /\ events' = Tail(events)
      /\ UNCHANGED <<ptr, impl, incoming, watched, toRemove, accepted, left, rem, note, misled>>
  BY DEF Pop, rndVars
<1>2. events \in Seq(Events) /\ connCnt \in Int
  BY DEF IInv, Types, SocketsTypeOK
<1>3. /\ events' \in Seq(Events) /\ Len(events) \in Nat /\ Len(events) >= 1 /\ Len(events') = Len(events) - 1
      /\ \A k \in 1..Len(events') : k + 1 \in 1..Len(events) /\ events'[k] = events[k + 1]
      /\ Event = events[1] /\ 1 \in 1..Len(events)
  BY <1>1, <1>2 DEF Event
<1>4. Types'
  BY <1>1, <1>2, <1>3 DEF IInv, Types, SocketsTypeOK
<1>5. Living'
  BY <1>1 DEF IInv, Living, Exists, Registered
<1>6. Waiting'
  BY <1>1 DEF IInv, Waiting
<1>7. Holding'
  <2>1. ASSUME NEW t \in Socks, wrap'[t].connecting
        PROVE  /\ Registered(t)' /\ impl'[t].stage # "fresh"
               /\ impl'[t].stage = "connecting" \/ Coming(t, Losses \cup {"SOCK_CONNECTED"})'
    <3>1. /\ Registered(t) /\ impl[t].stage # "fresh"
          /\ impl[t].stage = "connecting" \/ Coming(t, Losses \cup {"SOCK_CONNECTED"})
      BY <2>1 DEF IInv, Holding
    <3>2. Coming(t, Losses \cup {"SOCK_CONNECTED"}) => Coming(t, Losses \cup {"SOCK_CONNECTED"})'
      BY <1>1, <1>2, <2>1, ComingTail
    <3>3. QED BY <1>1, <3>1, <3>2 DEF Registered
  <2>2. QED BY <1>1, <2>1 DEF IInv, Holding, Registered
<1>8. Stale'
  BY <1>1, <1>3 DEF IInv, Stale, Exists
<1>9. Rounded'
  BY <1>1 DEF Rounded
<1>10. Counting'
  <2>1. /\ Cardinality(LostIn(events')) <= Cardinality(LostIn(events))
        /\ Event.evt \in Losses => Cardinality(LostIn(events')) + 1 <= Cardinality(LostIn(events))
    BY <1>1, <1>2, LostTail DEF Event
  <2>2. Cardinality(LostIn(events)) \in Nat /\ Cardinality(LostIn(events')) \in Nat
    BY <1>2, <1>3, LostType
  <2>3. OpenSocks' = OpenSocks /\ Cardinality(OpenSocks) \in Nat
    BY <1>1, SockSets DEF OpenSocks
  <2>4. Cardinality(OpenSocks) + Cardinality(LostIn(events)) <= connCnt /\ connCnt <= ConnLimit
    BY DEF IInv, Counting
  <2>5. Cardinality(OpenSocks) + Cardinality(LostIn(events')) <= connCnt' /\ connCnt' <= ConnLimit
    BY <1>2, <2>1, <2>2, <2>3, <2>4, SchedulerAssumption
  <2>6. QED BY <2>3, <2>5 DEF Counting
<1>11. \A t \in Socks : (Registered(t)' <=> Registered(t)) /\ (Connected(t)' <=> Connected(t))
  BY <1>1 DEF Registered, Connected
<1>12. ReadsServed'
  <2> SUFFICES ASSUME NEW t \in Socks, Registered(t)', Connected(t)', impl'[t].hasData
               PROVE  (Wanted(down, t) \/ Coming(t, {"SOCK_READ"}))'
    BY DEF ReadsServed
  <2>1. Registered(t) /\ Connected(t)
    BY <1>11
  <2>2. Wanted(down, t) \/ Coming(t, {"SOCK_READ"})
    BY <1>1, <2>1 DEF IInv, ReadsServed
  <2>3. CASE Wanted(down, t) \/ (Event.at = ptr[t] /\ Event.evt = "SOCK_READ")
    BY <2>1, <2>3
  <2>4. CASE Coming(t, {"SOCK_READ"}) /\ ~(Event.at = ptr[t] /\ Event.evt \in {"SOCK_READ"})
    BY <1>1, <1>2, <2>4, ComingTail
  <2>5. QED BY <2>2, <2>3, <2>4
<1>13. WritesServed'
  <2> DEFINE K == Losses \cup {"SOCK_WRITE", "SOCK_CONNECTED"}
  <2> SUFFICES ASSUME NEW t \in Socks, Registered(t)', Connected(t)', wrap'[t].out
               PROVE  (Wanted(up, t) \/ ~impl[t].writable \/ Coming(t, K))'
    BY DEF WritesServed
  <2>1. Registered(t) /\ Connected(t) /\ wrap[t].out /\ Exists(t)
    BY <1>11 DEF IInv, Living
  <2>2. Wanted(up, t) \/ ~impl[t].writable \/ Coming(t, K)
    BY <2>1 DEF IInv, WritesServed
  <2>3. ~(Event.at = ptr[t] /\ Event.evt \in Losses)
    <3>1. impl[t].stage = "connected"
      BY <2>1 DEF Connected
    <3>2. QED BY <1>3, <2>1, <3>1 DEF IInv, Stale
  <2>4. CASE Event.at = ptr[t] /\ Event.evt \in K
    BY <2>1, <2>3, <2>4
  <2>5. CASE Coming(t, K) /\ ~(Event.at = ptr[t] /\ Event.evt \in K)
    <3> HIDE DEF K
    <3>1. Coming(t, K)'
      BY <1>1, <1>2, <2>5, ComingTail
    <3>2. QED BY <3>1
  <2>6. CASE Wanted(up, t) \/ ~impl[t].writable
    BY <1>1, <2>1, <2>6
  <2>7. QED BY <2>2, <2>4, <2>5, <2>6
<1>14. QED
  BY <1>4, <1>5, <1>6, <1>7, <1>8, <1>9, <1>10, <1>12, <1>13 DEF IInv

\* Whom the first event is about.
LEMMA EventFor ==
  ASSUME IInv, NEW s \in Socks, For(s)
  PROVE  \A t \in Socks : Registered(t) /\ Event.at = ptr[t] => t = s
BY DEF IInv, Living, For

\* An event that changes no count and no flag.
LEMMA QuietPop ==
  ASSUME IInv, Pop, user' \in BOOLEAN, UNCHANGED <<wrap, conn, cntVars>>,
         up' \in [Socks -> Reqs], down' \in [Socks -> Reqs], acc' \in Reqs,
         \A t \in Socks : Registered(t) /\ Event.at = ptr[t] =>
            Event.evt \notin Losses \cup {"SOCK_CONNECTED"},
         \A t \in Socks : Registered(t) /\ Connected(t) =>
            /\ Wanted(down, t) \/ (Event.at = ptr[t] /\ Event.evt = "SOCK_READ") => Wanted(down, t)'
            /\ Wanted(up, t) => Wanted(up, t)'
            /\ wrap[t].out /\ Event.at = ptr[t] /\ Event.evt \in {"SOCK_WRITE", "SOCK_CONNECTED"}
                  => Wanted(up, t)'
  PROVE  IInv'
<1>1. UNCHANGED <<connCnt, connectingCnt>> /\ Holders' = Holders
  BY DEF cntVars, Holders
<1>2. /\ wrap' \in [Socks -> Wrap] /\ conn' \in [Socks -> Reqs] /\ connectingCnt' \in Int
      /\ connectingCnt' = Cardinality(Holders') /\ connectingCnt' <= ConnectingLimit
  BY <1>1 DEF IInv, Types, Counting
<1>3. \A t \in Socks : wrap'[t].connecting =>
         wrap[t].connecting /\ ~(Event.at = ptr[t] /\ Event.evt \in Losses \cup {"SOCK_CONNECTED"})
  BY DEF IInv, Holding
<1>4. QED BY <1>1, <1>2, <1>3, PopInv

\* An event for nobody, and a connection that comes in.
LEMMA OtherEvent ==
  ASSUME IInv, IgnoreEvent \/ HandleAccept PROVE IInv'
<1>1. /\ Pop /\ user' = FALSE /\ UNCHANGED <<wrap, conn, cntVars>> /\ UNCHANGED <<up, down>>
      /\ acc' \in {acc, "valid"}
  BY DEF IgnoreEvent, HandleAccept, reqVars
<1>2. \A t \in Socks : Registered(t) => Event.at # ptr[t]
  <2>1. CASE IgnoreEvent
    BY <2>1 DEF IgnoreEvent, Holder
  <2>2. CASE HandleAccept
    BY <2>2, SocketsAssumption DEF HandleAccept, IInv, Living
  <2>3. QED BY <2>1, <2>2
<1>3. UNCHANGED ptr
  BY <1>1 DEF Pop
<1>4. \A t \in Socks : (Wanted(down, t) => Wanted(down, t)') /\ (Wanted(up, t) => Wanted(up, t)')
  BY <1>1, <1>3 DEF Wanted, ReqAt
<1>5. /\ up' \in [Socks -> Reqs] /\ down' \in [Socks -> Reqs] /\ acc' \in Reqs /\ user' \in BOOLEAN
  BY <1>1 DEF IInv, Types, Reqs
<1>6. QED BY <1>1, <1>2, <1>4, <1>5, QuietPop

\* There is something to read.
LEMMA HandleReadInv ==
  ASSUME IInv, NEW s \in Socks, HandleRead(s) PROVE IInv'
<1>1. /\ Pop /\ For(s) /\ Event.evt = "SOCK_READ" /\ down' = Asked(down, s) /\ user' = FALSE
      /\ UNCHANGED <<wrap, up, conn, acc, cntVars>>
  BY DEF HandleRead
<1>2. UNCHANGED ptr
  BY <1>1 DEF Pop
<1>3. /\ up' \in [Socks -> Reqs] /\ down \in [Socks -> Reqs] /\ acc' \in Reqs /\ user' \in BOOLEAN
  BY <1>1 DEF IInv, Types
<1>4. /\ down' \in [Socks -> Reqs] /\ Wanted(down', s)
      /\ \A t \in Socks : Wanted(down, t) => Wanted(down', t)
  BY <1>1, <1>3, AskedKeeps
<1>5. /\ Wanted(down, s)' /\ \A t \in Socks : Wanted(down, t) => Wanted(down, t)'
      /\ \A t \in Socks : Wanted(up, t) => Wanted(up, t)'
  BY <1>1, <1>2, <1>4 DEF Wanted, ReqAt
<1>6. \A t \in Socks : Registered(t) /\ Event.at = ptr[t] => t = s
  BY <1>1, EventFor
<1>7. Event.evt \notin Losses \cup {"SOCK_CONNECTED"} /\ Event.evt \notin {"SOCK_WRITE", "SOCK_CONNECTED"}
  BY <1>1 DEF Losses
<1>8. QED BY <1>1, <1>3, <1>4, <1>5, <1>6, <1>7, QuietPop

\* There is room to write.
LEMMA HandleWriteInv ==
  ASSUME IInv, NEW s \in Socks, HandleWrite(s) PROVE IInv'
<1>1. /\ Pop /\ For(s) /\ Event.evt = "SOCK_WRITE"
      /\ up' = IF wrap[s].out THEN Asked(up, s) ELSE up
      /\ user' = ~wrap[s].out /\ UNCHANGED <<wrap, down, conn, acc, cntVars>>
  BY DEF HandleWrite
<1>2. UNCHANGED ptr
  BY <1>1 DEF Pop
<1>3. /\ up \in [Socks -> Reqs] /\ down' \in [Socks -> Reqs] /\ acc' \in Reqs /\ user' \in BOOLEAN
  BY <1>1 DEF IInv, Types, Wrap
<1>4. /\ up' \in [Socks -> Reqs] /\ (wrap[s].out => Wanted(up', s))
      /\ \A t \in Socks : Wanted(up, t) => Wanted(up', t)
  BY <1>1, <1>3, AskedKeeps
<1>5. /\ wrap[s].out => Wanted(up, s)'
      /\ \A t \in Socks : Wanted(up, t) => Wanted(up, t)'
      /\ \A t \in Socks : Wanted(down, t) => Wanted(down, t)'
  BY <1>1, <1>2, <1>4 DEF Wanted, ReqAt
<1>6. \A t \in Socks : Registered(t) /\ Event.at = ptr[t] => t = s
  BY <1>1, EventFor
<1>7. Event.evt \notin Losses \cup {"SOCK_CONNECTED"} /\ Event.evt # "SOCK_READ"
  BY <1>1 DEF Losses
<1>8. QED BY <1>1, <1>3, <1>4, <1>5, <1>6, <1>7, QuietPop

\* A socket is connected: it gives its slot back.
LEMMA HandleConnectedInv ==
  ASSUME IInv, NEW s \in Socks, HandleConnected(s) PROVE IInv'
<1>1. /\ Pop /\ For(s) /\ Event.evt = "SOCK_CONNECTED"
      /\ up' = IF wrap[s].out THEN Asked(up, s) ELSE up
      /\ wrap' = Settled(s) /\ connectingCnt' = SettledCnt(s) /\ user' = TRUE
      /\ UNCHANGED <<down, conn, acc, connCnt>>
  BY DEF HandleConnected
<1>2. UNCHANGED ptr
  BY <1>1 DEF Pop
<1>3. /\ up \in [Socks -> Reqs] /\ down' \in [Socks -> Reqs] /\ conn' \in [Socks -> Reqs]
      /\ acc' \in Reqs /\ user' \in BOOLEAN
  BY <1>1 DEF IInv, Types
<1>4. /\ up' \in [Socks -> Reqs] /\ (wrap[s].out => Wanted(up', s))
      /\ \A t \in Socks : Wanted(up, t) => Wanted(up', t)
  BY <1>1, <1>3, AskedKeeps
<1>5. /\ wrap[s].out => Wanted(up, s)'
      /\ \A t \in Socks : Wanted(up, t) => Wanted(up, t)'
      /\ \A t \in Socks : Wanted(down, t) => Wanted(down, t)'
  BY <1>1, <1>2, <1>4 DEF Wanted, ReqAt
<1>6. \A t \in Socks : Registered(t) /\ Event.at = ptr[t] => t = s
  BY <1>1, EventFor
<1>7. /\ wrap' \in [Socks -> Wrap] /\ \A t \in Socks \ {s} : wrap'[t] = wrap[t]
      /\ ~wrap'[s].connecting /\ wrap'[s].reg = wrap[s].reg /\ wrap'[s].out = wrap[s].out
  BY <1>1, SettledKeeps DEF IInv
<1>8. /\ connectingCnt' = Cardinality(Holders') /\ connectingCnt' \in Int
      /\ connectingCnt' <= ConnectingLimit
  BY <1>1, <1>7, HolderGone DEF IInv
<1>9. \A t \in Socks : wrap'[t].connecting => wrap[t].connecting /\ Event.at # ptr[t]
  BY <1>6, <1>7 DEF IInv, Holding
<1>10. \A t \in Socks : Registered(t) /\ Connected(t) =>
          /\ Wanted(down, t) \/ (Event.at = ptr[t] /\ Event.evt = "SOCK_READ") => Wanted(down, t)'
          /\ Wanted(up, t) => Wanted(up, t)'
          /\ wrap[t].out /\ Event.at = ptr[t] /\ Event.evt \in {"SOCK_WRITE", "SOCK_CONNECTED"}
                => Wanted(up, t)'
  BY <1>1, <1>5, <1>6
<1>11. /\ \A t \in Socks : wrap'[t].reg = wrap[t].reg /\ wrap'[t].out = wrap[t].out
       /\ connCnt' = connCnt /\ \A t \in Socks : conn'[t] = "valid" => conn[t] = "valid"
  BY <1>1, <1>7
<1>12. QED BY <1>1, <1>3, <1>4, <1>7, <1>8, <1>9, <1>10, <1>11, PopInv

\* A socket is lost: it is off both counts, with its requests.  It is not one that
\* is connected.
LEMMA HandleErrInv ==
  ASSUME IInv, NEW s \in Socks, HandleErr(s) PROVE IInv'
<1>1. /\ Pop /\ For(s) /\ Event.evt \in Losses /\ connCnt' = connCnt - 1
      /\ up' = Invalidated(up, ptr[s]) /\ down' = Invalidated(down, ptr[s])
      /\ conn' = Invalidated(conn, ptr[s])
      /\ wrap' = Settled(s) /\ connectingCnt' = SettledCnt(s) /\ user' = TRUE
      /\ UNCHANGED acc
  BY DEF HandleErr
<1>2. UNCHANGED ptr /\ events # <<>>
  BY <1>1 DEF Pop
<1>3. /\ up \in [Socks -> Reqs] /\ down \in [Socks -> Reqs] /\ conn \in [Socks -> Reqs]
      /\ acc' \in Reqs /\ user' \in BOOLEAN /\ events \in Seq(Events)
  BY <1>1 DEF IInv, Types, SocketsTypeOK
<1>4. /\ up' \in [Socks -> Reqs] /\ down' \in [Socks -> Reqs] /\ conn' \in [Socks -> Reqs]
      /\ \A t \in Socks : conn'[t] = "valid" => conn[t] = "valid"
      /\ \A t \in Socks : Wanted(up, t) /\ ptr[t] # ptr[s] => Wanted(up', t)
      /\ \A t \in Socks : Wanted(down, t) /\ ptr[t] # ptr[s] => Wanted(down', t)
  BY <1>1, <1>3, InvalidatedKeeps
<1>5. /\ \A t \in Socks : Wanted(up, t) /\ ptr[t] # ptr[s] => Wanted(up, t)'
      /\ \A t \in Socks : Wanted(down, t) /\ ptr[t] # ptr[s] => Wanted(down, t)'
  BY <1>2, <1>4 DEF Wanted, ReqAt
<1>6. \A t \in Socks : Registered(t) /\ Event.at = ptr[t] => t = s
  BY <1>1, EventFor
<1>7. /\ wrap' \in [Socks -> Wrap] /\ \A t \in Socks \ {s} : wrap'[t] = wrap[t]
      /\ ~wrap'[s].connecting /\ wrap'[s].reg = wrap[s].reg /\ wrap'[s].out = wrap[s].out
  BY <1>1, SettledKeeps DEF IInv
<1>8. /\ connectingCnt' = Cardinality(Holders') /\ connectingCnt' \in Int
      /\ connectingCnt' <= ConnectingLimit
  BY <1>1, <1>7, HolderGone DEF IInv
<1>9. \A t \in Socks : wrap'[t].connecting => wrap[t].connecting /\ Event.at # ptr[t]
  BY <1>6, <1>7 DEF IInv, Holding
<1>10. Registered(s) /\ ptr[s] = Event.at /\ Exists(s)
  BY <1>1 DEF For, IInv, Living
<1>11. ~Connected(s)
  <2>1. Event = events[1] /\ 1 \in 1..Len(events)
    BY <1>2, <1>3 DEF Event
  <2>2. impl[s].stage \in {"fresh", "closed"}
    BY <1>1, <1>10, <2>1 DEF IInv, Stale
  <2>3. QED BY <2>2 DEF Connected
<1>12. \A t \in Socks : Registered(t) /\ Connected(t) => ptr[t] # ptr[s] /\ Event.at # ptr[t]
  BY <1>6, <1>10, <1>11
<1>13. \A t \in Socks : Registered(t) /\ Connected(t) =>
          /\ Wanted(down, t) \/ (Event.at = ptr[t] /\ Event.evt = "SOCK_READ") => Wanted(down, t)'
          /\ Wanted(up, t) => Wanted(up, t)'
          /\ wrap[t].out /\ Event.at = ptr[t] /\ Event.evt \in {"SOCK_WRITE", "SOCK_CONNECTED"}
                => Wanted(up, t)'
  BY <1>5, <1>12
<1>14. \A t \in Socks : wrap'[t].reg = wrap[t].reg /\ wrap'[t].out = wrap[t].out
  BY <1>7
<1>15. QED BY <1>1, <1>3, <1>4, <1>7, <1>8, <1>9, <1>13, <1>14, PopInv

-----------------------------------------------------------------------------
(* The socket watcher.                                                       *)

\* cleanupSockets() deletes what destroy() marked, which nobody holds.
LEMMA DeletedKeeps ==
  ASSUME IInv
  PROVE  /\ Deleted \in [Socks -> Impl]
         /\ \A s \in Socks : \/ Deleted[s] = impl[s]
                             \/ Deleted[s] = NewImpl("deleted") /\ impl[s].toDelete /\ ~Registered(s)
<1>1. impl \in [Socks -> Impl]
  BY DEF IInv, Types, SocketsTypeOK
<1>2. NewImpl("deleted") \in Impl
  BY DEF NewImpl, Impl, Stages
<1>3. QED BY <1>1, <1>2 DEF Deleted, IInv, Living

\* The drain is over.
LEMMA DrainedInv ==
  ASSUME IInv, Drained PROVE IInv'
<1>1. /\ pc = "drain" /\ pc' = "tables" /\ events = <<>>
      /\ impl' = Deleted /\ watched' = Swept /\ toRemove' = {} /\ UNCHANGED <<ptr, incoming, events>>
      /\ left' = {} /\ rem' = {} /\ note' = {} /\ user' = FALSE /\ misled' = {}
      /\ UNCHANGED <<wrap, up, down, conn, acc, accepted, connCnt, connectingCnt>>
  BY DEF Drained, Cleanup, GoTo, reqVars, cntVars
<1>2. /\ impl' \in [Socks -> Impl]
      /\ \A s \in Socks : \/ impl'[s] = impl[s]
                          \/ impl'[s] = NewImpl("deleted") /\ impl[s].toDelete /\ ~Registered(s)
  BY <1>1, DeletedKeeps
<1>3. \A s \in Socks : /\ Registered(s)' <=> Registered(s)
                       /\ Registered(s) => impl'[s] = impl[s]
                       /\ Exists(s)' => impl'[s] = impl[s] /\ Exists(s)
                       /\ impl'[s].stage # "deleted" => impl'[s] = impl[s]
  BY <1>1, <1>2 DEF Registered, Exists, NewImpl
<1>4. Types'
  BY <1>1, <1>2 DEF IInv, Types, SocketsTypeOK, Swept, Pcs
<1>5. Living'
  <2>1. \A s \in Socks : Exists(s)' => ptr'[s] \in Addrs
    BY <1>1, <1>3 DEF IInv, Living
  <2>2. \A r, s \in Socks : Exists(r)' /\ Exists(s)' /\ ptr'[r] = ptr'[s] => r = s
    BY <1>1, <1>3 DEF IInv, Living
  <2>3. \A s \in Socks : Registered(s)' => Exists(s)' /\ ~impl'[s].toDelete
    BY <1>3 DEF IInv, Living, Exists
  <2>4. \A s \in Socks : impl'[s].stage \in {"unborn", "fresh", "connecting"} => impl'[s] = impl[s]
    BY <1>3
  <2>5. QED BY <1>1, <2>1, <2>2, <2>3, <2>4 DEF IInv, Living
<1>6. Waiting'
  <2>1. accepted' = {}
    BY <1>1 DEF IInv, Waiting
  <2>2. QED BY <2>1 DEF Waiting
<1>7. Holding'
  BY <1>1, <1>3 DEF IInv, Holding, Coming
<1>8. Stale'
  BY <1>1 DEF Stale
<1>9. Rounded'
  BY <1>1 DEF Rounded
<1>10. Counting'
  <2>1. OpenSocks' \subseteq OpenSocks /\ OpenSocks \in SUBSET Socks
    BY <1>3 DEF OpenSocks, IsOpen
  <2>2. /\ Cardinality(OpenSocks') <= Cardinality(OpenSocks)
        /\ Cardinality(OpenSocks') \in Nat /\ Cardinality(OpenSocks) \in Nat
    BY <2>1, SockSets, FS_Subset
  <2>3. Holders' = Holders /\ LostIn(events)' = LostIn(events)
    BY <1>1 DEF Holders, LostIn
  <2>4. Cardinality(LostIn(events)) \in Nat /\ connCnt \in Int
    BY LostType DEF IInv, Types, SocketsTypeOK
  <2>5. Cardinality(OpenSocks) + Cardinality(LostIn(events)) <= connCnt
    BY DEF IInv, Counting
  <2>6. Cardinality(OpenSocks') + Cardinality(LostIn(events)) <= connCnt
    BY <2>2, <2>4, <2>5
  <2>7. QED BY <1>1, <2>3, <2>6 DEF IInv, Counting
<1>11. /\ \A s \in Socks : Wanted(down, s) => Wanted(down, s)'
       /\ \A s \in Socks : Wanted(up, s) => Wanted(up, s)'
  BY <1>1 DEF Wanted, ReqAt
<1>12. ReadsServed'
  BY <1>1, <1>3, <1>11 DEF IInv, ReadsServed, Connected, Coming
<1>13. WritesServed'
  BY <1>1, <1>3, <1>11 DEF IInv, WritesServed, Connected, Coming
<1>14. QED
  BY <1>4, <1>5, <1>6, <1>7, <1>8, <1>9, <1>10, <1>12, <1>13 DEF IInv

\* An order of the elements of a set: each of them once.
LEMMA InOrder ==
  ASSUME NEW S \in SUBSET Socks, NEW f \in SetToSeqs(S)
  PROVE  /\ Len(f) \in Nat /\ \A k \in 1..Len(f) : f[k] \in S
         /\ \A i, j \in 1..Len(f) : f[i] = f[j] => i = j
         /\ \A s \in S : \E k \in 1..Len(f) : f[k] = s
<1> DEFINE n == Cardinality(S)
<1>1. IsFiniteSet(S) /\ n \in Nat
  BY SockSets
<1> HIDE DEF n
<1>2. f \in [1..n -> S] /\ \A i, j \in 1..n : i # j => f[i] # f[j]
  BY DEF SetToSeqs, n
<1>3. f \in Seq(S) /\ Len(f) = n
  BY <1>1, <1>2
<1>4. f \in Injection(1..n, S)
  BY <1>2 DEF Injection, IsInjective
<1>5. Cardinality(1..n) = n
  BY <1>1, FS_Interval
<1>6. f \in Surjection(1..n, S)
  BY <1>1, <1>4, <1>5, FS_Injection DEF n
<1>7. \A s \in S : \E k \in 1..n : f[k] = s
  BY <1>6 DEF Surjection
<1>8. QED BY <1>1, <1>2, <1>3, <1>7

\* One queue after another.
LEMMA Joined ==
  ASSUME NEW p \in Seq(Events), NEW q \in Seq(Events), NEW r, r = p \o q
  PROVE  /\ r \in Seq(Events) /\ Len(r) = Len(p) + Len(q)
         /\ \A k \in 1..Len(p) : r[k] = p[k]
         /\ \A k \in 1..Len(q) : r[Len(p) + k] = q[k]
OBVIOUS

\* The queue q when late have timed out, order answered, and accepts says whether
\* there is a connection to accept.
Queue(q, late, order, answer, accepts) ==
    q \o [k \in 1..Len(late) |-> [at |-> ptr[late[k]], evt |-> "SOCK_TIMEOUT"]]
      \o [k \in 1..Len(order) |-> [at |-> ptr[order[k]], evt |-> answer[order[k]]]]
      \o (IF accepts THEN <<[at |-> Server, evt |-> "SOCK_ACCEPT"]>> ELSE <<>>)

\* What r tells that q did not: each timeout of T and each answer of W, perhaps a
\* connection to accept, and no more losses than there are sockets lost.
Tells(r, q, T, W, answer) ==
    /\ r \in Seq(Events)
    /\ \A k \in 1..Len(q) : k \in 1..Len(r) /\ r[k] = q[k]
    /\ \A k \in 1..Len(r) :
          \/ k \in 1..Len(q)
          \/ \E s \in T : r[k].at = ptr[s]
          \/ \E s \in W : r[k].at = ptr[s] /\ r[k].evt = answer[s]
          \/ r[k].evt \notin Losses
    /\ \A s \in T : \E k \in 1..Len(r) : r[k].at = ptr[s] /\ r[k].evt = "SOCK_TIMEOUT"
    /\ \A s \in W : \E k \in 1..Len(r) : r[k].at = ptr[s] /\ r[k].evt = answer[s]
    /\ Cardinality(LostIn(r))
          <= Cardinality(LostIn(q)) + Cardinality(T \cup {s \in W : answer[s] \in Losses})

\* The queue after select() tells that.
LEMMA Told ==
  ASSUME NEW q \in Seq(Events), NEW r, NEW T \in SUBSET Socks, NEW W \in SUBSET Socks,
         NEW answer, T \cap W = {},
         \A s \in T \cup W : ptr[s] \in Addrs, \A s \in W : answer[s] \in Kinds,
         NEW late \in SetToSeqs(T), NEW order \in SetToSeqs(W), NEW accepts \in BOOLEAN,
         r = Queue(q, late, order, answer, accepts)
  PROVE  Tells(r, q, T, W, answer)
<1> DEFINE C == {s \in W : answer[s] \in Losses}
           n == Len(q)
           a == Len(late)
           b == Len(order)
           x == [k \in 1..Len(late) |-> [at |-> ptr[late[k]], evt |-> "SOCK_TIMEOUT"]]
           y == [k \in 1..Len(order) |-> [at |-> ptr[order[k]], evt |-> answer[order[k]]]]
           e == [at |-> Server, evt |-> "SOCK_ACCEPT"]
           z == IF accepts THEN <<e>> ELSE <<>>
           c == Len(z)
<1>1. /\ a \in Nat /\ \A k \in 1..a : late[k] \in T
      /\ \A i, j \in 1..a : late[i] = late[j] => i = j
      /\ \A s \in T : \E k \in 1..a : late[k] = s
  BY InOrder
<1>2. /\ b \in Nat /\ \A k \in 1..b : order[k] \in W
      /\ \A i, j \in 1..b : order[i] = order[j] => i = j
      /\ \A s \in W : \E k \in 1..b : order[k] = s
  BY InOrder
<1>3. /\ x \in Seq(Events) /\ Len(x) = a
      /\ \A k \in 1..a : x[k].at = ptr[late[k]] /\ x[k].evt = "SOCK_TIMEOUT"
  BY <1>1 DEF Events, Kinds, Losses
<1>4. /\ y \in Seq(Events) /\ Len(y) = b
      /\ \A k \in 1..b : y[k].at = ptr[order[k]] /\ y[k].evt = answer[order[k]]
  BY <1>2 DEF Events
<1>5. z \in Seq(Events) /\ c \in Nat /\ \A k \in 1..c : z[k].evt \notin Losses
  <2>1. e \in Events /\ e.evt \notin Losses
    BY DEF Events, Kinds, Losses
  <2> HIDE DEF e
  <2>2. QED BY <2>1
<1>6. n \in Nat
  OBVIOUS
<1> DEFINE u == q \o x
           v == u \o y
<1>7. r = v \o z
  BY DEF Queue
<1> HIDE DEF x, y, z, a, b, c, v
<1>8. /\ u \in Seq(Events) /\ Len(u) = n + a
      /\ \A k \in 1..n : u[k] = q[k]
      /\ \A k \in 1..a : u[n + k] = x[k]
  <2>1. u = q \o x /\ x \in Seq(Events) /\ Len(q) = n
    BY <1>3
  <2> HIDE DEF u, n
  <2>2. /\ u \in Seq(Events) /\ Len(u) = Len(q) + Len(x)
        /\ \A k \in 1..Len(q) : u[k] = q[k]
        /\ \A k \in 1..Len(x) : u[Len(q) + k] = x[k]
    BY <2>1, Joined
  <2>3. QED BY <1>3, <2>1, <2>2
<1> HIDE DEF u
<1>9. /\ v \in Seq(Events) /\ Len(v) = n + a + b
      /\ \A k \in 1..(n + a) : v[k] = u[k]
      /\ \A k \in 1..b : v[n + a + k] = y[k]
  <2>1. v = u \o y
    BY DEF v
  <2>2. u \in Seq(Events) /\ y \in Seq(Events)
    BY <1>4, <1>8
  <2>3. /\ v \in Seq(Events) /\ Len(v) = Len(u) + Len(y)
        /\ \A k \in 1..Len(u) : v[k] = u[k]
        /\ \A k \in 1..Len(y) : v[Len(u) + k] = y[k]
    BY <2>1, <2>2, Joined
  <2>4. QED BY <1>4, <1>8, <2>3
<1>10. /\ r \in Seq(Events) /\ Len(r) = n + a + b + c
       /\ \A k \in 1..(n + a + b) : r[k] = v[k]
       /\ \A k \in 1..c : r[n + a + b + k] = z[k]
  <2>1. Len(z) = c
    BY DEF c
  <2>2. v \in Seq(Events) /\ z \in Seq(Events)
    BY <1>5, <1>9
  <2> DEFINE w == v \o z
  <2>3. r = w
    BY <1>7
  <2>4. /\ w \in Seq(Events) /\ Len(w) = Len(v) + Len(z)
        /\ \A k \in 1..Len(v) : w[k] = v[k]
        /\ \A k \in 1..Len(z) : w[Len(v) + k] = z[k]
    BY <2>2, Joined
  <2> HIDE DEF w
  <2>5. QED BY <1>9, <2>1, <2>3, <2>4
<1> HIDE DEF n
<1>11. /\ \A k \in 1..n : k \in 1..Len(r) /\ r[k] = q[k]
       /\ \A k \in 1..a : n + k \in 1..Len(r) /\ r[n + k] = x[k]
       /\ \A k \in 1..b : n + a + k \in 1..Len(r) /\ r[n + a + k] = y[k]
  <2>1. \A k \in 1..n : k \in 1..(n + a) /\ k \in 1..(n + a + b) /\ k \in 1..(n + a + b + c)
    BY <1>1, <1>2, <1>5, <1>6
  <2>2. \A k \in 1..a : /\ n + k \in 1..(n + a) /\ n + k \in 1..(n + a + b)
                        /\ n + k \in 1..(n + a + b + c)
    BY <1>1, <1>2, <1>5, <1>6
  <2>3. \A k \in 1..b : /\ n + a + k \in 1..(n + a + b)
                        /\ n + a + k \in 1..(n + a + b + c)
    BY <1>1, <1>2, <1>5, <1>6
  <2>4. QED BY <1>8, <1>9, <1>10, <2>1, <2>2, <2>3
<1>12. \A k \in 1..Len(r) :
          \/ k \in 1..n
          \/ k - n \in 1..a /\ r[k] = x[k - n]
          \/ k - (n + a) \in 1..b /\ r[k] = y[k - (n + a)]
          \/ k - (n + a + b) \in 1..c /\ r[k] = z[k - (n + a + b)]
  <2> SUFFICES ASSUME NEW k \in 1..(n + a + b + c)
               PROVE  \/ k \in 1..n
                      \/ k - n \in 1..a /\ r[k] = x[k - n]
                      \/ k - (n + a) \in 1..b /\ r[k] = y[k - (n + a)]
                      \/ k - (n + a + b) \in 1..c /\ r[k] = z[k - (n + a + b)]
    BY <1>10
  <2>1. k = n + (k - n) /\ k = n + a + (k - (n + a)) /\ k = n + a + b + (k - (n + a + b))
    BY <1>1, <1>2, <1>5, <1>6
  <2>2. \/ k \in 1..n \/ k - n \in 1..a \/ k - (n + a) \in 1..b
        \/ k - (n + a + b) \in 1..c
    BY <1>1, <1>2, <1>5, <1>6
  <2>3. QED BY <1>10, <1>11, <2>1, <2>2
<1>13. \A k \in 1..Len(r) :
          \/ k \in 1..n
          \/ \E s \in T : r[k].at = ptr[s]
          \/ \E s \in W : r[k].at = ptr[s] /\ r[k].evt = answer[s]
          \/ r[k].evt \notin Losses
  <2> SUFFICES ASSUME NEW k \in 1..Len(r)
               PROVE  \/ k \in 1..n
                      \/ \E s \in T : r[k].at = ptr[s]
                      \/ \E s \in W : r[k].at = ptr[s] /\ r[k].evt = answer[s]
                      \/ r[k].evt \notin Losses
    OBVIOUS
  <2>1. CASE k - n \in 1..a /\ r[k] = x[k - n]
    <3>1. late[k - n] \in T /\ r[k].at = ptr[late[k - n]]
      BY <1>1, <1>3, <2>1
    <3>2. QED BY <3>1
  <2>2. CASE k - (n + a) \in 1..b /\ r[k] = y[k - (n + a)]
    <3>1. /\ order[k - (n + a)] \in W /\ r[k].at = ptr[order[k - (n + a)]]
          /\ r[k].evt = answer[order[k - (n + a)]]
      BY <1>2, <1>4, <2>2
    <3>2. QED BY <3>1
  <2>3. CASE k - (n + a + b) \in 1..c /\ r[k] = z[k - (n + a + b)]
    BY <1>5, <2>3
  <2>4. QED BY <1>12, <2>1, <2>2, <2>3
<1>14. \A s \in T : \E k \in 1..Len(r) : r[k].at = ptr[s] /\ r[k].evt = "SOCK_TIMEOUT"
  <2> SUFFICES ASSUME NEW s \in T
               PROVE  \E k \in 1..Len(r) : r[k].at = ptr[s] /\ r[k].evt = "SOCK_TIMEOUT"
    OBVIOUS
  <2>1. PICK k \in 1..a : late[k] = s
    BY <1>1
  <2>2. n + k \in 1..Len(r) /\ r[n + k].at = ptr[s] /\ r[n + k].evt = "SOCK_TIMEOUT"
    BY <1>3, <1>11, <2>1
  <2>3. QED BY <2>2
<1>15. \A s \in W : \E k \in 1..Len(r) : r[k].at = ptr[s] /\ r[k].evt = answer[s]
  <2> SUFFICES ASSUME NEW s \in W
               PROVE  \E k \in 1..Len(r) : r[k].at = ptr[s] /\ r[k].evt = answer[s]
    OBVIOUS
  <2>1. PICK k \in 1..b : order[k] = s
    BY <1>2
  <2>2. /\ n + a + k \in 1..Len(r) /\ r[n + a + k].at = ptr[s]
        /\ r[n + a + k].evt = answer[s]
    BY <1>4, <1>11, <2>1
  <2>3. QED BY <2>2
<1>16. Cardinality(LostIn(r)) <= Cardinality(LostIn(q)) + Cardinality(T \cup C)
  <2> DEFINE N == {k \in LostIn(r) : k \notin 1..n}
             g == [k \in N |-> IF k - n \in 1..a THEN late[k - n] ELSE order[k - (n + a)]]
  <2>1. \A k \in N : \/ k - n \in 1..a /\ g[k] = late[k - n] /\ g[k] \in T
                     \/ /\ k - n \notin 1..a /\ k - (n + a) \in 1..b
                        /\ g[k] = order[k - (n + a)] /\ g[k] \in C
    <3> SUFFICES ASSUME NEW k \in N
                 PROVE  \/ k - n \in 1..a /\ g[k] = late[k - n] /\ g[k] \in T
                        \/ /\ k - n \notin 1..a /\ k - (n + a) \in 1..b
                           /\ g[k] = order[k - (n + a)] /\ g[k] \in C
      OBVIOUS
    <3>1. k \in 1..Len(r) /\ k \notin 1..n /\ r[k].evt \in Losses
      BY DEF LostIn
    <3>2. CASE k - n \in 1..a
      BY <1>1, <3>2
    <3>3. CASE k - n \notin 1..a
      <4>1. g[k] = order[k - (n + a)]
        BY <3>3
      <4>2. k - (n + a) \in 1..b /\ r[k] = y[k - (n + a)]
        BY <1>5, <1>10, <1>12, <3>1, <3>3
      <4>3. order[k - (n + a)] \in W /\ answer[order[k - (n + a)]] \in Losses
        BY <1>2, <1>4, <3>1, <4>2
      <4>4. QED BY <3>3, <4>1, <4>2, <4>3
    <3>4. QED BY <3>2, <3>3
  <2>2. N \subseteq Int
    BY <1>10 DEF LostIn
  <2>3. g \in [N -> T \cup C]
    BY <2>1
  <2>4. ASSUME NEW i \in N, NEW j \in N, g[i] = g[j] PROVE i = j
    <3>1. i \in Int /\ j \in Int /\ C \subseteq W
      BY <2>2
    <3>2. CASE i - n \in 1..a /\ j - n \in 1..a
      <4>1. i - n = j - n
        BY <1>1, <2>1, <2>4, <3>2
      <4>2. QED BY <1>6, <3>1, <4>1
    <3>3. CASE i - n \notin 1..a /\ j - n \notin 1..a
      <4>1. i - (n + a) = j - (n + a)
        BY <1>2, <2>1, <2>4, <3>3
      <4>2. QED BY <1>1, <1>6, <3>1, <4>1
    <3>4. QED BY <2>1, <2>4, <3>1, <3>2, <3>3
  <2>5. g \in Injection(N, T \cup C)
    <3>1. DOMAIN g = N
      OBVIOUS
    <3> HIDE DEF g
    <3>2. QED BY <2>3, <2>4, <3>1 DEF Injection, IsInjective
  <2>6. IsFiniteSet(T \cup C) /\ Cardinality(T \cup C) \in Nat
    <3>1. T \cup C \in SUBSET Socks
      OBVIOUS
    <3>2. QED BY <3>1, SockSets
  <2>7. IsFiniteSet(N) /\ Cardinality(N) <= Cardinality(T \cup C) /\ Cardinality(N) \in Nat
    BY <2>5, <2>6, FS_Injection, FS_CardinalityType
  <2>8. LostIn(r) \subseteq LostIn(q) \cup N
    BY <1>11 DEF LostIn, n
  <2>9. IsFiniteSet(LostIn(q)) /\ Cardinality(LostIn(q)) \in Nat
    BY LostType
  <2>10. IsFiniteSet(LostIn(r)) /\ Cardinality(LostIn(r)) \in Nat
    BY <1>10, LostType
  <2> HIDE DEF N
  <2>11. /\ IsFiniteSet(LostIn(q) \cup N)
         /\ Cardinality(LostIn(q) \cup N) = Cardinality(LostIn(q)) + Cardinality(N)
                                            - Cardinality(LostIn(q) \cap N)
    BY <2>7, <2>9, FS_Union
  <2>12. Cardinality(LostIn(q) \cap N) \in Nat /\ Cardinality(LostIn(q) \cup N) \in Nat
    BY <2>7, <2>9, <2>11, FS_Intersection, FS_CardinalityType
  <2>13. Cardinality(LostIn(r)) <= Cardinality(LostIn(q) \cup N)
    BY <2>8, <2>11, FS_Subset
  <2>14. QED BY <2>6, <2>7, <2>9, <2>10, <2>11, <2>12, <2>13
<1>17. QED BY <1>10, <1>11, <1>13, <1>14, <1>15, <1>16 DEF n, Tells

\* What select() tells of a socket fits the stage it is in, and changes only that.
LEMMA AnswerKeeps ==
  ASSUME NEW i \in Impl, NEW a \in Kinds, a \in Answers(i)
  PROVE  /\ IsOpen(i) /\ Answered(i, a) \in Impl /\ Answered(i, a).toDelete = i.toDelete
         /\ a \in Losses => Answered(i, a).stage = "closed"
         /\ a = "SOCK_CONNECTED" =>
               i.stage = "connecting" /\ Answered(i, a) = [i EXCEPT !.stage = "connected"]
         /\ a = "SOCK_READ" =>
               i.stage = "connected" /\ ~i.hasData /\ Answered(i, a) = [i EXCEPT !.hasData = TRUE]
         /\ a = "SOCK_WRITE" =>
               i.stage = "connected" /\ ~i.writable /\ Answered(i, a) = [i EXCEPT !.writable = TRUE]
         /\ a \in Losses \cup {"SOCK_CONNECTED", "SOCK_READ", "SOCK_WRITE"}
<1>1. IsOpen(i) /\ a \in Losses \cup {"SOCK_CONNECTED", "SOCK_READ", "SOCK_WRITE"}
  BY DEF Answers, Losses, Kinds, IsOpen
<1>2. a \in Losses => Answered(i, a) = [i EXCEPT !.stage = "closed"]
  BY <1>1 DEF Answered, Losses, Closed
<1>3. a = "SOCK_CONNECTED" => i.stage = "connecting" /\ Answered(i, a) = [i EXCEPT !.stage = "connected"]
  BY DEF Answers, Answered, Losses
<1>4. a = "SOCK_READ" => i.stage = "connected" /\ ~i.hasData /\ Answered(i, a) = [i EXCEPT !.hasData = TRUE]
  BY DEF Answers, Answered, Losses
<1>5. a = "SOCK_WRITE" => i.stage = "connected" /\ ~i.writable /\ Answered(i, a) = [i EXCEPT !.writable = TRUE]
  BY DEF Answers, Answered, Losses
<1>6. \A st \in Stages : [i EXCEPT !.stage = st] \in Impl /\ [i EXCEPT !.stage = st].toDelete = i.toDelete
                         /\ [i EXCEPT !.stage = st].stage = st
  BY DEF Impl
<1>7. /\ [i EXCEPT !.hasData = TRUE] \in Impl /\ [i EXCEPT !.hasData = TRUE].toDelete = i.toDelete
      /\ [i EXCEPT !.writable = TRUE] \in Impl /\ [i EXCEPT !.writable = TRUE].toDelete = i.toDelete
  BY DEF Impl
<1>8. "closed" \in Stages /\ "connected" \in Stages
  BY DEF Stages
<1>9. Answered(i, a) \in Impl /\ Answered(i, a).toDelete = i.toDelete
  BY <1>1, <1>2, <1>3, <1>4, <1>5, <1>6, <1>7, <1>8
<1>10. QED BY <1>1, <1>2, <1>3, <1>4, <1>5, <1>6, <1>8, <1>9

\* What select() does to each socket, and what the queue holds of it then: a
\* socket in G is lost.
Heard(s, G) ==
    /\ impl'[s] \in Impl
    /\ \/ /\ s \in G /\ IsOpen(impl[s]) /\ impl'[s].stage = "closed"
          /\ impl'[s].toDelete = impl[s].toDelete /\ Coming(s, Losses)'
       \/ /\ s \notin G /\ impl[s].stage = "connecting" /\ Coming(s, {"SOCK_CONNECTED"})'
          /\ impl'[s] = [impl[s] EXCEPT !.stage = "connected"]
       \/ /\ s \notin G /\ impl[s].stage = "connected" /\ Coming(s, {"SOCK_READ"})'
          /\ impl'[s] = [impl[s] EXCEPT !.hasData = TRUE]
       \/ /\ s \notin G /\ impl[s].stage = "connected" /\ Coming(s, {"SOCK_WRITE"})'
          /\ impl'[s] = [impl[s] EXCEPT !.writable = TRUE]
       \/ s \notin G /\ impl'[s] = impl[s]
       \/ /\ s \notin G /\ impl'[s] = NewImpl("deleted")
          /\ impl[s].toDelete /\ ~Registered(s)

\* A way that select() may go: those in T have timed out, and these are the answers.
Wakes(T, answer, accepts) ==
    LET awake  == {s \in Swept \ T : answer[s] # "silent"}
        closed == {s \in awake : answer[s] \in Losses}
    IN  /\ \A s \in Swept \ T : answer[s] \in Answers(impl[s])
        /\ impl' = [s \in Socks |->
                       IF s \in T THEN Closed(impl[s])
                       ELSE IF s \in awake THEN Answered(impl[s], answer[s])
                       ELSE Deleted[s]]
        /\ watched' = Swept \ T
        /\ toRemove' = closed
        /\ incoming' = (incoming \/ accepts)
        /\ \E late \in SetToSeqs(T), order \in SetToSeqs(awake) :
              events' = Queue(events, late, order, answer, accepts)
        /\ UNCHANGED ptr

\* Every socket is in one of these cases, the losses are told of sockets that were
\* open, and nothing that was in the queue is gone.
LEMMA Woken ==
  ASSUME IInv, Watch
  PROVE  \E G \in SUBSET OpenSocks :
            /\ \A s \in Socks : Heard(s, G)
            /\ UNCHANGED ptr /\ watched' \in SUBSET Socks /\ toRemove' \in SUBSET Socks
            /\ incoming' \in BOOLEAN /\ events' \in Seq(Events)
            /\ \A k \in 1..Len(events) : k \in 1..Len(events') /\ events'[k] = events[k]
            /\ \A k \in 1..Len(events') :
                  \/ k \in 1..Len(events)
                  \/ events'[k].evt \notin Losses
                  \/ \E u \in G : events'[k].at = ptr[u]
            /\ Cardinality(LostIn(events')) <= Cardinality(LostIn(events)) + Cardinality(G)
<1>1. /\ ptr \in [Socks -> Addrs \cup {None}] /\ impl \in [Socks -> Impl]
      /\ incoming \in BOOLEAN /\ watched \in SUBSET Socks /\ toRemove \in SUBSET Socks
      /\ events \in Seq(Events)
  BY DEF IInv, Types, SocketsTypeOK
<1>2. PICK T \in SUBSET {s \in Swept : IsOpen(impl[s])} :
        \E answer \in [Swept \ T -> Kinds \cup {"silent"}], accepts \in BOOLEAN :
           Wakes(T, answer, accepts)
  BY DEF Watch, Wakes, Queue
<1>3. PICK answer \in [Swept \ T -> Kinds \cup {"silent"}], accepts \in BOOLEAN :
        Wakes(T, answer, accepts)
  BY <1>2
<1> DEFINE W == {s \in Swept \ T : answer[s] # "silent"}
           C == {s \in W : answer[s] \in Losses}
           G == T \cup C
<1>4. /\ impl' = [s \in Socks |->
                     IF s \in T THEN Closed(impl[s])
                     ELSE IF s \in W THEN Answered(impl[s], answer[s])
                     ELSE Deleted[s]]
      /\ watched' = Swept \ T /\ toRemove' = C /\ incoming' = (incoming \/ accepts)
      /\ UNCHANGED ptr
  BY <1>3 DEF Wakes
<1>5. /\ Swept \subseteq Socks /\ W \subseteq Socks /\ T \subseteq Socks /\ C \subseteq W
      /\ T \cap W = {}
  BY <1>1, <1>2 DEF Swept
<1>6. \A s \in W : answer[s] \in Kinds /\ answer[s] \in Answers(impl[s])
  BY <1>3 DEF Wakes
<1>7. \A s \in W : IsOpen(impl[s])
  BY <1>1, <1>5, <1>6, AnswerKeeps
<1>8. \A s \in T \cup W : IsOpen(impl[s]) /\ ptr[s] \in Addrs
  <2>1. \A s \in T \cup W : IsOpen(impl[s]) /\ s \in Socks
    BY <1>2, <1>5, <1>7
  <2>2. QED BY <2>1 DEF IInv, Living, Exists, IsOpen
<1>9. PICK late \in SetToSeqs(T), order \in SetToSeqs(W) :
        events' = Queue(events, late, order, answer, accepts)
  BY <1>3 DEF Wakes
<1> HIDE DEF W
<1>10. /\ events' \in Seq(Events)
       /\ \A k \in 1..Len(events) : k \in 1..Len(events') /\ events'[k] = events[k]
       /\ \A k \in 1..Len(events') :
             \/ k \in 1..Len(events)
             \/ \E s \in T : events'[k].at = ptr[s]
             \/ \E s \in W : events'[k].at = ptr[s] /\ events'[k].evt = answer[s]
             \/ events'[k].evt \notin Losses
       /\ \A s \in T : \E k \in 1..Len(events') : events'[k].at = ptr[s] /\ events'[k].evt = "SOCK_TIMEOUT"
       /\ \A s \in W : \E k \in 1..Len(events') : events'[k].at = ptr[s] /\ events'[k].evt = answer[s]
       /\ Cardinality(LostIn(events')) <= Cardinality(LostIn(events)) + Cardinality(T \cup C)
  <2>1. T \in SUBSET Socks /\ W \in SUBSET Socks /\ T \cap W = {} /\ events \in Seq(Events)
    BY <1>1, <1>5
  <2>2. (\A s \in T \cup W : ptr[s] \in Addrs) /\ (\A s \in W : answer[s] \in Kinds)
    BY <1>6, <1>8
  <2>3. Tells(events', events, T, W, answer)
    BY <1>9, <2>1, <2>2, Told
  <2>4. QED BY <2>3 DEF Tells
<1>11. G \in SUBSET OpenSocks
  BY <1>5, <1>8 DEF OpenSocks
<1>12. \A k \in 1..Len(events') : \/ k \in 1..Len(events)
                                  \/ events'[k].evt \notin Losses
                                  \/ \E u \in G : events'[k].at = ptr[u]
  BY <1>10
<1>13. ASSUME NEW s \in Socks PROVE Heard(s, G)
  <2>1. impl[s] \in Impl
    BY <1>1
  <2>2. CASE s \in T
    <3>1. IsOpen(impl[s]) /\ s \in G /\ impl'[s] = [impl[s] EXCEPT !.stage = "closed"]
      BY <1>4, <1>8, <2>2 DEF Closed
    <3>2. impl'[s] \in Impl /\ impl'[s].stage = "closed" /\ impl'[s].toDelete = impl[s].toDelete
      BY <2>1, <3>1 DEF Impl, Stages
    <3>3. Coming(s, Losses)'
      BY <1>4, <1>10, <2>2 DEF Coming, Losses
    <3>4. QED BY <3>1, <3>2, <3>3 DEF Heard
  <2>3. CASE s \in W
    <3> DEFINE a == answer[s]
    <3>1. impl'[s] = Answered(impl[s], a) /\ s \notin T /\ a \in Kinds /\ a \in Answers(impl[s])
      BY <1>4, <1>5, <1>6, <2>3
    <3>2. \E k \in 1..Len(events') : events'[k].at = ptr'[s] /\ events'[k].evt = a
      BY <1>4, <1>10, <2>3
    <3>3. Coming(s, {a})'
      BY <3>2 DEF Coming
    <3>4. s \in G <=> a \in Losses
      BY <2>3, <3>1
    <3> HIDE DEF a, G
    <3>5. a \in Losses => Coming(s, Losses)'
      BY <3>3 DEF Coming
    <3>6. /\ IsOpen(impl[s]) /\ impl'[s] \in Impl /\ impl'[s].toDelete = impl[s].toDelete
          /\ a \in Losses => impl'[s].stage = "closed"
          /\ a = "SOCK_CONNECTED" => /\ impl[s].stage = "connecting"
                                     /\ impl'[s] = [impl[s] EXCEPT !.stage = "connected"]
          /\ a = "SOCK_READ" => /\ impl[s].stage = "connected"
                                /\ impl'[s] = [impl[s] EXCEPT !.hasData = TRUE]
          /\ a = "SOCK_WRITE" => /\ impl[s].stage = "connected"
                                 /\ impl'[s] = [impl[s] EXCEPT !.writable = TRUE]
          /\ a \in Losses \cup {"SOCK_CONNECTED", "SOCK_READ", "SOCK_WRITE"}
      <4> DEFINE i == impl[s]
      <4>1. i \in Impl /\ a \in Kinds /\ a \in Answers(i) /\ impl'[s] = Answered(i, a)
        BY <2>1, <3>1
      <4> HIDE DEF i
      <4>2. /\ IsOpen(i) /\ Answered(i, a) \in Impl /\ Answered(i, a).toDelete = i.toDelete
            /\ a \in Losses => Answered(i, a).stage = "closed"
            /\ a = "SOCK_CONNECTED" => /\ i.stage = "connecting"
                                       /\ Answered(i, a) = [i EXCEPT !.stage = "connected"]
            /\ a = "SOCK_READ" => /\ i.stage = "connected"
                                  /\ Answered(i, a) = [i EXCEPT !.hasData = TRUE]
            /\ a = "SOCK_WRITE" => /\ i.stage = "connected"
                                   /\ Answered(i, a) = [i EXCEPT !.writable = TRUE]
            /\ a \in Losses \cup {"SOCK_CONNECTED", "SOCK_READ", "SOCK_WRITE"}
        BY <4>1, AnswerKeeps
      <4>3. QED BY <4>1, <4>2 DEF i
    <3>7. CASE a \in Losses
      BY <3>4, <3>5, <3>6, <3>7 DEF Heard
    <3>8. CASE a = "SOCK_CONNECTED" /\ a \notin Losses
      BY <3>3, <3>4, <3>6, <3>8 DEF Heard
    <3>9. CASE a = "SOCK_READ" /\ a \notin Losses
      BY <3>3, <3>4, <3>6, <3>9 DEF Heard
    <3>10. CASE a = "SOCK_WRITE" /\ a \notin Losses
      BY <3>3, <3>4, <3>6, <3>10 DEF Heard
    <3>11. QED BY <3>6, <3>7, <3>8, <3>9, <3>10
  <2>4. CASE s \notin T \cup W
    <3>1. impl'[s] = Deleted[s] /\ s \notin G
      BY <1>4, <1>5, <2>4
    <3>2. QED BY <3>1, DeletedKeeps DEF Heard
  <2>5. QED BY <2>2, <2>3, <2>4
<1>14. watched' \in SUBSET Socks /\ toRemove' \in SUBSET Socks /\ incoming' \in BOOLEAN
  <2>1. watched' \in SUBSET Socks /\ toRemove' \in SUBSET Socks
    BY <1>4, <1>5
  <2>2. QED BY <1>1, <1>4, <2>1
<1> HIDE DEF G
<1>15. Cardinality(LostIn(events')) <= Cardinality(LostIn(events)) + Cardinality(G)
  BY <1>10 DEF G
<1>16. QED BY <1>4, <1>10, <1>11, <1>12, <1>13, <1>14, <1>15

\* What a socket is after select(), by what it was.
LEMMA HeardKeeps ==
  ASSUME IInv, NEW s \in Socks, NEW G, Heard(s, G)
  PROVE  /\ impl'[s].stage \notin {"unborn", "deleted"} => Exists(s)
         /\ impl'[s].stage \in {"unborn", "fresh", "connecting"} => impl'[s] = impl[s]
         /\ impl[s].stage \in {"fresh", "closed"} /\ impl'[s].stage # "deleted" => impl'[s] = impl[s]
         /\ s \in G => Exists(s) /\ impl'[s].stage = "closed"
         /\ IsOpen(impl'[s]) => IsOpen(impl[s]) /\ s \notin G
         /\ impl'[s].stage = "connected" /\ impl'[s].hasData =>
               Coming(s, {"SOCK_READ"})' \/ (Connected(s) /\ impl[s].hasData)
         /\ impl'[s].stage = "connected" /\ impl'[s].writable =>
               \/ Coming(s, {"SOCK_WRITE"})' \/ Coming(s, {"SOCK_CONNECTED"})'
               \/ Connected(s) /\ impl[s].writable
<1> DEFINE i == impl[s]
           j == impl'[s]
<1>1. i \in Impl /\ (i.stage = "connecting" => ~i.hasData)
  BY DEF IInv, Types, SocketsTypeOK, Living
<1>2. /\ Exists(s) <=> i.stage \notin {"unborn", "deleted"}
      /\ Connected(s) <=> i.stage = "connected"
  BY DEF Exists, Connected
<1>3. \/ s \in G /\ IsOpen(i) /\ j.stage = "closed"
      \/ /\ s \notin G /\ i.stage = "connecting" /\ Coming(s, {"SOCK_CONNECTED"})'
         /\ j = [i EXCEPT !.stage = "connected"]
      \/ /\ s \notin G /\ i.stage = "connected" /\ Coming(s, {"SOCK_READ"})'
         /\ j = [i EXCEPT !.hasData = TRUE]
      \/ /\ s \notin G /\ i.stage = "connected" /\ Coming(s, {"SOCK_WRITE"})'
         /\ j = [i EXCEPT !.writable = TRUE]
      \/ s \notin G /\ j = i
      \/ s \notin G /\ j.stage = "deleted"
  BY DEF Heard, NewImpl
<1> HIDE DEF i, j
<1>4. CASE s \in G /\ IsOpen(i) /\ j.stage = "closed"
  BY <1>2, <1>4 DEF i, j, IsOpen
<1>5. CASE /\ s \notin G /\ i.stage = "connecting" /\ Coming(s, {"SOCK_CONNECTED"})'
           /\ j = [i EXCEPT !.stage = "connected"]
  <2>1. j.stage = "connected" /\ j.hasData = i.hasData /\ ~i.hasData
    BY <1>1, <1>5 DEF Impl
  <2>2. QED BY <1>2, <1>5, <2>1 DEF i, j, IsOpen
<1>6. CASE /\ s \notin G /\ i.stage = "connected" /\ Coming(s, {"SOCK_READ"})'
           /\ j = [i EXCEPT !.hasData = TRUE]
  <2>1. j.stage = "connected" /\ j.writable = i.writable
    BY <1>1, <1>6 DEF Impl
  <2>2. QED BY <1>2, <1>6, <2>1 DEF i, j, IsOpen
<1>7. CASE /\ s \notin G /\ i.stage = "connected" /\ Coming(s, {"SOCK_WRITE"})'
           /\ j = [i EXCEPT !.writable = TRUE]
  <2>1. j.stage = "connected" /\ j.hasData = i.hasData
    BY <1>1, <1>7 DEF Impl
  <2>2. QED BY <1>2, <1>7, <2>1 DEF i, j, IsOpen
<1>8. CASE s \notin G /\ j = i
  BY <1>2, <1>8 DEF i, j
<1>9. CASE s \notin G /\ j.stage = "deleted"
  BY <1>9 DEF j, IsOpen
<1>10. QED BY <1>3, <1>4, <1>5, <1>6, <1>7, <1>8, <1>9

\* select() and its answers.
LEMMA SelectInv ==
  ASSUME IInv, Select PROVE IInv'
<1>1. /\ pc = "tablesW" /\ pc' = "drain" /\ user' = FALSE
      /\ UNCHANGED <<wrap, up, down, conn, acc, accepted, connCnt, connectingCnt, left, rem,
                     note, misled>>
  BY DEF Select, reqVars, cntVars
<1>2. PICK G \in SUBSET OpenSocks :
         /\ \A s \in Socks : Heard(s, G)
         /\ UNCHANGED ptr /\ watched' \in SUBSET Socks /\ toRemove' \in SUBSET Socks
         /\ incoming' \in BOOLEAN /\ events' \in Seq(Events)
         /\ \A k \in 1..Len(events) : k \in 1..Len(events') /\ events'[k] = events[k]
         /\ \A k \in 1..Len(events') :
               \/ k \in 1..Len(events)
               \/ events'[k].evt \notin Losses
               \/ \E u \in G : events'[k].at = ptr[u]
         /\ Cardinality(LostIn(events')) <= Cardinality(LostIn(events)) + Cardinality(G)
  BY Woken DEF Select
<1>3. ptr' = ptr /\ \A s \in Socks : Heard(s, G)
  BY <1>2
<1>4. \A s \in Socks : impl[s] \in Impl /\ impl'[s] \in Impl
  BY <1>3 DEF Heard, IInv, Types, SocketsTypeOK
<1>5. DOMAIN impl' = Socks
  BY DEF Select, Watch
<1>6. \A s \in Socks : /\ Registered(s)' <=> Registered(s)
                       /\ wrap'[s] = wrap[s]
  BY <1>1 DEF Registered
<1>7. \A s \in Socks : Exists(s)' => Exists(s)
  BY <1>3, HeardKeeps DEF Exists
<1>8. \A s \in Socks : Registered(s) => Exists(s)' /\ ~impl'[s].toDelete
  BY <1>3, <1>4 DEF Heard, Exists, IsOpen, Impl, IInv, Living
<1>9. \A s \in Socks : impl'[s].stage \in {"unborn", "fresh", "connecting"} => impl'[s] = impl[s]
  BY <1>3, HeardKeeps
<1>10. \A s \in Socks : impl[s].stage \in {"fresh", "closed"} /\ Exists(s)' => impl'[s] = impl[s]
  BY <1>3, HeardKeeps DEF Exists
<1>11. \A s \in Socks : /\ s \in G => Exists(s) /\ impl'[s].stage = "closed"
                        /\ IsOpen(impl'[s]) => IsOpen(impl[s]) /\ s \notin G
  BY <1>3, HeardKeeps
<1>12. G \subseteq Socks
  BY <1>2 DEF OpenSocks
<1>13. \A s, K : Coming(s, K) => Coming(s, K)'
  BY <1>2 DEF Coming
<1>14. Types'
  <2>1. impl' \in [Socks -> Impl]
    BY <1>4, <1>5 DEF Select, Watch
  <2>2. QED BY <1>1, <1>2, <2>1 DEF IInv, Types, SocketsTypeOK, Pcs
<1>15. Living'
  <2>1. \A s \in Socks : Exists(s)' => ptr'[s] \in Addrs
    BY <1>3, <1>7 DEF IInv, Living
  <2>2. \A r, s \in Socks : Exists(r)' /\ Exists(s)' /\ ptr'[r] = ptr'[s] => r = s
    BY <1>3, <1>7 DEF IInv, Living
  <2>3. \A s \in Socks : Registered(s)' => Exists(s)' /\ ~impl'[s].toDelete
    BY <1>6, <1>8
  <2>4. \A s \in Socks : impl'[s].stage \in {"unborn", "fresh", "connecting"} =>
                            ~impl'[s].hasData /\ ~impl'[s].writable
    BY <1>9 DEF IInv, Living
  <2>5. \A s \in Socks : impl'[s].stage = "unborn" => ~impl'[s].toDelete /\ ptr'[s] = None
    BY <1>3, <1>9 DEF IInv, Living
  <2>6. QED BY <2>1, <2>2, <2>3, <2>4, <2>5 DEF Living
<1>16. Waiting'
  <2>1. accepted' = {}
    BY <1>1 DEF IInv, Waiting
  <2>2. QED BY <2>1 DEF Waiting
<1>17. Holding'
  <2>1. ASSUME NEW s \in Socks, conn'[s] = "valid"
        PROVE  Registered(s)' /\ impl'[s].stage = "fresh"
    <3>1. Registered(s) /\ impl[s].stage = "fresh"
      BY <1>1, <2>1 DEF IInv, Holding
    <3>2. QED BY <1>6, <1>8, <1>10, <3>1
  <2>2. ASSUME NEW s \in Socks, wrap'[s].connecting
        PROVE  /\ Registered(s)' /\ impl'[s].stage # "fresh"
               /\ \/ impl'[s].stage = "connecting"
                  \/ Coming(s, Losses \cup {"SOCK_CONNECTED"})'
    <3>1. /\ Registered(s) /\ impl[s].stage # "fresh"
          /\ impl[s].stage = "connecting" \/ Coming(s, Losses \cup {"SOCK_CONNECTED"})
      BY <1>6, <2>2 DEF IInv, Holding
    <3>2. Registered(s)' /\ impl'[s].stage # "fresh"
      BY <1>6, <1>9, <3>1
    <3>3. CASE Coming(s, Losses \cup {"SOCK_CONNECTED"})
      BY <1>13, <3>2, <3>3
    <3>4. CASE impl[s].stage = "connecting"
      <4>1. impl'[s].stage = "connecting" \/ Coming(s, Losses)' \/ Coming(s, {"SOCK_CONNECTED"})'
        BY <1>3, <1>4, <3>1, <3>4 DEF Heard, IInv, Living
      <4>2. Coming(s, Losses)' \/ Coming(s, {"SOCK_CONNECTED"})'
               => Coming(s, Losses \cup {"SOCK_CONNECTED"})'
        BY DEF Coming
      <4>3. QED BY <3>2, <4>1, <4>2
    <3>5. QED BY <3>1, <3>3, <3>4
  <2>3. QED BY <2>1, <2>2 DEF Holding
<1>18. Stale'
  <2>1. ASSUME NEW k \in 1..Len(events'), NEW s \in Socks,
               events'[k].evt \in Losses, events'[k].at = ptr'[s], Exists(s)'
        PROVE  impl'[s].stage \in {"fresh", "closed"}
    <3>1. CASE k \in 1..Len(events)
      <4>1. events[k].evt \in Losses /\ events[k].at = ptr[s]
        BY <1>2, <2>1, <3>1
      <4>2. impl[s].stage \in {"fresh", "closed"}
        BY <1>7, <2>1, <3>1, <4>1 DEF IInv, Stale
      <4>3. QED BY <1>10, <2>1, <4>2
    <3>2. CASE k \notin 1..Len(events)
      <4>1. PICK u \in G : events'[k].at = ptr[u]
        BY <1>2, <2>1, <3>2
      <4>2. u \in Socks /\ Exists(u) /\ Exists(s) /\ ptr[u] = ptr[s]
        BY <1>3, <1>7, <1>11, <1>12, <2>1, <4>1
      <4>3. u = s
        BY <4>2 DEF IInv, Living
      <4>4. QED BY <1>11, <4>3
    <3>3. QED BY <3>1, <3>2
  <2>2. QED BY <1>1, <2>1 DEF Stale
<1>19. Rounded'
  BY <1>1 DEF Rounded
<1>20. Counting'
  <2>1. /\ OpenSocks \in SUBSET Socks /\ OpenSocks' \subseteq OpenSocks \ G
        /\ OpenSocks \cap G = G
    BY <1>2, <1>11 DEF OpenSocks
  <2>2. IsFiniteSet(OpenSocks) /\ Cardinality(OpenSocks) \in Nat /\ Cardinality(G) \in Nat
    BY <1>12, <2>1, SockSets
  <2>3. /\ IsFiniteSet(OpenSocks \ G)
        /\ Cardinality(OpenSocks \ G) = Cardinality(OpenSocks) - Cardinality(OpenSocks \cap G)
    BY <2>2, FS_Difference
  <2>4. /\ Cardinality(OpenSocks') <= Cardinality(OpenSocks \ G)
        /\ Cardinality(OpenSocks') \in Nat /\ Cardinality(OpenSocks \ G) \in Nat
    BY <2>1, <2>3, FS_Subset, FS_CardinalityType
  <2>5. Cardinality(LostIn(events)) \in Nat /\ Cardinality(LostIn(events')) \in Nat
    BY <1>2, LostType DEF IInv, Types, SocketsTypeOK
  <2>6. /\ Cardinality(OpenSocks) + Cardinality(LostIn(events)) <= connCnt /\ connCnt \in Int
        /\ Cardinality(LostIn(events')) <= Cardinality(LostIn(events)) + Cardinality(G)
    BY <1>2 DEF IInv, Counting, Types
  <2>7. Cardinality(OpenSocks') + Cardinality(LostIn(events')) <= connCnt
    BY <2>1, <2>2, <2>3, <2>4, <2>5, <2>6
  <2>8. LostIn(events)' = LostIn(events') /\ Holders' = Holders
    BY <1>1 DEF LostIn, Holders
  <2>9. QED BY <1>1, <2>7, <2>8 DEF IInv, Counting
<1>21. /\ \A s \in Socks : Wanted(down, s) => Wanted(down, s)'
       /\ \A s \in Socks : Wanted(up, s) => Wanted(up, s)'
  BY <1>1, <1>3 DEF Wanted, ReqAt
<1>22. ReadsServed'
  <2>1. ASSUME NEW s \in Socks, Registered(s)', Connected(s)', impl'[s].hasData
        PROVE  Wanted(down, s)' \/ Coming(s, {"SOCK_READ"})'
    <3>1. impl'[s].stage = "connected"
      BY <2>1 DEF Connected
    <3>2. (Connected(s) /\ impl[s].hasData) \/ Coming(s, {"SOCK_READ"})'
      BY <1>3, <2>1, <3>1, HeardKeeps
    <3>3. QED BY <1>6, <1>13, <1>21, <2>1, <3>2 DEF IInv, ReadsServed
  <2>2. QED BY <2>1 DEF ReadsServed
<1>23. WritesServed'
  <2>1. ASSUME NEW s \in Socks, Registered(s)', Connected(s)', wrap'[s].out
        PROVE  \/ Wanted(up, s)' \/ ~impl'[s].writable
               \/ Coming(s, Losses \cup {"SOCK_WRITE", "SOCK_CONNECTED"})'
    <3>1. impl'[s].stage = "connected"
      BY <2>1 DEF Connected
    <3>2. \/ ~impl'[s].writable
          \/ Connected(s) /\ impl[s].writable
          \/ Coming(s, {"SOCK_WRITE"})' \/ Coming(s, {"SOCK_CONNECTED"})'
      BY <1>3, <2>1, <3>1, HeardKeeps
    <3>3. Coming(s, {"SOCK_WRITE"})' \/ Coming(s, {"SOCK_CONNECTED"})'
             => Coming(s, Losses \cup {"SOCK_WRITE", "SOCK_CONNECTED"})'
      BY DEF Coming
    <3>4. QED BY <1>6, <1>13, <1>21, <2>1, <3>2, <3>3 DEF IInv, WritesServed
  <2>2. QED BY <2>1 DEF WritesServed
<1>24. QED
  BY <1>14, <1>15, <1>16, <1>17, <1>18, <1>19, <1>20, <1>22, <1>23 DEF IInv

-----------------------------------------------------------------------------
(* The theorems.                                                             *)

\* Nothing is open, asked for or counted at first.
LEMMA InitIInv ==
  ASSUME Init PROVE IInv
<1>1. /\ ptr = [s \in Socks |-> None] /\ impl = [s \in Socks |-> NewImpl("unborn")]
      /\ incoming = FALSE /\ watched = {} /\ toRemove = {} /\ events = <<>>
      /\ wrap = [s \in Socks |-> [reg |-> FALSE, connecting |-> FALSE, out |-> FALSE]]
      /\ up = NoReqs /\ down = NoReqs /\ conn = NoReqs /\ acc = "none"
      /\ accepted = {} /\ connCnt = 0 /\ connectingCnt = 0
      /\ pc = "tables" /\ left = {} /\ rem = {} /\ note = {}
      /\ user = FALSE /\ misled = {}
  BY DEF Init, SocketsInit
<1>2. Types
  <2>1. impl \in [Socks -> Impl] /\ NoReqs \in [Socks -> Reqs] /\ wrap \in [Socks -> Wrap]
    BY <1>1 DEF NewImpl, Impl, Stages, NoReqs, Reqs, Wrap
  <2>2. events \in Seq(Events) /\ ptr \in [Socks -> Addrs \cup {None}]
    BY <1>1
  <2>3. SocketsTypeOK
    BY <1>1, <2>1, <2>2 DEF SocketsTypeOK
  <2>4. up \in [Socks -> Reqs] /\ down \in [Socks -> Reqs] /\ conn \in [Socks -> Reqs] /\ acc \in Reqs
    BY <1>1, <2>1 DEF Reqs
  <2>5. /\ accepted \in SUBSET Socks /\ left \in SUBSET (Socks \cup {Server})
        /\ rem \in SUBSET (Socks \cup {Server}) /\ note \in SUBSET (Socks \cup {Server})
        /\ misled \in SUBSET Socks
    BY <1>1
  <2>6. user \in BOOLEAN
    BY <1>1, Zenon
  <2>7. pc \in Pcs /\ connCnt \in Int /\ connectingCnt \in Int
    BY <1>1 DEF Pcs
  <2>8. QED BY <2>1, <2>3, <2>4, <2>5, <2>6, <2>7 DEF Types
<1>3. \A s \in Socks : /\ impl[s].stage = "unborn" /\ ~impl[s].toDelete
                       /\ ~impl[s].hasData /\ ~impl[s].writable
                       /\ ~wrap[s].reg /\ ~wrap[s].connecting /\ conn[s] = "none" /\ ptr[s] = None
  BY <1>1 DEF NewImpl, NoReqs
<1>4. Living
  BY <1>3 DEF Living, Exists, Registered
<1>5. Waiting /\ Rounded
  BY <1>1 DEF Waiting, Rounded
<1>6. Holding
  BY <1>3 DEF Holding
<1>7. Stale
  BY <1>1 DEF Stale
<1>8. Counting
  <2>1. OpenSocks = {} /\ Holders = {} /\ LostIn(events) = {}
    BY <1>1, <1>3 DEF OpenSocks, IsOpen, Holders, LostIn
  <2>2. /\ Cardinality(OpenSocks) = 0 /\ Cardinality(Holders) = 0
        /\ Cardinality(LostIn(events)) = 0
    BY <2>1, FS_EmptySet
  <2>3. connCnt = 0 /\ connectingCnt = 0 /\ 0 <= ConnLimit /\ 0 <= ConnectingLimit
    BY <1>1, SchedulerAssumption
  <2>4. QED BY <2>2, <2>3 DEF Counting
<1>9. ReadsServed /\ WritesServed
  BY <1>3 DEF ReadsServed, WritesServed, Registered
<1>10. QED BY <1>2, <1>4, <1>5, <1>6, <1>7, <1>8, <1>9 DEF IInv

\* A step that changes nothing.
LEMMA StutterInv ==
  ASSUME IInv, UNCHANGED vars PROVE IInv'
<1>1. /\ UNCHANGED <<ptr, impl, incoming, watched, toRemove, events>>
      /\ UNCHANGED <<wrap, up, down, conn, acc, accepted, connCnt, connectingCnt, pc, left, rem,
                     note, user, misled>>
  BY DEF vars, sockVars, reqVars, cntVars, rndVars
<1>2. \A s, K : Coming(s, K)' <=> Coming(s, K)
  BY <1>1 DEF Coming
<1>3. \A s \in Socks : (Wanted(up, s)' <=> Wanted(up, s)) /\ (Wanted(down, s)' <=> Wanted(down, s))
  BY <1>1 DEF Wanted, ReqAt
<1>4. Types' /\ Living' /\ Waiting'
  BY <1>1 DEF IInv, Types, SocketsTypeOK, Living, Waiting, Exists, Registered
<1>5. Holding' /\ Rounded'
  BY <1>1, <1>2 DEF IInv, Holding, Rounded, Registered
<1>6. Stale'
  BY <1>1 DEF IInv, Stale, Exists
<1>7. Counting'
  BY <1>1 DEF IInv, Counting, Holders, OpenSocks, LostIn
<1>8. ReadsServed' /\ WritesServed'
  BY <1>1, <1>2, <1>3 DEF IInv, ReadsServed, WritesServed, Registered, Connected
<1>9. QED BY <1>4, <1>5, <1>6, <1>7, <1>8 DEF IInv

\* A step of the rounds.
LEMMA RoundsInv ==
  ASSUME IInv, Rounds PROVE IInv'
<1>1. CASE Begin \/ BeginUp \/ End
  BY <1>1, RoundsBegin
<1>2. CASE RecvEnd \/ BreakConn
  BY <1>2, RoundsBreak
<1>3. CASE SendEnd
  BY <1>3, SendEndInv
<1>4. CASE AcceptThrows \/ AcceptBlocked \/ NotifyAccept
  BY <1>4, AcceptThrowsInv, AcceptBlockedInv, NotifyAcceptInv
<1>5. CASE DropConn(Server) \/ \E s \in Socks : DropRead(s) \/ DropConn(s)
  BY <1>5, DropInv
<1>6. ASSUME NEW s \in Socks,
             Discard("down", down, s) \/ Discard("up", up, s) \/ Discard("conn", conn, s)
      PROVE  IInv'
  BY <1>6, DiscardInv
<1>7. ASSUME NEW s \in Socks, NEW r \in {"part", "full", "lost", "throws"}, Recv(s, r) PROVE IInv'
  BY <1>7, RecvInv
<1>8. ASSUME NEW s \in Socks, NEW r \in {"all", "part", "lost", "throws"}, Send(s, r) PROVE IInv'
  BY <1>8, SendInv
<1>9. ASSUME NEW s \in Socks, NotifyRead(s) \/ NotifyConn(s) PROVE IInv'
  BY <1>9, NotifyInv
<1>10. ASSUME NEW s \in Socks, NEW ok \in BOOLEAN, DoConn(s, ok) PROVE IInv'
  <2>1. ok = TRUE \/ ok = FALSE
    OBVIOUS
  <2>2. CASE ok = TRUE
    BY <1>10, <2>2, DoConnOk
  <2>3. CASE ok = FALSE
    BY <1>10, <2>3, DoConnFails
  <2>4. QED BY <2>1, <2>2, <2>3
<1>11. ASSUME NEW s \in Socks, NEW a \in Addrs, Accept(s, a) PROVE IInv'
  BY <1>11, AcceptInv
<1>12. QED
  BY <1>1, <1>2, <1>3, <1>4, <1>5, <1>6, <1>7, <1>8, <1>9, <1>10, <1>11 DEF Rounds

\* Every step keeps the invariant.
LEMMA StepInv ==
  ASSUME IInv, [Next]_vars PROVE IInv'
<1>1. CASE Rounds
  BY <1>1, RoundsInv
<1>2. CASE Select \/ Drained
  BY <1>2, SelectInv, DrainedInv
<1>3. CASE Handle
  BY <1>3, OtherEvent, HandleReadInv, HandleWriteInv, HandleConnectedInv, HandleErrInv DEF Handle
<1>4. CASE UserCall
  BY <1>4, NewSocketInv, ConnectInv, WriteInv, DisconnectInv, DestroyInv DEF UserCall
<1>5. CASE UNCHANGED vars
  BY <1>5, StutterInv
<1>6. QED BY <1>1, <1>2, <1>3, <1>4, <1>5 DEF Next, Loop

\* The invariant holds in every state, for any number of sockets and addresses and
\* any limits, whether the allocator gives out addresses again or not.
THEOREM Invariance == Spec => []IInv
<1>1. Init => IInv
  BY InitIInv
<1>2. IInv /\ [Next]_vars => IInv'
  BY StepInv
<1>3. QED BY <1>1, <1>2, PTL DEF Spec

\* Type correctness: m_connCnt and m_connectingCnt, which the code decrements in
\* five places, never go below zero.
THEOREM TypeCorrect == Spec => []TypeOK
<1>1. IInv => TypeOK
  <2> SUFFICES ASSUME IInv PROVE TypeOK
    OBVIOUS
  <2>1. OpenSocks \in SUBSET Socks /\ Holders \in SUBSET Socks
    BY DEF OpenSocks, Holders
  <2>2. /\ Cardinality(OpenSocks) \in Nat /\ Cardinality(Holders) \in Nat
        /\ Cardinality(LostIn(events)) \in Nat
    BY <2>1, SockSets, LostType DEF IInv, Types, SocketsTypeOK
  <2>3. connCnt \in Nat /\ connectingCnt \in Nat
    BY <2>2 DEF IInv, Counting, Types
  <2>4. QED BY <2>3 DEF IInv, Types, TypeOK
<1>2. QED BY <1>1, Invariance, PTL

\* m_connectingCnt counts the sockets whose flag is set and is within the limit, and
\* each of these is a plugin's and still to be answered: no slot is lost.
THEOREM SlotsKept == Spec => []NoSlotLost
<1>1. IInv => NoSlotLost
  BY DEF IInv, Counting, Holding, Holders, NoSlotLost
<1>2. QED BY <1>1, Invariance, PTL

\* There are never more open sockets than m_connCnt counts, nor more than the limit.
THEOREM Limited == Spec => []LimitHolds
<1>1. IInv => LimitHolds
  <2> SUFFICES ASSUME IInv PROVE LimitHolds
    OBVIOUS
  <2>1. OpenSocks \in SUBSET Socks
    BY DEF OpenSocks
  <2>2. Cardinality(OpenSocks) \in Nat /\ Cardinality(LostIn(events)) \in Nat
    BY <2>1, SockSets, LostType DEF IInv, Types, SocketsTypeOK
  <2>3. QED BY <2>2 DEF IInv, Counting, Types, LimitHolds
<1>2. QED BY <1>1, Invariance, PTL

\* What select() reported once is served: data that came has a request or an event
\* to come, and so has what a plugin has to send on a socket that can take it.
THEOREM Served == Spec => []DataServed
<1>1. IInv => DataServed
  BY DEF IInv, DataServed
<1>2. QED BY <1>1, Invariance, PTL
=============================================================================
