--------------------------- MODULE Torrent_proofs ---------------------------
(***************************************************************************)
(* For any peers, torrent, window and number of faults: a client which may *)
(* ask and wants to is asking (NeverIdle), and each of its requests gets   *)
(* an answer or is taken back (NoStall).                                   *)
(*                                                                         *)
(* The first is about whether m_outRequests is empty, the second about     *)
(* where the answers to its entries are.  Functions and sequences have     *)
(* values of any kind.                                                     *)
(***************************************************************************)
EXTENDS Torrent, FiniteSetTheorems, WellFoundedInduction, TLAPS

\* Each peer has its value.
PerPeer ==
    /\ {link, choked, interested} \subseteq [Peers -> BOOLEAN]
    /\ \E S : out \in [Peers -> S]
    /\ \E S : fromPeer \in [Peers -> Seq(S)]

\* A new connection begins choked.
Closed == \A c \in Peers : ~link[c] => choked[c]

\* A bitfield is the first packet of a connection, and nothing unchoked us before.
Greeting ==
    \A c \in Peers : \A i \in 1..Len(fromPeer[c]) :
        fromPeer[c][i].type = "bitfield" => i = 1 /\ choked[c]

\* Between the handlers' steps: who may ask, wants to and has not is in sendRequests().
Eager ==
    present => \A c \in Peers :
        interested[c] /\ ~choked[c] /\ out[c] = <<>> => asking = c

IInv == PerPeer /\ Closed /\ Greeting /\ Eager

-----------------------------------------------------------------------------
(* Queues of packets                                                       *)

\* What is appended to one peer's queue leaves the packets that were there in their places,
\* and brings no bitfield.
LEMMA PeerSent ==
    ASSUME PerPeer, Greeting,
           NEW c \in Peers, NEW T, NEW t \in Seq(T),
           \A i \in 1..Len(t) : t[i].type # "bitfield",
           fromPeer' = [fromPeer EXCEPT ![c] = @ \o t], choked' = choked
    PROVE  (\E S : fromPeer' \in [Peers -> Seq(S)]) /\ Greeting'
<1>1. PICK S : fromPeer \in [Peers -> Seq(S)]
  BY DEF PerPeer
<1>2. \A d \in Peers : fromPeer[d] \in Seq(S \cup T)
  BY <1>1
<1>3. t \in Seq(S \cup T)
  OBVIOUS
<1>4. fromPeer[c] \o t \in Seq(S \cup T)
  BY <1>2, <1>3
<1>5. fromPeer' \in [Peers -> Seq(S \cup T)]
  BY <1>1, <1>2, <1>4
<1>6. Greeting'
  <2> SUFFICES ASSUME NEW d \in Peers, NEW i \in 1..Len(fromPeer'[d]),
                      fromPeer'[d][i].type = "bitfield"
               PROVE  i = 1 /\ choked'[d]
    BY DEF Greeting
  <2>1. CASE d # c
    BY <2>1, <1>1 DEF Greeting
  <2>2. CASE d = c /\ i \in 1..Len(fromPeer[c])
    <3>1. fromPeer'[d][i] = fromPeer[c][i]
      BY <2>2, <1>1, <1>2, <1>3
    <3>2. QED BY <2>2, <3>1 DEF Greeting
  <2>3. CASE d = c /\ i \notin 1..Len(fromPeer[c])
    <3>1. fromPeer'[c] = fromPeer[c] \o t
      BY <1>1
    <3>2. /\ i - Len(fromPeer[c]) \in 1..Len(t)
          /\ fromPeer'[d][i] = t[i - Len(fromPeer[c])]
      BY <2>3, <3>1, <1>2, <1>3
    <3>3. QED BY <3>2
  <2>4. QED BY <2>1, <2>2, <2>3
<1>7. QED BY <1>5, <1>6

\* One packet.
LEMMA PeerSentOne ==
    ASSUME PerPeer, Greeting,
           NEW c \in Peers, NEW p, p.type # "bitfield",
           fromPeer' = [fromPeer EXCEPT ![c] = Append(@, p)], choked' = choked
    PROVE  (\E S : fromPeer' \in [Peers -> Seq(S)]) /\ Greeting'
<1>1. PICK S : fromPeer \in [Peers -> Seq(S)]
  BY DEF PerPeer
<1>2. \A d \in Peers : fromPeer[d] \in Seq(S \cup {p})
  BY <1>1
<1>3. <<p>> \in Seq(S \cup {p})
  OBVIOUS
<1>4. Append(fromPeer[c], p) = fromPeer[c] \o <<p>>
  BY <1>2, <1>3
<1>5. fromPeer' = [fromPeer EXCEPT ![c] = @ \o <<p>>]
  BY <1>4
<1>6. \A i \in 1..Len(<<p>>) : <<p>>[i].type # "bitfield"
  OBVIOUS
<1>7. QED BY <1>3, <1>5, <1>6, PeerSent

\* The first packet is taken: if there was a bitfield it was that one.
LEMMA Taken ==
    ASSUME PerPeer, Greeting, NEW c \in Peers, NEW type, Arrives(c, type)
    PROVE  /\ \E S : fromPeer' \in [Peers -> Seq(S)]
           /\ \A d \in Peers : \A i \in 1..Len(fromPeer'[d]) :
                 fromPeer'[d][i].type = "bitfield" => d # c /\ i = 1 /\ choked[d]
           /\ type = "bitfield" => choked[c]
           /\ asking = NoPeer
<1>1. PICK S : fromPeer \in [Peers -> Seq(S)]
  BY DEF PerPeer
<1>2. /\ fromPeer[c] \in Seq(S) /\ fromPeer[c] # <<>>
      /\ fromPeer' = [fromPeer EXCEPT ![c] = Tail(@)] /\ asking = NoPeer
      /\ Head(fromPeer[c]).type = type
  BY <1>1 DEF Arrives, Idle
<1>3. /\ fromPeer'[c] = Tail(fromPeer[c]) /\ Tail(fromPeer[c]) \in Seq(S)
      /\ Len(fromPeer[c]) \in Nat \ {0} /\ Len(Tail(fromPeer[c])) = Len(fromPeer[c]) - 1
      /\ \A i \in 1..Len(fromPeer[c]) - 1 : Tail(fromPeer[c])[i] = fromPeer[c][i + 1]
      /\ Head(fromPeer[c]) = fromPeer[c][1]
  BY <1>1, <1>2
<1>4. fromPeer' \in [Peers -> Seq(S)]
  BY <1>1, <1>2, <1>3
<1>5. ASSUME NEW d \in Peers, NEW i \in 1..Len(fromPeer'[d]),
             fromPeer'[d][i].type = "bitfield"
      PROVE  d # c /\ i = 1 /\ choked[d]
  <2>1. CASE d # c
    BY <1>1, <1>2, <1>5, <2>1 DEF Greeting
  <2>2. CASE d = c
    <3> DEFINE n == Len(fromPeer[c])
    <3>1. n \in Nat /\ i \in 1..n - 1 /\ fromPeer'[c] = Tail(fromPeer[c])
      BY <1>3, <2>2
    <3>2. i + 1 \in 1..n /\ i + 1 # 1
      BY <3>1
    <3>3. fromPeer[c][i + 1] = fromPeer'[d][i]
      BY <1>3, <2>2, <3>1
    <3>4. QED BY <1>5, <3>2, <3>3 DEF Greeting
  <2>3. QED BY <2>1, <2>2
<1>6. type = "bitfield" => choked[c]
  BY <1>2, <1>3 DEF Greeting
<1>7. QED BY <1>2, <1>4, <1>5, <1>6

-----------------------------------------------------------------------------
(* Each action keeps IInv                                                  *)

LEMMA InitInv == Init => IInv
<1> SUFFICES ASSUME Init PROVE IInv
  OBVIOUS
<1>1. PerPeer
  <2>1. fromPeer \in [Peers -> Seq({})] /\ out \in [Peers -> {<<>>}]
    BY DEF Init
  <2>2. {link, choked, interested} \subseteq [Peers -> BOOLEAN]
    BY DEF Init
  <2>3. QED BY <2>1, <2>2 DEF PerPeer
<1>2. Closed /\ Greeting /\ Eager
  BY DEF Init, Closed, Greeting, Eager
<1>3. QED BY <1>1, <1>2 DEF IInv

\* A function with one new value.
LEMMA OneNew ==
    ASSUME NEW S, NEW f \in [Peers -> S], NEW c \in Peers, NEW v
    PROVE  [f EXCEPT ![c] = v] \in [Peers -> S \cup {v}]
OBVIOUS

\* What the peers do reaches our side only as packets.
LEMMA PeerStep ==
    ASSUME IInv, NEW c \in Peers, Peer(c)
    PROVE  IInv'
<1>1. link' = link /\ choked' = choked /\ interested' = interested /\ out' = out
      /\ asking' = asking /\ present' = present
  BY DEF Peer, PeerOnRequest, PeerOnCancel, PeerSends, PeerUnchokes, PeerChokes, PeerGains,
         clients, thread, file, data
<1>2. (\E S : fromPeer' \in [Peers -> Seq(S)]) /\ Greeting'
  <2> USE DEF IInv
  <2>1. CASE UNCHANGED fromPeer
    BY <1>1, <2>1 DEF PerPeer, Greeting
  <2>2. CASE \E rs : Serve(c, rs)
    <3>1. PICK p : p.type = "piece" /\ fromPeer' = [fromPeer EXCEPT ![c] = Append(@, p)]
      BY <2>2 DEF Serve, Packet
    <3>2. QED BY <1>1, <3>1, PeerSentOne
  <2>3. CASE PeerUnchokes(c) \/ PeerChokes(c)
    <3>1. PICK p : /\ p.type \in {"choke", "unchoke"}
                   /\ fromPeer' = [fromPeer EXCEPT ![c] = Append(@, p)]
      BY <2>3 DEF PeerUnchokes, PeerChokes, Packet
    <3>2. p.type # "bitfield"
      BY <3>1
    <3>3. QED BY <1>1, <3>1, <3>2, PeerSentOne
  <2>4. CASE PeerGains(c)
    <3>1. PICK k : fromPeer' = [fromPeer EXCEPT ![c] =
             IF link[c] THEN @ \o [i \in 1..3 - Slots(c) |-> Packet("have", k, TRUE)] ELSE @]
      BY <2>4 DEF PeerGains
    <3> DEFINE n == 3 - Slots(c)
               p == Packet("have", k, TRUE)
               t == [i \in 1..n |-> p]
    <3>2. n \in Nat /\ p.type # "bitfield"
      BY DEF Slots, Packet
    <3> HIDE DEF n, p
    <3>3. t \in Seq({p}) /\ \A i \in 1..Len(t) : t[i].type # "bitfield"
      BY <3>2
    <3>4. CASE link[c]
      <4>1. fromPeer' = [fromPeer EXCEPT ![c] = @ \o t]
        BY <3>1, <3>4 DEF n, p
      <4>2. QED BY <1>1, <3>3, <4>1, PeerSent
    <3>5. CASE ~link[c]
      <4>1. PICK S : fromPeer \in [Peers -> Seq(S)]
        BY DEF PerPeer
      <4>2. UNCHANGED fromPeer
        BY <3>1, <3>5, <4>1
      <4>3. QED BY <2>1, <4>2
    <3>6. QED BY <3>4, <3>5
  <2>5. QED
    BY <2>1, <2>2, <2>3, <2>4 DEF Peer, PeerOnRequest, PeerOnCancel, PeerSends, clients
<1>3. PerPeer' /\ Closed' /\ Eager'
  BY <1>1, <1>2 DEF IInv, PerPeer, Closed, Eager
<1>4. QED BY <1>2, <1>3 DEF IInv

\* A packet arrives.
LEMMA ClientStep ==
    ASSUME IInv, NEW c \in Peers, Client(c)
    PROVE  IInv'
<1> USE DEF IInv
<1>1. PICK S : out \in [Peers -> S]
  BY DEF PerPeer
<1>2. CASE OnChoke(c)
  <2>1. /\ Arrives(c, "choke") /\ choked' = [choked EXCEPT ![c] = TRUE]
        /\ out' = [out EXCEPT ![c] = <<>>] /\ asking' = asking
        /\ UNCHANGED <<link, interested, present>>
    BY <1>2 DEF OnChoke, file, data, thread
  <2>2. out' \in [Peers -> S \cup {<<>>}]
    BY <1>1, <2>1
  <2>3. PerPeer' /\ Greeting'
    <3>1. \E T : fromPeer' \in [Peers -> Seq(T)]
      BY <2>1, Taken
    <3>2. PerPeer'
      BY <2>1, <2>2, <3>1 DEF PerPeer
    <3>3. \A d \in Peers : \A i \in 1..Len(fromPeer'[d]) :
             fromPeer'[d][i].type = "bitfield" => d # c /\ i = 1 /\ choked[d]
      BY <2>1, Taken
    <3>4. \A d \in Peers : d # c => choked'[d] = choked[d]
      BY <2>1 DEF PerPeer
    <3>5. Greeting'
      BY <3>3, <3>4 DEF Greeting
    <3>6. QED BY <3>2, <3>5
  <2>4. Closed' /\ Eager'
    BY <1>1, <2>1 DEF PerPeer, Closed, Eager
  <2>5. QED BY <2>3, <2>4
<1>3. CASE OnUnchoke(c)
  <2>1. /\ Arrives(c, "unchoke") /\ choked' = [choked EXCEPT ![c] = FALSE]
        /\ asking' = (IF interested[c] /\ present THEN c ELSE NoPeer)
        /\ UNCHANGED <<link, interested, present, out>>
    BY <1>3 DEF OnUnchoke, Ask, file, data
  <2>2. link[c] /\ asking = NoPeer
    BY <2>1, Taken DEF Arrives
  <2>3. PerPeer' /\ Greeting'
    <3>1. \E T : fromPeer' \in [Peers -> Seq(T)]
      BY <2>1, Taken
    <3>2. PerPeer'
      BY <2>1, <3>1 DEF PerPeer
    <3>3. \A d \in Peers : \A i \in 1..Len(fromPeer'[d]) :
             fromPeer'[d][i].type = "bitfield" => d # c /\ i = 1 /\ choked[d]
      BY <2>1, Taken
    <3>4. \A d \in Peers : d # c => choked'[d] = choked[d]
      BY <2>1 DEF PerPeer
    <3>5. Greeting'
      BY <3>3, <3>4 DEF Greeting
    <3>6. QED BY <3>2, <3>5
  <2>4. Closed'
    BY <2>1, <2>2 DEF PerPeer, Closed
  <2>5. \A d \in Peers : d # c => choked'[d] = choked[d]
    BY <2>1 DEF PerPeer
  <2>6. present => (interested[c] => asking' = c)
    BY <2>1
  <2>7. Eager'
    BY <2>1, <2>2, <2>5, <2>6, TorrentAssumption DEF Eager
  <2>8. QED BY <2>3, <2>4, <2>7
<1>4. CASE OnHave(c)
  <2>1. /\ Arrives(c, "have")
        /\ \E b \in BOOLEAN : interested' = [interested EXCEPT ![c] = b]
        /\ asking' = (IF present /\ interested'[c] /\ ~choked[c] THEN c ELSE NoPeer)
        /\ UNCHANGED <<link, choked, present, out>>
    BY <1>4 DEF OnHave, Ask, data, PerPeer
  <2>2. asking = NoPeer
    BY <2>1, Taken
  <2>3. PerPeer' /\ Greeting'
    <3>1. \E T : fromPeer' \in [Peers -> Seq(T)]
      BY <2>1, Taken
    <3>2. PerPeer'
      BY <2>1, <3>1 DEF PerPeer
    <3>3. \A d \in Peers : \A i \in 1..Len(fromPeer'[d]) :
             fromPeer'[d][i].type = "bitfield" => d # c /\ i = 1 /\ choked[d]
      BY <2>1, Taken
    <3>4. \A d \in Peers : d # c => choked'[d] = choked[d]
      BY <2>1 DEF PerPeer
    <3>5. Greeting'
      BY <3>3, <3>4 DEF Greeting
    <3>6. QED BY <3>2, <3>5
  <2>4. Closed'
    BY <2>1 DEF Closed
  <2>5. \A d \in Peers : d # c => interested'[d] = interested[d]
    BY <2>1 DEF PerPeer
  <2>6. present /\ interested'[c] /\ ~choked[c] => asking' = c
    BY <2>1
  <2>7. Eager'
    BY <2>1, <2>2, <2>5, <2>6, TorrentAssumption DEF Eager
  <2>8. QED BY <2>3, <2>4, <2>7
<1>5. CASE OnBitfield(c)
  <2>1. /\ Arrives(c, "bitfield")
        /\ \E b \in BOOLEAN : interested' = [interested EXCEPT ![c] = b]
        /\ UNCHANGED <<link, choked, present, out, asking>>
    BY <1>5 DEF OnBitfield, data, thread, PerPeer
  <2>2. PerPeer' /\ Greeting'
    <3>1. \E T : fromPeer' \in [Peers -> Seq(T)]
      BY <2>1, Taken
    <3>2. PerPeer'
      BY <2>1, <3>1 DEF PerPeer
    <3>3. \A d \in Peers : \A i \in 1..Len(fromPeer'[d]) :
             fromPeer'[d][i].type = "bitfield" => d # c /\ i = 1 /\ choked[d]
      BY <2>1, Taken
    <3>4. \A d \in Peers : d # c => choked'[d] = choked[d]
      BY <2>1 DEF PerPeer
    <3>5. Greeting'
      BY <3>3, <3>4 DEF Greeting
    <3>6. QED BY <3>2, <3>5
  <2>3. choked[c]
    BY <2>1, Taken
  <2>4. Closed' /\ Eager'
    BY <2>1, <2>3 DEF PerPeer, Closed, Eager
  <2>5. QED BY <2>2, <2>4
<1>6. CASE OnPiece(c)
  <2>1. /\ Arrives(c, "piece")
        /\ UNCHANGED <<link, choked, present>>
    BY <1>6 DEF OnPiece
  <2>2. \/ /\ out[c] = <<>> /\ UNCHANGED <<out, asking>>
           /\ interested' = [interested EXCEPT ![c] = FALSE]
        \/ /\ out[c] # <<>> /\ asking' = c
           /\ out' = [out EXCEPT ![c] = Tail(@)] /\ UNCHANGED interested
    BY <1>6 DEF OnPiece, Ask
  <2>3. \E T : out' \in [Peers -> T]
    <3>1. out' \in [Peers -> S \cup {Tail(out[c])}]
      BY <1>1, <2>2
    <3>2. QED BY <3>1
  <2>4. asking = NoPeer /\ Greeting'
    BY <2>1, Taken DEF Greeting
  <2>5. PerPeer'
    <3>1. interested' \in [Peers -> BOOLEAN]
      BY <2>2 DEF PerPeer
    <3>2. \E T : fromPeer' \in [Peers -> Seq(T)]
      BY <2>1, Taken
    <3>3. QED BY <2>1, <2>3, <3>1, <3>2 DEF PerPeer
  <2>6. Closed'
    BY <2>1 DEF Closed
  <2>7. Eager'
    <3>1. ASSUME NEW d \in Peers, d # c
          PROVE  out'[d] = out[d] /\ interested'[d] = interested[d]
      BY <1>1, <2>2, <3>1 DEF PerPeer
    <3>2. asking' = c \/ ~interested'[c]
      BY <2>2 DEF PerPeer
    <3>3. QED BY <2>1, <2>2, <2>4, <3>1, <3>2, TorrentAssumption DEF Eager
  <2>8. QED BY <2>4, <2>5, <2>6, <2>7
<1>7. QED BY <1>2, <1>3, <1>4, <1>5, <1>6 DEF Client

\* A step of sendRequests().
LEMMA SendRequestsStep ==
    ASSUME IInv, NEW c \in Peers, SendRequests(c)
    PROVE  IInv'
<1> USE DEF IInv
<1>1. PICK S : out \in [Peers -> S]
  BY DEF PerPeer
<1>2. asking = c /\ UNCHANGED <<link, choked, present, fromPeer>>
  BY DEF SendRequests, AskRange, AskNext, AskLock, AskShared, AskEnds, Asking, file, data
<1>3. \E T : out' \in [Peers -> T]
  <2>1. CASE UNCHANGED out
    BY <1>1, <2>1
  <2>2. CASE \E b : out' = [out EXCEPT ![c] = Append(@, b)]
    <3>1. PICK b : out' = [out EXCEPT ![c] = Append(@, b)]
      BY <2>2
    <3>2. out' \in [Peers -> S \cup {Append(out[c], b)}]
      BY <1>1, <3>1
    <3>3. QED BY <3>2
  <2>3. QED
    BY <2>1, <2>2 DEF SendRequests, AskRange, AskNext, AskLock, AskShared, AskEnds
<1>4. Closed' /\ Greeting'
  BY <1>2 DEF Closed, Greeting
<1>5. CASE ~AskEnds(c)
  <2>1. asking' = asking /\ UNCHANGED interested
    BY <1>5 DEF SendRequests, AskRange, AskNext, AskLock, AskShared, thread
  <2>2. \A d \in Peers : d # c => out'[d] = out[d]
    BY <1>1, <1>5 DEF SendRequests, AskRange, AskNext, AskLock, AskShared
  <2>3. Eager'
    BY <1>2, <2>1, <2>2 DEF Eager
  <2>4. QED BY <1>2, <1>3, <1>4, <2>1, <2>3 DEF PerPeer
<1>6. CASE AskEnds(c)
  <2>1. UNCHANGED out /\ interested' = [interested EXCEPT ![c] = @ /\ out[c] # <<>>]
    BY <1>6 DEF AskEnds
  <2>2. interested' \in [Peers -> BOOLEAN]
    BY <2>1 DEF PerPeer
  <2>3. \A d \in Peers : interested'[d] => interested[d] /\ (d = c => out[d] # <<>>)
    BY <2>1 DEF PerPeer
  <2>4. Eager'
    BY <1>2, <2>1, <2>3 DEF Eager
  <2>5. QED BY <1>2, <1>3, <1>4, <2>2, <2>4 DEF PerPeer
<1>7. QED BY <1>5, <1>6

\* A client is told of a verified chunk.
LEMMA OnVerifiedStep ==
    ASSUME IInv, NEW c \in Peers, OnVerified(c)
    PROVE  IInv'
<1> USE DEF IInv
<1>1. PICK S : out \in [Peers -> S]
  BY DEF PerPeer
<1>2. /\ asking = NoPeer
      /\ asking' = (IF interested[c] /\ ~choked[c] THEN c ELSE NoPeer)
      /\ UNCHANGED <<link, choked, interested, present, fromPeer>>
  BY DEF OnVerified, Ask, file, data
<1>3. PICK s : out' = [out EXCEPT ![c] = s]
  BY DEF OnVerified
<1>4. out' \in [Peers -> S \cup {s}]
  BY <1>1, <1>3
<1>5. PerPeer' /\ Closed' /\ Greeting'
  BY <1>2, <1>4 DEF PerPeer, Closed, Greeting
<1>6. Eager'
  BY <1>1, <1>2, <1>3, TorrentAssumption DEF Eager
<1>7. QED BY <1>5, <1>6

\* A connection begins, choked.
LEMMA ConnectStep ==
    ASSUME IInv, NEW c \in Peers, Connect(c)
    PROVE  IInv'
<1> USE DEF IInv
<1>1. PICK S : fromPeer \in [Peers -> Seq(S)]
  BY DEF PerPeer
<1>2. /\ ~link[c] /\ link' = [link EXCEPT ![c] = TRUE]
      /\ UNCHANGED <<choked, interested, present, out, asking>>
  BY DEF Connect, file, data, thread
<1>3. PICK p : fromPeer' = [fromPeer EXCEPT ![c] = <<>>] \/ fromPeer' = [fromPeer EXCEPT ![c] = <<p>>]
  BY DEF Connect
<1>4. fromPeer' \in [Peers -> Seq(S \cup {p})]
  <2>1. \A d \in Peers : fromPeer[d] \in Seq(S \cup {p})
    BY <1>1
  <2>2. <<p>> \in Seq(S \cup {p}) /\ <<>> \in Seq(S \cup {p})
    OBVIOUS
  <2>3. QED BY <1>1, <1>3, <2>1, <2>2
<1>5. choked[c]
  BY <1>2 DEF Closed
<1>6. Greeting'
  <2> SUFFICES ASSUME NEW d \in Peers, NEW i \in 1..Len(fromPeer'[d]),
                      fromPeer'[d][i].type = "bitfield"
               PROVE  i = 1 /\ choked'[d]
    BY DEF Greeting
  <2>1. CASE d # c
    BY <1>1, <1>2, <1>3, <2>1 DEF Greeting
  <2>2. CASE d = c
    <3>1. Len(fromPeer'[d]) \in 0..1
      BY <1>1, <1>3, <2>2
    <3>2. QED BY <1>2, <1>5, <2>2, <3>1
  <2>3. QED BY <2>1, <2>2
<1>7. PerPeer' /\ Closed' /\ Eager'
  BY <1>2, <1>4 DEF PerPeer, Closed, Eager
<1>8. QED BY <1>6, <1>7

\* A connection ends.
LEMMA DropStep ==
    ASSUME IInv, NEW c \in Peers, Drop(c)
    PROVE  IInv'
<1> USE DEF IInv
<1>1. PICK S, T : out \in [Peers -> S] /\ fromPeer \in [Peers -> Seq(T)]
  BY DEF PerPeer
<1>2. /\ link' = [link EXCEPT ![c] = FALSE] /\ choked' = [choked EXCEPT ![c] = TRUE]
      /\ interested' = [interested EXCEPT ![c] = FALSE]
      /\ out' = [out EXCEPT ![c] = <<>>] /\ fromPeer' = [fromPeer EXCEPT ![c] = <<>>]
      /\ UNCHANGED <<present, asking>>
  BY DEF Drop, data, thread
<1>3. out' \in [Peers -> S \cup {<<>>}] /\ fromPeer' \in [Peers -> Seq(T)]
  BY <1>1, <1>2
<1>4. PerPeer'
  <2>1. {link', choked', interested'} \subseteq [Peers -> BOOLEAN]
    BY <1>2 DEF PerPeer
  <2>2. (\E U : out' \in [Peers -> U]) /\ (\E U : fromPeer' \in [Peers -> Seq(U)])
    BY <1>3
  <2>3. QED BY <2>1, <2>2 DEF PerPeer
<1>5. Greeting'
  BY <1>1, <1>2 DEF PerPeer, Greeting
<1>6. Closed' /\ Eager'
  BY <1>1, <1>2 DEF PerPeer, Closed, Eager
<1>7. QED BY <1>4, <1>5, <1>6

\* The torrent is complete and PartData gone.
LEMMA FinishStep ==
    ASSUME IInv, Finish
    PROVE  IInv'
<1> USE DEF IInv
<1>1. /\ present' = FALSE /\ out' = [c \in Peers |-> <<>>]
      /\ UNCHANGED <<link, choked, interested, fromPeer>>
  BY DEF Finish
<1>2. out' \in [Peers -> {<<>>}]
  BY <1>1
<1>3. QED BY <1>1, <1>2 DEF PerPeer, Closed, Greeting, Eager

-----------------------------------------------------------------------------

LEMMA NextInv == IInv /\ [Next]_vars => IInv'
<1> SUFFICES ASSUME IInv, [Next]_vars
             PROVE  IInv'
  OBVIOUS
<1>1. CASE \E c \in Peers : Client(c) \/ SendRequests(c) \/ OnVerified(c) \/ Peer(c)
  BY <1>1, ClientStep, SendRequestsStep, OnVerifiedStep, PeerStep
<1>2. CASE \E c \in Peers : Connect(c) \/ Lost(c) \/ TimedOut(c)
  BY <1>2, ConnectStep, DropStep DEF Lost, TimedOut
<1>3. CASE UNCHANGED <<link, choked, interested, out, fromPeer, present, asking>>
  BY <1>3 DEF IInv, PerPeer, Closed, Greeting, Eager
<1>4. CASE \E k \in Chunks : HashDone(k)
  BY <1>3, <1>4 DEF HashDone, clients
<1>5. CASE Finish
  BY <1>5, FinishStep
<1>6. CASE UNCHANGED vars
  BY <1>3, <1>6 DEF vars, file, data, clients, thread
<1>7. QED BY <1>1, <1>2, <1>4, <1>5, <1>6 DEF Next

LEMMA InvNeverIdle == IInv => NeverIdle
BY TorrentAssumption DEF IInv, Eager, NeverIdle, Idle

\* A client that is interested and not choked has requests out whenever the main thread is
\* between handlers: sendRequests() is called by each handler after which it could have
\* something to ask for and nothing else would call it again.
THEOREM AskersAsk == Spec => []NeverIdle
<1>1. Init => IInv
  BY InitInv
<1>2. IInv /\ [Next]_vars => IInv'
  BY NextInv
<1>3. IInv => NeverIdle
  BY InvNeverIdle
<1>4. QED BY <1>1, <1>2, <1>3, PTL DEF Spec

-----------------------------------------------------------------------------
(* Sequences without some of their entries                                 *)

\* Every set of numbers that is not empty has a least.
LEMMA Least ==
    ASSUME NEW T, T \subseteq Nat, T # {}
    PROVE  \E n \in T : \A m \in T : n <= m
<1>1. PICK n \in T : \A m \in T : <<m, n>> \notin OpToRel(<, Nat)
  BY NatLessThanWellFounded, WFMin
<1>2. \A m \in T : ~(m < n)
  BY <1>1 DEF OpToRel
<1>3. ASSUME NEW m \in T PROVE n <= m
  <2>1. m \in Nat /\ n \in Nat
    OBVIOUS
  <2>2. QED BY <1>2, <2>1
<1>4. QED BY <1>3

\* How many of the first entries of s are no hits.
Kept(s, hits, i) == Cardinality({j \in 1..i : s[j] \notin hits})

\* An entry that is no hit is one more, a hit is not.
LEMMA KeptNext ==
    ASSUME NEW s, NEW hits, NEW i \in Nat
    PROVE  /\ Kept(s, hits, i) \in Nat
           /\ Kept(s, hits, 0) = 0
           /\ Kept(s, hits, i + 1) = IF s[i + 1] \in hits THEN Kept(s, hits, i)
                                     ELSE Kept(s, hits, i) + 1
<1> DEFINE K(n) == {j \in 1..n : s[j] \notin hits}
<1>1. IsFiniteSet(K(i))
  <2>1. IsFiniteSet(1..i) /\ K(i) \in SUBSET (1..i)
    BY FS_Interval
  <2>2. QED BY <2>1, FS_Subset
<1>2. Cardinality(K(i)) \in Nat
  BY <1>1, FS_CardinalityType
<1>3. K(0) = {}
  OBVIOUS
<1>4. CASE s[i + 1] \in hits
  <2>1. K(i + 1) = K(i)
    BY <1>4
  <2>2. QED BY <1>2, <1>3, <1>4, <2>1, FS_EmptySet DEF Kept
<1>5. CASE s[i + 1] \notin hits
  <2>1. K(i + 1) = K(i) \cup {i + 1} /\ i + 1 \notin K(i)
    BY <1>5
  <2>2. Cardinality(K(i + 1)) = Cardinality(K(i)) + 1
    BY <1>1, <2>1, FS_AddElement
  <2>3. QED BY <1>2, <1>3, <1>5, <2>2, FS_EmptySet DEF Kept
<1>6. QED BY <1>4, <1>5

\* The count does not go down, and goes up at an entry that is no hit.
LEMMA KeptGrows ==
    ASSUME NEW s, NEW hits, NEW i \in Nat, NEW k \in Nat, i <= k
    PROVE  /\ Kept(s, hits, i) <= Kept(s, hits, k)
           /\ i < k /\ s[k] \notin hits => Kept(s, hits, i) < Kept(s, hits, k)
<1> DEFINE K(n) == {j \in 1..n : s[j] \notin hits}
<1>1. ASSUME NEW m \in Nat, NEW n \in Nat, m <= n PROVE Kept(s, hits, m) <= Kept(s, hits, n)
  <2>1. IsFiniteSet(K(n))
    <3>1. IsFiniteSet(1..n) /\ K(n) \in SUBSET (1..n)
      BY FS_Interval
    <3>2. QED BY <3>1, FS_Subset
  <2>2. K(m) \in SUBSET K(n)
    BY <1>1
  <2>3. QED BY <2>1, <2>2, FS_Subset DEF Kept
<1>2. ASSUME i < k, s[k] \notin hits PROVE Kept(s, hits, i) < Kept(s, hits, k)
  <2>1. PICK m \in Nat : k = m + 1 /\ i <= m
    <3>1. k - 1 \in Nat /\ k = (k - 1) + 1 /\ i <= k - 1
      BY <1>2
    <3>2. QED BY <3>1
  <2>2. Kept(s, hits, m) \in Nat /\ Kept(s, hits, i) \in Nat
        /\ Kept(s, hits, k) = Kept(s, hits, m) + 1
    BY <1>2, <2>1, KeptNext
  <2>3. QED BY <1>1, <2>1, <2>2
<1>3. QED BY <1>1, <1>2

\* Every count up to the last is that of an entry that is no hit.
LEMMA KeptReached ==
    ASSUME NEW s, NEW hits, NEW m \in Nat, NEW n \in 1..Kept(s, hits, m)
    PROVE  \E i \in 1..m : s[i] \notin hits /\ Kept(s, hits, i) = n
<1> DEFINE T == {i \in 0..m : Kept(s, hits, i) >= n}
<1>1. Kept(s, hits, m) \in Nat /\ n \in Nat /\ n >= 1
  BY KeptNext
<1>2. m \in T /\ T \subseteq Nat
  BY <1>1
<1>3. PICK i \in T : \A k \in T : i <= k
  BY <1>2, Least
<1>4. i \in 0..m /\ Kept(s, hits, i) >= n /\ Kept(s, hits, 0) = 0
  BY <1>3, KeptNext
<1>5. PICK k \in Nat : i = k + 1
  <2>1. i # 0
    BY <1>1, <1>4
  <2>2. i - 1 \in Nat /\ i = (i - 1) + 1
    BY <1>4, <2>1
  <2>3. QED BY <2>2
<1>6. k \notin T /\ k \in 0..m
  BY <1>3, <1>4, <1>5
<1>7. ~(Kept(s, hits, k) >= n)
  BY <1>6
<1>8. Kept(s, hits, k) \in Nat
      /\ Kept(s, hits, i) = IF s[i] \in hits THEN Kept(s, hits, k) ELSE Kept(s, hits, k) + 1
  BY <1>5, KeptNext
<1>9. s[i] \notin hits /\ Kept(s, hits, i) = n
  BY <1>1, <1>4, <1>7, <1>8
<1>10. QED BY <1>4, <1>5, <1>9

\* In t are the entries of s that are no hits, in their order: each at the place that is
\* the count of those up to it.
Leaves(s, hits, t) ==
    /\ \A i \in 1..Len(s) : s[i] \notin hits =>
          Kept(s, hits, i) \in 1..Len(t) /\ t[Kept(s, hits, i)] = s[i]
    /\ \A n \in 1..Len(t) : \E i \in 1..Len(s) :
          s[i] \notin hits /\ Kept(s, hits, i) = n /\ t[n] = s[i]

\* This is what Without() leaves.
LEMMA WithoutIs ==
    ASSUME NEW S, NEW s \in Seq(S), NEW hits, NEW t, t = Without(s, hits)
    PROVE  t \in Seq(S) /\ Len(t) = Kept(s, hits, Len(s)) /\ Leaves(s, hits, t)
<1>1. PICK m \in Nat : m = Len(s) /\ DOMAIN s = 1..m
  OBVIOUS
<1>2. PICK l \in Nat : l = Kept(s, hits, m)
  BY KeptNext
<1> DEFINE At(n, i) == i \in 1..m /\ s[i] \notin hits /\ Kept(s, hits, i) = n
           at(n) == CHOOSE i \in 1..m : s[i] \notin hits /\ Kept(s, hits, i) = n
<1>3. t = [n \in 1..l |-> s[at(n)]]
  BY <1>1, <1>2 DEF Without, Kept
<1>4. ASSUME NEW n \in 1..l PROVE At(n, at(n))
  <2>1. \E i \in 1..m : s[i] \notin hits /\ Kept(s, hits, i) = n
    BY <1>2, KeptReached
  <2>2. QED BY <2>1
<1> HIDE DEF at
<1>5. t \in Seq(S) /\ Len(t) = l
  <2>1. t \in [1..l -> S]
    BY <1>1, <1>3, <1>4
  <2>2. QED BY <2>1
<1>6. ASSUME NEW n \in 1..Len(t)
      PROVE  \E i \in 1..Len(s) : s[i] \notin hits /\ Kept(s, hits, i) = n /\ t[n] = s[i]
  BY <1>1, <1>3, <1>4, <1>5
<1>7. ASSUME NEW i \in 1..Len(s), s[i] \notin hits
      PROVE  Kept(s, hits, i) \in 1..Len(t) /\ t[Kept(s, hits, i)] = s[i]
  <2>1. PICK n \in Nat : n = Kept(s, hits, i)
    BY KeptNext
  <2>2. Kept(s, hits, 0) = 0 /\ 0 < n /\ n <= l
    <3>1. Kept(s, hits, 0) = 0
      BY KeptNext
    <3>2. Kept(s, hits, 0) < Kept(s, hits, i)
      BY <1>7, KeptGrows
    <3>3. Kept(s, hits, i) <= Kept(s, hits, m)
      BY <1>1, KeptGrows
    <3>4. QED BY <1>2, <2>1, <3>1, <3>2, <3>3
  <2>3. PICK k \in 1..m : k = at(n) /\ s[k] \notin hits /\ Kept(s, hits, k) = n
    BY <1>4, <2>2
  <2>4. k = i
    <3>1. ~(k < i)
      BY <1>7, <2>1, <2>3, KeptGrows
    <3>2. ~(i < k)
      BY <2>1, <2>3, KeptGrows
    <3>3. QED BY <1>1, <3>1, <3>2
  <2>5. n \in 1..l
    BY <1>2, <2>1, <2>2
  <2>6. t[n] = s[k]
    BY <1>3, <2>3, <2>5
  <2>7. QED BY <1>5, <2>1, <2>4, <2>5, <2>6
<1>8. QED BY <1>1, <1>2, <1>5, <1>6, <1>7 DEF Leaves

-----------------------------------------------------------------------------
(* The way of an answer: what comes from the peer, what waits at it and what goes to it *)

\* From its place i on, a cancel of b goes to the peer.
Cancelled(to, i, b) == \E k \in i..Len(to) : to[k].type = "cancel" /\ to[k].x = b

\* At place j there is the answer to a request of b, or what will become one.
Place(from, rs, to, j, b) ==
    \/ j \in 1..Len(from) /\ from[j].type = "piece" /\ from[j].x = b
    \/ /\ j - Len(from) \in 1..Len(rs) /\ rs[j - Len(from)] = b
       /\ ~Cancelled(to, 1, b)
    \/ /\ j - Len(from) - Len(rs) \in 1..Len(to)
       /\ to[j - Len(from) - Len(rs)].type = "request"
       /\ to[j - Len(from) - Len(rs)].x = b
       /\ ~Cancelled(to, j - Len(from) - Len(rs), b)

\* The requests o are answered in their order.  More answers may come than are waited for.
Awaits(o, from, rs, to) ==
    \E f \in [1..Len(o) -> Nat] :
        /\ \A i, j \in 1..Len(o) : i < j => f[i] < f[j]
        /\ \A i \in 1..Len(o) : Place(from, rs, to, f[i], o[i])

\* If m leads from the places of the answers to such places on another way, and keeps
\* the order, then the requests are answered there.
LEMMA Moved ==
    ASSUME NEW o, NEW from, NEW rs, NEW to, NEW from2, NEW rs2, NEW to2,
           Awaits(o, from, rs, to),
           NEW m,
           \A i \in 1..Len(o), j \in Nat :
               Place(from, rs, to, j, o[i]) =>
                   m[j] \in Nat /\ Place(from2, rs2, to2, m[j], o[i]),
           \A a, b \in 1..Len(o), i, j \in Nat :
               Place(from, rs, to, i, o[a]) /\ Place(from, rs, to, j, o[b]) /\ i < j
                   => m[i] < m[j]
    PROVE  Awaits(o, from2, rs2, to2)
<1>1. PICK f \in [1..Len(o) -> Nat] :
        /\ \A i, j \in 1..Len(o) : i < j => f[i] < f[j]
        /\ \A i \in 1..Len(o) : Place(from, rs, to, f[i], o[i])
  BY DEF Awaits
<1>2. PICK h : h = [i \in 1..Len(o) |-> m[f[i]]]
  OBVIOUS
<1>3. ASSUME NEW i \in 1..Len(o) PROVE f[i] \in Nat /\ Place(from, rs, to, f[i], o[i])
  BY <1>1
<1>4. ASSUME NEW i \in 1..Len(o) PROVE h[i] \in Nat /\ Place(from2, rs2, to2, h[i], o[i])
  BY <1>2, <1>3
<1>5. ASSUME NEW i \in 1..Len(o), NEW j \in 1..Len(o), i < j PROVE h[i] < h[j]
  <2>1. f[i] < f[j]
    BY <1>1, <1>5
  <2>2. m[f[i]] < m[f[j]]
    BY <1>3, <2>1
  <2>3. QED BY <1>2, <2>2
<1>6. h \in [1..Len(o) -> Nat]
  BY <1>2, <1>4
<1>7. QED BY <1>4, <1>5, <1>6 DEF Awaits

\* Who waits for nothing.
LEMMA AwaitsNone ==
    ASSUME NEW from, NEW rs, NEW to
    PROVE  Awaits(<<>>, from, rs, to)
<1>1. PICK none, f : none = <<>> /\ f = [i \in 1..0 |-> 0]
  OBVIOUS
<1>2. f \in [1..Len(none) -> Nat] /\ \A i \in 1..Len(none) : FALSE
  BY <1>1
<1>3. Awaits(none, from, rs, to)
  BY <1>2 DEF Awaits
<1>4. QED BY <1>1, <1>3

\* What is awaited is somewhere on the way.
LEMMA AwaitedIs ==
    ASSUME NEW S, NEW o \in Seq(S), NEW from \in Seq(S), NEW rs \in Seq(S), NEW to \in Seq(S),
           Awaits(o, from, rs, to), NEW b \in Range(o)
    PROVE  Under(to, "request", b) \/ b \in Range(rs) \/ Under(from, "piece", b)
<1>1. PICK i \in 1..Len(o) : o[i] = b
  BY DEF Range
<1>2. PICK j \in Nat : Place(from, rs, to, j, b)
  BY <1>1 DEF Awaits
<1>3. QED BY <1>2 DEF Place, Under, Range

\* A request is sent.
LEMMA AwaitsSent ==
    ASSUME NEW S, NEW o \in Seq(S), NEW from \in Seq(S), NEW rs \in Seq(S), NEW to \in Seq(S),
           Awaits(o, from, rs, to), NEW b \in S, NEW p \in S, p.type = "request", p.x = b
    PROVE  Awaits(Append(o, b), from, rs, Append(to, p))
<1>1. PICK f \in [1..Len(o) -> Nat] :
        /\ \A i, j \in 1..Len(o) : i < j => f[i] < f[j]
        /\ \A i \in 1..Len(o) : Place(from, rs, to, f[i], o[i])
  BY DEF Awaits
<1>2. PICK l, F, R, T \in Nat : l = Len(o) /\ F = Len(from) /\ R = Len(rs) /\ T = Len(to)
  OBVIOUS
<1>3. PICK o2, to2 : o2 = Append(o, b) /\ to2 = Append(to, p)
  OBVIOUS
<1>4. /\ Len(o2) = l + 1 /\ o2[l + 1] = b /\ \A i \in 1..l : o2[i] = o[i]
      /\ Len(to2) = T + 1 /\ to2[T + 1] = p /\ \A i \in 1..T : to2[i] = to[i]
  BY <1>2, <1>3
<1>5. \A i \in Nat \ {0} : \A x : ~Cancelled(to, i, x) => ~Cancelled(to2, i, x)
  <2> SUFFICES ASSUME NEW i \in Nat \ {0}, NEW x, ~Cancelled(to, i, x),
                      NEW k \in i..Len(to2), to2[k].type = "cancel", to2[k].x = x
               PROVE  FALSE
    BY DEF Cancelled
  <2>1. k \in i..T + 1
    BY <1>4
  <2>2. CASE k = T + 1
    BY <1>4, <2>2
  <2>3. CASE k \in i..T
    <3>1. k \in 1..T /\ to2[k] = to[k]
      BY <1>4, <2>3
    <3>2. QED BY <1>2, <2>3, <3>1 DEF Cancelled
  <2>4. QED BY <2>1, <2>2, <2>3
<1>6. ASSUME NEW j \in Nat, NEW x, Place(from, rs, to, j, x)
      PROVE  j <= F + R + T /\ Place(from, rs, to2, j, x)
  <2>1. CASE j \in 1..F /\ from[j].type = "piece" /\ from[j].x = x
    BY <1>2, <2>1 DEF Place
  <2>2. CASE j - F \in 1..R /\ rs[j - F] = x /\ ~Cancelled(to, 1, x)
    <3>1. 1 \in Nat \ {0}
      OBVIOUS
    <3>2. ~Cancelled(to2, 1, x)
      BY <1>5, <2>2, <3>1, Zenon
    <3>3. j <= F + R + T
      BY <2>2
    <3>4. QED BY <1>2, <2>2, <3>2, <3>3 DEF Place
  <2>3. CASE /\ j - F - R \in 1..T /\ to[j - F - R].type = "request"
             /\ to[j - F - R].x = x /\ ~Cancelled(to, j - F - R, x)
    <3>1. PICK i \in 1..T : i = j - F - R /\ i \in Nat \ {0}
      BY <2>3
    <3>2. ~Cancelled(to2, i, x)
      BY <1>5, <2>3, <3>1, Zenon
    <3>3. to2[i] = to[i] /\ i \in 1..Len(to2)
      BY <1>4, <3>1
    <3>4. j <= F + R + T
      BY <3>1
    <3>5. QED BY <1>2, <2>3, <3>1, <3>2, <3>3, <3>4 DEF Place
  <2>4. QED BY <1>2, <1>6, <2>1, <2>2, <2>3 DEF Place
<1>7. Place(from, rs, to2, F + R + T + 1, b)
  <2>1. F + R + T + 1 - Len(from) - Len(rs) = T + 1
    BY <1>2
  <2>2. ~Cancelled(to2, T + 1, b)
    BY <1>2, <1>4 DEF Cancelled
  <2>3. QED BY <1>2, <1>4, <2>1, <2>2 DEF Place
<1>8. PICK h : h = [i \in 1..l + 1 |-> IF i = l + 1 THEN F + R + T + 1 ELSE f[i]]
  OBVIOUS
<1>9. ASSUME NEW i \in 1..l + 1
      PROVE  h[i] \in Nat /\ Place(from, rs, to2, h[i], o2[i])
  <2>1. CASE i = l + 1
    BY <1>2, <1>4, <1>7, <1>8, <2>1
  <2>2. CASE i \in 1..l
    <3>1. h[i] = f[i] /\ o2[i] = o[i] /\ f[i] \in Nat /\ Place(from, rs, to, f[i], o[i])
      BY <1>1, <1>2, <1>4, <1>8, <2>2
    <3>2. QED BY <1>6, <3>1
  <2>3. QED BY <2>1, <2>2
<1>10. ASSUME NEW i \in 1..l + 1, NEW j \in 1..l + 1, i < j PROVE h[i] < h[j]
  <2>1. i \in 1..l /\ h[i] = f[i] /\ f[i] \in Nat /\ f[i] <= F + R + T
    <3>1. i \in 1..l /\ h[i] = f[i] /\ f[i] \in Nat /\ Place(from, rs, to, f[i], o[i])
      BY <1>1, <1>2, <1>8, <1>10
    <3>2. QED BY <1>6, <3>1
  <2>2. CASE j = l + 1
    BY <1>8, <2>1, <2>2
  <2>3. CASE j \in 1..l
    BY <1>1, <1>2, <1>8, <1>10, <2>1, <2>3
  <2>4. QED BY <2>2, <2>3
<1>11. h \in [1..Len(o2) -> Nat]
  BY <1>4, <1>8, <1>9
<1>12. QED BY <1>3, <1>4, <1>9, <1>10, <1>11 DEF Awaits

\* The first packet from the peer is read: each place is one nearer.
LEMMA PlaceNearer ==
    ASSUME NEW S, NEW from \in Seq(S), from # <<>>, NEW rs \in Seq(S), NEW to \in Seq(S),
           NEW j \in Nat, j > 1, NEW x, Place(from, rs, to, j, x)
    PROVE  Place(Tail(from), rs, to, j - 1, x)
<1>1. PICK F \in Nat : F = Len(from)
  OBVIOUS
<1>2. PICK from2 : from2 = Tail(from)
  OBVIOUS
<1>3. Len(from2) = F - 1 /\ \A i \in 1..F - 1 : from2[i] = from[i + 1]
  BY <1>1, <1>2
<1>4. j - 1 - Len(from2) = j - Len(from)
  <2>1. j - 1 - (F - 1) = j - F
    OBVIOUS
  <2>2. QED BY <1>1, <1>3, <2>1, Zenon
<1>5. j \in 1..Len(from) => j - 1 \in 1..Len(from2) /\ from2[j - 1] = from[j]
  BY <1>1, <1>3
<1>6. Place(from2, rs, to, j - 1, x)
  BY <1>4, <1>5 DEF Place
<1>7. QED BY <1>2, <1>6

\* An answer is taken for one to the first request, whatever it answers.
LEMMA AwaitsTaken ==
    ASSUME NEW S, NEW o \in Seq(S), NEW from \in Seq(S), NEW rs \in Seq(S), NEW to \in Seq(S),
           Awaits(o, from, rs, to), o # <<>>, from # <<>>
    PROVE  Awaits(Tail(o), Tail(from), rs, to)
<1>1. PICK f \in [1..Len(o) -> Nat] :
        /\ \A i, j \in 1..Len(o) : i < j => f[i] < f[j]
        /\ \A i \in 1..Len(o) : Place(from, rs, to, f[i], o[i])
  BY DEF Awaits
<1>2. PICK l, F \in Nat : l + 1 = Len(o) /\ F + 1 = Len(from)
  <2>1. Len(o) \in Nat /\ Len(o) # 0 /\ Len(from) \in Nat /\ Len(from) # 0
    OBVIOUS
  <2>2. PICK l, F : l = Len(o) - 1 /\ F = Len(from) - 1
    OBVIOUS
  <2>3. l \in Nat /\ F \in Nat /\ l + 1 = Len(o) /\ F + 1 = Len(from)
    BY <2>1, <2>2
  <2>4. QED BY <2>3
<1>3. PICK o2, from2 : o2 = Tail(o) /\ from2 = Tail(from)
  OBVIOUS
<1>4. /\ Len(o2) = l /\ \A i \in 1..l : o2[i] = o[i + 1]
      /\ Len(from2) = F /\ \A i \in 1..F : from2[i] = from[i + 1]
  BY <1>2, <1>3
<1>5. ASSUME NEW j \in Nat, NEW x, j > 1, Place(from, rs, to, j, x)
      PROVE  Place(from2, rs, to, j - 1, x)
  BY <1>3, <1>5, PlaceNearer
<1>6. ASSUME NEW j \in Nat, NEW x, Place(from, rs, to, j, x) PROVE j >= 1
  BY <1>6 DEF Place
<1>7. PICK h : h = [i \in 1..l |-> f[i + 1] - 1]
  OBVIOUS
<1>8. ASSUME NEW i \in 1..l
      PROVE  h[i] \in Nat /\ h[i] = f[i + 1] - 1 /\ f[i + 1] \in Nat
             /\ Place(from2, rs, to, h[i], o2[i])
  <2>1. 1 \in 1..Len(o) /\ i + 1 \in 1..Len(o) /\ 1 < i + 1
    BY <1>2
  <2>2. f[1] \in Nat /\ f[i + 1] \in Nat /\ f[1] < f[i + 1] /\ Place(from, rs, to, f[1], o[1])
        /\ Place(from, rs, to, f[i + 1], o[i + 1])
    BY <1>1, <2>1
  <2>3. f[i + 1] > 1
    BY <1>6, <2>2
  <2>4. Place(from2, rs, to, f[i + 1] - 1, o[i + 1])
    BY <1>5, <2>2, <2>3
  <2>5. QED BY <1>4, <1>7, <2>2, <2>3, <2>4
<1>9. ASSUME NEW i \in 1..l, NEW j \in 1..l, i < j PROVE h[i] < h[j]
  <2>1. f[i + 1] < f[j + 1]
    BY <1>1, <1>2, <1>9
  <2>2. QED BY <1>8, <2>1
<1>10. h \in [1..Len(o2) -> Nat]
  BY <1>4, <1>7, <1>8
<1>11. QED BY <1>3, <1>4, <1>8, <1>9, <1>10 DEF Awaits

\* What is read is no answer.
LEMMA AwaitsRead ==
    ASSUME NEW S, NEW o \in Seq(S), NEW from \in Seq(S), NEW rs \in Seq(S), NEW to \in Seq(S),
           Awaits(o, from, rs, to), from # <<>>, Head(from).type # "piece"
    PROVE  Awaits(o, Tail(from), rs, to)
<1>1. PICK m : m = [j \in Nat |-> j - 1]
  OBVIOUS
<1>2. Len(from) \in Nat /\ Len(from) # 0 /\ from[1].type # "piece"
  OBVIOUS
<1>3. ASSUME NEW j \in Nat, NEW x, Place(from, rs, to, j, x)
      PROVE  j > 1 /\ m[j] = j - 1 /\ m[j] \in Nat /\ Place(Tail(from), rs, to, m[j], x)
  <2>1. j > 1
    BY <1>2, <1>3 DEF Place
  <2>2. Place(Tail(from), rs, to, j - 1, x)
    BY <1>3, <2>1, PlaceNearer
  <2>3. QED BY <1>1, <2>1, <2>2
<1>4. PICK from2 : from2 = Tail(from)
  OBVIOUS
<1>5. Awaits(o, from2, rs, to)
  <2>1. ASSUME NEW i \in 1..Len(o), NEW j \in Nat, Place(from, rs, to, j, o[i])
        PROVE  m[j] \in Nat /\ Place(from2, rs, to, m[j], o[i])
    BY <1>3, <1>4, <2>1
  <2>2. ASSUME NEW a \in 1..Len(o), NEW b \in 1..Len(o), NEW i \in Nat, NEW j \in Nat,
               Place(from, rs, to, i, o[a]), Place(from, rs, to, j, o[b]), i < j
        PROVE  m[i] < m[j]
    BY <1>1, <2>2
  <2>3. QED BY <2>1, <2>2, Moved
<1>6. QED BY <1>4, <1>5

\* The peer sends what is no answer.
LEMMA AwaitsTold ==
    ASSUME NEW S, NEW o \in Seq(S), NEW from \in Seq(S), NEW rs \in Seq(S), NEW to \in Seq(S),
           Awaits(o, from, rs, to), NEW t \in Seq(S)
    PROVE  Awaits(o, from \o t, rs, to)
<1>1. PICK F, n \in Nat : F = Len(from) /\ n = Len(t)
  OBVIOUS
<1>2. PICK m : m = [j \in Nat |-> IF j <= F THEN j ELSE j + n]
  OBVIOUS
<1>3. PICK from2 : from2 = from \o t
  OBVIOUS
<1>4. Len(from2) = F + n /\ \A i \in 1..F : from2[i] = from[i]
  BY <1>1, <1>3
<1>5. ASSUME NEW j \in Nat, NEW x, Place(from, rs, to, j, x)
      PROVE  m[j] \in Nat /\ Place(from2, rs, to, m[j], x)
  <2>1. CASE j <= F
    <3>1. j \in 1..F /\ from[j].type = "piece" /\ from[j].x = x /\ m[j] = j
      BY <1>1, <1>2, <1>5, <2>1 DEF Place
    <3>2. j \in 1..Len(from2) /\ from2[j] = from[j]
      BY <1>4, <3>1
    <3>3. QED BY <3>1, <3>2 DEF Place
  <2>2. CASE j > F
    <3>1. m[j] = j + n /\ j + n - Len(from2) = j - Len(from) /\ j \notin 1..Len(from)
      BY <1>1, <1>2, <1>4, <2>2
    <3>2. Place(from2, rs, to, j + n, x)
      <4>1. CASE j - Len(from) \in 1..Len(rs) /\ rs[j - Len(from)] = x /\ ~Cancelled(to, 1, x)
        BY <3>1, <4>1 DEF Place
      <4>2. CASE /\ j - Len(from) - Len(rs) \in 1..Len(to)
                 /\ to[j - Len(from) - Len(rs)].type = "request"
                 /\ to[j - Len(from) - Len(rs)].x = x
                 /\ ~Cancelled(to, j - Len(from) - Len(rs), x)
        <5>1. (j + n - Len(from2)) - Len(rs) = j - Len(from) - Len(rs)
          BY <3>1, Zenon
        <5>2. QED BY <4>2, <5>1 DEF Place
      <4>3. QED BY <1>5, <3>1, <4>1, <4>2 DEF Place
    <3>3. QED BY <1>1, <3>1, <3>2
  <2>3. QED BY <2>1, <2>2
<1>6. Awaits(o, from2, rs, to)
  <2>1. ASSUME NEW i \in 1..Len(o), NEW j \in Nat, Place(from, rs, to, j, o[i])
        PROVE  m[j] \in Nat /\ Place(from2, rs, to, m[j], o[i])
    BY <1>5, <2>1
  <2>2. ASSUME NEW a \in 1..Len(o), NEW b \in 1..Len(o), NEW i \in Nat, NEW j \in Nat,
               Place(from, rs, to, i, o[a]), Place(from, rs, to, j, o[b]), i < j
        PROVE  m[i] < m[j]
    BY <1>2, <2>2
  <2>3. QED BY <2>1, <2>2, Moved
<1>7. QED BY <1>3, <1>6

\* If a place stays a place, what is awaited stays awaited.
LEMMA AwaitsStays ==
    ASSUME NEW S, NEW o \in Seq(S), NEW from, NEW rs, NEW to, NEW from2, NEW rs2, NEW to2,
           Awaits(o, from, rs, to),
           \A j \in Nat : \A x : Place(from, rs, to, j, x) => Place(from2, rs2, to2, j, x)
    PROVE  Awaits(o, from2, rs2, to2)
BY DEF Awaits

\* The cancels behind the first packet.
LEMMA CancelledBehind ==
    ASSUME NEW S, NEW to \in Seq(S), to # <<>>, NEW i \in Nat \ {0}, NEW x
    PROVE  /\ Cancelled(Tail(to), i, x) => Cancelled(to, i + 1, x)
           /\ Cancelled(to, i + 1, x) => Cancelled(to, i, x)
<1>1. PICK T \in Nat : T = Len(to)
  OBVIOUS
<1>2. PICK to2 : to2 = Tail(to)
  OBVIOUS
<1>3. Len(to2) = T - 1 /\ \A k \in 1..T - 1 : to2[k] = to[k + 1]
  BY <1>1, <1>2
<1>4. ASSUME Cancelled(to2, i, x) PROVE Cancelled(to, i + 1, x)
  <2>1. PICK k \in i..T - 1 : to2[k].type = "cancel" /\ to2[k].x = x
    BY <1>3, <1>4 DEF Cancelled
  <2>2. k + 1 \in i + 1..Len(to) /\ to2[k] = to[k + 1]
    BY <1>1, <1>3, <2>1
  <2>3. QED BY <2>1, <2>2 DEF Cancelled
<1>5. Cancelled(to, i + 1, x) => Cancelled(to, i, x)
  BY <1>1 DEF Cancelled
<1>6. QED BY <1>2, <1>4, <1>5

\* The peer reads a request and puts it behind the others.
LEMMA AwaitsPut ==
    ASSUME NEW S, NEW o \in Seq(S), NEW from \in Seq(S), NEW rs \in Seq(S), NEW to \in Seq(S),
           Awaits(o, from, rs, to), to # <<>>, Head(to).type = "request", Head(to).x \in S
    PROVE  Awaits(o, from, Append(rs, Head(to).x), Tail(to))
<1>1. PICK F, R, T \in Nat : F = Len(from) /\ R = Len(rs) /\ T = Len(to)
  OBVIOUS
<1>2. PICK rs2, to2 : rs2 = Append(rs, Head(to).x) /\ to2 = Tail(to)
  OBVIOUS
<1>3. /\ Len(rs2) = R + 1 /\ rs2[R + 1] = to[1].x /\ \A i \in 1..R : rs2[i] = rs[i]
      /\ Len(to2) = T - 1 /\ \A i \in 1..T - 1 : to2[i] = to[i + 1]
  BY <1>1, <1>2
<1>4. ASSUME NEW x, ~Cancelled(to, 1, x) PROVE ~Cancelled(to2, 1, x)
  <2>1. 1 \in Nat \ {0}
    OBVIOUS
  <2>2. QED BY <1>2, <1>4, <2>1, CancelledBehind
<1>5. ASSUME NEW j \in Nat, NEW x, Place(from, rs, to, j, x)
      PROVE  Place(from, rs2, to2, j, x)
  <2>1. CASE j \in 1..F /\ from[j].type = "piece" /\ from[j].x = x
    BY <1>1, <2>1 DEF Place
  <2>2. CASE j - F \in 1..R /\ rs[j - F] = x /\ ~Cancelled(to, 1, x)
    <3>1. ~Cancelled(to2, 1, x)
      BY <1>4, <2>2
    <3>2. j - F \in 1..Len(rs2) /\ rs2[j - F] = x
      BY <1>3, <2>2
    <3>3. QED BY <1>1, <3>1, <3>2 DEF Place
  <2>3. CASE /\ j - F - R \in 1..T /\ to[j - F - R].type = "request"
             /\ to[j - F - R].x = x /\ ~Cancelled(to, j - F - R, x)
    <3>1. PICK i \in 1..T : i = j - F - R
      BY <2>3
    <3>2. CASE i = 1
      <4>1. ~Cancelled(to2, 1, x)
        BY <1>4, <2>3, <3>1, <3>2
      <4>2. j - F = R + 1
        BY <3>1, <3>2
      <4>3. j - F \in 1..Len(rs2) /\ rs2[j - F] = x
        BY <1>3, <2>3, <3>1, <3>2, <4>2
      <4>4. QED BY <1>1, <4>1, <4>3 DEF Place
    <3>3. CASE i # 1
      <4>1. PICK k \in 1..T - 1 : k + 1 = i /\ k \in Nat \ {0}
        <5>1. i - 1 \in 1..T - 1 /\ (i - 1) + 1 = i /\ i - 1 \in Nat \ {0}
          BY <3>1, <3>3
        <5>2. QED BY <5>1
      <4>2. ~Cancelled(to2, k, x)
        BY <1>2, <2>3, <3>1, <4>1, CancelledBehind
      <4>3. j - F - (R + 1) = k
        BY <3>1, <4>1
      <4>4. k \in 1..Len(to2) /\ to2[k] = to[i]
        BY <1>3, <4>1
      <4>5. QED BY <1>1, <1>3, <2>3, <3>1, <4>2, <4>3, <4>4 DEF Place
    <3>4. QED BY <3>2, <3>3
  <2>4. QED BY <1>1, <1>5, <2>1, <2>2, <2>3 DEF Place
<1>6. Awaits(o, from, rs2, to2)
  BY <1>5, AwaitsStays
<1>7. QED BY <1>2, <1>6

\* The peer answers the first of its requests.
LEMMA AwaitsServed ==
    ASSUME NEW S, NEW o \in Seq(S), NEW from \in Seq(S), NEW rs \in Seq(S), NEW to \in Seq(S),
           Awaits(o, from, rs, to), rs # <<>>, NEW p \in S, p.type = "piece", p.x = Head(rs)
    PROVE  Awaits(o, Append(from, p), Tail(rs), to)
<1>1. PICK F, R, T \in Nat : F = Len(from) /\ R = Len(rs) /\ T = Len(to)
  OBVIOUS
<1>2. PICK from2, rs2 : from2 = Append(from, p) /\ rs2 = Tail(rs)
  OBVIOUS
<1>3. /\ Len(from2) = F + 1 /\ from2[F + 1] = p /\ \A i \in 1..F : from2[i] = from[i]
      /\ Len(rs2) = R - 1 /\ \A i \in 1..R - 1 : rs2[i] = rs[i + 1]
  BY <1>1, <1>2
<1>4. rs[1] = p.x
  OBVIOUS
<1>5. ASSUME NEW j \in Nat, NEW x, Place(from, rs, to, j, x)
      PROVE  Place(from2, rs2, to, j, x)
  <2>1. CASE j \in 1..F /\ from[j].type = "piece" /\ from[j].x = x
    <3>1. j \in 1..Len(from2) /\ from2[j] = from[j]
      BY <1>3, <2>1
    <3>2. QED BY <2>1, <3>1 DEF Place
  <2>2. CASE j - F \in 1..R /\ rs[j - F] = x /\ ~Cancelled(to, 1, x)
    <3>1. PICK i \in 1..R : i = j - F
      BY <2>2
    <3>2. CASE i = 1
      <4>1. j = F + 1 /\ j \in 1..Len(from2)
        BY <1>3, <3>1, <3>2
      <4>2. from2[j].type = "piece" /\ from2[j].x = x
        BY <1>3, <1>4, <2>2, <3>1, <3>2, <4>1
      <4>3. QED BY <4>1, <4>2 DEF Place
    <3>3. CASE i # 1
      <4>1. PICK k \in 1..R - 1 : k + 1 = i /\ k \in Nat
        <5>1. i - 1 \in 1..R - 1 /\ (i - 1) + 1 = i /\ i - 1 \in Nat
          BY <3>1, <3>3
        <5>2. QED BY <5>1
      <4>2. k \in 1..Len(rs2) /\ rs2[k] = rs[i]
        BY <1>3, <4>1
      <4>3. j - Len(from2) = k
        BY <1>3, <3>1, <4>1
      <4>4. rs2[k] = x
        BY <2>2, <3>1, <4>2
      <4>5. j - Len(from2) \in 1..Len(rs2) /\ rs2[j - Len(from2)] = x /\ ~Cancelled(to, 1, x)
        BY <2>2, <4>2, <4>3, <4>4
      <4>6. QED BY <4>5 DEF Place
    <3>4. QED BY <3>2, <3>3
  <2>3. CASE /\ j - F - R \in 1..T /\ to[j - F - R].type = "request"
             /\ to[j - F - R].x = x /\ ~Cancelled(to, j - F - R, x)
    <3>1. j - Len(from2) - Len(rs2) = j - F - R
      BY <1>3
    <3>2. QED BY <1>1, <2>3, <3>1 DEF Place
  <2>4. QED BY <1>1, <1>5, <2>1, <2>2, <2>3 DEF Place
<1>6. Awaits(o, from2, rs2, to)
  BY <1>5, AwaitsStays
<1>7. QED BY <1>2, <1>6

\* Some requests are taken out, and only such are cancelled.
LEMMA AwaitsCancelled ==
    ASSUME NEW S, NEW o \in Seq(S), NEW from \in Seq(S), NEW rs \in Seq(S), NEW to \in Seq(S),
           Awaits(o, from, rs, to), NEW hits, NEW t \in Seq(S),
           \A i \in 1..Len(t) : t[i].x \in hits
    PROVE  Awaits(Without(o, hits), from, rs, to \o t)
<1>1. PICK F, R, T, n \in Nat : F = Len(from) /\ R = Len(rs) /\ T = Len(to) /\ n = Len(t)
  OBVIOUS
<1>2. PICK o2, to2 : o2 = Without(o, hits) /\ to2 = to \o t
  OBVIOUS
<1>3. /\ o2 \in Seq(S)
      /\ \A k \in 1..Len(o2) : \E i \in 1..Len(o) :
            o[i] \notin hits /\ Kept(o, hits, i) = k /\ o2[k] = o[i]
  <2>1. o2 \in Seq(S) /\ Leaves(o, hits, o2)
    BY <1>2, WithoutIs
  <2>2. QED BY <2>1 DEF Leaves
<1>4. /\ Len(to2) = T + n /\ \A i \in 1..T : to2[i] = to[i]
      /\ \A i \in T + 1..T + n : to2[i].x \in hits
  <2>1. Len(to2) = T + n /\ \A i \in 1..T : to2[i] = to[i]
    BY <1>1, <1>2
  <2>2. ASSUME NEW i \in T + 1..T + n PROVE to2[i].x \in hits
    <3>1. i - T \in 1..n /\ to2[i] = t[i - T]
      BY <1>1, <1>2
    <3>2. QED BY <1>1, <3>1
  <2>3. QED BY <2>1, <2>2
<1>5. ASSUME NEW i \in Nat \ {0}, NEW x, x \notin hits, ~Cancelled(to, i, x)
      PROVE  ~Cancelled(to2, i, x)
  <2> SUFFICES ASSUME NEW k \in i..Len(to2), to2[k].type = "cancel", to2[k].x = x
               PROVE  FALSE
    BY DEF Cancelled
  <2>1. k \in i..T
    BY <1>4, <1>5
  <2>2. k \in i..Len(to) /\ to2[k] = to[k]
    BY <1>1, <1>4, <2>1
  <2>3. QED BY <1>5, <2>2 DEF Cancelled
<1>6. ASSUME NEW j \in Nat, NEW x, x \notin hits, Place(from, rs, to, j, x)
      PROVE  Place(from, rs, to2, j, x)
  <2>1. CASE j \in 1..F /\ from[j].type = "piece" /\ from[j].x = x
    BY <1>1, <2>1 DEF Place
  <2>2. CASE j - F \in 1..R /\ rs[j - F] = x /\ ~Cancelled(to, 1, x)
    <3>1. 1 \in Nat \ {0}
      OBVIOUS
    <3>2. ~Cancelled(to2, 1, x)
      BY <1>5, <1>6, <2>2, <3>1
    <3>3. QED BY <1>1, <2>2, <3>2 DEF Place
  <2>3. CASE /\ j - F - R \in 1..T /\ to[j - F - R].type = "request"
             /\ to[j - F - R].x = x /\ ~Cancelled(to, j - F - R, x)
    <3>1. PICK i \in 1..T : i = j - F - R /\ i \in Nat \ {0}
      BY <2>3
    <3>2. ~Cancelled(to2, i, x)
      BY <1>5, <1>6, <2>3, <3>1
    <3>3. to2[i] = to[i] /\ i \in 1..Len(to2)
      BY <1>4, <3>1
    <3>4. QED BY <1>1, <2>3, <3>1, <3>2, <3>3 DEF Place
  <2>4. QED BY <1>1, <1>6, <2>1, <2>2, <2>3 DEF Place
<1>7. PICK g \in [1..Len(o2) -> 1..Len(o)] : \A k \in 1..Len(o2) :
        o[g[k]] \notin hits /\ Kept(o, hits, g[k]) = k /\ o2[k] = o[g[k]]
  <2> DEFINE Is(k, i) == o[i] \notin hits /\ Kept(o, hits, i) = k /\ o2[k] = o[i]
             g == [k \in 1..Len(o2) |-> CHOOSE i \in 1..Len(o) : Is(k, i)]
  <2>1. ASSUME NEW k \in 1..Len(o2) PROVE g[k] \in 1..Len(o) /\ Is(k, g[k])
    <3>1. \E i \in 1..Len(o) : Is(k, i)
      BY <1>3
    <3> HIDE DEF Is
    <3>2. QED BY <3>1
  <2>2. g \in [1..Len(o2) -> 1..Len(o)]
    BY <2>1
  <2> HIDE DEF g
  <2>3. QED BY <2>1, <2>2
<1>8. ASSUME NEW i \in 1..Len(o2), NEW j \in 1..Len(o2), i < j PROVE g[i] < g[j]
  <2>1. PICK a, b \in Nat : a = g[i] /\ b = g[j] /\ Kept(o, hits, a) = i /\ Kept(o, hits, b) = j
    BY <1>7
  <2>2. ~(b <= a)
    BY <1>8, <2>1, KeptGrows
  <2>3. QED BY <2>1, <2>2
<1>9. PICK f \in [1..Len(o) -> Nat] :
        /\ \A i, j \in 1..Len(o) : i < j => f[i] < f[j]
        /\ \A i \in 1..Len(o) : Place(from, rs, to, f[i], o[i])
  BY DEF Awaits
<1>10. PICK h : h = [k \in 1..Len(o2) |-> f[g[k]]]
  OBVIOUS
<1>11. ASSUME NEW i \in 1..Len(o2) PROVE h[i] \in Nat /\ Place(from, rs, to2, h[i], o2[i])
  <2>1. /\ h[i] = f[g[i]] /\ f[g[i]] \in Nat /\ o2[i] = o[g[i]] /\ o2[i] \notin hits
        /\ Place(from, rs, to, f[g[i]], o[g[i]])
    BY <1>7, <1>9, <1>10
  <2>2. QED BY <1>6, <2>1
<1>12. ASSUME NEW i \in 1..Len(o2), NEW j \in 1..Len(o2), i < j PROVE h[i] < h[j]
  BY <1>8, <1>9, <1>10, <1>12
<1>13. h \in [1..Len(o2) -> Nat]
  BY <1>10, <1>11
<1>14. QED BY <1>2, <1>11, <1>12, <1>13 DEF Awaits

\* The peer reads a cancel: the requests in front of it that it is about were not places.
LEMMA AwaitsObeyed ==
    ASSUME NEW S, NEW o \in Seq(S), NEW from \in Seq(S), NEW rs \in Seq(S), NEW to \in Seq(S),
           Awaits(o, from, rs, to), to # <<>>, Head(to).type = "cancel"
    PROVE  Awaits(o, from, Without(rs, {Head(to).x}), Tail(to))
<1>1. PICK F, R, T \in Nat : F = Len(from) /\ R = Len(rs) /\ T = Len(to)
  OBVIOUS
<1>2. PICK hits, rs2, to2 : hits = {Head(to).x} /\ rs2 = Without(rs, hits) /\ to2 = Tail(to)
  OBVIOUS
<1>3. PICK R2 \in Nat : R2 = Len(rs2) /\ R2 = Kept(rs, hits, R)
  BY <1>1, <1>2, WithoutIs
<1>4. \A i \in 1..R : rs[i] \notin hits =>
        Kept(rs, hits, i) \in 1..R2 /\ rs2[Kept(rs, hits, i)] = rs[i]
  <2>1. Leaves(rs, hits, rs2)
    BY <1>2, WithoutIs
  <2>2. QED BY <1>1, <1>3, <2>1 DEF Leaves
<1>5. Len(to2) = T - 1 /\ \A i \in 1..T - 1 : to2[i] = to[i + 1]
  BY <1>1, <1>2
<1>6. \A i \in 1..R : Kept(rs, hits, i) \in Nat
  BY KeptNext
<1>7. PICK m : m = [j \in Nat |-> IF j <= F THEN j
                                  ELSE IF j <= F + R THEN F + Kept(rs, hits, j - F)
                                  ELSE F + R2 + (j - F - R - 1)]
  OBVIOUS
<1> DEFINE First(j, x)  == j \in 1..F /\ from[j].type = "piece" /\ from[j].x = x
           Second(j, x) == j - F \in 1..R /\ rs[j - F] = x /\ ~Cancelled(to, 1, x)
           Third(j, x)  == /\ j - F - R \in 1..T /\ to[j - F - R].type = "request"
                           /\ to[j - F - R].x = x /\ ~Cancelled(to, j - F - R, x)
<1>8. \A j \in Nat : \A x : Place(from, rs, to, j, x) => First(j, x) \/ Second(j, x) \/ Third(j, x)
  BY <1>1 DEF Place
<1>9. ASSUME NEW j \in Nat, NEW x, First(j, x)
      PROVE  j \in 1..F /\ m[j] = j /\ Place(from, rs2, to2, m[j], x)
  <2>1. j \in 1..F /\ m[j] = j
    BY <1>7, <1>9
  <2>2. QED BY <1>1, <1>9, <2>1 DEF Place
<1>10. ASSUME NEW j \in Nat, NEW x, Second(j, x)
       PROVE  \E i \in 1..R : /\ j = F + i /\ rs[i] \notin hits
                              /\ m[j] = F + Kept(rs, hits, i) /\ Kept(rs, hits, i) \in 1..R2
                              /\ Place(from, rs2, to2, m[j], x)
  <2>1. PICK i \in 1..R : i = j - F /\ rs[i] = x /\ ~Cancelled(to, 1, x)
    BY <1>10
  <2>2. rs[i] \notin hits
    <3>1. 1 \in 1..Len(to) /\ to[1] = Head(to)
      BY <1>1
    <3>2. x # Head(to).x
      BY <2>1, <3>1 DEF Cancelled
    <3>3. QED BY <1>2, <2>1, <3>2
  <2>3. PICK k \in 1..R2 : k = Kept(rs, hits, i) /\ rs2[k] = x
    BY <1>4, <2>1, <2>2
  <2>4. m[j] = F + k /\ j = F + i
    BY <1>7, <2>1, <2>3
  <2>5. ~Cancelled(to2, 1, x)
    <3>1. 1 \in Nat \ {0}
      OBVIOUS
    <3>2. QED BY <1>2, <2>1, <3>1, CancelledBehind
  <2>6. PICK l \in Nat : l = F + k /\ l - Len(from) = k /\ k \in 1..Len(rs2)
    <3>1. F + k \in Nat /\ F + k - F = k
      OBVIOUS
    <3>2. QED BY <1>1, <1>3, <3>1
  <2>7. Place(from, rs2, to2, l, x)
    BY <2>3, <2>5, <2>6 DEF Place
  <2>8. QED BY <2>2, <2>3, <2>4, <2>6, <2>7
<1>11. ASSUME NEW j \in Nat, NEW x, Third(j, x)
       PROVE  /\ j > F + R + 1 /\ m[j] = F + R2 + (j - F - R - 1)
              /\ Place(from, rs2, to2, m[j], x)
  <2>1. PICK i \in 1..T : i = j - F - R /\ to[i].type = "request" /\ to[i].x = x
                          /\ ~Cancelled(to, i, x)
    BY <1>11
  <2>2. i # 1
    BY <2>1
  <2>3. PICK k \in 1..T - 1 : k + 1 = i /\ k \in Nat \ {0}
    <3>1. i - 1 \in 1..T - 1 /\ (i - 1) + 1 = i /\ i - 1 \in Nat \ {0}
      BY <2>2
    <3>2. QED BY <3>1
  <2>4. j - F - R - 1 = k /\ j > F + R + 1
    BY <2>1, <2>3
  <2>5. m[j] = F + R2 + k
    BY <1>7, <2>4
  <2>6. ~Cancelled(to2, k, x)
    BY <1>2, <2>1, <2>3, CancelledBehind
  <2>7. F + R2 + k - Len(from) - Len(rs2) = k
    BY <1>1, <1>3
  <2>8. k \in 1..Len(to2) /\ to2[k] = to[i]
    BY <1>5, <2>3
  <2>9. Place(from, rs2, to2, F + R2 + k, x)
    BY <2>1, <2>6, <2>7, <2>8 DEF Place
  <2>10. QED BY <2>4, <2>5, <2>9
<1> HIDE DEF First, Second, Third
<1>12. Awaits(o, from, rs2, to2)
  <2>1. ASSUME NEW i \in 1..Len(o), NEW j \in Nat, Place(from, rs, to, j, o[i])
        PROVE  m[j] \in Nat /\ Place(from, rs2, to2, m[j], o[i])
    <3>1. First(j, o[i]) \/ Second(j, o[i]) \/ Third(j, o[i])
      BY <1>8, <2>1
    <3>2. CASE First(j, o[i])
      BY <1>9, <3>2
    <3>3. CASE Second(j, o[i])
      BY <1>10, <3>3
    <3>4. CASE Third(j, o[i])
      BY <1>11, <3>4
    <3>5. QED BY <3>1, <3>2, <3>3, <3>4
  <2>2. ASSUME NEW a \in 1..Len(o), NEW b \in 1..Len(o), NEW i \in Nat, NEW j \in Nat,
               Place(from, rs, to, i, o[a]), Place(from, rs, to, j, o[b]), i < j
        PROVE  m[i] < m[j]
    <3>1. First(i, o[a]) \/ Second(i, o[a]) \/ Third(i, o[a])
      BY <1>8, <2>2
    <3>2. First(j, o[b]) \/ Second(j, o[b]) \/ Third(j, o[b])
      BY <1>8, <2>2
    <3>3. CASE First(i, o[a])
      <4>1. i \in 1..F /\ m[i] = i
        BY <1>9, <3>3
      <4>2. CASE First(j, o[b])
        BY <1>9, <2>2, <4>1, <4>2
      <4>3. CASE Second(j, o[b])
        BY <1>10, <4>1, <4>3
      <4>4. CASE Third(j, o[b])
        BY <1>11, <4>1, <4>4
      <4>5. QED BY <3>2, <4>2, <4>3, <4>4
    <3>4. CASE Second(i, o[a])
      <4>1. PICK k \in 1..R : i = F + k /\ m[i] = F + Kept(rs, hits, k)
                              /\ Kept(rs, hits, k) \in 1..R2
        BY <1>10, <3>4
      <4>2. CASE First(j, o[b])
        BY <1>9, <2>2, <4>1, <4>2
      <4>3. CASE Second(j, o[b])
        <5>1. PICK l \in 1..R : j = F + l /\ m[j] = F + Kept(rs, hits, l) /\ rs[l] \notin hits
                                /\ Kept(rs, hits, l) \in 1..R2
          BY <1>10, <4>3
        <5>2. k < l /\ k \in Nat /\ l \in Nat
          BY <2>2, <4>1, <5>1
        <5>3. Kept(rs, hits, k) < Kept(rs, hits, l)
          BY <5>1, <5>2, KeptGrows
        <5>4. QED BY <4>1, <5>1, <5>3
      <4>4. CASE Third(j, o[b])
        BY <1>11, <4>1, <4>4
      <4>5. QED BY <3>2, <4>2, <4>3, <4>4
    <3>5. CASE Third(i, o[a])
      <4>1. i > F + R + 1 /\ m[i] = F + R2 + (i - F - R - 1)
        BY <1>11, <3>5
      <4>2. CASE First(j, o[b])
        BY <1>9, <2>2, <4>1, <4>2
      <4>3. CASE Second(j, o[b])
        BY <1>10, <2>2, <4>1, <4>3
      <4>4. CASE Third(j, o[b])
        BY <1>11, <2>2, <4>1, <4>4
      <4>5. QED BY <3>2, <4>2, <4>3, <4>4
    <3>6. QED BY <3>1, <3>3, <3>4, <3>5
  <2>3. QED BY <2>1, <2>2, Moved
<1>13. QED BY <1>2, <1>12

-----------------------------------------------------------------------------
(* What each step does to the requests of its client                       *)

\* The queues of each peer are sequences.
Wired ==
    /\ {link, choked, choking} \subseteq [Peers -> BOOLEAN]
    /\ \E S : {out, fromPeer, requests, toPeer} \subseteq [Peers -> Seq(S)]

\* Nothing in s says that the peer does not choke us any more.
Quiet(s) == \A i \in 1..Len(s) : s[i].type # "unchoke"

\* The last word in s is that it does.
Chokes(s) ==
    \E i \in 1..Len(s) : /\ s[i].type = "choke" /\ s[i].x = 0
                         /\ \A j \in 1..Len(s) : j > i => s[j].type # "unchoke"

\* Who is choked has nothing out and does not ask; that a peer chokes us is the last that
\* we know or that is on its way to us; a peer that does not, and has no choke on its way
\* that takes them back, will answer all requests.
Fine(c) ==
    /\ choked[c] => out[c] = <<>> /\ asking # c
    /\ choking[c] => (choked[c] /\ Quiet(fromPeer[c])) \/ Chokes(fromPeer[c])
    /\ ~choking[c] => \/ Under(fromPeer[c], "choke", 0)
                      \/ Awaits(out[c], fromPeer[c], requests[c], toPeer[c])

AllFine == Wired /\ \A c \in Peers : Fine(c)

\* A step at c changes nothing of the others.
Only(c) ==
    /\ out' = [out EXCEPT ![c] = out'[c]]
    /\ fromPeer' = [fromPeer EXCEPT ![c] = fromPeer'[c]]
    /\ requests' = [requests EXCEPT ![c] = requests'[c]]
    /\ toPeer' = [toPeer EXCEPT ![c] = toPeer'[c]]
    /\ link' = [link EXCEPT ![c] = link'[c]]
    /\ choked' = [choked EXCEPT ![c] = choked'[c]]
    /\ choking' = [choking EXCEPT ![c] = choking'[c]]
    /\ asking' \in {asking, c, NoPeer}

\* One queue gets a new value.
LEMMA Patched ==
    ASSUME NEW S, NEW T, NEW f \in [Peers -> Seq(T)], NEW c \in Peers, NEW g,
           g = [f EXCEPT ![c] = g[c]], g[c] \in Seq(S)
    PROVE  g \in [Peers -> Seq(S \cup T)]
<1>1. PICK v \in Seq(S) : v = g[c]
  OBVIOUS
<1>2. Seq(S) \subseteq Seq(S \cup T) /\ Seq(T) \subseteq Seq(S \cup T)
  OBVIOUS
<1>3. [f EXCEPT ![c] = v] \in [Peers -> Seq(S \cup T)]
  BY <1>2
<1>4. QED BY <1>1, <1>3

\* One flag does.
LEMMA FlagPatched ==
    ASSUME NEW f \in [Peers -> BOOLEAN], NEW c \in Peers, NEW g,
           g = [f EXCEPT ![c] = g[c]], g[c] \in BOOLEAN
    PROVE  g \in [Peers -> BOOLEAN]
<1>1. PICK v \in BOOLEAN : v = g[c]
  OBVIOUS
<1>2. [f EXCEPT ![c] = v] \in [Peers -> BOOLEAN]
  OBVIOUS
<1>3. QED BY <1>1, <1>2

(* A packet sent on its own, as a sequence.                                 *)
LEMMA Single ==
  ASSUME NEW p
  PROVE  \E t \in Seq({p}) : t = <<p>> /\ \A i \in 1..Len(t) : t[i] = p
<1>1. <<p>> \in Seq({p}) /\ Len(<<p>>) = 1 /\ <<p>>[1] = p
  OBVIOUS
<1>2. \A i \in 1..Len(<<p>>) : <<p>>[i] = p
  <2>1. ASSUME NEW i \in 1..Len(<<p>>) PROVE <<p>>[i] = p
    <3>1. i = 1
      BY <1>1, <2>1
    <3>2. QED BY <1>1, <3>1
  <2>2. QED BY <2>1
<1>3. WITNESS <<p>> \in Seq({p})
<1>4. QED BY <1>2

\* After such a step it is enough to look at c.
LEMMA OnlyOne ==
    ASSUME AllFine, NEW c \in Peers, Only(c),
           NEW S, {out'[c], fromPeer'[c], requests'[c], toPeer'[c]} \subseteq Seq(S),
           {link'[c], choked'[c], choking'[c]} \subseteq BOOLEAN,
           Fine(c)'
    PROVE  AllFine'
<1>1. PICK T : {out, fromPeer, requests, toPeer} \subseteq [Peers -> Seq(T)]
  BY DEF AllFine, Wired
<1>2. PICK U : U = S \cup T
  OBVIOUS
<1>3. Seq(S) \subseteq Seq(U) /\ Seq(T) \subseteq Seq(U)
  BY <1>2
<1>4. {out', fromPeer', requests', toPeer'} \subseteq [Peers -> Seq(U)]
  <2>1. out' \in [Peers -> Seq(U)]
    <3>1. out \in [Peers -> Seq(T)] /\ out' = [out EXCEPT ![c] = out'[c]] /\ out'[c] \in Seq(S)
      BY <1>1 DEF Only
    <3>2. QED BY <1>2, <3>1, Patched
  <2>2. fromPeer' \in [Peers -> Seq(U)]
    <3>1. /\ fromPeer \in [Peers -> Seq(T)] /\ fromPeer'[c] \in Seq(S)
          /\ fromPeer' = [fromPeer EXCEPT ![c] = fromPeer'[c]]
      BY <1>1 DEF Only
    <3>2. QED BY <1>2, <3>1, Patched
  <2>3. requests' \in [Peers -> Seq(U)]
    <3>1. /\ requests \in [Peers -> Seq(T)] /\ requests'[c] \in Seq(S)
          /\ requests' = [requests EXCEPT ![c] = requests'[c]]
      BY <1>1 DEF Only
    <3>2. QED BY <1>2, <3>1, Patched
  <2>4. toPeer' \in [Peers -> Seq(U)]
    <3>1. /\ toPeer \in [Peers -> Seq(T)] /\ toPeer'[c] \in Seq(S)
          /\ toPeer' = [toPeer EXCEPT ![c] = toPeer'[c]]
      BY <1>1 DEF Only
    <3>2. QED BY <1>2, <3>1, Patched
  <2>5. QED BY <2>1, <2>2, <2>3, <2>4
<1>5. {link', choked', choking'} \subseteq [Peers -> BOOLEAN]
  <2>1. /\ link \in [Peers -> BOOLEAN] /\ choked \in [Peers -> BOOLEAN]
        /\ choking \in [Peers -> BOOLEAN]
    BY DEF AllFine, Wired
  <2>2. /\ link'[c] \in BOOLEAN /\ link' = [link EXCEPT ![c] = link'[c]]
        /\ choked'[c] \in BOOLEAN /\ choked' = [choked EXCEPT ![c] = choked'[c]]
        /\ choking'[c] \in BOOLEAN /\ choking' = [choking EXCEPT ![c] = choking'[c]]
    BY DEF Only
  <2>3. link' \in [Peers -> BOOLEAN]
    BY <2>1, <2>2, FlagPatched
  <2>4. choked' \in [Peers -> BOOLEAN]
    BY <2>1, <2>2, FlagPatched
  <2>5. choking' \in [Peers -> BOOLEAN]
    BY <2>1, <2>2, FlagPatched
  <2>6. QED BY <2>3, <2>4, <2>5
<1>6. ASSUME NEW d \in Peers PROVE Fine(d)'
  <2>1. CASE d = c
    BY <2>1
  <2>2. CASE d # c
    <3>1. /\ out'[d] = out[d] /\ fromPeer'[d] = fromPeer[d] /\ requests'[d] = requests[d]
          /\ toPeer'[d] = toPeer[d] /\ choked'[d] = choked[d] /\ choking'[d] = choking[d]
      BY <1>1, <2>2 DEF Only, AllFine, Wired
    <3>2. asking' = d => asking = d
      BY <2>2, TorrentAssumption DEF Only
    <3>3. Fine(d)
      BY DEF AllFine
    <3>4. QED BY <3>1, <3>2, <3>3 DEF Fine
  <2>3. QED BY <2>1, <2>2
<1>7. Wired'
  BY <1>4, <1>5 DEF Wired
<1>8. QED BY <1>6, <1>7 DEF AllFine

\* A packet is put behind the others.
LEMMA Appended ==
    ASSUME NEW S, NEW s \in Seq(S), NEW p, NEW t, t = Append(s, p)
    PROVE  /\ t = s \o <<p>> /\ t \in Seq(S \cup {p})
           /\ Len(t) = Len(s) + 1 /\ t[Len(s) + 1] = p
           /\ \A i \in 1..Len(s) : t[i] = s[i]
<1>1. PICK U : U = S \cup {p}
  OBVIOUS
<1>2. Seq(S) \subseteq Seq(U) /\ p \in U
  BY <1>1
<1>3. s \in Seq(U)
  BY <1>2
<1>4. QED BY <1>1, <1>2, <1>3

\* A set that holds the entries of the four queues of c, and what is added to them.
LEMMA Entries ==
    ASSUME AllFine, NEW c \in Peers, NEW T
    PROVE  \E S : T \subseteq S /\ {out[c], fromPeer[c], requests[c], toPeer[c]} \subseteq Seq(S)
<1>1. PICK S : {out, fromPeer, requests, toPeer} \subseteq [Peers -> Seq(S)]
  BY DEF AllFine, Wired
<1>2. Seq(S) \subseteq Seq(S \cup T)
  OBVIOUS
<1>3. {out[c], fromPeer[c], requests[c], toPeer[c]} \subseteq Seq(S \cup T)
  BY <1>1, <1>2
<1>4. QED BY <1>3

\* A step that leaves a variable alone, or gives it one new value.
LEMMA IsFcn ==
    ASSUME AllFine
    PROVE  \A f \in {out, fromPeer, requests, toPeer, link, choked, choking} :
              /\ f = [d \in Peers |-> f[d]]
              /\ \A c \in Peers : f = [f EXCEPT ![c] = f[c]]
              /\ \A c \in Peers : \A v : [f EXCEPT ![c] = v][c] = v
<1>1. PICK T : {out, fromPeer, requests, toPeer} \subseteq [Peers -> Seq(T)]
  BY DEF AllFine, Wired
<1>2. {link, choked, choking} \subseteq [Peers -> BOOLEAN]
  BY DEF AllFine, Wired
<1>3. QED BY <1>1, <1>2

\* What says nothing of chokes, or takes none back, is put behind the others.
LEMMA ToldOf ==
    ASSUME NEW S, NEW s \in Seq(S), NEW t \in Seq(S), Quiet(t)
    PROVE  /\ Quiet(s) => Quiet(s \o t)
           /\ Chokes(s) => Chokes(s \o t)
<1> PICK m, n \in Nat : m = Len(s) /\ n = Len(t)
  OBVIOUS
<1> PICK u : u = s \o t
  OBVIOUS
<1>1. /\ Len(u) = m + n
      /\ \A i \in 1..m : u[i] = s[i]
      /\ \A i \in 1..m + n : i > m => u[i] = t[i - m]
  OBVIOUS
<1>2. ASSUME NEW i \in 1..Len(u), i \notin 1..m PROVE u[i].type # "unchoke"
  <2>1. PICK k \in 1..n : u[i] = t[k]
    <3>1. i > m /\ i - m \in 1..n
      BY <1>1, <1>2
    <3>2. QED BY <1>1, <1>2, <3>1
  <2>2. QED BY <1>1, <2>1 DEF Quiet
<1>3. ASSUME Quiet(s) PROVE Quiet(u)
  <2>1. ASSUME NEW i \in 1..m PROVE u[i].type # "unchoke"
    BY <1>1, <1>3, <2>1 DEF Quiet
  <2>2. QED BY <1>2, <2>1 DEF Quiet
<1>4. ASSUME Chokes(s) PROVE Chokes(u)
  <2>1. PICK i \in 1..m : /\ s[i].type = "choke" /\ s[i].x = 0
                          /\ \A j \in 1..m : j > i => s[j].type # "unchoke"
    BY <1>1, <1>4 DEF Chokes
  <2>2. i \in 1..Len(u) /\ u[i].type = "choke" /\ u[i].x = 0
    BY <1>1, <2>1
  <2>3. ASSUME NEW j \in 1..Len(u), j > i PROVE u[j].type # "unchoke"
    <3>1. CASE j \in 1..m
      BY <1>1, <2>1, <2>3, <3>1
    <3>2. CASE j \notin 1..m
      BY <1>2, <3>2
    <3>3. QED BY <3>1, <3>2
  <2>4. QED BY <2>2, <2>3 DEF Chokes
<1>5. QED BY <1>1, <1>3, <1>4

\* What is on its way stays so when more is sent.
LEMMA StillUnder ==
    ASSUME NEW S, NEW s \in Seq(S), NEW t \in Seq(S), NEW type, NEW x, Under(s, type, x)
    PROVE  Under(s \o t, type, x)
<1>1. ASSUME NEW i \in DOMAIN s PROVE i \in DOMAIN (s \o t) /\ (s \o t)[i] = s[i]
  OBVIOUS
<1>2. QED BY <1>1 DEF Under

\* A choke whose word is the last is on its way.
LEMMA ChokesUnder ==
    ASSUME NEW S, NEW s \in Seq(S), Chokes(s)
    PROVE  Under(s, "choke", 0)
<1>1. PICK i \in 1..Len(s) : s[i].type = "choke" /\ s[i].x = 0
  BY DEF Chokes
<1>2. i \in DOMAIN s
  OBVIOUS
<1>3. QED BY <1>1, <1>2 DEF Under

\* The peer reads, answers, chokes, unchokes and gets chunks.
LEMMA PeerFine ==
    ASSUME AllFine, NEW c \in Peers, Peer(c)
    PROVE  AllFine'
<1>1. UNCHANGED <<out, link, choked, asking>>
  BY DEF Peer, PeerOnRequest, PeerOnCancel, PeerSends, PeerUnchokes, PeerChokes, PeerGains,
         clients, thread
<1>2. Fine(c)
  BY DEF AllFine
<1>3. {link[c], choked[c], choking[c]} \subseteq BOOLEAN
  BY DEF AllFine, Wired
<1>4. PICK S : Head(toPeer[c]).x \in S
               /\ {out[c], fromPeer[c], requests[c], toPeer[c]} \subseteq Seq(S)
  <2>1. PICK S : {Head(toPeer[c]).x} \subseteq S
               /\ {out[c], fromPeer[c], requests[c], toPeer[c]} \subseteq Seq(S)
    BY Entries
  <2>2. QED BY <2>1
<1>5. CASE PeerOnCancel(c)
  <2>1. /\ toPeer[c] # <<>> /\ Head(toPeer[c]).type = "cancel"
        /\ toPeer' = [toPeer EXCEPT ![c] = Tail(@)]
        /\ requests' = [requests EXCEPT ![c] = Without(@, {Head(toPeer[c]).x})]
        /\ UNCHANGED <<fromPeer, choking>>
    BY <1>5 DEF PeerOnCancel
  <2>2. /\ toPeer'[c] = Tail(toPeer[c])
        /\ requests'[c] = Without(requests[c], {Head(toPeer[c]).x})
    BY <2>1, IsFcn
  <2>3. toPeer'[c] \in Seq(S) /\ requests'[c] \in Seq(S)
    BY <1>4, <2>1, <2>2, WithoutIs
  <2>4. Only(c)
    BY <1>1, <2>1, <2>2, IsFcn DEF Only
  <2>5. Fine(c)'
    <3>1. Awaits(out[c], fromPeer[c], requests[c], toPeer[c])
             => Awaits(out[c], fromPeer[c], requests'[c], toPeer'[c])
      <4>1. Awaits(out[c], fromPeer[c], requests[c], toPeer[c])
               => Awaits(out[c], fromPeer[c], Without(requests[c], {Head(toPeer[c]).x}),
                         Tail(toPeer[c]))
        BY <1>4, <2>1, AwaitsObeyed
      <4>2. QED BY <2>2, <4>1
    <3>2. QED BY <1>1, <1>2, <2>1, <3>1 DEF Fine
  <2>6. QED BY <1>1, <1>3, <1>4, <2>1, <2>3, <2>4, <2>5, OnlyOne
<1>6. ASSUME NEW rs \in Seq(S), NEW good,
             ~choking[c] => \/ Under(fromPeer[c], "choke", 0)
                            \/ Awaits(out[c], fromPeer[c], rs, toPeer'[c]), rs # <<>>,
             fromPeer' = [fromPeer EXCEPT ![c] = Append(@, Packet("piece", Head(rs), good))],
             requests' = [requests EXCEPT ![c] = Tail(rs)],
             toPeer' = [toPeer EXCEPT ![c] = toPeer'[c]], toPeer'[c] \in Seq(S),
             UNCHANGED choking
      PROVE  AllFine'
  <2>1. PICK p : p = Packet("piece", Head(rs), good)
    OBVIOUS
  <2>2. p.type = "piece" /\ p.x = Head(rs)
    BY <2>1 DEF Packet
  <2>3. fromPeer'[c] = Append(fromPeer[c], p) /\ requests'[c] = Tail(rs)
    BY <1>6, <2>1, IsFcn
  <2>4. PICK U : U = S \cup {p}
    OBVIOUS
  <2>5. p \in U /\ rs \in Seq(U)
        /\ {out[c], fromPeer[c], requests[c], toPeer[c], toPeer'[c]} \subseteq Seq(U)
    <3>1. Seq(S) \subseteq Seq(U)
      BY <2>4
    <3>2. QED BY <1>4, <1>6, <2>4, <3>1
  <2>6. fromPeer'[c] \in Seq(U) /\ requests'[c] \in Seq(U)
    BY <1>6, <2>3, <2>5
  <2>7. Only(c)
    BY <1>1, <1>6, <2>1, <2>3, IsFcn DEF Only
  <2>8. Awaits(out[c], fromPeer[c], rs, toPeer'[c])
           => Awaits(out[c], fromPeer'[c], requests'[c], toPeer'[c])
    <3>1. Awaits(out[c], fromPeer[c], rs, toPeer'[c])
             => Awaits(out[c], Append(fromPeer[c], p), Tail(rs), toPeer'[c])
      BY <1>6, <2>2, <2>5, AwaitsServed
    <3>2. QED BY <2>3, <3>1
  <2>9. PICK t \in Seq(U) : fromPeer'[c] = fromPeer[c] \o t /\ Quiet(t)
    <3>1. PICK t \in Seq({p}) : t = <<p>> /\ \A i \in 1..Len(t) : t[i] = p
      BY Single
    <3>2. Seq({p}) \subseteq Seq(U) /\ Quiet(t)
      BY <2>2, <2>5, <3>1 DEF Quiet
    <3>3. Append(fromPeer[c], p) = fromPeer[c] \o <<p>>
      <4>1. fromPeer[c] \in Seq(S)
        BY <1>4
      <4>2. QED BY <4>1, Appended
    <3>4. fromPeer'[c] = fromPeer[c] \o t
      BY <2>3, <3>1, <3>3
    <3>5. t \in Seq(U)
      BY <3>1, <3>2
    <3>6. QED BY <3>2, <3>4, <3>5
  <2>10. /\ Under(fromPeer[c], "choke", 0) => Under(fromPeer'[c], "choke", 0)
         /\ Quiet(fromPeer[c]) => Quiet(fromPeer'[c])
         /\ Chokes(fromPeer[c]) => Chokes(fromPeer'[c])
    BY <2>5, <2>9, StillUnder, ToldOf
  <2>11. Fine(c)'
    BY <1>1, <1>2, <1>6, <2>8, <2>10 DEF Fine
  <2>12. QED BY <1>1, <1>3, <1>6, <2>5, <2>6, <2>7, <2>11, OnlyOne
<1>7. CASE PeerSends(c)
  <2>1. UNCHANGED <<toPeer, choking>> /\ requests[c] # <<>> /\ Serve(c, requests[c])
    BY <1>7 DEF PeerSends
  <2>2. toPeer' = [toPeer EXCEPT ![c] = toPeer'[c]] /\ toPeer'[c] = toPeer[c]
    BY <2>1, IsFcn
  <2>3. ~choking[c] => \/ Under(fromPeer[c], "choke", 0)
                       \/ Awaits(out[c], fromPeer[c], requests[c], toPeer'[c])
    BY <1>2, <2>2 DEF Fine
  <2>4. QED BY <1>4, <1>6, <2>1, <2>2, <2>3 DEF Serve
<1>8. CASE PeerOnRequest(c)
  <2>1. /\ toPeer[c] # <<>> /\ Head(toPeer[c]).type = "request"
        /\ toPeer' = [toPeer EXCEPT ![c] = Tail(@)] /\ UNCHANGED choking
    BY <1>8 DEF PeerOnRequest
  <2>2. toPeer'[c] = Tail(toPeer[c]) /\ toPeer'[c] \in Seq(S)
        /\ toPeer' = [toPeer EXCEPT ![c] = toPeer'[c]]
    <3>1. toPeer'[c] = Tail(toPeer[c])
      BY <2>1, IsFcn
    <3>2. toPeer[c] \in Seq(S) /\ Tail(toPeer[c]) \in Seq(S)
      BY <1>4, <2>1
    <3>3. QED BY <2>1, <3>1, <3>2
  <2>3. PICK rs \in Seq(S) : rs = Append(requests[c], Head(toPeer[c]).x) /\ rs # <<>>
    <3>1. PICK r, x : r = requests[c] /\ x = Head(toPeer[c]).x /\ r \in Seq(S) /\ x \in S
      BY <1>4
    <3>2. Append(r, x) \in Seq(S) /\ Append(r, x) # <<>>
      BY <3>1
    <3>3. QED BY <3>1, <3>2
  <2>4. ~choking[c] => \/ Under(fromPeer[c], "choke", 0)
                       \/ Awaits(out[c], fromPeer[c], rs, toPeer'[c])
    <3>1. Awaits(out[c], fromPeer[c], requests[c], toPeer[c])
             => Awaits(out[c], fromPeer[c], Append(requests[c], Head(toPeer[c]).x),
                       Tail(toPeer[c]))
      BY <1>4, <2>1, AwaitsPut
    <3>2. Awaits(out[c], fromPeer[c], requests[c], toPeer[c])
             => Awaits(out[c], fromPeer[c], rs, toPeer'[c])
      BY <2>2, <2>3, <3>1
    <3>3. QED BY <1>2, <3>2 DEF Fine
  <2>5. CASE choking[c] /\ UNCHANGED <<requests, fromPeer>>
    <3>1. Only(c)
      BY <1>1, <2>1, <2>2, <2>5, IsFcn DEF Only
    <3>2. Fine(c)'
      BY <1>1, <1>2, <2>1, <2>5 DEF Fine
    <3>3. QED BY <1>1, <1>3, <1>4, <2>1, <2>2, <2>5, <3>1, <3>2, OnlyOne
  <2>6. CASE ~choking[c] /\ requests' = [requests EXCEPT ![c] = rs] /\ UNCHANGED fromPeer
    <3>1. requests'[c] = rs
      BY <2>6, IsFcn
    <3>2. Only(c)
      BY <1>1, <2>1, <2>2, <2>6, <3>1, IsFcn DEF Only
    <3>3. Fine(c)'
      BY <1>1, <1>2, <2>1, <2>4, <2>6, <3>1 DEF Fine
    <3>4. QED BY <1>1, <1>3, <1>4, <2>1, <2>2, <2>6, <3>1, <3>2, <3>3, OnlyOne
  <2>7. CASE ~choking[c] /\ Serve(c, rs)
    BY <1>6, <2>1, <2>2, <2>3, <2>4, <2>7 DEF Serve
  <2>8. QED BY <1>8, <2>3, <2>5, <2>6, <2>7 DEF PeerOnRequest
\* It sends what is no answer.
<1>9. ASSUME NEW t, NEW T, t \in Seq(T), \A i \in 1..Len(t) : t[i].type # "piece",
             fromPeer' = [fromPeer EXCEPT ![c] = @ \o t],
             choking' = [choking EXCEPT ![c] = choking'[c]], choking'[c] \in BOOLEAN,
             requests' = [requests EXCEPT ![c] = requests'[c]], requests'[c] \in Seq(S),
             UNCHANGED toPeer,
             choking'[c] => (choked[c] /\ Quiet(fromPeer'[c])) \/ Chokes(fromPeer'[c]),
             ~choking'[c] => \/ Under(fromPeer[c], "choke", 0) \/ out[c] = <<>>
                             \/ ~choking[c] /\ requests'[c] = requests[c]
      PROVE  AllFine'
  <2>1. fromPeer'[c] = fromPeer[c] \o t
    BY <1>9, IsFcn
  <2>2. PICK U : U = S \cup T
    OBVIOUS
  <2>3. {out[c], fromPeer[c], requests[c], toPeer[c], requests'[c], t} \subseteq Seq(U)
    <3>1. Seq(S) \subseteq Seq(U) /\ Seq(T) \subseteq Seq(U)
      BY <2>2
    <3>2. QED BY <1>4, <1>9, <3>1
  <2>4. fromPeer'[c] \in Seq(U)
    BY <2>1, <2>3
  <2>5. Only(c)
    BY <1>1, <1>9, <2>1, IsFcn DEF Only
  <2>6. Under(fromPeer[c], "choke", 0) => Under(fromPeer'[c], "choke", 0)
    BY <2>1, <2>3, StillUnder
  <2>7. ~choking'[c] => \/ Under(fromPeer'[c], "choke", 0)
                        \/ Awaits(out[c], fromPeer'[c], requests'[c], toPeer[c])
    <3>1. CASE out[c] = <<>>
      BY <3>1, AwaitsNone
    <3>2. CASE Under(fromPeer[c], "choke", 0)
      BY <2>6, <3>2
    <3>3. CASE /\ ~choking[c] /\ requests'[c] = requests[c]
               /\ Awaits(out[c], fromPeer[c], requests[c], toPeer[c])
      BY <2>1, <2>3, <3>3, AwaitsTold
    <3>4. QED BY <1>2, <1>9, <3>1, <3>2, <3>3 DEF Fine
  <2>8. Fine(c)'
    BY <1>1, <1>2, <1>9, <2>7 DEF Fine
  <2>9. QED BY <1>1, <1>3, <1>9, <2>3, <2>4, <2>5, <2>8, OnlyOne
<1>10. CASE PeerUnchokes(c)
  <2>1. PICK p : p = Packet("unchoke", 0, TRUE)
    OBVIOUS
  <2>2. /\ fromPeer' = [fromPeer EXCEPT ![c] = Append(@, p)]
        /\ choking' = [choking EXCEPT ![c] = FALSE]
        /\ choking[c] /\ UNCHANGED <<requests, toPeer>>
    BY <1>10, <2>1 DEF PeerUnchokes
  <2>3. fromPeer' = [fromPeer EXCEPT ![c] = @ \o <<p>>]
    <3>1. Append(fromPeer[c], p) = fromPeer[c] \o <<p>>
      BY <1>4, Appended
    <3>2. QED BY <2>2, <3>1
  <2>4. choking'[c] = FALSE /\ choking' = [choking EXCEPT ![c] = choking'[c]]
        /\ requests' = [requests EXCEPT ![c] = requests'[c]]
    BY <2>2, IsFcn
  \* Its choke is on its way, with what is out, or has taken all back.
  <2>5. out[c] = <<>> \/ Under(fromPeer[c], "choke", 0)
    BY <1>2, <1>4, <2>2, ChokesUnder DEF Fine
  <2>6. p.type = "unchoke"
    BY <2>1 DEF Packet
  <2>7. PICK t \in Seq({p}) : t = <<p>> /\ \A i \in 1..Len(t) : t[i] = p
    BY Single
  <2>8. /\ fromPeer' = [fromPeer EXCEPT ![c] = @ \o t]
        /\ \A i \in 1..Len(t) : t[i].type # "piece"
    BY <2>3, <2>6, <2>7
  <2>9. requests'[c] \in Seq(S) /\ choking'[c] \in BOOLEAN /\ ~choking'[c]
    BY <1>4, <2>2, <2>4
  <2>10. QED BY <1>9, <2>2, <2>4, <2>5, <2>7, <2>8, <2>9
<1>11. CASE PeerChokes(c)
  <2>1. PICK p : p = Packet("choke", 0, TRUE)
    OBVIOUS
  <2>2. /\ fromPeer' = [fromPeer EXCEPT ![c] = Append(@, p)]
        /\ choking' = [choking EXCEPT ![c] = TRUE]
        /\ requests' = [requests EXCEPT ![c] = <<>>]
        /\ UNCHANGED toPeer
    BY <1>11, <2>1 DEF PeerChokes
  <2>3. fromPeer'[c] = Append(fromPeer[c], p)
    BY <2>2, IsFcn
  <2>4. fromPeer' = [fromPeer EXCEPT ![c] = @ \o <<p>>]
    <3>1. Append(fromPeer[c], p) = fromPeer[c] \o <<p>>
      BY <1>4, Appended
    <3>2. QED BY <2>2, <3>1
  <2>5. choking'[c] = TRUE /\ choking' = [choking EXCEPT ![c] = choking'[c]]
        /\ requests'[c] = <<>> /\ requests' = [requests EXCEPT ![c] = requests'[c]]
    BY <2>2, IsFcn
  <2>6. p.type = "choke" /\ p.x = 0
    BY <2>1 DEF Packet
  <2>7. PICK n \in Nat : /\ n = Len(fromPeer[c]) /\ Len(fromPeer'[c]) = n + 1
                         /\ fromPeer'[c][n + 1] = p
                         /\ fromPeer'[c] \in Seq(S \cup {p})
                         /\ \A i \in 1..n : fromPeer'[c][i] = fromPeer[c][i]
    <3>1. PICK n \in Nat : n = Len(fromPeer[c])
      BY <1>4
    <3>2. fromPeer[c] \in Seq(S)
      BY <1>4
    <3>3. /\ fromPeer'[c] \in Seq(S \cup {p}) /\ Len(fromPeer'[c]) = Len(fromPeer[c]) + 1
          /\ fromPeer'[c][Len(fromPeer[c]) + 1] = p
          /\ \A i \in 1..Len(fromPeer[c]) : fromPeer'[c][i] = fromPeer[c][i]
      BY <2>3, <3>2, Appended
    <3>4. QED BY <3>1, <3>3
  <2>8. Chokes(fromPeer'[c])
    <3>1. n + 1 \in 1..Len(fromPeer'[c])
          /\ \A j \in 1..Len(fromPeer'[c]) : ~(j > n + 1)
      BY <2>7
    <3>2. QED BY <2>6, <2>7, <3>1 DEF Chokes
  <2>9. PICK t \in Seq({p}) : t = <<p>> /\ \A i \in 1..Len(t) : t[i] = p
    BY Single
  <2>10. requests'[c] \in Seq(S)
    BY <2>5
  <2>11. /\ fromPeer' = [fromPeer EXCEPT ![c] = @ \o t]
         /\ \A i \in 1..Len(t) : t[i].type # "piece"
    BY <2>4, <2>6, <2>9
  <2>12. choking'[c] \in BOOLEAN /\ choking'[c]
    BY <2>5
  <2>13. QED BY <1>9, <2>2, <2>5, <2>8, <2>9, <2>10, <2>11, <2>12
<1>12. CASE PeerGains(c)
  <2>1. UNCHANGED <<toPeer, choking, requests>>
    BY <1>12 DEF PeerGains
  <2>2. PICK k : fromPeer' = [fromPeer EXCEPT ![c] =
             IF link[c] THEN @ \o [i \in 1..3 - Slots(c) |-> Packet("have", k, TRUE)] ELSE @]
    BY <1>12 DEF PeerGains
  <2>3. PICK p, t : p = Packet("have", k, TRUE) /\ t = [i \in 1..3 - Slots(c) |-> p]
    OBVIOUS
  <2>4. p.type = "have"
    BY <2>3 DEF Packet
  <2>5. PICK n \in Nat : n = 3 - Slots(c)
    BY DEF Slots
  <2>6. t \in Seq({p}) /\ \A i \in 1..Len(t) : t[i] = p
    <3>1. t = [i \in 1..n |-> p]
      BY <2>3, <2>5
    <3>2. QED BY <3>1
  <2>7. CASE link[c]
    <3>1. fromPeer' = [fromPeer EXCEPT ![c] = @ \o t]
      BY <2>2, <2>3, <2>7
    <3>2. fromPeer'[c] = fromPeer[c] \o t
      BY <3>1, IsFcn
    <3>3. PICK U : U = S \cup {p}
      OBVIOUS
    <3>4. fromPeer[c] \in Seq(U) /\ t \in Seq(U)
      <4>1. Seq(S) \subseteq Seq(U) /\ Seq({p}) \subseteq Seq(U)
        BY <3>3
      <4>2. QED BY <1>4, <2>6, <4>1
    <3>5. Quiet(t)
      BY <2>4, <2>6 DEF Quiet
    <3>6. /\ Quiet(fromPeer[c]) => Quiet(fromPeer'[c])
          /\ Chokes(fromPeer[c]) => Chokes(fromPeer'[c])
      BY <3>2, <3>4, <3>5, ToldOf
    <3>7. /\ choking' = [choking EXCEPT ![c] = choking'[c]] /\ choking'[c] \in BOOLEAN
          /\ requests' = [requests EXCEPT ![c] = requests'[c]] /\ requests'[c] \in Seq(S)
      BY <1>3, <1>4, <2>1, IsFcn
    <3>8. choking'[c] => (choked[c] /\ Quiet(fromPeer'[c])) \/ Chokes(fromPeer'[c])
      BY <1>2, <2>1, <3>6 DEF Fine
    <3>9. QED BY <1>9, <2>1, <2>4, <2>6, <3>1, <3>7, <3>8
  <2>8. CASE ~link[c]
    <3>1. UNCHANGED fromPeer
      BY <2>2, <2>8, IsFcn
    <3>2. Only(c)
      BY <1>1, <2>1, <3>1, IsFcn DEF Only
    <3>3. Fine(c)'
      BY <1>1, <1>2, <2>1, <3>1 DEF Fine
    <3>4. QED BY <1>1, <1>3, <1>4, <2>1, <3>1, <3>2, <3>3, OnlyOne
  <2>9. QED BY <2>7, <2>8
<1>13. QED BY <1>5, <1>7, <1>8, <1>10, <1>11, <1>12 DEF Peer

\* What is left of the packets from the peer when the first is taken.
LEMMA Behind ==
    ASSUME AllFine, NEW c \in Peers, NEW type, Arrives(c, type)
    PROVE  /\ fromPeer[c] # <<>> /\ Head(fromPeer[c]).type = type /\ asking = NoPeer
           /\ fromPeer' = [fromPeer EXCEPT ![c] = Tail(@)] /\ fromPeer'[c] = Tail(fromPeer[c])
           /\ Len(fromPeer[c]) \in Nat /\ 1 \in 1..Len(fromPeer[c])
           /\ fromPeer[c][1].type = type
           /\ \A i \in 1..Len(fromPeer'[c]) :
                 i + 1 \in 1..Len(fromPeer[c]) /\ fromPeer'[c][i] = fromPeer[c][i + 1]
           /\ type # "choke" /\ Under(fromPeer[c], "choke", 0)
                 => Under(fromPeer'[c], "choke", 0)
           /\ Quiet(fromPeer[c]) => Quiet(fromPeer'[c]) /\ type # "unchoke"
           /\ Chokes(fromPeer[c])
                 => Chokes(fromPeer'[c]) \/ (type = "choke" /\ Quiet(fromPeer'[c]))
<1>1. /\ fromPeer[c] # <<>> /\ Head(fromPeer[c]).type = type /\ asking = NoPeer
      /\ fromPeer' = [fromPeer EXCEPT ![c] = Tail(@)]
  BY DEF Arrives, Idle
<1>2. fromPeer'[c] = Tail(fromPeer[c])
  BY <1>1, IsFcn
<1>3. PICK S : fromPeer[c] \in Seq(S)
  BY Entries
<1>4. PICK s, t : s = fromPeer[c] /\ t = fromPeer'[c] /\ s \in Seq(S) /\ s # <<>> /\ t = Tail(s)
  BY <1>1, <1>2, <1>3
<1>5. PICK n \in Nat : n + 1 = Len(s)
  <2>1. Len(s) \in Nat /\ Len(s) # 0
    BY <1>4
  <2>2. Len(s) - 1 \in Nat /\ (Len(s) - 1) + 1 = Len(s)
    BY <2>1
  <2>3. QED BY <2>2
<1>6. /\ Len(t) = n /\ DOMAIN t = 1..n /\ DOMAIN s = 1..n + 1
      /\ \A i \in 1..n : t[i] = s[i + 1]
      /\ s[1] = Head(s)
  BY <1>4, <1>5
<1>7. ASSUME type # "choke", Under(s, "choke", 0) PROVE Under(t, "choke", 0)
  <2>1. PICK i \in 1..n + 1 : s[i].type = "choke" /\ s[i].x = 0
    BY <1>6, <1>7 DEF Under
  <2>2. i # 1
    BY <1>1, <1>4, <1>6, <1>7, <2>1
  <2>3. PICK k \in 1..n : k + 1 = i
    <3>1. i - 1 \in 1..n /\ (i - 1) + 1 = i
      BY <2>2
    <3>2. QED BY <3>1
  <2>4. k \in DOMAIN t /\ t[k] = s[i]
    BY <1>6, <2>3
  <2>5. QED BY <2>1, <2>4 DEF Under
<1>8. /\ Len(s) \in Nat /\ 1 \in 1..Len(s)
      /\ \A i \in 1..Len(t) : i + 1 \in 1..Len(s) /\ t[i] = s[i + 1]
  BY <1>5, <1>6
<1>9. ASSUME Quiet(s) PROVE Quiet(t) /\ type # "unchoke"
  <2>1. s[1].type = type
    BY <1>1, <1>4, <1>6
  <2>2. QED BY <1>8, <1>9, <2>1 DEF Quiet
<1>10. ASSUME Chokes(s) PROVE Chokes(t) \/ (type = "choke" /\ Quiet(t))
  <2>1. PICK i \in 1..n + 1 : /\ s[i].type = "choke" /\ s[i].x = 0
                              /\ \A j \in 1..n + 1 : j > i => s[j].type # "unchoke"
    BY <1>5, <1>10 DEF Chokes
  <2>2. CASE i = 1
    <3>1. type = "choke"
      BY <1>1, <1>4, <1>6, <2>1, <2>2
    <3>2. ASSUME NEW j \in 1..n PROVE t[j].type # "unchoke"
      BY <1>6, <2>1, <2>2
    <3>3. QED BY <1>6, <3>1, <3>2 DEF Quiet
  <2>3. CASE i # 1
    <3>1. PICK k \in 1..n : k + 1 = i
      <4>1. i - 1 \in 1..n /\ (i - 1) + 1 = i
        BY <2>3
      <4>2. QED BY <4>1
    <3>2. t[k].type = "choke" /\ t[k].x = 0
      BY <1>6, <2>1, <3>1
    <3>3. ASSUME NEW j \in 1..n, j > k PROVE t[j].type # "unchoke"
      <4>1. j + 1 \in 1..n + 1 /\ j + 1 > i /\ t[j] = s[j + 1]
        BY <1>6, <3>1, <3>3
      <4>2. QED BY <2>1, <4>1
    <3>4. QED BY <1>6, <3>2, <3>3 DEF Chokes
  <2>4. QED BY <2>2, <2>3
<1>11. QED BY <1>1, <1>2, <1>4, <1>6, <1>7, <1>8, <1>9, <1>10

\* A packet arrives.
LEMMA ClientFine ==
    ASSUME AllFine, NEW c \in Peers, Client(c)
    PROVE  AllFine'
<1>1. Fine(c) /\ {link[c], choked[c], choking[c]} \subseteq BOOLEAN
  BY DEF AllFine, Wired
<1>2. PICK S : {out[c], fromPeer[c], requests[c], toPeer[c]} \subseteq Seq(S)
  BY Entries
<1>3. UNCHANGED <<link, choking, requests, toPeer>>
  BY DEF Client, OnChoke, OnUnchoke, OnHave, OnBitfield, OnPiece, peers
<1>4. ASSUME NEW type, Arrives(c, type)
      PROVE  /\ fromPeer'[c] \in Seq(S)
             /\ type # "piece" /\ Awaits(out[c], fromPeer[c], requests[c], toPeer[c])
                   => Awaits(out[c], fromPeer'[c], requests[c], toPeer[c])
  <2>1. fromPeer[c] # <<>> /\ fromPeer'[c] = Tail(fromPeer[c])
        /\ Head(fromPeer[c]).type = type
    BY <1>4, Behind
  <2>2. fromPeer'[c] \in Seq(S)
    BY <1>2, <2>1
  <2>3. type # "piece" /\ Awaits(out[c], fromPeer[c], requests[c], toPeer[c])
           => Awaits(out[c], fromPeer'[c], requests[c], toPeer[c])
    BY <1>2, <2>1, AwaitsRead
  <2>4. QED BY <2>2, <2>3
<1>5. ASSUME NEW type, Arrives(c, type), type \notin {"choke", "piece"},
             UNCHANGED out, choked' = [choked EXCEPT ![c] = choked'[c]],
             choked'[c] \in BOOLEAN, choked'[c] => choked[c],
             choked[c] => choked'[c] \/ type = "unchoke",
             asking' \in {c, NoPeer}, asking' = c => ~choked'[c]
      PROVE  AllFine'
  <2>1. /\ fromPeer'[c] \in Seq(S)
        /\ fromPeer' = [fromPeer EXCEPT ![c] = fromPeer'[c]]
        /\ Under(fromPeer[c], "choke", 0) => Under(fromPeer'[c], "choke", 0)
    BY <1>4, <1>5, Behind
  <2>2. Only(c)
    BY <1>3, <1>5, <2>1, IsFcn DEF Only
  <2>3. Fine(c)'
    <3>1. ~choking[c] => \/ Under(fromPeer'[c], "choke", 0)
                         \/ Awaits(out[c], fromPeer'[c], requests[c], toPeer[c])
      BY <1>1, <1>4, <1>5, <2>1 DEF Fine
    <3>2. choked'[c] => out[c] = <<>> /\ asking' # c
      BY <1>1, <1>5 DEF Fine
    <3>3. choking[c] => (choked'[c] /\ Quiet(fromPeer'[c])) \/ Chokes(fromPeer'[c])
      <4>1. /\ Quiet(fromPeer[c]) => Quiet(fromPeer'[c]) /\ type # "unchoke"
            /\ Chokes(fromPeer[c]) => Chokes(fromPeer'[c])
        BY <1>5, Behind
      <4>2. QED BY <1>1, <1>5, <4>1 DEF Fine
    <3>4. QED BY <1>3, <1>4, <1>5, <3>1, <3>2, <3>3 DEF Fine
  <2>4. QED BY <1>1, <1>2, <1>3, <1>5, <2>1, <2>2, <2>3, OnlyOne
<1>6. CASE OnChoke(c)
  <2>1. /\ Arrives(c, "choke") /\ choked' = [choked EXCEPT ![c] = TRUE]
        /\ out' = [out EXCEPT ![c] = <<>>] /\ UNCHANGED asking
    BY <1>6 DEF OnChoke, thread
  <2>2. choked'[c] = TRUE /\ out'[c] = <<>> /\ asking = NoPeer
        /\ fromPeer' = [fromPeer EXCEPT ![c] = fromPeer'[c]]
    BY <2>1, IsFcn, Behind
  <2>3. Only(c)
    BY <1>3, <2>1, <2>2, IsFcn DEF Only
  <2>4. choking[c] => Quiet(fromPeer'[c]) \/ Chokes(fromPeer'[c])
    BY <1>1, <2>1, Behind DEF Fine
  <2>5. Fine(c)'
    BY <1>3, <2>1, <2>2, <2>4, AwaitsNone, TorrentAssumption DEF Fine
  <2>6. out'[c] \in Seq(S)
    BY <2>2
  <2>7. QED BY <1>1, <1>2, <1>3, <1>4, <2>1, <2>2, <2>3, <2>5, <2>6, OnlyOne
<1>7. CASE OnUnchoke(c)
  <2>1. /\ Arrives(c, "unchoke") /\ choked' = [choked EXCEPT ![c] = FALSE]
        /\ asking' \in {c, NoPeer} /\ UNCHANGED out
    BY <1>7 DEF OnUnchoke, Ask
  <2>2. choked'[c] = FALSE
    BY <2>1, IsFcn
  <2>3. QED BY <1>5, <2>1, <2>2
<1>8. CASE OnHave(c)
  <2>1. /\ Arrives(c, "have") /\ UNCHANGED <<out, choked>>
        /\ asking' \in {c, NoPeer} /\ (asking' = c => ~choked[c])
    BY <1>8, TorrentAssumption DEF OnHave, Ask
  <2>2. choked' = [choked EXCEPT ![c] = choked'[c]]
    BY <2>1, IsFcn
  <2>3. QED BY <1>1, <1>5, <2>1, <2>2 DEF Fine
<1>9. CASE OnBitfield(c)
  <2>1. /\ Arrives(c, "bitfield") /\ UNCHANGED <<out, choked, asking>>
    BY <1>9 DEF OnBitfield, thread
  <2>2. choked' = [choked EXCEPT ![c] = choked'[c]]
    BY <2>1, IsFcn
  <2>3. asking' = NoPeer
    BY <2>1, Behind
  <2>4. QED BY <1>1, <1>5, <2>1, <2>2, <2>3, TorrentAssumption DEF Fine
<1>10. CASE OnPiece(c)
  <2>1. /\ Arrives(c, "piece") /\ UNCHANGED choked
        /\ \/ out[c] = <<>> /\ UNCHANGED <<out, asking>>
           \/ out[c] # <<>> /\ out' = [out EXCEPT ![c] = Tail(@)] /\ asking' = c
    BY <1>10 DEF OnPiece, Ask
  <2>2. /\ fromPeer[c] # <<>> /\ asking = NoPeer
        /\ fromPeer'[c] = Tail(fromPeer[c])
        /\ fromPeer' = [fromPeer EXCEPT ![c] = fromPeer'[c]]
        /\ Under(fromPeer[c], "choke", 0) => Under(fromPeer'[c], "choke", 0)
        /\ Quiet(fromPeer[c]) => Quiet(fromPeer'[c])
        /\ Chokes(fromPeer[c]) => Chokes(fromPeer'[c])
    BY <2>1, Behind
  <2>3. CASE out[c] = <<>> /\ UNCHANGED <<out, asking>>
    <3>1. Only(c)
      BY <1>3, <2>1, <2>2, <2>3, IsFcn DEF Only
    <3>2. Fine(c)'
      BY <1>1, <1>3, <2>1, <2>2, <2>3, AwaitsNone, TorrentAssumption DEF Fine
    <3>3. QED BY <1>1, <1>2, <1>3, <1>4, <2>1, <2>3, <3>1, <3>2, OnlyOne
  <2>4. CASE out[c] # <<>> /\ out' = [out EXCEPT ![c] = Tail(@)] /\ asking' = c
    <3>1. out'[c] = Tail(out[c])
      BY <2>4, IsFcn
    <3>2. out'[c] \in Seq(S)
      BY <1>2, <2>4, <3>1
    <3>3. Only(c)
      BY <1>3, <2>1, <2>2, <2>4, <3>1, IsFcn DEF Only
    <3>4. Awaits(out[c], fromPeer[c], requests[c], toPeer[c])
             => Awaits(out'[c], fromPeer'[c], requests[c], toPeer[c])
      <4>1. Awaits(out[c], fromPeer[c], requests[c], toPeer[c])
               => Awaits(Tail(out[c]), Tail(fromPeer[c]), requests[c], toPeer[c])
        BY <1>2, <2>2, <2>4, AwaitsTaken
      <4>2. QED BY <2>2, <3>1, <4>1
    <3>5. Fine(c)'
      BY <1>1, <1>3, <2>1, <2>2, <2>4, <3>4 DEF Fine
    <3>6. QED BY <1>1, <1>2, <1>3, <1>4, <2>1, <3>2, <3>3, <3>5, OnlyOne
  <2>5. QED BY <2>1, <2>3, <2>4
<1>11. QED BY <1>6, <1>7, <1>8, <1>9, <1>10 DEF Client

\* A step of sendRequests().
LEMMA SendRequestsFine ==
    ASSUME AllFine, NEW c \in Peers, SendRequests(c)
    PROVE  AllFine'
<1>1. Fine(c) /\ {link[c], choked[c], choking[c]} \subseteq BOOLEAN
  BY DEF AllFine, Wired
<1>2. asking = c /\ UNCHANGED <<link, choked, choking, requests, fromPeer>>
  BY DEF SendRequests, AskRange, AskNext, AskLock, AskShared, AskEnds, Asking, peers
<1>3. PICK S : {out[c], fromPeer[c], requests[c], toPeer[c]} \subseteq Seq(S)
  BY Entries
<1>4. CASE UNCHANGED <<out, toPeer>> /\ asking' \in {asking, NoPeer}
  <2>1. Only(c)
    BY <1>2, <1>4, IsFcn DEF Only
  <2>2. Fine(c)'
    BY <1>1, <1>2, <1>4 DEF Fine
  <2>3. QED BY <1>1, <1>2, <1>3, <1>4, <2>1, <2>2, OnlyOne
<1>5. CASE /\ asking' = asking
           /\ \E b : Send(c, Packet("request", b, TRUE))
                     /\ out' = [out EXCEPT ![c] = Append(@, b)]
  <2>1. PICK b, p : /\ p = Packet("request", b, TRUE)
                    /\ toPeer' = [toPeer EXCEPT ![c] = Append(@, p)]
                    /\ out' = [out EXCEPT ![c] = Append(@, b)]
    BY <1>5 DEF Send
  <2>2. p.type = "request" /\ p.x = b
    BY <2>1 DEF Packet
  <2>3. toPeer'[c] = Append(toPeer[c], p) /\ out'[c] = Append(out[c], b)
    BY <2>1, IsFcn
  <2>4. PICK U : U = S \cup {b, p}
    OBVIOUS
  <2>5. b \in U /\ p \in U /\ {out[c], fromPeer[c], requests[c], toPeer[c]} \subseteq Seq(U)
    <3>1. Seq(S) \subseteq Seq(U)
      BY <2>4
    <3>2. QED BY <1>3, <2>4, <3>1
  <2>6. out'[c] \in Seq(U) /\ toPeer'[c] \in Seq(U)
    BY <2>3, <2>5
  <2>7. Only(c)
    BY <1>2, <1>5, <2>1, <2>3, IsFcn DEF Only
  <2>8. Awaits(out[c], fromPeer[c], requests[c], toPeer[c])
           => Awaits(out'[c], fromPeer[c], requests[c], toPeer'[c])
    <3>1. Awaits(out[c], fromPeer[c], requests[c], toPeer[c])
             => Awaits(Append(out[c], b), fromPeer[c], requests[c], Append(toPeer[c], p))
      BY <2>2, <2>5, AwaitsSent
    <3>2. QED BY <2>3, <3>1
  <2>9. Fine(c)'
    BY <1>1, <1>2, <2>8 DEF Fine
  <2>10. QED BY <1>1, <1>2, <2>5, <2>6, <2>7, <2>9, OnlyOne
<1>6. QED
  BY <1>4, <1>5 DEF SendRequests, AskRange, AskNext, AskLock, AskShared, AskEnds, thread

\* A client is told of a verified chunk: what it takes back it cancels.
LEMMA OnVerifiedFine ==
    ASSUME AllFine, NEW c \in Peers, OnVerified(c)
    PROVE  AllFine'
<1>1. Fine(c) /\ {link[c], choked[c], choking[c]} \subseteq BOOLEAN
  BY DEF AllFine, Wired
<1>2. UNCHANGED <<link, choked, choking, requests, fromPeer>>
      /\ asking = NoPeer /\ asking' \in {c, NoPeer} /\ (asking' = c => ~choked[c])
  BY TorrentAssumption DEF OnVerified, Ask, peers
<1>3. PICK gone : /\ gone = Without(out[c], Blocks \ BlocksOf(telling))
                  /\ out' = [out EXCEPT ![c] = Without(@, Range(gone))]
                  /\ toPeer' = [toPeer EXCEPT ![c] =
                        @ \o [i \in DOMAIN gone |-> Packet("cancel", gone[i], TRUE)]]
  BY DEF OnVerified
<1>4. PICK t : t = [i \in DOMAIN gone |-> Packet("cancel", gone[i], TRUE)]
  OBVIOUS
<1>5. PICK R : {out[c], fromPeer[c], requests[c], toPeer[c]} \subseteq Seq(R)
  BY Entries
<1>6. PICK hits : hits = Range(gone)
  OBVIOUS
<1>7. gone \in Seq(R)
  BY <1>3, <1>5, WithoutIs
<1>8. PICK n \in Nat : DOMAIN gone = 1..n
  BY <1>7
<1>9. PICK U : U = R \cup {t[i] : i \in 1..n}
  OBVIOUS
<1>10. t \in Seq(U) /\ Len(t) = n /\ \A i \in 1..n : t[i].x \in hits
  <2>1. t \in [1..n -> U]
    BY <1>4, <1>8, <1>9
  <2>2. ASSUME NEW i \in 1..n PROVE t[i].x \in hits
    <3>1. t[i].x = gone[i]
      BY <1>4, <1>8 DEF Packet
    <3>2. QED BY <1>6, <1>8, <3>1 DEF Range
  <2>3. QED BY <2>1, <2>2
<1>11. {out[c], fromPeer[c], requests[c], toPeer[c]} \subseteq Seq(U)
  <2>1. Seq(R) \subseteq Seq(U)
    BY <1>9
  <2>2. QED BY <1>5, <2>1
<1>12. out'[c] = Without(out[c], hits) /\ toPeer'[c] = toPeer[c] \o t
  BY <1>3, <1>4, <1>6, IsFcn
<1>13. out'[c] \in Seq(U) /\ toPeer'[c] \in Seq(U)
  BY <1>10, <1>11, <1>12, WithoutIs
<1>14. Only(c)
  BY <1>2, <1>3, <1>4, <1>6, <1>12, IsFcn DEF Only
<1>15. Awaits(out[c], fromPeer[c], requests[c], toPeer[c])
          => Awaits(out'[c], fromPeer[c], requests[c], toPeer'[c])
  <2>1. Awaits(out[c], fromPeer[c], requests[c], toPeer[c])
           => Awaits(Without(out[c], hits), fromPeer[c], requests[c], toPeer[c] \o t)
    BY <1>10, <1>11, AwaitsCancelled
  <2>2. QED BY <1>12, <2>1
<1>16. choked[c] => out'[c] = <<>>
  <2> SUFFICES ASSUME choked[c] PROVE out'[c] = <<>>
    OBVIOUS
  <2>1. PICK none \in Seq(U) : none = out[c] /\ Len(none) = 0
    BY <1>1, <1>11 DEF Fine
  <2>2. PICK o \in Seq(U) : o = Without(none, hits) /\ Len(o) = Kept(none, hits, 0)
    BY <2>1, WithoutIs
  <2>3. Kept(none, hits, 0) = 0
    BY KeptNext
  <2>4. QED BY <1>12, <2>1, <2>2, <2>3
<1>17. Fine(c)'
  BY <1>1, <1>2, <1>15, <1>16 DEF Fine
<1>18. QED BY <1>1, <1>2, <1>11, <1>13, <1>14, <1>17, OnlyOne

\* A connection begins, choked on both sides, or ends.
LEMMA ConnectFine ==
    ASSUME AllFine, Closed, NEW c \in Peers, Connect(c) \/ Drop(c)
    PROVE  AllFine'
<1>1. Fine(c) /\ {link[c], choked[c], choking[c]} \subseteq BOOLEAN
  BY DEF AllFine, Wired
<1>2. asking = NoPeer /\ UNCHANGED asking
  BY DEF Connect, Drop, Idle, thread
<1>3. PICK b : b = Packet("bitfield", has[c], TRUE)
  OBVIOUS
<1>4. PICK S : {b} \subseteq S /\ {out[c], fromPeer[c], requests[c], toPeer[c]} \subseteq Seq(S)
  BY Entries
<1>5. CASE Connect(c)
  <2>1. /\ ~link[c] /\ link' = [link EXCEPT ![c] = TRUE]
        /\ fromPeer' = [fromPeer EXCEPT ![c] = IF has[c] = {} THEN <<>> ELSE <<b>>]
        /\ UNCHANGED <<choked, choking, out, requests, toPeer>>
    BY <1>3, <1>5 DEF Connect, peers
  <2>2. choked[c] /\ out[c] = <<>>
    BY <1>1, <2>1 DEF Closed, Fine
  <2>3. link'[c] = TRUE /\ (fromPeer'[c] = <<>> \/ fromPeer'[c] = <<b>>)
    BY <2>1, IsFcn
  <2>4. fromPeer'[c] \in Seq(S)
    <3>1. b \in S
      BY <1>4
    <3>2. <<b>> \in Seq(S) /\ <<>> \in Seq(S)
      BY <3>1
    <3>3. QED BY <2>3, <3>2
  <2>5. fromPeer' = [fromPeer EXCEPT ![c] = fromPeer'[c]]
    BY <2>1, IsFcn
  <2>6. Only(c)
    BY <1>2, <2>1, <2>3, <2>5, IsFcn DEF Only
  <2>7. Quiet(fromPeer'[c])
    <3>1. b.type # "unchoke"
      BY <1>3 DEF Packet
    <3>2. \A i \in 1..Len(<<b>>) : <<b>>[i] = b
      OBVIOUS
    <3>3. \A i \in 1..Len(<<>>) : FALSE
      OBVIOUS
    <3>4. QED BY <2>3, <3>1, <3>2, <3>3 DEF Quiet
  <2>8. Awaits(out[c], fromPeer'[c], requests[c], toPeer[c])
    BY <2>2, AwaitsNone
  <2>9. Fine(c)'
    BY <1>1, <1>2, <2>1, <2>2, <2>7, <2>8 DEF Fine
  <2>10. QED BY <1>1, <1>4, <2>1, <2>3, <2>4, <2>6, <2>9, OnlyOne
<1>6. CASE Drop(c)
  <2>1. /\ link' = [link EXCEPT ![c] = FALSE] /\ choked' = [choked EXCEPT ![c] = TRUE]
        /\ out' = [out EXCEPT ![c] = <<>>] /\ choking' = [choking EXCEPT ![c] = TRUE]
        /\ toPeer' = [toPeer EXCEPT ![c] = <<>>] /\ fromPeer' = [fromPeer EXCEPT ![c] = <<>>]
        /\ requests' = [requests EXCEPT ![c] = <<>>]
    BY <1>6 DEF Drop
  <2>2. /\ link'[c] = FALSE /\ choked'[c] = TRUE /\ choking'[c] = TRUE
        /\ out'[c] = <<>> /\ toPeer'[c] = <<>> /\ fromPeer'[c] = <<>> /\ requests'[c] = <<>>
    BY <2>1, IsFcn
  <2>3. Only(c)
    BY <1>2, <2>1, <2>2 DEF Only
  <2>4. Fine(c)'
    <3>1. \A i \in 1..Len(<<>>) : FALSE
      OBVIOUS
    <3>2. asking' # c
      BY <1>2, TorrentAssumption
    <3>3. QED BY <2>2, <3>1, <3>2 DEF Fine, Quiet
  <2>5. {out'[c], fromPeer'[c], requests'[c], toPeer'[c]} \subseteq Seq(S)
    BY <2>2
  <2>6. QED BY <2>2, <2>3, <2>4, <2>5, OnlyOne
<1>7. QED BY <1>5, <1>6

\* The torrent is complete: nobody has anything out.
LEMMA FinishFine ==
    ASSUME AllFine, Finish
    PROVE  AllFine'
<1>1. /\ out' = [c \in Peers |-> <<>>]
      /\ UNCHANGED <<link, choked, choking, fromPeer, requests, toPeer, asking>>
  BY DEF Finish, thread, peers
<1>2. Wired'
  <2>1. PICK S : {out, fromPeer, requests, toPeer} \subseteq [Peers -> Seq(S)]
    BY DEF AllFine, Wired
  <2>2. out' \in [Peers -> Seq(S)]
    BY <1>1
  <2>3. QED BY <1>1, <2>1, <2>2 DEF AllFine, Wired
<1>3. ASSUME NEW c \in Peers PROVE Fine(c)'
  <2>1. Fine(c) /\ out'[c] = <<>>
    BY <1>1 DEF AllFine
  <2>2. QED BY <1>1, <2>1, AwaitsNone DEF Fine
<1>4. QED BY <1>2, <1>3 DEF AllFine

LEMMA InitFine == Init => AllFine
<1> SUFFICES ASSUME Init PROVE AllFine
  OBVIOUS
<1>1. Wired
  <2>1. /\ {link, choked, choking} \subseteq [Peers -> BOOLEAN]
        /\ {out, fromPeer, requests, toPeer} \subseteq [Peers -> Seq({})]
    BY DEF Init
  <2>2. QED BY <2>1 DEF Wired
<1>2. ASSUME NEW c \in Peers PROVE Fine(c)
  <2>1. choked[c] /\ choking[c] /\ out[c] = <<>> /\ fromPeer[c] = <<>> /\ asking # c
    BY TorrentAssumption DEF Init
  <2>2. \A i \in 1..Len(<<>>) : FALSE
    OBVIOUS
  <2>3. QED BY <2>1, <2>2 DEF Fine, Quiet
<1>3. QED BY <1>1, <1>2 DEF AllFine

LEMMA NextFine == Closed /\ AllFine /\ [Next]_vars => AllFine'
<1> SUFFICES ASSUME Closed, AllFine, [Next]_vars
             PROVE  AllFine'
  OBVIOUS
<1>1. CASE \E c \in Peers : Client(c) \/ SendRequests(c) \/ OnVerified(c) \/ Peer(c)
  BY <1>1, ClientFine, SendRequestsFine, OnVerifiedFine, PeerFine
<1>2. CASE \E c \in Peers : Connect(c) \/ Lost(c) \/ TimedOut(c)
  BY <1>2, ConnectFine DEF Lost, TimedOut
<1>3. CASE UNCHANGED <<link, choked, choking, out, fromPeer, requests, toPeer, asking>>
  BY <1>3 DEF AllFine, Wired, Fine
<1>4. CASE \E k \in Chunks : HashDone(k)
  BY <1>3, <1>4 DEF HashDone, clients, peers
<1>5. CASE Finish
  BY <1>5, FinishFine
<1>6. CASE UNCHANGED vars
  BY <1>3, <1>6 DEF vars, clients, thread, peers
<1>7. QED BY <1>1, <1>2, <1>4, <1>5, <1>6 DEF Next

LEMMA FineNoStall == AllFine => NoStall
<1> SUFFICES ASSUME AllFine, NEW c \in Peers, NEW b \in Range(out[c])
             PROVE  \/ Under(toPeer[c], "request", b)
                    \/ b \in Range(requests[c])
                    \/ Under(fromPeer[c], "piece", b)
                    \/ Under(fromPeer[c], "choke", 0)
  BY DEF NoStall
<1>1. Fine(c)
  BY DEF AllFine
<1>2. PICK S : {out[c], fromPeer[c], requests[c], toPeer[c]} \subseteq Seq(S)
  BY Entries
<1>3. out[c] # <<>>
  BY DEF Range
<1>4. CASE choking[c]
  BY <1>1, <1>2, <1>3, <1>4, ChokesUnder DEF Fine
<1>5. CASE ~choking[c]
  BY <1>1, <1>2, <1>5, AwaitedIs DEF Fine
<1>6. QED BY <1>4, <1>5

\* Each request that a client has out gets its answer or is taken back by the peer's choke:
\* it is on its way to the peer, in the peer's queue, or one of the two is on its way to us.
\* The answers come in the order of the requests, so that one which is taken for another's
\* still leaves one for each of the others.
THEOREM RequestsAnswered == Spec => []NoStall
<1>1. Init => IInv /\ AllFine
  BY InitInv, InitFine
<1>2. IInv /\ AllFine /\ [Next]_vars => (IInv /\ AllFine)'
  <2> SUFFICES ASSUME IInv, AllFine, [Next]_vars PROVE IInv' /\ AllFine'
    OBVIOUS
  <2>1. IInv'
    BY NextInv
  <2>2. AllFine'
    BY NextFine DEF IInv
  <2>3. QED BY <2>1, <2>2
<1>3. IInv /\ AllFine => NoStall
  BY FineNoStall
<1>4. QED BY <1>1, <1>2, <1>3, PTL DEF Spec

=============================================================================
