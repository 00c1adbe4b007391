------------------------------ MODULE Torrent ------------------------------
(***************************************************************************)
(* The BitTorrent module's download (hncore/bt: client.cpp, torrent.cpp):  *)
(* one torrent, the clients that we ask for its data, and the requests     *)
(* that the clients share at its end.  The remote peers run the same code, *)
(* so that their half is Client's upload.                                  *)
(*                                                                         *)
(* Data comes in blocks of 16384 bytes, PerChunk of them in a chunk.  The  *)
(* block that a LockedRange covers is its name: PartData never locks a     *)
(* block twice (PartData!LocksExclusive).  A lock lives as long as it is   *)
(* in a client's m_outRequests, or in the hands of onPiece(); a weak       *)
(* pointer to one that does not is Gone.                                   *)
(*                                                                         *)
(* Our handlers run in the main thread.  sendRequests() takes a step for   *)
(* each request, and the handlers of onVerified one for each call: the     *)
(* main thread does nothing else meanwhile (Idle), but peers go on.        *)
(*                                                                         *)
(* Left out: the handshake, pings, what we upload, m_isInterested (which   *)
(* peers get a slot is a choice of theirs), and the order in which         *)
(* PartData offers chunks: any that it may offer may come.                 *)
(***************************************************************************)
EXTENDS Naturals, SequencesExt, FiniteSetsExt

CONSTANTS Peers,        \* the remote peers, a Client object for each
          Incoming,     \* those of them that connected to us
          NoPeer,
          NumChunks,    \* getChunkCnt()
          PerChunk,     \* blocks in a chunk
          Short,        \* the last chunk, if it is shorter than the others, or nothing
          Window,       \* requests that a client has out; 5 in the code
          Starts,       \* for each peer, the sets of chunks that it may begin with
          Gains,        \* bound: for each peer, the chunks that it may get
          NoBlock, Gone,
          MaxFaults     \* bound: wrong blocks, broken connections and chokes

Chunks == 0..NumChunks - 1
Blocks == 0..NumChunks * PerChunk - 1
NoChunk == NumChunks
Empty == {NoChunk}    \* an m_bitField without bits, which is a seed's
ChunkOf(b) == b \div PerChunk
BlocksOf(k) == {b \in Blocks : ChunkOf(b) = k}

ASSUME TorrentAssumption ==
    /\ NoPeer \notin Peers /\ Incoming \subseteq Peers
    /\ NumChunks \in Nat \ {0} /\ PerChunk \in Nat \ {0} /\ Window \in Nat \ {0}
    /\ Short \subseteq {NumChunks - 1}
    /\ Starts \in [Peers -> SUBSET SUBSET Chunks]
    /\ Gains \in [Peers -> SUBSET Chunks]
    /\ NoBlock \notin Blocks /\ Gone \notin Blocks /\ NoBlock # Gone
    /\ MaxFaults \in Nat

VARIABLES
    \* PartData
    complete,    \* blocks that were written
    bad,         \* those of them with wrong data
    hashing,     \* chunks whose hash is being computed, or waits to be handled
    verified,    \* chunks
    present,     \* m_partData is not null
    avail,       \* m_avail of each chunk
    sources,     \* m_sourceCnt
    seeds,       \* m_fullSourceCnt
    \* Torrent
    shared,      \* m_sharedReqs
    \* Client, for each peer
    link,        \* there is one, and its socket is connected
    mask,        \* m_bitField
    counted,     \* m_sourceMaskAdded
    choked,      \* m_isChoking
    interested,  \* m_amInterested
    range,       \* m_usedRange
    out,         \* m_outRequests
    \* the main thread
    asking,      \* the client that is in sendRequests()
    added,       \* its RequestAdder
    inHand,      \* the request that onPiece() has taken from m_outRequests
    telling,     \* the chunk of which onVerified tells
    untold,      \* how often each client's onVerified() is still to be called
    \* the network and the peers
    toPeer, fromPeer,
    has,         \* chunks the peer has verified
    choking,     \* the peer's m_amChoking
    requests,    \* the peer's m_requests
    faults       \* what remains of MaxFaults

data    == <<complete, bad, hashing, verified, present>>
counts  == <<avail, sources, seeds>>
file    == <<data, counts>>
clients == <<link, mask, counted, choked, interested, range, out>>
thread  == <<asking, added, inHand, telling, untold>>
peers   == <<has, choking, requests>>
vars == <<file, shared, clients, thread, toPeer, fromPeer, peers, faults>>

Packet(type, x, good) == [type |-> type, x |-> x, good |-> good]
ToPeer   == {Packet(t, b, TRUE) : t \in {"request", "cancel"}, b \in Blocks}
FromPeer ==
    {Packet(t, 0, TRUE) : t \in {"choke", "unchoke"}}
        \cup {Packet("have", k, TRUE) : k \in Chunks}
        \cup {Packet("bitfield", K, TRUE) : K \in SUBSET Chunks}
        \cup {Packet("piece", b, g) : b \in Blocks, g \in BOOLEAN}

TypeOK ==
    /\ complete \in SUBSET Blocks /\ bad \in SUBSET complete
    /\ hashing \in SUBSET Chunks /\ verified \in SUBSET Chunks /\ present \in BOOLEAN
    /\ shared \in Seq(Blocks \cup {Gone})
    /\ link \in [Peers -> BOOLEAN]
    /\ avail \in [Chunks -> Nat] /\ sources \in Nat /\ seeds \in Nat
    /\ mask \in [Peers -> SUBSET Chunks \cup {Empty}]
    /\ has \in [Peers -> SUBSET Chunks]
    /\ {counted, choked, interested, choking} \subseteq [Peers -> BOOLEAN]
    /\ range \in [Peers -> Chunks \cup {NoChunk}]
    /\ {out, requests} \subseteq [Peers -> Seq(Blocks)]
    /\ asking \in Peers \cup {NoPeer} /\ added \in Seq(Blocks)
    /\ inHand \in Blocks \cup {NoBlock}
    /\ telling \in Chunks \cup {NoChunk} /\ untold \in [Peers -> 0..2]
    /\ toPeer \in [Peers -> Seq(ToPeer)] /\ fromPeer \in [Peers -> Seq(FromPeer)]
    /\ faults \in 0..MaxFaults

Init ==
    /\ complete = {} /\ bad = {} /\ hashing = {} /\ verified = {} /\ present = TRUE
    /\ shared = <<>>
    /\ link = [c \in Peers |-> FALSE]
    /\ avail = [k \in Chunks |-> 0] /\ sources = 0 /\ seeds = 0
    /\ mask = [c \in Peers |-> Empty] /\ counted = [c \in Peers |-> FALSE]
    /\ choked = [c \in Peers |-> TRUE] /\ interested = [c \in Peers |-> FALSE]
    /\ range = [c \in Peers |-> NoChunk] /\ out = [c \in Peers |-> <<>>]
    /\ asking = NoPeer /\ added = <<>> /\ inHand = NoBlock
    /\ telling = NoChunk /\ untold = [c \in Peers |-> 0]
    /\ toPeer = [c \in Peers |-> <<>>] /\ fromPeer = [c \in Peers |-> <<>>]
    /\ has \in {h \in [Peers -> SUBSET Chunks] : \A c \in Peers : h[c] \in Starts[c]}
    /\ choking = [c \in Peers |-> TRUE] /\ requests = [c \in Peers |-> <<>>]
    /\ faults = MaxFaults

\* A packet of type t about x is on its way.
Under(s, t, b) == \E i \in DOMAIN s : s[i].type = t /\ s[i].x = b

Fault == faults > 0 /\ faults' = faults - 1

Idle == asking = NoPeer /\ telling = NoChunk

-----------------------------------------------------------------------------
(* PartData                                                                *)

\* m_locked, and the weak pointers that live.
Held(outs, hand) == UNION {Range(outs[c]) : c \in Peers} \cup ({hand} \ {NoBlock})
Locked == Held(out, inHand)
Free(k) == BlocksOf(k) \ (complete \cup Locked)

\* The chunks of a mask.
ChunksOf(m) == IF m = Empty THEN Chunks ELSE m

\* getRange() for a mask: what has something to lock and is available.
GetRange(m, av) == {k \in ChunksOf(m) : Free(k) # {} /\ av[k] > 0}
Offered(c) == GetRange(mask[c], avail)

\* addSourceMask() and addFullSource().
AddSourceMask(m) ==
    /\ avail' = [k \in Chunks |-> IF k \in ChunksOf(m) THEN avail[k] + 1 ELSE avail[k]]
    /\ sources' = sources + 1
    /\ seeds' = IF m = Empty THEN seeds + 1 ELSE seeds

\* The loop that lowers m_avail ends with an exception at a chunk that has none.
Lowered(ks) ==
    [k \in Chunks |-> IF k \in ks /\ \A j \in ks : j <= k => avail[j] > 0
                     THEN avail[k] - 1 ELSE avail[k]]

\* delSourceMask() and delFullSource(): nothing says that the mask is one that was added.
DelSourceMask(m) ==
    \/ sources = 0 /\ UNCHANGED counts
    \/ sources > 0 /\ m = Empty /\ seeds = 0 /\ sources' = sources - 1 /\ UNCHANGED <<avail, seeds>>
    \/ /\ sources > 0 /\ (m = Empty => seeds > 0)
       /\ sources' = sources - 1
       /\ seeds' = IF m = Empty THEN seeds - 1 ELSE seeds
       /\ avail' = Lowered(ChunksOf(m))

\* addAvail(): a last chunk that is shorter is not found.
AddAvail(k) ==
    /\ avail' = IF k \in Short THEN avail ELSE [avail EXCEPT ![k] = @ + 1]
    /\ UNCHANGED <<sources, seeds>>

\* A block is written; a chunk that gets complete is hashed.
Written(b, good) ==
    /\ complete' = complete \cup {b}
    /\ bad' = IF good THEN bad ELSE bad \cup {b}
    /\ hashing' = hashing \cup {k \in {ChunkOf(b)} : BlocksOf(k) \subseteq complete \cup {b}}
NotWritten == UNCHANGED <<complete, bad, hashing>>

-----------------------------------------------------------------------------
(* Torrent's shared requests                                               *)

\* The entries of s that are no hits: the n-th of them is where there are n.
Without(s, hits) ==
    LET kept(i) == Cardinality({j \in 1..i : s[j] \notin hits})
    IN  [n \in 1..kept(Len(s)) |->
            s[CHOOSE i \in DOMAIN s : s[i] \notin hits /\ kept(i) = n]]

\* The loop of delRequest() and clearRequests(): it goes back to begin() when it has
\* erased, and on from there, so that the new first entry is not looked at.
Sweep(s, hits) ==
    IF s # <<>> /\ Head(s) \in hits
    THEN LET t == Tail(s) IN IF t = <<>> THEN t ELSE <<Head(t)>> \o Without(Tail(t), hits)
    ELSE Without(s, hits)

\* What getRequest() comes to look at, and what it can use of that.
Looked(s) == (IF s[1] = Gone THEN 3 ELSE 1)..Len(s)
Usable(s, ks) == {i \in Looked(s) : s[i] # Gone /\ ChunkOf(s[i]) \in ks}

\* m_sharedReqs after getRequest(): what was expired before the request it took is
\* erased, and the request is the last.
Rotated(s, ks) ==
    IF Usable(s, ks) = {} THEN Sweep(s, {Gone})
    ELSE LET p == Min(Usable(s, ks))
         IN  Append(Sweep(SubSeq(s, 1, p - 1), {Gone}) \o SubSeq(s, p + 1, Len(s)), s[p])

\* Weak pointers to locks that are no more.
Expired(s, live) == [i \in DOMAIN s |-> IF s[i] \in live THEN s[i] ELSE Gone]

-----------------------------------------------------------------------------
(* Client                                                                  *)

Send(c, p) == toPeer' = [toPeer EXCEPT ![c] = Append(@, p)]

\* A packet of type t arrives at client c.
Arrives(c, t) ==
    /\ Idle /\ link[c] /\ fromPeer[c] # <<>> /\ Head(fromPeer[c]).type = t
    /\ fromPeer' = [fromPeer EXCEPT ![c] = Tail(@)]

\* sendRequests() begins, if it is called.
Ask(c, call) == asking' = IF call THEN c ELSE NoPeer

\* Mutation: the requests are kept.
OnChokeKept(c) ==
    /\ Arrives(c, "choke")
    /\ choked' = [choked EXCEPT ![c] = TRUE]
    /\ range' = [range EXCEPT ![c] = NoChunk]
    /\ UNCHANGED <<file, shared, link, mask, counted, interested, out, thread, toPeer,
                   peers, faults>>

OnChoke(c) ==
    /\ Arrives(c, "choke")
    /\ choked' = [choked EXCEPT ![c] = TRUE]
    /\ range' = [range EXCEPT ![c] = NoChunk]
    /\ out' = [out EXCEPT ![c] = <<>>]
    /\ shared' = Expired(shared, Held(out', inHand))
    /\ UNCHANGED <<file, link, mask, counted, interested, thread, toPeer, peers, faults>>

OnUnchoke(c) ==
    /\ Arrives(c, "unchoke")
    /\ choked' = [choked EXCEPT ![c] = FALSE]
    /\ Ask(c, interested[c] /\ present)
    /\ UNCHANGED <<file, shared, link, mask, counted, interested, range, out, added,
                   inHand, telling, untold, toPeer, peers, faults>>

\* Mutation: nothing is asked for.
OnHaveSilent(c) ==
    /\ Arrives(c, "have")
    /\ LET k == Head(fromPeer[c]).x IN
        /\ mask' = [mask EXCEPT ![c] = IF @ = Empty THEN @ ELSE @ \cup {k}]
        /\ IF present THEN AddAvail(k) ELSE UNCHANGED counts
        /\ interested' = [interested EXCEPT ![c] =
             @ \/ (present /\ ~(BlocksOf(k) \subseteq complete)
                      /\ GetRange(mask'[c], avail') # {})]
    /\ counted' = [counted EXCEPT ![c] = @ \/ present]
    /\ UNCHANGED <<data, shared, link, choked, range, out, thread, toPeer, peers, faults>>

\* An empty m_bitField stays empty.
OnHave(c) ==
    /\ Arrives(c, "have")
    /\ LET k == Head(fromPeer[c]).x IN
        /\ mask' = [mask EXCEPT ![c] = IF @ = Empty THEN @ ELSE @ \cup {k}]
        /\ IF present THEN AddAvail(k) ELSE UNCHANGED counts
        /\ interested' = [interested EXCEPT ![c] =
             @ \/ (present /\ ~(BlocksOf(k) \subseteq complete) /\ GetRange(mask'[c], avail') # {})]
        /\ Ask(c, present /\ interested'[c] /\ ~choked[c])
    /\ counted' = [counted EXCEPT ![c] = @ \/ present]
    /\ UNCHANGED <<data, shared, link, choked, range, out, added, inHand, telling, untold,
                   toPeer, peers, faults>>

OnBitfield(c) ==
    /\ Arrives(c, "bitfield")
    /\ LET ks == Head(fromPeer[c]).x
           m  == IF ks = Chunks THEN Empty ELSE ks
       IN  /\ mask' = [mask EXCEPT ![c] = m]
           /\ IF present THEN AddSourceMask(m) ELSE UNCHANGED counts
           /\ interested' = [interested EXCEPT ![c] = @ \/ (present /\ GetRange(m, avail') # {})]
    /\ counted' = [counted EXCEPT ![c] = @ \/ present]
    /\ UNCHANGED <<data, shared, link, choked, range, out, thread, toPeer, peers, faults>>

\* The answer is taken for one to the first request.  Data that was not asked for, or
\* no more, is written if nobody has it locked.
OnPiece(c) ==
    /\ Arrives(c, "piece")
    /\ LET p == Head(fromPeer[c])
           r == Head(out[c])
       IN  \/ /\ out[c] = <<>>
              /\ interested' = [interested EXCEPT ![c] = FALSE]
              /\ NotWritten /\ UNCHANGED <<shared, out, asking, inHand>>
           \/ /\ out[c] # <<>>
              /\ out' = [out EXCEPT ![c] = Tail(@)]
              /\ inHand' = r
              /\ shared' = Sweep(shared, {Gone, r})
              /\ IF p.x \notin complete /\ (p.x = r \/ p.x \notin Locked)
                 THEN Written(p.x, p.good)
                 ELSE NotWritten
              /\ Ask(c, TRUE)
              /\ UNCHANGED interested
    /\ UNCHANGED <<verified, present, counts, link, mask, counted, choked, range, added,
                   telling, untold, toPeer, peers, faults>>

-----------------------------------------------------------------------------
(* sendRequests()                                                          *)

Asking(c) == asking = c /\ present /\ Len(out[c]) < Window

AskRange(c) ==
    /\ Asking(c) /\ range[c] = NoChunk
    /\ \E k \in Offered(c) : range' = [range EXCEPT ![c] = k]
    /\ UNCHANGED <<file, shared, link, mask, counted, choked, interested, out, thread,
                   toPeer, fromPeer, peers, faults>>

\* getLock() finds nothing: the range is of no use any more.
AskNext(c) ==
    /\ Asking(c) /\ range[c] # NoChunk /\ Free(range[c]) = {}
    /\ range' = [range EXCEPT ![c] = NoChunk]
    /\ UNCHANGED <<file, shared, link, mask, counted, choked, interested, out, thread,
                   toPeer, fromPeer, peers, faults>>

\* The first block that can be locked is.  A slow source shares its request.
AskLock(c) ==
    /\ Asking(c) /\ range[c] # NoChunk /\ Free(range[c]) # {}
    /\ LET b == Min(Free(range[c])) IN
        /\ Send(c, Packet("request", b, TRUE))
        /\ out' = [out EXCEPT ![c] = Append(@, b)]
        /\ added' \in {added, Append(added, b)}
    /\ UNCHANGED <<file, shared, link, mask, counted, choked, interested, range, asking,
                   inHand, telling, untold, fromPeer, peers, faults>>

\* Nothing is free: the oldest request of another client that the peer can serve.
Shares(c) == shared # <<>> /\ Usable(shared, ChunksOf(mask[c])) # {}
AskShared(c) ==
    /\ Asking(c) /\ range[c] = NoChunk /\ Offered(c) = {} /\ Shares(c)
    /\ shared' = Rotated(shared, ChunksOf(mask[c]))
    /\ Last(shared') \notin Range(out[c])
    /\ Send(c, Packet("request", Last(shared'), TRUE))
    /\ out' = [out EXCEPT ![c] = Append(@, Last(shared'))]
    /\ UNCHANGED <<file, link, mask, counted, choked, interested, range, thread, fromPeer,
                   peers, faults>>

\* The window is full, or an exception ends the loop: there is nothing to share, or only
\* what we have asked for.  The new requests are shared, the last one first, and onPiece()
\* returns.
AskEnds(c) ==
    /\ asking = c
    /\ \/ /\ ~Asking(c)
          /\ shared' = Expired(shared \o Reverse(added), Held(out, NoBlock))
       \/ /\ Asking(c) /\ range[c] = NoChunk /\ Offered(c) = {}
          /\ Shares(c) => Last(Rotated(shared, ChunksOf(mask[c]))) \in Range(out[c])
          /\ shared' = Expired((IF shared = <<>> THEN <<>> ELSE Rotated(shared, ChunksOf(mask[c])))
                                  \o Reverse(added), Held(out, NoBlock))
    /\ interested' = [interested EXCEPT ![c] = @ /\ out[c] # <<>>]
    /\ asking' = NoPeer /\ added' = <<>> /\ inHand' = NoBlock
    /\ UNCHANGED <<file, link, mask, counted, choked, range, out, telling, untold, toPeer,
                   fromPeer, peers, faults>>

-----------------------------------------------------------------------------
(* What is verified, and what is not                                       *)

\* How often onVerified() is connected: setFile() is called by createClient(), and by
\* handshakeReceived() again, but only by addClient() for an incoming client.
Slots(c) == IF c \in Incoming THEN 1 ELSE 2

\* The chunk that clients are told of, while there is one of them left.
Told(rest, k) == IF \A c \in Peers : rest[c] = 0 THEN NoChunk ELSE k

\* The hash of a chunk is handled.  If it is right the torrent clears its shared requests
\* and the clients are told; if not, its data is discarded and nobody is told.
HashDone(k) ==
    /\ Idle /\ k \in hashing
    /\ hashing' = hashing \ {k}
    /\ \/ /\ BlocksOf(k) \cap bad = {}
          /\ verified' = verified \cup {k}
          /\ shared' = Sweep(shared, {Gone} \cup BlocksOf(k))
          /\ untold' = [c \in Peers |-> IF link[c] THEN Slots(c) ELSE 0]
          /\ telling' = Told(untold', k)
          /\ UNCHANGED <<complete, bad>>
       \/ /\ BlocksOf(k) \cap bad # {}
          /\ complete' = complete \ BlocksOf(k)
          /\ bad' = bad \ BlocksOf(k)
          /\ UNCHANGED <<verified, shared, untold, telling>>
    /\ UNCHANGED <<present, counts, clients, asking, added, inHand, toPeer, fromPeer, peers,
                   faults>>

\* Client::onVerified(): requests in the chunk are cancelled, others take their place.
OnVerified(c) ==
    /\ asking = NoPeer /\ untold[c] > 0
    /\ untold' = [untold EXCEPT ![c] = @ - 1]
    /\ telling' = Told(untold', telling)
    /\ LET gone == Without(out[c], Blocks \ BlocksOf(telling)) IN
        /\ out' = [out EXCEPT ![c] = Without(@, Range(gone))]
        /\ toPeer' = [toPeer EXCEPT ![c] =
             @ \o [i \in DOMAIN gone |-> Packet("cancel", gone[i], TRUE)]]
    /\ shared' = Expired(shared, Held(out', inHand))
    /\ Ask(c, interested[c] /\ ~choked[c])
    /\ UNCHANGED <<file, link, mask, counted, choked, interested, range, added, inHand,
                   fromPeer, peers, faults>>

\* The file was completed and moved; onDestroyed().
Finish ==
    /\ Idle /\ present /\ verified = Chunks
    /\ present' = FALSE
    /\ out' = [c \in Peers |-> <<>>] /\ range' = [c \in Peers |-> NoChunk]
    /\ shared' = Expired(shared, Held(out', inHand))
    /\ UNCHANGED <<complete, bad, hashing, verified, counts, link, mask, counted, choked,
                   interested, thread, toPeer, fromPeer, peers, faults>>

-----------------------------------------------------------------------------
(* Connections                                                             *)

\* createClient(), or an incoming connection, after the handshake.  The peer sends what
\* it has, unless that is nothing.
Connect(c) ==
    /\ Idle /\ present /\ ~link[c]
    /\ link' = [link EXCEPT ![c] = TRUE]
    /\ fromPeer' = [fromPeer EXCEPT ![c] =
         IF has[c] = {} THEN <<>> ELSE <<Packet("bitfield", has[c], TRUE)>>]
    /\ UNCHANGED <<file, shared, mask, counted, choked, interested, range, out, thread,
                   toPeer, peers, faults>>

\* Mutation: the requests of a client that is gone keep their locks.
DropKeepsLocks(c) ==
    /\ Idle /\ link[c]
    /\ link' = [link EXCEPT ![c] = FALSE]
    /\ IF present /\ counted[c] THEN DelSourceMask(mask[c]) ELSE UNCHANGED counts
    /\ mask' = [mask EXCEPT ![c] = Empty] /\ counted' = [counted EXCEPT ![c] = FALSE]
    /\ choked' = [choked EXCEPT ![c] = TRUE] /\ interested' = [interested EXCEPT ![c] = FALSE]
    /\ range' = [range EXCEPT ![c] = NoChunk]
    /\ toPeer' = [toPeer EXCEPT ![c] = <<>>] /\ fromPeer' = [fromPeer EXCEPT ![c] = <<>>]
    /\ choking' = [choking EXCEPT ![c] = TRUE] /\ requests' = [requests EXCEPT ![c] = <<>>]
    /\ UNCHANGED <<data, shared, out, thread, has>>

\* connectionLost() deletes the client; the peer does the same.
Drop(c) ==
    /\ Idle /\ link[c]
    /\ link' = [link EXCEPT ![c] = FALSE]
    /\ IF present /\ counted[c] THEN DelSourceMask(mask[c]) ELSE UNCHANGED counts
    /\ mask' = [mask EXCEPT ![c] = Empty] /\ counted' = [counted EXCEPT ![c] = FALSE]
    /\ choked' = [choked EXCEPT ![c] = TRUE] /\ interested' = [interested EXCEPT ![c] = FALSE]
    /\ range' = [range EXCEPT ![c] = NoChunk] /\ out' = [out EXCEPT ![c] = <<>>]
    /\ shared' = Expired(shared, Held(out', inHand))
    /\ toPeer' = [toPeer EXCEPT ![c] = <<>>] /\ fromPeer' = [fromPeer EXCEPT ![c] = <<>>]
    /\ choking' = [choking EXCEPT ![c] = TRUE] /\ requests' = [requests EXCEPT ![c] = <<>>]
    /\ UNCHANGED <<data, thread, has>>

Lost(c) == Fault /\ Drop(c)

\* Nothing was received or sent for 140 seconds: nothing is on its way, and nothing that
\* the peer could send.  (Who waits for a slot may lose the connection too: Lost.)
Silent(c) ==
    /\ toPeer[c] = <<>> /\ fromPeer[c] = <<>>
    /\ requests[c] # <<>> => ChunkOf(Head(requests[c])) \notin has[c]
TimedOut(c) == Silent(c) /\ ~(interested[c] /\ choking[c]) /\ Drop(c) /\ UNCHANGED faults

-----------------------------------------------------------------------------
(* The peer's half                                                         *)

\* sendNextChunk() of a peer whose m_requests are rs: data that it does not have is not
\* sent, and the request stays the first.
Serve(c, rs) ==
    \E good \in BOOLEAN :
        /\ ChunkOf(Head(rs)) \in has[c]
        /\ IF good THEN UNCHANGED faults ELSE Fault
        /\ fromPeer' = [fromPeer EXCEPT ![c] = Append(@, Packet("piece", Head(rs), good))]
        /\ requests' = [requests EXCEPT ![c] = Tail(rs)]

\* onRequest().  The first one is served at once if the socket is writable.
PeerOnRequest(c) ==
    /\ link[c] /\ toPeer[c] # <<>> /\ Head(toPeer[c]).type = "request"
    /\ toPeer' = [toPeer EXCEPT ![c] = Tail(@)]
    /\ LET rs == Append(requests[c], Head(toPeer[c]).x) IN
        \/ choking[c] /\ UNCHANGED <<requests, fromPeer, faults>>
        \/ ~choking[c] /\ requests' = [requests EXCEPT ![c] = rs] /\ UNCHANGED <<fromPeer, faults>>
        \/ ~choking[c] /\ Len(rs) = 1 /\ Serve(c, rs)
    /\ UNCHANGED <<file, shared, clients, thread, has, choking>>

\* onCancel().
PeerOnCancel(c) ==
    /\ link[c] /\ toPeer[c] # <<>> /\ Head(toPeer[c]).type = "cancel"
    /\ toPeer' = [toPeer EXCEPT ![c] = Tail(@)]
    /\ requests' = [requests EXCEPT ![c] = Without(@, {Head(toPeer[c]).x})]
    /\ UNCHANGED <<file, shared, clients, thread, fromPeer, has, choking, faults>>

\* The socket is writable.
PeerSends(c) ==
    /\ link[c] /\ requests[c] # <<>>
    /\ Serve(c, requests[c])
    /\ UNCHANGED <<file, shared, clients, thread, toPeer, has, choking>>

\* sendUnchoke(), by the peer's tryUnchoke(), which another client's sendChoke() calls too:
\* requests, and the choke before it, may still be on their way.
PeerUnchokes(c) ==
    /\ link[c] /\ choking[c]
    /\ choking' = [choking EXCEPT ![c] = FALSE]
    /\ fromPeer' = [fromPeer EXCEPT ![c] = Append(@, Packet("unchoke", 0, TRUE))]
    /\ UNCHANGED <<file, shared, clients, thread, toPeer, has, requests, faults>>

\* sendChoke(), if it is another's turn.
PeerChokes(c) ==
    /\ Fault
    /\ link[c] /\ ~choking[c]
    /\ choking' = [choking EXCEPT ![c] = TRUE]
    /\ requests' = [requests EXCEPT ![c] = <<>>]
    /\ fromPeer' = [fromPeer EXCEPT ![c] = Append(@, Packet("choke", 0, TRUE))]
    /\ UNCHANGED <<file, shared, clients, thread, toPeer, has>>

\* The peer's onVerified(), sendHave(): twice if it was the peer that connected, as its
\* client is an outgoing one then.
PeerGains(c) ==
    /\ \E k \in Gains[c] \ has[c] :
        /\ has' = [has EXCEPT ![c] = @ \cup {k}]
        /\ fromPeer' = [fromPeer EXCEPT ![c] =
             IF link[c] THEN @ \o [i \in 1..3 - Slots(c) |-> Packet("have", k, TRUE)] ELSE @]
    /\ UNCHANGED <<file, shared, clients, thread, toPeer, choking, requests, faults>>

-----------------------------------------------------------------------------
Client(c) == OnChoke(c) \/ OnUnchoke(c) \/ OnHave(c) \/ OnBitfield(c) \/ OnPiece(c)
SendRequests(c) == AskRange(c) \/ AskNext(c) \/ AskLock(c) \/ AskShared(c) \/ AskEnds(c)
Peer(c) ==
    \/ PeerOnRequest(c) \/ PeerOnCancel(c) \/ PeerSends(c)
    \/ PeerUnchokes(c) \/ PeerChokes(c) \/ PeerGains(c)

\* Bound: peers act while the main thread is idle.  Their steps commute with ours, which
\* only append to toPeer and read nothing of theirs.
Next ==
    \/ \E c \in Peers : Client(c) \/ SendRequests(c) \/ OnVerified(c) \/ (Idle /\ Peer(c))
    \/ \E c \in Peers : Connect(c) \/ Lost(c) \/ TimedOut(c)
    \/ \E k \in Chunks : HashDone(k)
    \/ Finish

Spec == Init /\ [][Next]_vars

\* The hasher answers, and each connection goes on: our handlers run, a peer reads what
\* arrives, sends what it was asked for and gives us a slot if we want one; what is
\* silent is timed out, and the tracker finds the peer again.
GoesOn(c) ==
    \/ Client(c) \/ SendRequests(c) \/ OnVerified(c) \/ Connect(c) \/ TimedOut(c)
    \/ Idle /\ (PeerOnRequest(c) \/ PeerOnCancel(c) \/ PeerSends(c))
    \/ Idle /\ interested[c] /\ PeerUnchokes(c)
FairSpec ==
    /\ Spec
    /\ WF_vars(\E k \in Chunks : HashDone(k)) /\ WF_vars(Finish)
    /\ \A c \in Peers : WF_vars(GoesOn(c))

-----------------------------------------------------------------------------
(* Properties                                                              *)

\* A request that waits for its answer gets one: it is on its way, in the peer's queue,
\* or answered; or the peer's choke, which takes it back, is on its way.
NoStall ==
    \A c \in Peers : \A b \in Range(out[c]) :
        \/ Under(toPeer[c], "request", b)
        \/ b \in Range(requests[c])
        \/ Under(fromPeer[c], "piece", b)
        \/ Under(fromPeer[c], "choke", 0)

\* A peer is asked only for what it has.
AsksWhatItHas ==
    \A c \in Peers : \A b \in Range(out[c]) : ChunkOf(b) \in has[c]

\* Who may ask and wants to is asking.
NeverIdle ==
    Idle /\ present => \A c \in Peers : interested[c] /\ ~choked[c] => out[c] # <<>>

\* Nobody asks for what is verified.
NothingVerifiedAsked ==
    Idle => \A c \in Peers : \A b \in Range(out[c]) : ChunkOf(b) \notin verified

\* What a peer has announced is available.
AnnouncedIsAvailable ==
    present => \A c \in Peers : counted[c] => \A k \in ChunksOf(mask[c]) : avail[k] > 0

\* A torrent with a seed gets complete, if the counts of its sources come out right.
Completes == []AnnouncedIsAvailable => <>(verified = Chunks)

=============================================================================
