--------------------------- MODULE DonkeyClients ---------------------------
(***************************************************************************)
(* The clients of the eDonkey2000 module (hncore/ed2k: clients.cpp,        *)
(* clientext.cpp, clientlist.cpp, downloadlist.cpp): the remote clients we *)
(* know, what each is kept for, the upload slots and the queue for them,   *)
(* and one file that they offer and ask for.                               *)
(*                                                                         *)
(* A handler is an operator from the state s, a record, to the state after *)
(* it; what the network, the clock and the disk decide is an argument of   *)
(* it.  All runs in the main thread.  A client is kept while it has a      *)
(* purpose: it is a source (src), we download from it (dl), it waits for a *)
(* slot (q), it has one (up).                                              *)
(*                                                                         *)
(* Data is left out: parts and chunks, names, credits, queue ranks.  The   *)
(* features of a peer (UDP, identification, old protocols) are free, and   *)
(* so are pauses of the file, time and m_failedUdpReasks: a delayed event  *)
(* or a timed callback that finds something to do may come whenever it     *)
(* does, and whether we have asked, recently, or often enough over UDP, is *)
(* a choice.                                                               *)
(***************************************************************************)
EXTENDS Naturals, Sequences, FiniteSets

CONSTANTS Clients,    \* addresses of Client objects
          Peers,      \* the remote clients: their ID and TCP port
          Unknown,    \* the address of a connection that was accepted
          Slots,      \* getSlotCount()
          MaxEvents,  \* bound: events in m_pending when a peer or a timer acts
          MaxQueue    \* bound: entries in m_queue when a peer or a timer acts

ASSUME DonkeyAssumption ==
    /\ IsFiniteSet(Clients)
    /\ Unknown \notin Peers
    /\ Slots \in Nat \ {0}
    /\ MaxEvents \in Nat /\ MaxQueue \in Nat

VARIABLES
    s,        \* the clients, the events, the slots, the queue: see State
    download, \* whether the file has a Download: it is partial, and not stopped
    shared,   \* whether MetaDb finds the SharedFile
    low       \* the peers, and "self", that have a low ID
vars == <<s, download, shared, low>>

EventSet == {"destroy", "uploadreq", "cancel", "callback", "reask", "timeout"}

ClientSet == [
    exists : BOOLEAN,                        \* it is in m_clients
    id     : Peers \cup {Unknown},
    udp    : BOOLEAN,                        \* m_udpPort may be set
    sock   : {"none", "connecting", "open", "up"},  \* m_socket; "open": SOCK_CONNECTED
                                             \* has not arrived yet
    src    : {"none", "live", "stale"},      \* m_sourceInfo; its Download is gone
    dl : BOOLEAN, q : BOOLEAN, up : BOOLEAN, \* m_downloadInfo, m_queueInfo, m_uploadInfo
    cb     : BOOLEAN,                        \* m_callbackInProgress
    sess   : SUBSET {"alive", "req", "hello"} ] \* m_sessionState, m_sentReq, m_gotHello

State == [
    cl        : [Clients -> ClientSet],
    events    : Seq(Clients \X EventSet),    \* m_pending of the clients' table
    uploading : SUBSET Clients,
    queued    : SUBSET Clients,
    queue     : Seq(Clients),
    sources   : SUBSET Clients ]             \* Download::m_sources

TypeOK ==
    /\ s \in State
    /\ download \in BOOLEAN /\ shared \in BOOLEAN
    /\ low \in SUBSET (Peers \cup {"self"})

\* A new client has no purpose yet.
Fresh(exists) == [
    exists |-> exists, id |-> Unknown, udp |-> FALSE, sock |-> "none", src |-> "none",
    dl |-> FALSE, q |-> FALSE, up |-> FALSE, cb |-> FALSE, sess |-> {}]

Init ==
    /\ s = [cl |-> [c \in Clients |-> Fresh(FALSE)], events |-> <<>>, uploading |-> {},
            queued |-> {}, queue |-> <<>>, sources |-> {}]
    /\ download \in BOOLEAN /\ shared = TRUE
    /\ low \in SUBSET (Peers \cup {"self"})

HasPurpose(p) == p.src # "none" \/ p.dl \/ p.q \/ p.up
IsConnected(t, c) == t.cl[c].sock \in {"open", "up"}
IsLow(t, c) == t.cl[c].id \in low

-----------------------------------------------------------------------------
(* Steps of the handlers                                                   *)

Set(t, c, p)      == [t EXCEPT !.cl[c] = p]
Post(t, c, evt)   == [t EXCEPT !.events = Append(@, <<c, evt>>)]

\* ~SourceInfo: the Download, if there is one still, forgets the client.
DropSource(t, c) ==
    [t EXCEPT !.cl[c].src = "none",
              !.sources = IF t.cl[c].src = "live" THEN @ \ {c} ELSE @]

Destroy(t, c) ==
    LET gone == DropSource(Post(t, c, "destroy"), c)
    IN  [gone EXCEPT !.cl[c].sock = "none", !.cl[c].dl = FALSE,
                     !.cl[c].q = FALSE, !.cl[c].up = FALSE]

CheckDestroy(t, c) == IF HasPurpose(t.cl[c]) THEN t ELSE Destroy(t, c)

\* ok: the address can be connected to, or the server asked for a callback.
Establish(t, c, ok) ==
    IF t.cl[c].sock # "none" THEN t
    ELSE IF ~ok \/ (IsLow(t, c) /\ "self" \in low) THEN Destroy(t, c)
    ELSE IF IsLow(t, c) THEN [t EXCEPT !.cl[c].cb = TRUE]
    ELSE [t EXCEPT !.cl[c].sock = "connecting", !.cl[c].sess = {"alive"}]

\* What reqDownload() checks; a failed check is an exception.
ReqThrows(t, c) ==
    t.cl[c].src # "live" \/ ~IsConnected(t, c) \/ t.cl[c].sess = {}
ReqDownload(t, c) == [t EXCEPT !.cl[c].sess = @ \cup {"req"}]

AddOffered(t, c, doConn, ok) ==
    LET new == [t EXCEPT !.cl[c].src = "live", !.sources = @ \cup {c}]
    IN  IF t.cl[c].src # "none" THEN t
        ELSE IF IsConnected(new, c) /\ ~new.cl[c].dl
             THEN IF ReqThrows(new, c) THEN new ELSE ReqDownload(new, c)
        ELSE IF doConn THEN Establish(new, c, ok)
        ELSE new

\* Mutant of RemOffered: whether anything is left to keep the client for is not
\* asked.
RemOfferedOnly(t, c) == [DropSource(t, c) EXCEPT !.cl[c].dl = FALSE]

RemOffered(t, c) ==
    CheckDestroy([DropSource(t, c) EXCEPT !.cl[c].dl = FALSE], c)

\* Mutant of LostConnection: a client that is kept keeps its transfers.
LostOnly(t, c, why) ==
    LET off == [t EXCEPT !.cl[c].sock = "none", !.cl[c].sess = {}]
    IN  IF HasPurpose(t.cl[c]) /\ why = "kept" THEN off ELSE Destroy(off, c)

\* A connection that was being used, or set up, is no more.  why: we never asked
\* for the file ("unasked"), asking over UDP failed three times ("tried"), an
\* answer is due ("requested"), or none of it ("kept").
LostConnection(t, c, why) ==
    LET p     == t.cl[c]
        src   == p.src # "none"
        off   == [t EXCEPT !.cl[c].sock = "none"]
        then  ==
            IF \/ ~p.q /\ src /\ why = "unasked"
               \/ ~p.q /\ ~src
               \/ why = "tried"
            THEN Destroy(off, c)
            ELSE IF p.dl \/ (src /\ why = "requested")
            THEN off
            ELSE IF p.up
            THEN Post([off EXCEPT !.cl[c].q = TRUE], c, "uploadreq")
            ELSE IF \/ src /\ "alive" \in p.sess /\ "req" \notin p.sess /\ ~p.q
                    \/ "alive" \in p.sess /\ "hello" \notin p.sess
            THEN Destroy(off, c)
            ELSE off
    IN  [then EXCEPT !.cl[c].dl = FALSE, !.cl[c].up = FALSE, !.cl[c].sess = {}]

\* how: data goes out, now or later, or nothing was asked for yet ("go"); an
\* "error"; all that was asked for has been sent, and the connection ends.
SendNextChunk(t, c, how) ==
    LET p == t.cl[c]
        end == Post([t EXCEPT !.cl[c].up = FALSE, !.cl[c].q = FALSE], c, "cancel")
        cut == IF p.dl THEN end ELSE LostConnection(end, c, how)
    IN  IF p.up /\ ~p.q /\ IsConnected(t, c) /\ how # "error"
        THEN IF how = "go" THEN t
             ELSE IF cut.cl[c].src = "none" THEN Destroy(cut, c) ELSE cut
        ELSE IF p.up THEN Post([t EXCEPT !.cl[c].up = FALSE, !.cl[c].q = TRUE], c, "uploadreq")
        ELSE CheckDestroy(t, c)

\* It throws without a QueueInfo, whose file UploadInfo takes.
StartThrows(t, c) == ~t.cl[c].up /\ ~t.cl[c].q
StartUpload(t, c, how, ok) ==
    LET on == [t EXCEPT !.cl[c].up = TRUE, !.cl[c].q = FALSE]
    IN  IF ~IsConnected(t, c) THEN Establish(on, c, ok)
        ELSE IF t.cl[c].up THEN SendNextChunk(on, c, how)
        ELSE on

\* hs: the peer is asked to identify itself before the transfers start.
HandshakeCompleted(t, c, hs, how, ok) ==
    LET up == IF t.cl[c].up THEN StartUpload(t, c, how, ok) ELSE t
    IN  IF hs THEN t
        ELSE IF up.cl[c].src = "none" \/ up.cl[c].dl THEN up
        ELSE IF ReqThrows(up, c) THEN Destroy(up, c)
        ELSE ReqDownload(up, c)

\* m_queueInfo, m_sourceInfo, m_uploadInfo and m_downloadInfo of c go to j where
\* j has none.  The Download is not told.
Merge(t, j, c) ==
    LET pj == t.cl[j]
        pc == t.cl[c]
        takes == pj.src = "none" /\ pc.src # "none"
        joined == [pj EXCEPT
            !.sock  = IF pc.sock # "none" THEN pc.sock ELSE @,
            !.sess  = IF pc.sock # "none" THEN pc.sess ELSE @,
            !.src   = IF takes THEN pc.src ELSE @,
            !.q     = @ \/ pc.q, !.up = @ \/ pc.up, !.dl = @ \/ pc.dl,
            !.cb = FALSE, !.udp = @ \/ pc.udp]
        left == [pc EXCEPT !.sock = "none", !.src = IF takes THEN "none" ELSE @]
    IN  Set(Set(t, j, joined), c, left)

\* The client says that its ID is p.  If we know p, the two become one.
OnIdChange(t, c, p, hs, how, ok) ==
    LET named == [t EXCEPT !.cl[c].id = p]
        same  == {j \in Clients \ {c} : t.cl[j].exists /\ t.cl[j].id = p}
        go(u, k) ==
            HandshakeCompleted([u EXCEPT !.uploading = IF u.cl[k].up THEN @ \cup {k} ELSE @],
                               k, hs, how, ok)
    IN  IF same = {} THEN go(named, c)
        ELSE LET j == CHOOSE k \in same : TRUE
             IN  IF t.cl[j].sock # "none" /\ t.cl[c].sock # "none"
                 THEN Destroy(named, c)
                 ELSE go(Destroy(Merge(named, j, c), c), j)

\* The peer wants the file.
OnUploadReq(t, c, how, ok) ==
    IF t.cl[c].up THEN StartUpload(t, c, how, ok)
    ELSE Post([t EXCEPT !.cl[c].q = TRUE], c, "uploadreq")

\* by: what is left to ask with.
ReaskForDownload(t, c, by, recent, ok) ==
    IF recent THEN t
        ELSE IF ~IsConnected(t, c) /\ "self" \in low /\ IsLow(t, c) THEN Destroy(t, c)
        ELSE IF IsConnected(t, c)
        THEN IF ReqThrows(t, c) THEN Destroy(t, c) ELSE ReqDownload(t, c)
        ELSE IF by = "udp" /\ ~IsLow(t, c)
        THEN IF t.cl[c].src = "stale" THEN Destroy(t, c) ELSE t
        ELSE Establish(t, c, ok)

-----------------------------------------------------------------------------
(* The list of clients                                                     *)

\* x, and n times what step makes of it.
Loop(step, x, n) ==
    LET after[k \in Nat] == IF k = 0 THEN x ELSE step[after[k - 1]] IN after[n]

\* t after the function step[c] for each c of cs, one after the other.
ForEach(step, t, cs) ==
    LET visit(r) ==
            LET c == CHOOSE c \in r.left : TRUE
            IN  IF r.left = {} THEN r
                ELSE [state |-> step[c][r.state], left |-> r.left \ {c}]
        rounds == [state : State, left : SUBSET cs]
    IN  Loop([r \in rounds |-> visit(r)], [state |-> t, left |-> cs], Cardinality(cs)).state

\* The entries of a list that are not among the hits.
Without(list, hits) ==
    LET kept[n \in Nat] ==
            IF n = 0 THEN <<>>
            ELSE IF list[n] \in hits THEN kept[n - 1]
            ELSE Append(kept[n - 1], list[n])
    IN  kept[Len(list)]

\* One round of startNextUpload(): the first of the queue gets a slot, if it is
\* still to be served.
ServeFirst(t, ok) ==
    LET c    == Head(t.queue)
        rest == [t EXCEPT !.queue = Tail(@), !.queued = @ \ {c}]
        on   == StartUpload(rest, c, "go", ok[c])
    IN  IF t.queue = <<>> \/ Cardinality(t.uploading) >= Slots THEN t
        ELSE IF c \in t.queued /\ t.cl[c].q
        THEN [on EXCEPT !.uploading = @ \cup {c}]
        ELSE rest

\* A slot for each client in the order of the queue, while there are slots.
StartNextUpload(t, ok) ==
    Loop([u \in State |-> ServeFirst(u, ok)], t, Len(t.queue))

FillSlots(t, ok) ==
    IF Cardinality(t.uploading) < Slots THEN StartNextUpload(t, ok) ELSE t

\* Mutant of RemoveClient: the queue is not told.
RemoveUnqueued(t, c, ok) ==
    FillSlots([DropSource(t, c) EXCEPT
        !.cl[c] = Fresh(FALSE), !.uploading = @ \ {c},
        !.events = Without(@, {c} \X EventSet)], ok)

\* Its events and timers are not valid any more.
RemoveClient(t, c, ok) ==
    LET gone == DropSource(t, c)
    IN  FillSlots([gone EXCEPT
            !.cl[c] = Fresh(FALSE), !.uploading = @ \ {c}, !.queued = @ \ {c},
            !.events = Without(@, {c} \X EventSet)], ok)

\* m_queue anew, ranked, with those that asked within the hour; the others stay
\* in m_queued, and lose their place if they are no source.
UpdateQueue(t, late, order) ==
    LET drop == {c \in t.queued \cap late : t.cl[c].q /\ t.cl[c].src = "none"}
        removeFromQueue == [c \in Clients |-> [u \in State |->
            CheckDestroy(Post([u EXCEPT !.cl[c].q = FALSE], c, "cancel"), c)]]
    IN  [ForEach(removeFromQueue, t, drop) EXCEPT
            !.queue = Without(order, late \cup {c \in Clients : ~t.cl[c].q})]

OnUploadReqEvent(t, c, how, ok) ==
    LET off == [t EXCEPT !.uploading = @ \ {c}]
        on  == StartUpload(off, c, how, ok[c])
    IN  IF Cardinality(off.uploading) < Slots
        THEN IF off.queued # {} THEN off
             ELSE IF StartThrows(off, c) THEN FillSlots(off, ok)
             ELSE [on EXCEPT !.uploading = @ \cup {c}]
        ELSE IF c \in off.queued THEN off
        ELSE [off EXCEPT !.queued = @ \cup {c}, !.queue = Append(@, c)]

\* onClientEvent()
OnClientEvent(t, c, evt, how, by, recent, ok) ==
    LET p == t.cl[c]
    IN  CASE evt = "destroy"   -> RemoveClient(t, c, ok)
          [] evt = "uploadreq" -> OnUploadReqEvent(t, c, how, ok)
          [] evt = "cancel"    -> FillSlots([t EXCEPT !.uploading = @ \ {c},
                                                      !.queued = @ \ {c}], ok)
          [] evt = "callback"  -> IF p.cb /\ ~IsConnected(t, c)
                                  THEN RemoveClient(t, c, ok) ELSE t
          [] evt = "reask"     -> IF p.src # "none" /\ ~p.dl
                                  THEN ReaskForDownload(t, c, by, recent, ok[c]) ELSE t
          [] evt = "timeout"   -> IF p.src # "none" /\ ~IsConnected(t, c) /\ by = "tcp"
                                  THEN Establish(t, c, ok[c]) ELSE t

-----------------------------------------------------------------------------
(* The main loop: events, timers                                           *)

Hows == {"go", "error"}
Ends == {"unasked", "tried", "requested", "kept"}
Oks  == [Clients -> BOOLEAN]
Bys  == {"udp", "tcp"}
Room == Len(s.events) < MaxEvents /\ Len(s.queue) < MaxQueue
Becomes(t) == s' = t /\ UNCHANGED <<download, shared, low>>

Dispatch ==
    /\ s.events # <<>>
    /\ \E t \in {OnClientEvent([s EXCEPT !.events = Tail(@)],
                     Head(s.events)[1], Head(s.events)[2], how, by, recent, ok) :
                   how \in Hows, by \in Bys, recent \in BOOLEAN, ok \in Oks} :
        Becomes(t)

\* Delayed events that find what they are for, and timed callbacks.
CallbackDue(c) == Len(s.events) < MaxEvents /\ s.cl[c].cb /\ Becomes(Post(s, c, "callback"))
ReaskDue(c)    == Room /\ s.cl[c].src # "none" /\ Becomes(Post(s, c, "reask"))
TimeoutDue(c)  == Room /\ s.cl[c].src # "none" /\ Becomes(Post(s, c, "timeout"))
ResendDue(c) ==
    /\ Room /\ s.cl[c].exists
    /\ \E how \in Hows : Becomes(SendNextChunk(s, c, how))
ReconnectDue(c) ==
    /\ Room /\ s.cl[c].exists
    /\ \E ok \in BOOLEAN : Becomes(Establish(s, c, ok))

RegenQueue ==
    /\ Len(s.events) < MaxEvents
    /\ \E late \in SUBSET s.queued :
       \E order \in {q \in [1..Cardinality(s.queued) -> s.queued] :
                        \A c \in s.queued : \E i \in DOMAIN q : q[i] = c} :
        Becomes(UpdateQueue(s, late, order))

-----------------------------------------------------------------------------
(* Connections and other clients                                           *)

\* A connection is accepted.
Accept(c) ==
    /\ ~s.cl[c].exists /\ Room
    /\ Becomes(Set(s, c, [Fresh(TRUE) EXCEPT !.sock = "up", !.sess = {"alive"}]))

Known(p) == {c \in Clients : s.cl[c].exists /\ s.cl[c].id = p}

\* Another module, or a peer, says where a client is.
AddClient(c, p) ==
    /\ Room
    /\ \E ok \in BOOLEAN :
        \/ c \in Known(p) /\ Becomes(Establish(s, c, ok))
        \/ /\ Known(p) = {} /\ ~s.cl[c].exists /\ ok /\ p \notin low
           /\ Becomes(Set(s, c, [Fresh(TRUE) EXCEPT
                !.id = p, !.sock = "connecting", !.sess = {"alive"}]))

\* The server, or a peer, names a source.
AddSource(c, p) ==
    /\ download /\ Room
    /\ \E ok, doConn \in BOOLEAN :
        \/ c \in Known(p) /\ Becomes(AddOffered(s, c, doConn, ok))
        \/ /\ Known(p) = {} /\ ~s.cl[c].exists
           /\ LET new == AddOffered(Set(s, c, [Fresh(TRUE) EXCEPT !.id = p]),
                                    c, FALSE, ok)
              IN  Becomes(IF doConn THEN Establish(new, c, ok) ELSE new)

Opened(c) ==
    /\ s.cl[c].sock = "connecting" /\ Room
    /\ Becomes([s EXCEPT !.cl[c].sock = "open"])

\* SOCK_CONNECTED
Connected(c) ==
    /\ s.cl[c].sock = "open" /\ Room
    /\ Becomes([s EXCEPT !.cl[c].sock = "up", !.cl[c].sess = {"alive"}])

ConnFailed(c) ==
    /\ s.cl[c].sock = "connecting" /\ Room
    /\ Becomes(Destroy(s, c))

\* SOCK_TIMEOUT, SOCK_LOST, SOCK_ERR
Lost(c) ==
    /\ s.cl[c].sock \in {"connecting", "up"} /\ Room
    /\ \E why \in Ends : Becomes(LostConnection(s, c, why))

\* SOCK_WRITE
Writable(c) ==
    /\ s.cl[c].sock = "up" /\ s.cl[c].up /\ Room
    /\ \E how \in Hows \cup Ends : Becomes(SendNextChunk(s, c, how))

-----------------------------------------------------------------------------
(* Packets over TCP.  What a handler throws ends in destroy().             *)

Packet(c) == s.cl[c].sock = "up" /\ Room

\* Hello and HelloAnswer
Hello(c) ==
    /\ Packet(c)
    /\ \E p \in Peers, hs, ok \in BOOLEAN, how \in Hows :
        Becomes(IF s.cl[c].sess = {} THEN Destroy(s, c)
                ELSE OnIdChange([s EXCEPT !.cl[c].sess = @ \cup {"hello"}, !.cl[c].udp = TRUE],
                                c, p, hs, how, ok))

ChangeId(c) ==
    /\ Packet(c)
    /\ \E p \in Peers, hs, ok \in BOOLEAN, how \in Hows :
        Becomes(OnIdChange(s, c, p, hs, how, ok))

\* Signature, MuleInfo: what the handshake waited for.
Identified(c) ==
    /\ Packet(c)
    /\ \E ok \in BOOLEAN, how \in Hows :
        Becomes(HandshakeCompleted(s, c, FALSE, how, ok))

\* Anything that cannot be parsed.
Garbage(c) == Packet(c) /\ Becomes(Destroy(s, c))

ReqFile(c) ==
    /\ Packet(c) /\ shared /\ s.cl[c].src = "none"
    /\ LET new == [s EXCEPT !.cl[c].src = "live", !.sources = @ \cup {c}]
       IN  Becomes(IF ~download THEN Destroy(s, c)
                   ELSE IF ReqThrows(new, c) THEN Destroy(new, c)
                   ELSE ReqDownload(new, c))

SetReqFileId(c) ==
    /\ Packet(c) /\ shared /\ ~s.cl[c].up /\ ~s.cl[c].q
    /\ Becomes(Post([s EXCEPT !.cl[c].q = TRUE], c, "uploadreq"))

StartUploadReq(c) ==
    /\ Packet(c) /\ shared
    /\ \E ok \in BOOLEAN, how \in Hows : Becomes(OnUploadReq(s, c, how, ok))

ReqChunks(c) ==
    /\ Packet(c)
    /\ \E how \in Hows \cup Ends :
        Becomes(IF s.cl[c].up THEN SendNextChunk(s, c, how) ELSE Destroy(s, c))

CancelTransfer(c) ==
    /\ Packet(c)
    /\ LET off == [s EXCEPT !.cl[c].up = FALSE, !.cl[c].q = FALSE]
       IN  Becomes(IF s.cl[c].src = "none" THEN Destroy(off, c) ELSE Post(off, c, "cancel"))

\* FileName and FileStatus name a file we may want.
FileStatus(c) ==
    /\ Packet(c) /\ download
    /\ Becomes(AddOffered(s, c, TRUE, FALSE))

NoFile(c) ==
    /\ Packet(c) /\ s.cl[c].src = "live" /\ download
    /\ Becomes(RemOffered(s, c))

QueueRanking(c) ==
    /\ Packet(c)
    /\ Becomes(IF s.cl[c].src = "none" THEN Destroy(s, c)
               ELSE [s EXCEPT !.cl[c].dl = FALSE])

AcceptUploadReq(c) ==
    /\ Packet(c) /\ s.cl[c].src # "none"
    /\ \E running \in BOOLEAN :
        Becomes(IF s.cl[c].src = "live" /\ running
                THEN [s EXCEPT !.cl[c].dl = TRUE,
                         !.cl[c].sess = IF @ = {} THEN @ ELSE @ \cup {"req"}]
                ELSE [s EXCEPT !.cl[c].dl = FALSE])

\* DataChunk and PackedChunk, which nobody asked for or of a paused file; the
\* others change nothing here.
DataChunk(c) ==
    /\ Packet(c)
    /\ Becomes(IF s.cl[c].dl THEN [s EXCEPT !.cl[c].dl = FALSE] ELSE Destroy(s, c))

-----------------------------------------------------------------------------
(* Packets over UDP, which need no connection                              *)

\* findClientByUdp(): its ID is the sender's address, and its port the sender's.  A low
\* ID is no address, and a Hello is what tells the port.
Datagram(c) ==
    /\ s.cl[c].exists /\ s.cl[c].id \in Peers \ low /\ s.cl[c].udp
    /\ Room

ReaskFilePing(c) ==
    /\ Datagram(c) /\ ~s.cl[c].q
    /\ \E ok \in BOOLEAN, how \in Hows :
        LET asks == IF shared THEN OnUploadReq(s, c, how, ok) ELSE s
        IN  Becomes(IF download THEN AddOffered(asks, c, TRUE, ok) ELSE asks)

FileNotFound(c) ==
    /\ Datagram(c) /\ s.cl[c].src # "none"
    /\ Becomes(RemOffered(s, c))

-----------------------------------------------------------------------------
(* The file                                                                *)

\* PD_STOPPED, PD_DESTROY: the Download lets go of its sources, those it knows.
DownloadGone ==
    /\ download /\ Room
    /\ download' = FALSE
    /\ LET remOffered == [c \in Clients |-> [t \in State |-> RemOffered(t, c)]]
           off == ForEach(remOffered, s, {c \in s.sources : s.cl[c].exists})
           stale(p) == IF p.src = "live" THEN [p EXCEPT !.src = "stale"] ELSE p
       IN  s' = [off EXCEPT !.sources = {}, !.cl = [c \in Clients |-> stale(@[c])]]
    /\ UNCHANGED <<shared, low>>

\* SF_DESTROY
FileGone ==
    /\ shared /\ Room
    /\ shared' = FALSE
    /\ LET off == [c \in Clients |-> [t \in State |->
                      CheckDestroy([t EXCEPT !.cl[c].q = FALSE, !.cl[c].up = FALSE], c)]]
       IN  s' = ForEach(off, s, {c \in Clients : s.cl[c].exists})
    /\ UNCHANGED <<download, low>>

-----------------------------------------------------------------------------
PacketFrom(c) ==
    \/ Hello(c) \/ ChangeId(c) \/ Identified(c) \/ Garbage(c)
    \/ ReqFile(c) \/ SetReqFileId(c) \/ StartUploadReq(c) \/ ReqChunks(c) \/ CancelTransfer(c)
    \/ FileStatus(c) \/ NoFile(c) \/ QueueRanking(c) \/ AcceptUploadReq(c)
    \/ DataChunk(c)
    \/ ReaskFilePing(c) \/ FileNotFound(c)

Next ==
    \/ Dispatch \/ RegenQueue
    \/ \E c \in Clients :
        \/ CallbackDue(c) \/ ReaskDue(c) \/ TimeoutDue(c) \/ ResendDue(c) \/ ReconnectDue(c)
        \/ Accept(c) \/ Opened(c) \/ Connected(c) \/ ConnFailed(c) \/ Lost(c) \/ Writable(c)
        \/ \E p \in Peers : AddClient(c, p) \/ AddSource(c, p)
        \/ PacketFrom(c)
    \/ DownloadGone \/ FileGone

Spec == Init /\ [][Next]_vars

-----------------------------------------------------------------------------
(* Properties                                                              *)

\* Pointers to clients in the slots and in the queue are looked up nowhere
\* else: every client that has a slot or waits for one exists.
NoDangling == \A c \in s.uploading \cup s.queued : s.cl[c].exists

Dying(c) == \E i \in DOMAIN s.events : s.events[i] = <<c, "destroy">>

\* "As long as the client has at least a single purpose, it must be alive": and
\* when it has none, and nobody is connected to it, it is on its way out.
NoZombies ==
    \A c \in Clients :
        s.cl[c].exists /\ s.cl[c].sock = "none" /\ ~HasPurpose(s.cl[c]) => Dying(c)

\* A download is from a socket that is still there, whose speed it reports, and
\* a connection that is up has a session.
DownloadsConnected ==
    \A c \in Clients :
        /\ s.cl[c].dl => IsConnected(s, c)
        /\ IsConnected(s, c) => s.cl[c].sess # {}

\* downloadlist.cpp: a source that is gone is "CORRUPTION".
SourcesAlive == \A c \in s.sources : s.cl[c].exists
=============================================================================
