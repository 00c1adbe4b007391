----------------------------- MODULE Scheduler -----------------------------
(***************************************************************************)
(* hnbase/scheduler.h, schedbase.{h,cpp} and ssocket.h over Sockets.tla:   *)
(* the calls of a plugin on its sockets, which leave requests, the rounds  *)
(* of SchedBase that grant them while bandwidth and connections last, and  *)
(* the events of the sockets, which raise requests again.                  *)
(*                                                                         *)
(* Everything runs in the main thread.  Code of the plugins runs when it   *)
(* is notified (user = TRUE) and between the rounds (pc "tables" and       *)
(* "tablesW"), and may call anything on any socket then.  A request is     *)
(* named by the socket whose wrapper it holds; the maps s_upReqs,          *)
(* s_downReqs and s_connReqs find it by the address of that socket.        *)
(* Bandwidth is abstracted to the choice of the requests a round reaches.  *)
(***************************************************************************)
EXTENDS Sockets

CONSTANTS ConnLimit,        \* m_connLimit
          ConnectingLimit   \* m_connectingLimit

ASSUME SchedulerAssumption ==
    /\ ConnLimit \in Nat /\ ConnectingLimit \in Nat
    /\ Server \notin Socks   \* a request of the server is named by its address

VARIABLES
    wrap,           \* [Socks -> Wrap], SSocketWrapper and its place in s_sockets
    up, down, conn, \* [Socks -> Req], the requests, by the wrapper they hold
    acc,            \* Req, the AcceptReq of the server
    accepted,       \* SSocketWrapper::m_accepted of the server
    connCnt,        \* m_connCnt
    connectingCnt,  \* m_connectingCnt
    pc,             \* where the main loop is
    left,           \* requests the round has not reached; the one being told
    rem,            \* toRemove
    note,           \* toNotify
    user,           \* whether a plugin has been called
    misled          \* an observer's: sockets whose data went astray in this round

reqVars == <<up, down, conn, acc>>
cntVars == <<connCnt, connectingCnt>>
rndVars == <<pc, left, rem, note>>
vars == <<sockVars, wrap, reqVars, accepted, cntVars, rndVars, user, misled>>

Reqs == {"none", "valid", "invalid"}
Wrap == [reg: BOOLEAN, connecting: BOOLEAN, out: BOOLEAN]
Pcs  == {"tables", "down", "downNotify", "up", "conn", "connNotify", "tablesW", "drain"}

TypeOK ==
    /\ SocketsTypeOK
    /\ wrap \in [Socks -> Wrap]
    /\ up \in [Socks -> Reqs] /\ down \in [Socks -> Reqs]
    /\ conn \in [Socks -> Reqs] /\ acc \in Reqs
    /\ accepted \in SUBSET Socks
    /\ connCnt \in Nat /\ connectingCnt \in Nat
    /\ pc \in Pcs
    /\ left \in SUBSET (Socks \cup {Server})
    /\ rem \in SUBSET (Socks \cup {Server})
    /\ note \in SUBSET (Socks \cup {Server})
    /\ user \in BOOLEAN /\ misled \in SUBSET Socks

NoReqs == [s \in Socks |-> "none"]

Init ==
    /\ SocketsInit
    /\ wrap = [s \in Socks |-> [reg |-> FALSE, connecting |-> FALSE, out |-> FALSE]]
    /\ up = NoReqs /\ down = NoReqs /\ conn = NoReqs /\ acc = "none"
    /\ accepted = {} /\ connCnt = 0 /\ connectingCnt = 0
    /\ pc = "tables" /\ left = {} /\ rem = {} /\ note = {}
    /\ user = FALSE /\ misled = {}

-----------------------------------------------------------------------------
(* Helpers                                                                 *)

Registered(s) == wrap[s].reg
Connected(s)  == impl[s].stage = "connected"

\* The socket a call on the address of s reaches: s_sockets and m_socket hold
\* addresses.
Holder(a)     == {s \in Socks : Registered(s) /\ ptr[s] = a}
ReqAt(req, a) == {s \in Socks : req[s] # "none" /\ ptr[s] = a}

\* invalidateReqs()
Invalidated(req, a) ==
    [s \in Socks |-> IF req[s] = "valid" /\ ptr[s] = a THEN "invalid" ELSE req[s]]

\* The request for an address is revived, or a new one is made for s.
Asked(req, s) ==
    IF ReqAt(req, ptr[s]) # {}
    THEN [r \in Socks |-> IF r \in ReqAt(req, ptr[s]) THEN "valid" ELSE req[r]]
    ELSE [req EXCEPT ![s] = "valid"]

\* *m_connecting of s, and the count of those that are set.
Settled(s) == [wrap EXCEPT ![s].connecting = FALSE]
SettledCnt(s) == IF wrap[s].connecting THEN connectingCnt - 1 ELSE connectingCnt

-----------------------------------------------------------------------------
(* The plugins' calls: ssocket.h                                           *)

CallAllowed == user \/ pc \in {"tables", "tablesW"}

\* SSocket(): a new SocketClient, known to the scheduler.
NewSocket(s, a) ==
    /\ CallAllowed
    /\ MayGet(s, a)
    /\ ptr' = [ptr EXCEPT ![s] = a]
    /\ impl' = [impl EXCEPT ![s].stage = "fresh"]
    /\ wrap' = [wrap EXCEPT ![s].reg = TRUE]
    /\ UNCHANGED <<incoming, watched, toRemove, events, reqVars, accepted, cntVars,
                   rndVars, user, misled>>

\* connect(), which plugins call once for a socket; an address that is blocked,
\* and a ConnReq that throws as a request of this address is there still, change
\* nothing.
Connect(s) ==
    /\ CallAllowed
    /\ Registered(s) /\ impl[s].stage = "fresh"
    /\ ReqAt(conn, ptr[s]) = {}
    /\ conn' = [conn EXCEPT ![s] = "valid"]
    /\ UNCHANGED <<sockVars, wrap, up, down, acc, accepted, cntVars, rndVars, user, misled>>

\* write(); a request that is there is revived, connected or not.
Write(s) ==
    /\ CallAllowed
    /\ Registered(s)
    /\ wrap' = [wrap EXCEPT ![s].out = TRUE]
    /\ up' = IF ReqAt(up, ptr[s]) # {} \/ Connected(s) THEN Asked(up, s) ELSE up
    /\ UNCHANGED <<sockVars, down, conn, acc, accepted, cntVars, rndVars, user, misled>>

\* Mutation: a socket that was lost already is taken off the count again.
DisconnectAgain(s) ==
    /\ CallAllowed
    /\ Registered(s)
    /\ ImplClose(s, FALSE)
    /\ connCnt' = IF impl[s].stage \in {"connecting", "connected", "closed"}
                  THEN connCnt - 1 ELSE connCnt
    /\ up' = Invalidated(up, ptr[s])
    /\ down' = Invalidated(down, ptr[s])
    /\ conn' = Invalidated(conn, ptr[s])
    /\ wrap' = Settled(s)
    /\ connectingCnt' = SettledCnt(s)
    /\ UNCHANGED <<acc, accepted, rndVars, user, misled>>

Disconnect(s) ==
    /\ CallAllowed
    /\ Registered(s)
    /\ IF IsOpen(impl[s])
       THEN /\ ImplClose(s, FALSE)
            /\ connCnt' = connCnt - 1
            /\ up' = Invalidated(up, ptr[s])
            /\ down' = Invalidated(down, ptr[s])
            /\ conn' = Invalidated(conn, ptr[s])
       ELSE UNCHANGED <<sockVars, connCnt, up, down, conn>>
    /\ wrap' = Settled(s)
    /\ connectingCnt' = SettledCnt(s)
    /\ UNCHANGED <<acc, accepted, rndVars, user, misled>>

\* Mutation: the count of connecting sockets is kept.
DestroyConnecting(s) ==
    /\ CallAllowed
    /\ Registered(s)
    /\ ImplClose(s, TRUE)
    /\ wrap' = [wrap EXCEPT ![s].reg = FALSE, ![s].connecting = FALSE]
    /\ connCnt' = IF IsOpen(impl[s]) THEN connCnt - 1 ELSE connCnt
    /\ up' = Invalidated(up, ptr[s])
    /\ down' = Invalidated(down, ptr[s])
    /\ conn' = Invalidated(conn, ptr[s])
    /\ UNCHANGED <<connectingCnt, acc, accepted, rndVars, user, misled>>

\* ~SSocket(): delSocket(), then destroy() of the object.
Destroy(s) ==
    /\ CallAllowed
    /\ Registered(s)
    /\ ImplClose(s, TRUE)
    /\ wrap' = [Settled(s) EXCEPT ![s].reg = FALSE]
    /\ connectingCnt' = SettledCnt(s)
    /\ connCnt' = IF IsOpen(impl[s]) THEN connCnt - 1 ELSE connCnt
    /\ up' = Invalidated(up, ptr[s])
    /\ down' = Invalidated(down, ptr[s])
    /\ conn' = Invalidated(conn, ptr[s])
    /\ UNCHANGED <<acc, accepted, rndVars, user, misled>>

UserCall ==
    \E s \in Socks :
        \/ \E a \in Addrs : NewSocket(s, a)
        \/ Connect(s) \/ Write(s) \/ Disconnect(s) \/ Destroy(s)

-----------------------------------------------------------------------------
(* SchedBase::process(): the three rounds                                  *)

GoTo(next, requests) ==
    /\ pc' = next /\ left' = requests /\ rem' = {} /\ note' = {}
    /\ user' = FALSE /\ misled' = {}

Begin ==
    /\ pc = "tables"
    /\ GoTo("down", {s \in Socks : down[s] # "none"})
    /\ UNCHANGED <<sockVars, wrap, reqVars, accepted, cntVars>>

\* A request that is not valid is only put aside.
Discard(round, req, s) ==
    /\ pc = round /\ s \in left /\ req[s] = "invalid"
    /\ left' = left \ {s}
    /\ rem' = rem \cup {s}
    /\ UNCHANGED <<sockVars, wrap, reqVars, accepted, cntVars, pc, note, user, misled>>

\* handleDownloads(), one valid request: doRecv() reads from whatever object has
\* the address now.  It throws when that is not connected; otherwise less than
\* the amount came ("part"), all of it ("full"), or the connection is gone.
Recv(s, result) ==
    /\ pc = "down" /\ s \in left /\ down[s] = "valid"
    /\ \E t \in ObjectAt(ptr[s]) :
          /\ (result = "throws") <=> ~Connected(t)
          /\ CASE result = "lost"   -> ImplFail(t, "read")
               [] result = "throws" -> UNCHANGED sockVars
               [] OTHER             -> ImplMove(t, "read")
          /\ misled' = IF t = s THEN misled ELSE misled \cup {t}
    /\ left' = left \ {s}
    /\ note' = note \cup {s}
    /\ IF result = "full"
       THEN UNCHANGED <<down, rem>>
       ELSE /\ down' = [down EXCEPT ![s] = "invalid"]
            /\ rem' = rem \cup {s}
    /\ UNCHANGED <<wrap, up, conn, acc, accepted, cntVars, pc, user>>

\* The loop ends with the requests, or when the bandwidth does.
RecvEnd ==
    /\ pc = "down"
    /\ pc' = "downNotify"
    /\ left' = {}
    /\ UNCHANGED <<sockVars, wrap, reqVars, accepted, cntVars, rem, note, user, misled>>

\* clearAndNotify(): those to remove come first, and each is dropped after it
\* was told if nothing has made it valid again by then.
Turn(s) == s \in rem \/ rem = {}
NotifyRead(s) ==
    /\ pc = "downNotify" /\ left = {} /\ s \in note /\ Turn(s)
    /\ note' = note \ {s}
    /\ left' = rem \cap {s}
    /\ user' = Registered(s)
    /\ UNCHANGED <<sockVars, wrap, reqVars, accepted, cntVars, pc, rem, misled>>

DropRead(s) ==
    /\ pc = "downNotify" /\ s \in rem \ note /\ left \subseteq {s}
    /\ rem' = rem \ {s}
    /\ left' = {} /\ user' = FALSE
    /\ down' = [down EXCEPT ![s] = IF @ = "invalid" THEN "none" ELSE @]
    /\ UNCHANGED <<sockVars, wrap, up, conn, acc, accepted, cntVars, pc, note, misled>>

BeginUp ==
    /\ pc = "downNotify" /\ rem = {} /\ note = {}
    /\ GoTo("up", {s \in Socks : up[s] # "none"})
    /\ UNCHANGED <<sockVars, wrap, reqVars, accepted, cntVars>>

\* handleUploads(), one valid request: doSend() writes the wrapper's buffer to
\* the object at its address: all of it, a part or nothing, or it finds the
\* connection gone; it throws when the object is not connected.
Send(s, result) ==
    /\ pc = "up" /\ s \in left /\ up[s] = "valid"
    /\ \E t \in ObjectAt(ptr[s]) :
          /\ (result = "throws") <=> ~Connected(t)
          /\ CASE result = "lost"   -> ImplFail(t, "write")
               [] result = "throws" -> UNCHANGED sockVars
               [] OTHER             -> ImplMove(t, "write")
          /\ misled' = IF t = s \/ result # "all" THEN misled ELSE misled \cup {s}
    /\ left' = left \ {s}
    /\ wrap' = IF result = "all" THEN [wrap EXCEPT ![s].out = FALSE] ELSE wrap
    /\ IF wrap'[s].out
       THEN UNCHANGED <<up, rem>>
       ELSE /\ up' = [up EXCEPT ![s] = "invalid"]
            /\ rem' = rem \cup {s}
    /\ UNCHANGED <<down, conn, acc, accepted, cntVars, pc, note, user>>

\* No request is notified in this round: those to remove are dropped at once.
SendEnd ==
    /\ pc = "up"
    /\ up' = [s \in Socks |-> IF s \in rem THEN "none" ELSE up[s]]
    /\ GoTo("conn", {s \in Socks : conn[s] # "none"}
                    \cup (IF acc = "none" THEN {} ELSE {Server}))
    /\ UNCHANGED <<sockVars, wrap, down, conn, acc, accepted, cntVars>>

\* getConnection(); the delay between two connections is left to BreakConn.
Granted(out) ==
    /\ connCnt < ConnLimit
    /\ out => connectingCnt < ConnectingLimit

\* handleConnections(), ConnReq::doConn(): connect() of the object, or its
\* exception, after which the socket is not connecting.
DoConn(s, ok) ==
    /\ pc = "conn" /\ s \in left /\ conn[s] = "valid" /\ Granted(TRUE)
    /\ left' = left \ {s}
    /\ rem' = rem \cup {s}
    /\ conn' = [conn EXCEPT ![s] = "invalid"]
    /\ IF ok
       THEN /\ ImplConnect(s)
            /\ wrap' = [wrap EXCEPT ![s].connecting = TRUE]
            /\ connectingCnt' = IF wrap[s].connecting THEN connectingCnt ELSE connectingCnt + 1
            /\ connCnt' = connCnt + 1
            /\ UNCHANGED note
       ELSE /\ note' = note \cup {s}
            /\ impl' = [impl EXCEPT ![s].stage = "closed"]
            /\ wrap' = Settled(s)
            /\ connectingCnt' = SettledCnt(s)
            /\ UNCHANGED <<ptr, incoming, watched, toRemove, events, connCnt>>
    /\ UNCHANGED <<up, down, acc, accepted, pc, user, misled>>

\* AcceptReq::doConn(): accept() throws and the request stays; or the peer is
\* not allowed; or its connection waits for the plugin.
AcceptThrows ==
    /\ pc = "conn" /\ Server \in left /\ acc = "valid" /\ Granted(FALSE)
    /\ left' = left \ {Server}
    /\ UNCHANGED <<sockVars, wrap, reqVars, accepted, cntVars, pc, rem, note, user, misled>>
AcceptBlocked ==
    /\ pc = "conn" /\ Server \in left /\ acc = "valid" /\ Granted(FALSE)
    /\ left' = left \ {Server}
    /\ rem' = rem \cup {Server}
    /\ acc' = "invalid"
    /\ incoming' = FALSE
    /\ UNCHANGED <<ptr, impl, watched, toRemove, events, wrap, up, down, conn, accepted,
                   cntVars, pc, note, user, misled>>
Accept(s, a) ==
    /\ pc = "conn" /\ Server \in left /\ acc = "valid" /\ Granted(FALSE)
    /\ MayGet(s, a)
    /\ ptr' = [ptr EXCEPT ![s] = a]
    /\ impl' = [impl EXCEPT ![s].stage = "connected"]
    /\ watched' = watched \cup {s}
    /\ incoming' = FALSE
    /\ accepted' = accepted \cup {s}
    /\ connCnt' = connCnt + 1
    /\ acc' = "invalid"
    /\ left' = left \ {Server}
    /\ rem' = rem \cup {Server}
    /\ note' = note \cup {Server}
    /\ UNCHANGED <<toRemove, events, wrap, up, down, conn, connectingCnt, pc, user, misled>>

\* getConnection() has refused, by a limit or for the delay, or all were seen.
BreakConn ==
    /\ pc = "conn"
    /\ \/ left = {}
       \/ \E s \in left \cap Socks : conn[s] = "valid"
       \/ Server \in left /\ ~Granted(FALSE)
    /\ pc' = "connNotify" /\ left' = {}
    /\ UNCHANGED <<sockVars, wrap, reqVars, accepted, cntVars, rem, note, user, misled>>

\* clearAndNotify(): a plugin is told SOCK_CONNFAILED, or SOCK_ACCEPT; for that
\* it takes the accepted connection, as every plugin here does.
NotifyConn(s) ==
    /\ pc = "connNotify" /\ left = {} /\ s \in note \cap Socks /\ Turn(s)
    /\ note' = note \ {s}
    /\ left' = rem \cap {s}
    /\ user' = Registered(s)
    /\ UNCHANGED <<sockVars, wrap, reqVars, accepted, cntVars, pc, rem, misled>>
NotifyAccept ==
    /\ pc = "connNotify" /\ left = {} /\ Server \in note
    /\ note' = note \ {Server}
    /\ left' = rem \cap {Server}
    /\ wrap' = [s \in Socks |-> [wrap[s] EXCEPT !.reg = @ \/ s \in accepted]]
    /\ accepted' = {}
    /\ user' = TRUE
    /\ UNCHANGED <<sockVars, reqVars, cntVars, pc, rem, misled>>
DropConn(s) ==
    /\ pc = "connNotify" /\ s \in rem \ note /\ left \subseteq {s}
    /\ rem' = rem \ {s}
    /\ left' = {} /\ user' = FALSE
    /\ IF s = Server
       THEN acc' = "none" /\ UNCHANGED conn
       ELSE conn' = [conn EXCEPT ![s] = "none"] /\ UNCHANGED acc
    /\ UNCHANGED <<sockVars, wrap, up, down, accepted, cntVars, pc, note, misled>>

End ==
    /\ pc = "connNotify" /\ rem = {} /\ note = {}
    /\ GoTo("tablesW", {})
    /\ UNCHANGED <<sockVars, wrap, reqVars, accepted, cntVars>>

Rounds ==
    \/ Begin \/ RecvEnd \/ BeginUp \/ SendEnd \/ BreakConn \/ End
    \/ AcceptThrows \/ AcceptBlocked \/ NotifyAccept \/ DropConn(Server)
    \/ \E s \in Socks :
          \/ Discard("down", down, s) \/ Discard("up", up, s) \/ Discard("conn", conn, s)
          \/ \E r \in {"part", "full", "lost", "throws"} : Recv(s, r)
          \/ NotifyRead(s) \/ DropRead(s)
          \/ \E r \in {"all", "part", "lost", "throws"} : Send(s, r)
          \/ \E ok \in BOOLEAN : DoConn(s, ok)
          \/ \E a \in Addrs : Accept(s, a)
          \/ NotifyConn(s) \/ DropConn(s)

-----------------------------------------------------------------------------
(* SocketWatcher::process() and the scheduler's event handlers             *)

Select ==
    /\ pc = "tablesW"
    /\ Watch
    /\ pc' = "drain" /\ user' = FALSE
    /\ UNCHANGED <<wrap, reqVars, accepted, cntVars, left, rem, note, misled>>

\* The event at the front is handled, for the socket that has the address now.
Pop ==
    /\ pc = "drain" /\ events # <<>>
    /\ events' = Tail(events)
    /\ UNCHANGED <<ptr, impl, incoming, watched, toRemove, accepted, rndVars, misled>>

Event == Head(events)
For(s) == Registered(s) /\ ptr[s] = Event.at

IgnoreEvent ==
    /\ Pop
    /\ Event.at # Server /\ Holder(Event.at) = {}
    /\ user' = FALSE
    /\ UNCHANGED <<wrap, reqVars, cntVars>>

HandleAccept ==
    /\ Pop
    /\ Event.at = Server
    /\ acc' = "valid"
    /\ user' = FALSE
    /\ UNCHANGED <<wrap, up, down, conn, cntVars>>

\* Mutation: a request that is there is left as it is.
HandleReadOnce(s) ==
    /\ Pop
    /\ For(s) /\ Event.evt = "SOCK_READ"
    /\ down' = IF ReqAt(down, ptr[s]) # {} THEN down ELSE Asked(down, s)
    /\ user' = FALSE
    /\ UNCHANGED <<wrap, up, conn, acc, cntVars>>

HandleRead(s) ==
    /\ Pop
    /\ For(s) /\ Event.evt = "SOCK_READ"
    /\ down' = Asked(down, s)
    /\ user' = FALSE
    /\ UNCHANGED <<wrap, up, conn, acc, cntVars>>

HandleWrite(s) ==
    /\ Pop
    /\ For(s) /\ Event.evt = "SOCK_WRITE"
    /\ up' = IF wrap[s].out THEN Asked(up, s) ELSE up
    /\ user' = ~wrap[s].out
    /\ UNCHANGED <<wrap, down, conn, acc, cntVars>>

HandleConnected(s) ==
    /\ Pop
    /\ For(s) /\ Event.evt = "SOCK_CONNECTED"
    /\ up' = IF wrap[s].out THEN Asked(up, s) ELSE up
    /\ wrap' = Settled(s)
    /\ connectingCnt' = SettledCnt(s)
    /\ user' = TRUE
    /\ UNCHANGED <<down, conn, acc, connCnt>>

\* Mutation: the slot of a socket that failed is not given back.
HandleErrHolding(s) ==
    /\ Pop
    /\ For(s) /\ Event.evt \in Losses
    /\ connCnt' = connCnt - 1
    /\ up' = Invalidated(up, ptr[s])
    /\ down' = Invalidated(down, ptr[s])
    /\ conn' = Invalidated(conn, ptr[s])
    /\ user' = TRUE
    /\ UNCHANGED <<wrap, acc, connectingCnt>>

HandleErr(s) ==
    /\ Pop
    /\ For(s) /\ Event.evt \in Losses
    /\ connCnt' = connCnt - 1
    /\ up' = Invalidated(up, ptr[s])
    /\ down' = Invalidated(down, ptr[s])
    /\ conn' = Invalidated(conn, ptr[s])
    /\ wrap' = Settled(s)
    /\ connectingCnt' = SettledCnt(s)
    /\ user' = TRUE
    /\ UNCHANGED acc

Handle ==
    \/ IgnoreEvent \/ HandleAccept
    \/ \E s \in Socks :
          HandleRead(s) \/ HandleWrite(s) \/ HandleConnected(s) \/ HandleErr(s)

Drained ==
    /\ pc = "drain" /\ events = <<>>
    /\ Cleanup
    /\ GoTo("tables", {})
    /\ UNCHANGED <<wrap, reqVars, accepted, cntVars>>

-----------------------------------------------------------------------------
Loop == Rounds \/ Select \/ Handle \/ Drained
Next == Loop \/ UserCall

\* The main loop runs on; a socket that is connecting hears from the network,
\* or its timeout passes.
Spec == Init /\ [][Next]_vars
FairSpec ==
    /\ Spec
    /\ WF_vars(Loop)
    /\ \A s \in Socks : SF_vars(Select /\ impl[s].stage = "connecting"
                                    /\ impl'[s].stage # "connecting")

-----------------------------------------------------------------------------
(* Properties                                                              *)

Coming(s, kinds) == \E k \in 1..Len(events) :
                        events[k].at = ptr[s] /\ events[k].evt \in kinds
Wanted(req, s)   == \E r \in ReqAt(req, ptr[s]) : req[r] = "valid"
OpenSocks        == {s \in Socks : IsOpen(impl[s])}

\* m_connectingCnt, which stops every new connection when it is at its limit,
\* counts the sockets whose flag is set, and each of these is in the hands of a
\* plugin and still to be answered: no destroy(), disconnect(), refusal, timeout
\* or event for the address of a deleted socket leaks a slot.
NoSlotLost ==
    LET holding == {s \in Socks : wrap[s].connecting}
    IN  /\ connectingCnt = Cardinality(holding)
        /\ connectingCnt <= ConnectingLimit
        /\ \A s \in holding :
              /\ Registered(s)
              /\ impl[s].stage = "connecting" \/ Coming(s, Losses \cup {"SOCK_CONNECTED"})

\* However sockets are opened, lost, disconnected and destroyed, there are never
\* more open ones than m_connCnt counts, and never more than the limit: no
\* connection is taken off the count twice (scheduler.h: disconnect(), handleErr()
\* and delSocket() each decide for themselves whether it is theirs to take off).
LimitHolds ==
    /\ Cardinality(OpenSocks) <= connCnt
    /\ connCnt <= ConnLimit

\* A socket with data is not asked for more by select(), so that the data is
\* read only if a request for it is alive or its event is queued: whatever the
\* notifications of a round invalidate, revive and drop, none is stranded.
ReadsServed ==
    \A s \in Socks : Registered(s) /\ Connected(s) /\ impl[s].hasData
        => Wanted(down, s) \/ Coming(s, {"SOCK_READ"})

\* Likewise a writable socket is not asked for again: data in the buffer of a
\* connection has a request, or an event that will make one is to come.
WritesServed ==
    \A s \in Socks : Registered(s) /\ Connected(s) /\ wrap[s].out
        => \/ Wanted(up, s)
           \/ ~impl[s].writable
           \/ Coming(s, Losses \cup {"SOCK_WRITE", "SOCK_CONNECTED"})

\* What select() reported once is served, in both directions.
DataServed == ReadsServed /\ WritesServed

\* When the sockets that are connecting take all the slots there are, one of them
\* gives its slot back in the end: outgoing connections do not stop for ever.
SlotsReturn == connectingCnt >= ConnectingLimit ~> connectingCnt < ConnectingLimit

\* scheduler.h says of delSocket() that "All pending requests related to this
\* socket will be deleted": then no data meant for one socket, or come from one,
\* goes through the request of another that had its address.
OwnRequests == misled = {}

\* schedbase.h calls m_connCnt the "open connections count": it counts those that
\* are open, or whose end is about to be told.
CountExact ==
    connCnt <= Cardinality(OpenSocks)
               + Cardinality({k \in 1..Len(events) : events[k].evt \in Losses})
=============================================================================
