------------------------------ MODULE Sockets ------------------------------
(***************************************************************************)
(* hnbase/sockets.{h,cpp}: SocketClient, the TCP socket of the program,    *)
(* and SocketWatcher, which asks select() for the sockets it watches and   *)
(* queues one event for each that answered.  This module holds their state *)
(* and what each call does to it; Scheduler.tla is the only caller.        *)
(*                                                                         *)
(* A member of Socks is one SocketClient object from its construction to   *)
(* its deletion.  Its address, ptr, outlives it: the scheduler's maps and  *)
(* the queued events name sockets by address, and the allocator may give   *)
(* an address out again once the object that had it is deleted.            *)
(***************************************************************************)
EXTENDS Naturals, Sequences, FiniteSets, SequencesExt

CONSTANTS Socks,   \* SocketClient objects, 1..n in the order they are made
          Addrs,   \* addresses the allocator gives out, 1..n
          None,    \* no address
          Server,  \* the address of the one SocketServer, which stays open
          Reuse    \* whether an address is given out a second time

ASSUME SocketsAssumption ==
    /\ Socks \subseteq Nat /\ IsFiniteSet(Socks)
    /\ Addrs \subseteq Nat
    /\ Server \notin Addrs /\ None \notin Addrs /\ Server # None
    /\ Reuse \in BOOLEAN

VARIABLES
    ptr,       \* [Socks -> Addrs \cup {None}], the object's address
    impl,      \* [Socks -> Impl], the object
    incoming,  \* SocketServer::m_incoming
    watched,   \* SocketWatcher::m_clients
    toRemove,  \* SocketWatcher::m_clientsToRemove
    events     \* SocketWatcher::m_events

sockVars == <<ptr, impl, incoming, watched, toRemove, events>>

\* "closed" is a socket that was open once, "deleted" one whose object is gone.
Stages == {"unborn", "fresh", "connecting", "connected", "closed", "deleted"}
Impl   == [stage: Stages, hasData: BOOLEAN, writable: BOOLEAN, toDelete: BOOLEAN]
Losses == {"SOCK_LOST", "SOCK_ERR", "SOCK_TIMEOUT", "SOCK_CONNFAILED"}
Kinds  == Losses \cup {"SOCK_READ", "SOCK_WRITE", "SOCK_CONNECTED", "SOCK_ACCEPT"}
Events == [at: Addrs \cup {Server}, evt: Kinds]

SocketsTypeOK ==
    /\ ptr \in [Socks -> Addrs \cup {None}]
    /\ impl \in [Socks -> Impl]
    /\ incoming \in BOOLEAN
    /\ watched \in SUBSET Socks /\ toRemove \in SUBSET Socks
    /\ events \in Seq(Events)

NewImpl(stage) == [stage |-> stage, hasData |-> FALSE, writable |-> FALSE,
                   toDelete |-> FALSE]

SocketsInit ==
    /\ ptr = [s \in Socks |-> None]
    /\ impl = [s \in Socks |-> NewImpl("unborn")]
    /\ incoming = FALSE
    /\ watched = {} /\ toRemove = {} /\ events = <<>>

IsOpen(i)   == i.stage \in {"connecting", "connected"}
Exists(s)   == impl[s].stage \notin {"unborn", "deleted"}
ObjectAt(a) == {s \in Socks : ptr[s] = a /\ Exists(s)}

\* new SocketClient: objects are numbered as they are made, addresses as they
\* are given out for the first time.
MayGet(s, a) ==
    /\ impl[s].stage = "unborn"
    /\ \A r \in Socks : r < s => impl[r].stage # "unborn"
    /\ \A b \in Addrs : b < a => \E r \in Socks : ptr[r] = b
    /\ ObjectAt(a) = {}
    /\ Reuse \/ \A r \in Socks : ptr[r] # a

\* close(): m_timeout, which bounds how long a socket may be silent, is
\* abstracted to the choice that Watch makes of the sockets that time out.
Closed(i) == [i EXCEPT !.stage = IF IsOpen(i) THEN "closed" ELSE @]
Posted(s, e) == IF ptr[s] = None THEN <<>> ELSE <<[at |-> ptr[s], evt |-> e]>>

\* connect() of a socket that was never open, accepted by the system.
ImplConnect(s) ==
    /\ impl' = [impl EXCEPT ![s].stage = "connecting"]
    /\ watched' = watched \cup {s}
    /\ UNCHANGED <<ptr, incoming, toRemove, events>>

\* disconnect(), and destroy(), which leaves the deletion to cleanupSockets().
ImplClose(s, delete) ==
    /\ impl' = [impl EXCEPT ![s] = [Closed(@) EXCEPT !.toDelete = delete]]
    /\ toRemove' = toRemove \cup {s}
    /\ UNCHANGED <<ptr, incoming, watched, events>>

\* read() and write() of a connected socket: some data moved, or none and the
\* connection is found lost.
Used(i, op) == IF op = "read" THEN [i EXCEPT !.hasData = FALSE]
                              ELSE [i EXCEPT !.writable = FALSE]
ImplMove(s, op) ==
    /\ impl' = [impl EXCEPT ![s] = Used(@, op)]
    /\ UNCHANGED <<ptr, incoming, watched, toRemove, events>>
ImplFail(s, op) ==
    /\ impl' = [impl EXCEPT ![s] = Used(Closed(@), op)]
    /\ toRemove' = toRemove \cup {s}
    /\ events' = events \o Posted(s, "SOCK_LOST")
    /\ UNCHANGED <<ptr, incoming, watched>>

-----------------------------------------------------------------------------
(* SocketWatcher::process()                                                *)

\* cleanupSockets(): what stays watched, and what the objects are after it.
Swept == watched \ toRemove
Deleted == [s \in Socks |-> IF s \in toRemove /\ impl[s].toDelete
                            THEN NewImpl("deleted") ELSE impl[s]]

\* What select() may report of a socket, by the sets it was put into, and the
\* handler its answer is for; a readable socket is not asked for more.
Answers(i) ==
    {"silent"}
    \cup (IF i.stage = "connecting" THEN {"SOCK_CONNECTED", "SOCK_CONNFAILED"} ELSE {})
    \cup (IF i.stage = "connected" THEN {"SOCK_LOST"} ELSE {})
    \cup (IF i.stage = "connected" /\ ~i.hasData THEN {"SOCK_READ", "SOCK_ERR"} ELSE {})
    \cup (IF i.stage = "connected" /\ ~i.writable THEN {"SOCK_WRITE"} ELSE {})

\* handleReadableSocket(), handleWritableSocket(), handleErronousSocket().  The
\* error flag is set only as the socket is closed, and matters to no call after.
Answered(i, a) ==
    CASE a = "SOCK_READ"      -> [i EXCEPT !.hasData = TRUE]
      [] a = "SOCK_WRITE"     -> [i EXCEPT !.writable = TRUE]
      [] a = "SOCK_CONNECTED" -> [i EXCEPT !.stage = "connected"]
      [] a \in Losses         -> Closed(i)
      [] OTHER                -> i

\* From the first cleanup to the last event that select() gives rise to.  The
\* sockets in T have timed out: they are told before the others and are not
\* in the sets given to select().
Watch ==
    \E T \in SUBSET {s \in Swept : IsOpen(impl[s])} :
    \E answer \in [Swept \ T -> Kinds \cup {"silent"}], accepts \in BOOLEAN :
        LET awake  == {s \in Swept \ T : answer[s] # "silent"}
            closed == {s \in awake : answer[s] \in Losses}
        IN
        /\ \A s \in Swept \ T : answer[s] \in Answers(impl[s])
        /\ accepts => ~incoming
        /\ impl' = [s \in Socks |->
                       IF s \in T THEN Closed(impl[s])
                       ELSE IF s \in awake THEN Answered(impl[s], answer[s])
                       ELSE Deleted[s]]
        /\ watched' = Swept \ T
        /\ toRemove' = closed
        /\ incoming' = (incoming \/ accepts)
        /\ \E late \in SetToSeqs(T), order \in SetToSeqs(awake) :
              events' = events
                \o [k \in 1..Len(late) |-> [at |-> ptr[late[k]], evt |-> "SOCK_TIMEOUT"]]
                \o [k \in 1..Len(order) |-> [at |-> ptr[order[k]], evt |-> answer[order[k]]]]
                \o (IF accepts THEN <<[at |-> Server, evt |-> "SOCK_ACCEPT"]>> ELSE <<>>)
        /\ UNCHANGED ptr

\* The cleanup after the last event was handled.
Cleanup ==
    /\ impl' = Deleted
    /\ watched' = Swept
    /\ toRemove' = {}
    /\ UNCHANGED <<ptr, incoming, events>>
=============================================================================
