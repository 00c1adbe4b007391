----------------------------- MODULE EventTable -----------------------------
(***************************************************************************)
(* The event tables of hnbase (event.h, eventbase.cpp, timed_callback.h):  *)
(* EventMain::process() takes the tables in turn; each moves the delayed   *)
(* events that are due to its queue, calls the handlers of every queued    *)
(* event, and deletes what was given to safeDelete().  Handlers post,      *)
(* delete and connect while they are called, destructors give more to      *)
(* safeDelete(), and other threads post.                                   *)
(*                                                                         *)
(* One table may be that of the timed callbacks: its source never goes,    *)
(* and its events are about the objects whose validators were collected.   *)
(* Modelled as careful: nobody deletes an object that safeDelete() has, or *)
(* the source of the event it is handling; the destructor of an object     *)
(* gives to safeDelete() of other tables only.                             *)
(***************************************************************************)
EXTENDS Naturals, Sequences, FiniteSets

CONSTANTS Tables,     \* 1..n, in the order of EventMain's list
          Objects,    \* the sources
          Table,      \* [Objects -> Tables]
          Immortal,   \* sources that are never deleted: TimedCallback
          Handlers,
          MaxEvents,  \* bound: events posted
          MaxTick     \* bound: the clock

ASSUME EventTableAssumption ==
    /\ IsFiniteSet(Tables) /\ Tables = 1..Cardinality(Tables) /\ 1 \in Tables
    /\ IsFiniteSet(Objects) /\ IsFiniteSet(Handlers)
    /\ Table \in [Objects -> Tables] /\ Immortal \subseteq Objects
    /\ MaxEvents \in Nat /\ MaxTick \in Nat

VARIABLES
    pending,    \* m_pending of each table
    delayed,    \* m_delayed of each table, ordered by time
    toDelete,   \* m_toDelete of each table
    sigMap,     \* m_sigMap: the handlers of each source
    allSig,     \* m_allSig of each table
    alive,      \* the objects that were not deleted: their validators
    tick,       \* m_curTick
    pc,         \* where the main thread is
    table,      \* the table it is at
    calls,      \* the handlers of a source, and of all, it has yet to call
    notified,   \* the condition was notified since the wait began
    count,      \* bound: events posted so far
    doomed, delivered   \* an observer's

queues   == <<pending, delayed>>
signals  == <<sigMap, allSig>>
main     == <<pc, table, calls>>
observer == <<doomed, delivered>>
vars == <<queues, toDelete, signals, alive, tick, main, notified, count, observer>>

\* Delayed events carry the tick they are due at, the others the one they came at.
EventSet == [id : 1..MaxEvents, src : Objects, needs : SUBSET Objects, at : 0..(2 * MaxTick)]
NoCalls == [src |-> {}, all |-> {}]

TypeOK ==
    /\ pending \in [Tables -> Seq(EventSet)]
    /\ delayed \in [Tables -> Seq(EventSet)]
    /\ toDelete \in [Tables -> SUBSET Objects]
    /\ sigMap \in [Objects -> SUBSET Handlers]
    /\ allSig \in [Tables -> SUBSET Handlers]
    /\ alive \in SUBSET Objects /\ tick \in 0..MaxTick
    /\ pc \in {"wait", "move", "lock", "dispatch", "call", "delete"}
    /\ table \in Tables
    /\ calls \in [src : SUBSET Handlers, all : SUBSET Handlers]
    /\ notified \in BOOLEAN /\ count \in 0..MaxEvents
    /\ doomed \in SUBSET Objects /\ delivered \in SUBSET EventSet

Init ==
    /\ pending = [t \in Tables |-> <<>>] /\ delayed = [t \in Tables |-> <<>>]
    /\ toDelete = [t \in Tables |-> {}]
    /\ sigMap \in [Objects -> {{}, Handlers}]
    /\ allSig = [t \in Tables |-> {}]
    /\ alive = Objects /\ tick = 0
    /\ pc = "wait" /\ table = 1 /\ calls = NoCalls
    /\ notified = FALSE /\ count = 0
    /\ doomed = {} /\ delivered = {}

\* process() holds m_pendingMutex and m_sigMapMutex from its first event until
\* checkDelete() has ended.  They are recursive: the main thread passes.
Locked(t) == pc \in {"dispatch", "call", "delete"} /\ table = t

-----------------------------------------------------------------------------
(* postEvent() and safeDelete()                                            *)

\* An event of src is about src, if that can be deleted; a timed callback is
\* about the objects bound to the function.
Needs(src) == IF src \in Immortal THEN SUBSET (Objects \ Immortal) ELSE {{src}}
Event(src, needs, at) == [id |-> count + 1, src |-> src, needs |-> needs, at |-> at]
NewEvents(src, at) == {Event(src, needs, at) : needs \in Needs(src) \cap SUBSET alive}
Counted == count < MaxEvents /\ count' = count + 1

postEvent(src) ==
    /\ Counted
    /\ \E e \in NewEvents(src, tick) :
        pending' = [pending EXCEPT ![Table[src]] = Append(@, e)]
    /\ notified' = TRUE
    /\ UNCHANGED <<delayed, toDelete, doomed>>

\* A multiset ordered by time: later than its equals.
postDelayed(src) ==
    /\ Counted
    /\ \E delay \in 0..MaxTick : \E e \in NewEvents(src, tick + delay) :
        LET d == delayed[Table[src]]
            n == Cardinality({i \in DOMAIN d : d[i].at <= e.at})
        IN  delayed' = [delayed EXCEPT ![Table[src]] =
                           SubSeq(d, 1, n) \o <<e>> \o SubSeq(d, n + 1, Len(d))]
    /\ UNCHANGED <<pending, notified, toDelete, doomed>>

safeDelete(src) ==
    /\ src \notin Immortal
    /\ toDelete' = [toDelete EXCEPT ![Table[src]] = @ \cup {src}]
    /\ doomed' = doomed \cup {src}
    /\ UNCHANGED <<queues, notified, count>>

\* safeDelete(src, evt)
safeDeleteEvent(src) ==
    /\ src \notin Immortal /\ Counted
    /\ \E e \in NewEvents(src, tick) :
        pending' = [pending EXCEPT ![Table[src]] = Append(@, e)]
    /\ notified' = TRUE
    /\ toDelete' = [toDelete EXCEPT ![Table[src]] = @ \cup {src}]
    /\ doomed' = doomed \cup {src}
    /\ UNCHANGED delayed

\* Another thread posts, when the table is not locked.
ThreadPosts(src) ==
    /\ src \in alive /\ ~Locked(Table[src])
    /\ postEvent(src)
    /\ UNCHANGED <<signals, alive, tick, main, delivered>>

-----------------------------------------------------------------------------
(* The main loop                                                           *)

\* Mutation: the wait has no time limit.
WaitUntimed ==
    /\ pc = "wait" /\ notified
    /\ tick' \in {tick, tick + 1} \cap 0..MaxTick
    /\ pc' = "move" /\ table' = 1 /\ notified' = FALSE
    /\ UNCHANGED <<queues, toDelete, signals, alive, calls, count, observer>>

\* waitForEvent() returns when it is notified, or after 300 ms, or at once: the
\* daemon's loop does not wait at all.  What was notified before the wait began
\* is forgotten.
Wait ==
    /\ pc = "wait"
    /\ tick' \in {tick, tick + 1} \cap 0..MaxTick
    /\ pc' = "move" /\ table' = 1 /\ notified' = FALSE
    /\ UNCHANGED <<queues, toDelete, signals, alive, calls, count, observer>>

\* checkForDelayed()
Due(t) == Cardinality({i \in DOMAIN delayed[t] : delayed[t][i].at <= tick})
Move ==
    /\ pc = "move"
    /\ pending' = [pending EXCEPT ![table] = @ \o SubSeq(delayed[table], 1, Due(table))]
    /\ delayed' = [delayed EXCEPT ![table] = SubSeq(@, Due(table) + 1, Len(@))]
    /\ pc' = "lock"
    /\ UNCHANGED <<toDelete, signals, alive, tick, table, calls, notified, count, observer>>

Lock ==
    /\ pc = "lock"
    /\ pc' = "dispatch"
    /\ UNCHANGED <<queues, toDelete, signals, alive, tick, table, calls, notified, count, observer>>

Front == Head(pending[table])
Pop   == pending' = [pending EXCEPT ![table] = Tail(@)]
Valid(e) == e.needs \subseteq alive

DropInvalid ==
    /\ pc = "dispatch" /\ pending[table] # <<>> /\ ~Valid(Front)
    /\ Pop
    /\ UNCHANGED <<delayed, toDelete, signals, alive, tick, main, notified, count, observer>>

Dispatch ==
    /\ pc = "dispatch" /\ pending[table] # <<>> /\ Valid(Front)
    /\ calls' = [src |-> sigMap[Front.src], all |-> allSig[table]]
    /\ pc' = "call"
    /\ UNCHANGED <<queues, toDelete, signals, alive, tick, table, notified, count, observer>>

\* The handlers still connected are called, those of the source first.
SrcCalls == calls.src \cap sigMap[Front.src]
AllCalls == calls.all \cap allSig[table]
Calling(h) ==
    /\ pc = "call"
    /\ \/ h \in SrcCalls /\ calls' = [calls EXCEPT !.src = @ \ {h}]
       \/ SrcCalls = {} /\ h \in AllCalls /\ calls' = [calls EXCEPT !.all = @ \ {h}]
    /\ UNCHANGED <<pc, table>>

\* What a handler may do.
Posts(h) ==
    /\ Calling(h)
    /\ \E o \in alive : postEvent(o) \/ postDelayed(o)
    /\ UNCHANGED <<signals, alive, tick, delivered>>

Dooms(h) ==
    /\ Calling(h)
    /\ \E o \in alive : safeDelete(o) \/ safeDeleteEvent(o)
    /\ UNCHANGED <<signals, alive, tick, delivered>>

\* It deletes an object it owns: the destructor calls delHandlers().
Kills(h) ==
    /\ Calling(h)
    /\ \E o \in alive \ (doomed \cup Immortal \cup Front.needs \cup {Front.src}) :
        /\ alive' = alive \ {o}
        /\ sigMap' = [sigMap EXCEPT ![o] = {}]
    /\ UNCHANGED <<queues, toDelete, allSig, tick, notified, count, observer>>

\* addHandler(), delHandler()
Connects(h) ==
    /\ Calling(h)
    /\ \/ \E o \in alive, k \in Handlers : sigMap' \in {[sigMap EXCEPT ![o] = @ \cup {k}],
                                                       [sigMap EXCEPT ![o] = @ \ {k}]}
          /\ UNCHANGED allSig
       \/ \E t \in Tables, k \in Handlers : allSig' \in {[allSig EXCEPT ![t] = @ \cup {k}],
                                                       [allSig EXCEPT ![t] = @ \ {k}]}
          /\ UNCHANGED sigMap
    /\ UNCHANGED <<queues, toDelete, alive, tick, notified, count, observer>>

Handled ==
    /\ pc = "call" /\ SrcCalls = {} /\ AllCalls = {}
    /\ delivered' = delivered \cup {Front}
    /\ Pop /\ pc' = "dispatch" /\ calls' = NoCalls
    /\ UNCHANGED <<delayed, toDelete, signals, alive, tick, table, notified, count, doomed>>

\* Mutation: what is to be deleted goes before the queue is empty.
CheckDeleteEarly ==
    /\ pc = "dispatch"
    /\ pc' = "delete"
    /\ UNCHANGED <<queues, toDelete, signals, alive, tick, table, calls, notified, count, observer>>

Drained ==
    /\ pc = "dispatch" /\ pending[table] = <<>>
    /\ pc' = "delete"
    /\ UNCHANGED <<queues, toDelete, signals, alive, tick, table, calls, notified, count, observer>>

\* checkDelete(): a destructor may call safeDelete() of another table.
Delete(o) ==
    /\ pc = "delete" /\ o \in toDelete[table]
    /\ alive' = alive \ {o}
    /\ sigMap' = [sigMap EXCEPT ![o] = {}]
    /\ \E D \in SUBSET {x \in alive \ Immortal : Table[x] # table} :
        /\ Cardinality(D) <= 1
        /\ doomed' = doomed \cup D
        /\ toDelete' = [t \in Tables |-> (toDelete[t] \cup {x \in D : Table[x] = t}) \ {o}]
    /\ UNCHANGED <<queues, allSig, tick, main, notified, count, delivered>>

NextTable ==
    /\ pc = "delete" /\ toDelete[table] = {}
    /\ IF table + 1 \in Tables
       THEN table' = table + 1 /\ pc' = "move"
       ELSE table' = 1 /\ pc' = "wait"
    /\ UNCHANGED <<queues, toDelete, signals, alive, tick, calls, notified, count, observer>>

Work ==
    \/ Move \/ Lock \/ DropInvalid \/ Dispatch \/ Handled \/ Drained \/ NextTable
    \/ \E o \in Objects : Delete(o)
    \/ \E h \in Handlers : Posts(h) \/ Dooms(h) \/ Kills(h) \/ Connects(h)
Next == Wait \/ Work \/ \E src \in Objects : ThreadPosts(src)

Spec == Init /\ [][Next]_vars
\* The main thread runs, and time passes.
FairSpec == Spec /\ WF_vars(Wait) /\ WF_vars(Work) /\ SF_vars(Wait /\ tick' > tick)

-----------------------------------------------------------------------------
(* Properties                                                              *)

\* A handler is only called for an event all of whose objects are alive, however
\* many of them were deleted while it waited: event.h's validators, and the order
\* of the queue and checkDelete().
NoGhosts == pc = "call" => Front.needs \subseteq alive /\ Front.src \in alive

\* The tables are mailboxes (Mailbox.tla).
Promise == INSTANCE Mailbox WITH inbox <- pending
ImplementsMailbox == Promise!Spec

\* Every event that was posted leaves its table, and what was given to
\* safeDelete() goes: none of it waits for an event that does not come.
Waiting(id) == \E t \in Tables : \/ \E i \in DOMAIN pending[t] : pending[t][i].id = id
                                 \/ \E i \in DOMAIN delayed[t] : delayed[t][i].id = id
\* (Events due after the bound on the clock never become due.)
Timely(id) == \A t \in Tables : \A i \in DOMAIN delayed[t] :
                 delayed[t][i].id = id => delayed[t][i].at <= MaxTick
Settles ==
    /\ \A id \in 1..MaxEvents : (Waiting(id) /\ Timely(id)) ~> ~Waiting(id)
    /\ \A o \in Objects : (o \in doomed) ~> (o \notin alive)
=============================================================================
