------------------------------ MODULE Mailbox ------------------------------
(***************************************************************************)
(* What hnbase/event.h promises: events of a table are delivered in the    *)
(* order they were posted, each once, while what they are about and their  *)
(* source are there; an event is only dropped when one of                  *)
(* the objects it is about is gone; and an object that was given to        *)
(* safeDelete() goes "after all events for the source have been            *)
(* processed".                                                             *)
(*                                                                         *)
(* EventTable implements this module (the run events checks it).           *)
(***************************************************************************)
EXTENDS Sequences, Naturals

CONSTANTS Tables, Objects
\* An event e has a source, e.src, and the objects it is about, e.needs.

VARIABLES inbox,      \* the events of each table, oldest first
          alive,      \* the objects there are
          doomed,     \* those given to safeDelete()
          delivered   \* the events that were handled

vars == <<inbox, alive, doomed, delivered>>

Init ==
    /\ inbox = [t \in Tables |-> <<>>]
    /\ alive = Objects /\ doomed = {} /\ delivered = {}

\* Events arrive at the end of an inbox, the last one of an object perhaps
\* together with safeDelete().
Post(t) ==
    /\ \E n \in 0..Len(inbox'[t]) : inbox[t] = SubSeq(inbox'[t], 1, n)
    /\ \A u \in Tables \ {t} : inbox'[u] = inbox[u]
    /\ \/ UNCHANGED doomed
       \/ inbox'[t] # <<>> /\ doomed' = doomed \cup {inbox'[t][Len(inbox'[t])].src}
    /\ UNCHANGED <<alive, delivered>>

Doom(o) ==
    /\ o \in alive
    /\ doomed' = doomed \cup {o}
    /\ UNCHANGED <<inbox, alive, delivered>>

Deliver(t) ==
    /\ inbox[t] # <<>> /\ Head(inbox[t]) \notin delivered
    /\ Head(inbox[t]).needs \cup {Head(inbox[t]).src} \subseteq alive
    /\ delivered' = delivered \cup {Head(inbox[t])}
    /\ inbox' = [inbox EXCEPT ![t] = Tail(@)]
    /\ UNCHANGED <<alive, doomed>>

Drop(t) ==
    /\ inbox[t] # <<>> /\ ~(Head(inbox[t]).needs \subseteq alive)
    /\ inbox' = [inbox EXCEPT ![t] = Tail(@)]
    /\ UNCHANGED <<alive, doomed, delivered>>

Unheard(o) == \E t \in Tables : \E i \in 1..Len(inbox[t]) : inbox[t][i].src = o

\* What became of safeDelete(); the destructor may call it for others.
Remove(o) ==
    /\ o \in doomed \cap alive /\ ~Unheard(o)
    /\ alive' = alive \ {o}
    /\ doomed \subseteq doomed' /\ doomed' \subseteq doomed \cup alive'
    /\ UNCHANGED <<inbox, delivered>>

\* An owner deletes what it owns.
Kill(o) ==
    /\ o \in alive \ doomed
    /\ alive' = alive \ {o}
    /\ UNCHANGED <<inbox, doomed, delivered>>

Next ==
    \/ \E t \in Tables : Post(t) \/ Deliver(t) \/ Drop(t)
    \/ \E o \in Objects : Doom(o) \/ Remove(o) \/ Kill(o)

Spec == Init /\ [][Next]_vars
=============================================================================
