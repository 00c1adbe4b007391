------------------------ MODULE DonkeyClients_proofs ------------------------
(***************************************************************************)
(* The lifetimes of the clients, for any finite number of clients, any     *)
(* peers and slots, and queues of any length: what has a slot or waits for *)
(* one exists, a client without a purpose is on its way out, and a         *)
(* download has a connection.                                              *)
(*                                                                         *)
(* All follows from one inductive invariant, Good(s).  A handler is a      *)
(* chain of steps that each look at one client, so the proofs go by        *)
(* Near(t, c): while a handler of c is under way all but c is in order;    *)
(* and by Kept(t, u, c): the handler touched nothing but c, and left c in  *)
(* order.                                                                  *)
(***************************************************************************)
EXTENDS DonkeyClients, FiniteSetTheorems, WellFoundedInduction, SequenceTheorems, TLAPS

-----------------------------------------------------------------------------
(* The invariant                                                           *)

Has(t, c, evt) == \E i \in 1..Len(t.events) : t.events[i] = <<c, evt>>

\* Events, slots and places in the queue are those of clients that exist.
Live(t) ==
    /\ \A c \in Clients, evt \in EventSet : Has(t, c, evt) => t.cl[c].exists
    /\ \A c \in t.uploading \cup t.queued : t.cl[c].exists

\* Only what exists has a connection, a purpose or a callback to wait for; what has
\* neither of the first two will be destroyed; what is connected has a session,
\* and what is downloaded from is connected.
Sound(t, c) ==
    LET p == t.cl[c]
    IN  /\ p.sock # "none" \/ HasPurpose(p) \/ p.cb => p.exists
        /\ p.exists /\ p.sock = "none" /\ ~HasPurpose(p) => Has(t, c, "destroy")
        /\ p.dl => p.sock \in {"open", "up"}
        /\ p.sock # "none" => p.sess # {}

Good(t) == t \in State /\ Live(t) /\ \A c \in Clients : Sound(t, c)

\* While a handler of c is under way, all but c is in order.
Near(t, c) ==
    t \in State /\ Live(t) /\ t.cl[c].exists /\ \A d \in Clients \ {c} : Sound(t, d)

LEMMA GoodIsNear ==
  ASSUME NEW t, NEW c \in Clients, t.cl[c].exists
  PROVE  Good(t) <=> Near(t, c) /\ Sound(t, c)
BY DEF Good, Near

LEMMA Fields ==
  ASSUME NEW t \in State, NEW c \in Clients
  PROVE  /\ t.cl \in [Clients -> ClientSet] /\ t.events \in Seq(Clients \X EventSet)
         /\ t.uploading \in SUBSET Clients /\ t.queued \in SUBSET Clients
         /\ t.queue \in Seq(Clients) /\ t.sources \in SUBSET Clients
         /\ t.cl[c] \in ClientSet
         /\ t.cl[c].exists \in BOOLEAN /\ t.cl[c].id \in Peers \cup {Unknown}
         /\ t.cl[c].sock \in {"none", "connecting", "open", "up"}
         /\ t.cl[c].src \in {"none", "live", "stale"}
         /\ t.cl[c].dl \in BOOLEAN /\ t.cl[c].q \in BOOLEAN /\ t.cl[c].up \in BOOLEAN
         /\ t.cl[c].cb \in BOOLEAN /\ t.cl[c].sess \in SUBSET {"alive", "req", "hello"}
BY DEF State, ClientSet

\* The state u differs from t in the record of c, in events of c that came, and in what
\* the sets and the queue say of c.
Within(t, u, c) ==
    /\ u \in State
    /\ u.cl[c].exists = t.cl[c].exists
    /\ \A d \in Clients \ {c} : u.cl[d] = t.cl[d]
    /\ \A d \in Clients, evt \in EventSet : Has(t, d, evt) => Has(u, d, evt)
    /\ \A d \in Clients \ {c}, evt \in EventSet : Has(u, d, evt) => Has(t, d, evt)
    /\ u.uploading \cup u.queued \subseteq t.uploading \cup t.queued \cup {c}

LEMMA NearWithin ==
  ASSUME NEW t, NEW u, NEW c \in Clients, Near(t, c), Within(t, u, c)
  PROVE  Near(u, c)
<1>1. u \in State /\ u.cl[c].exists
  BY DEF Near, Within
<1>2. \A d \in Clients : u.cl[d].exists = t.cl[d].exists
  BY DEF Near, Within
<1>3. Live(u)
  <2>1. ASSUME NEW d \in Clients, NEW evt \in EventSet, Has(u, d, evt) PROVE u.cl[d].exists
    BY <1>1, <2>1 DEF Near, Within, Live
  <2>2. ASSUME NEW d \in u.uploading \cup u.queued PROVE u.cl[d].exists
    <3>1. d \in Clients
      BY <1>1, Fields
    <3>2. CASE d = c
      BY <1>1, <3>2
    <3>3. CASE d # c
      BY <1>2, <3>1, <3>3 DEF Near, Within, Live
    <3> QED BY <3>2, <3>3
  <2> QED BY <2>1, <2>2 DEF Live
<1>4. ASSUME NEW d \in Clients \ {c} PROVE Sound(u, d)
  <2>1. u.cl[d] = t.cl[d] /\ Sound(t, d)
    BY DEF Near, Within
  <2>2. Has(t, d, "destroy") => Has(u, d, "destroy")
    BY DEF Within, EventSet
  <2> QED BY <2>1, <2>2 DEF Sound
<1> QED BY <1>1, <1>3, <1>4 DEF Near

LEMMA WithinBoth ==
  ASSUME NEW t, NEW u, NEW v, NEW c \in Clients, Within(t, u, c), Within(u, v, c)
  PROVE  Within(t, v, c)
<1>1. v \in State /\ v.cl[c].exists = t.cl[c].exists
  BY DEF Within
<1>2. ASSUME NEW d \in Clients \ {c} PROVE v.cl[d] = t.cl[d]
  BY DEF Within
<1>3. ASSUME NEW d \in Clients, NEW evt \in EventSet
      PROVE  /\ Has(t, d, evt) => Has(v, d, evt)
             /\ d # c => (Has(v, d, evt) => Has(t, d, evt))
  BY DEF Within
<1>4. v.uploading \cup v.queued \subseteq t.uploading \cup t.queued \cup {c}
  BY DEF Within
<1> QED BY <1>1, <1>2, <1>3, <1>4 DEF Within

\* A change of the record of c, of the sources, and of the place of c.
LEMMA Change ==
  ASSUME NEW t \in State, NEW u \in State, NEW c \in Clients, NEW p,
         u.cl = [t.cl EXCEPT ![c] = p], p.exists = t.cl[c].exists, u.events = t.events,
         u.uploading \cup u.queued \subseteq t.uploading \cup t.queued \cup {c}
  PROVE  Within(t, u, c) /\ u.cl[c] = p
<1>1. u.cl[c] = p /\ \A d \in Clients \ {c} : u.cl[d] = t.cl[d]
  BY Fields
<1>2. \A d, evt : Has(u, d, evt) <=> Has(t, d, evt)
  BY DEF Has
<1> QED BY <1>1, <1>2 DEF Within

LEMMA Posted ==
  ASSUME NEW t \in State, NEW c \in Clients, NEW evt \in EventSet
  PROVE  /\ Within(t, Post(t, c, evt), c)
         /\ Has(Post(t, c, evt), c, evt)
         /\ Post(t, c, evt).cl = t.cl
<1> DEFINE u == Post(t, c, evt)
<1>1. /\ u.cl = t.cl /\ u.events = Append(t.events, <<c, evt>>) /\ u.queue = t.queue
      /\ u.uploading = t.uploading /\ u.queued = t.queued /\ u.sources = t.sources
  BY DEF Post, State
<1>2. u \in State
  <2>1. u.events \in Seq(Clients \X EventSet)
    BY <1>1, Fields, AppendProperties
  <2>2. u = [t EXCEPT !.events = u.events]
    BY <1>1 DEF Post
  <2> HIDE DEF u
  <2> QED BY <2>1, <2>2 DEF State
<1>3. PICK n \in Nat : n = Len(t.events)
  BY Fields
<1>4. /\ Len(u.events) = n + 1 /\ u.events[n + 1] = <<c, evt>>
      /\ \A i \in 1..n : u.events[i] = t.events[i]
  BY <1>1, <1>3, Fields
<1>5. Has(u, c, evt)
  BY <1>4 DEF Has
<1>6. ASSUME NEW d, NEW e, Has(t, d, e) PROVE Has(u, d, e)
  BY <1>3, <1>4, <1>6 DEF Has
<1>7. ASSUME NEW d, NEW e, d # c, Has(u, d, e) PROVE Has(t, d, e)
  <2>1. PICK i \in 1..(n + 1) : u.events[i] = <<d, e>>
    BY <1>4, <1>7 DEF Has
  <2>2. i # n + 1
    BY <1>4, <1>7, <2>1
  <2> QED BY <1>3, <1>4, <2>1, <2>2 DEF Has
<1> HIDE DEF u
<1>8. Within(t, u, c)
  BY <1>2, <1>1, <1>6, <1>7 DEF Within
<1> QED BY <1>1, <1>5, <1>8 DEF u

\* A change of the record of c alone.
LEMMA Patched ==
  ASSUME NEW t \in State, NEW c \in Clients, NEW p \in ClientSet, p.exists = t.cl[c].exists
  PROVE  Set(t, c, p) \in State /\ Within(t, Set(t, c, p), c) /\ Set(t, c, p).cl[c] = p
<1> DEFINE u == Set(t, c, p)
<1>1. u = [t EXCEPT !.cl = [t.cl EXCEPT ![c] = p]]
  BY DEF State, Set
<1>2. u \in State
  <2>1. PICK clients \in [Clients -> ClientSet] : clients = [t.cl EXCEPT ![c] = p]
    BY Fields
  <2> QED BY <1>1, <2>1 DEF State
<1>3. /\ u.cl = [t.cl EXCEPT ![c] = p] /\ u.events = t.events
      /\ u.uploading = t.uploading /\ u.queued = t.queued
  BY <1>1 DEF State
<1> HIDE DEF u
<1>4. u.cl[c] = p /\ \A d \in Clients \ {c} : u.cl[d] = t.cl[d]
  BY <1>3, Fields
<1>5. \A d, evt : Has(u, d, evt) <=> Has(t, d, evt)
  BY <1>3 DEF Has
<1>6. Within(t, u, c)
  BY <1>2, <1>3, <1>4, <1>5 DEF Within
<1> QED BY <1>2, <1>4, <1>6 DEF u

-----------------------------------------------------------------------------
(* The handlers of a client                                                *)

\* What a handler of c makes of t: all is in order again.
Kept(t, u, c) == Within(t, u, c) /\ Sound(u, c)

LEMMA KeptGood ==
  ASSUME NEW t, NEW u, NEW c \in Clients, Near(t, c), Kept(t, u, c)
  PROVE  Good(u) /\ Near(u, c) /\ u.cl[c].exists
<1>1. Near(u, c) /\ u.cl[c].exists
  BY NearWithin DEF Kept, Near
<1> QED BY <1>1, GoodIsNear DEF Kept

LEMMA Stays ==
  ASSUME NEW t \in State, NEW c \in Clients
  PROVE  Within(t, t, c)
BY DEF Within

LEMMA Dropped ==
  ASSUME NEW t \in State, NEW c \in Clients
  PROVE  /\ Within(t, DropSource(t, c), c)
         /\ DropSource(t, c).cl[c] = [t.cl[c] EXCEPT !.src = "none"]
<1> DEFINE u == DropSource(t, c)
           p == [t.cl[c] EXCEPT !.src = "none"]
<1>1. p \in ClientSet /\ p.exists = t.cl[c].exists
  BY Fields DEF ClientSet
<1>2. u.cl = [t.cl EXCEPT ![c] = p] /\ u.events = t.events
  BY Fields DEF DropSource, State
<1>3. /\ u.uploading = t.uploading /\ u.queued = t.queued /\ u.queue = t.queue
      /\ u.sources \subseteq t.sources
  BY DEF DropSource, State
<1>4. u \in State
  BY <1>1, Fields DEF DropSource, State
<1> HIDE DEF u, p
<1>5. Within(t, u, c) /\ u.cl[c] = p
  BY <1>1, <1>2, <1>3, <1>4, Change
<1> QED BY <1>5 DEF u, p

\* destroy() ends with a client that has nothing left, and an event for its end.
LEMMA Destroyed ==
  ASSUME NEW t, NEW c \in Clients, t \in State, t.cl[c].exists
  PROVE  /\ Kept(t, Destroy(t, c), c) /\ Has(Destroy(t, c), c, "destroy")
         /\ Destroy(t, c).cl[c] = [t.cl[c] EXCEPT !.src = "none", !.sock = "none",
                                       !.dl = FALSE, !.q = FALSE, !.up = FALSE]
<1>1. PICK v \in State : v = Post(t, c, "destroy") /\ Within(t, v, c) /\ Has(v, c, "destroy")
                         /\ v.cl = t.cl
  <2>1. Within(t, Post(t, c, "destroy"), c) /\ Has(Post(t, c, "destroy"), c, "destroy")
        /\ Post(t, c, "destroy").cl = t.cl
    BY Posted DEF EventSet
  <2> QED BY <2>1 DEF Within
<1>2. PICK w \in State : w = DropSource(v, c) /\ Within(v, w, c)
                         /\ w.cl[c] = [t.cl[c] EXCEPT !.src = "none"]
  <2>1. Within(v, DropSource(v, c), c) /\ DropSource(v, c).cl[c] = [v.cl[c] EXCEPT !.src = "none"]
    BY Dropped
  <2> QED BY <1>1, <2>1 DEF Within
<1>3. PICK u : u = Destroy(t, c)
  OBVIOUS
<1>4. u = [w EXCEPT !.cl[c].sock = "none", !.cl[c].dl = FALSE,
                    !.cl[c].q = FALSE, !.cl[c].up = FALSE]
  BY <1>1, <1>2, <1>3 DEF Destroy
<1>5. PICK r \in ClientSet : r = w.cl[c]
  BY Fields
<1>6. PICK p : p = [r EXCEPT !.sock = "none", !.dl = FALSE, !.q = FALSE, !.up = FALSE]
  OBVIOUS
<1>7. p \in ClientSet /\ p.exists = r.exists
  BY <1>6 DEF ClientSet
<1>8. u = Set(w, c, p)
  BY <1>4, <1>5, <1>6, Zenon DEF Set
<1>9. Within(w, u, c) /\ u.cl[c] = p
  BY <1>5, <1>7, <1>8, Patched
<1>10. Within(t, u, c)
  BY <1>1, <1>2, <1>9, WithinBoth
<1>11. p = [t.cl[c] EXCEPT !.src = "none", !.sock = "none",
                           !.dl = FALSE, !.q = FALSE, !.up = FALSE]
  BY <1>2, <1>5, <1>6 DEF ClientSet
<1>12. Has(u, c, "destroy")
  BY <1>1, <1>2, <1>9 DEF Within, EventSet
<1>13. p.sock = "none" /\ ~HasPurpose(p) /\ ~p.dl /\ p.exists
  <2>1. p.exists
    BY <1>9, <1>10 DEF Within
  <2>2. p.sock = "none" /\ p.src = "none" /\ p.dl = FALSE /\ p.q = FALSE /\ p.up = FALSE
    BY <1>2, <1>5, <1>6 DEF ClientSet
  <2> QED BY <2>1, <2>2 DEF HasPurpose
<1>14. Sound(u, c)
  BY <1>9, <1>12, <1>13 DEF Sound
<1> QED BY <1>3, <1>9, <1>10, <1>11, <1>12, <1>14 DEF Kept

\* A record that can be that of a client that exists.
Fit(p) ==
    /\ p.exists
    /\ p.dl => p.sock \in {"open", "up"}
    /\ p.sock # "none" => p.sess # {}

\* There is something to keep the client for, or it is on its way out.
Kind(t, c, p) == p.sock # "none" \/ HasPurpose(p) \/ Has(t, c, "destroy")

LEMMA SoundIs ==
  ASSUME NEW t, NEW c \in Clients, t.cl[c].exists
  PROVE  Sound(t, c) <=> Fit(t.cl[c]) /\ Kind(t, c, t.cl[c])
BY DEF Sound, Fit, Kind

LEMMA KeptIs ==
  ASSUME NEW t, NEW u, NEW c \in Clients, t.cl[c].exists, Within(t, u, c),
         Fit(u.cl[c]), Kind(t, c, u.cl[c])
  PROVE  Kept(t, u, c)
<1>1. u.cl[c].exists
  BY DEF Fit
<1>2. Kind(u, c, u.cl[c])
  BY DEF Within, Kind, EventSet
<1> QED BY <1>1, <1>2, SoundIs DEF Kept

LEMMA Patching ==
  ASSUME NEW t \in State, NEW c \in Clients, t.cl[c].exists,
         NEW p \in ClientSet, Fit(p), Kind(t, c, p)
  PROVE  /\ Set(t, c, p) \in State /\ Kept(t, Set(t, c, p), c)
         /\ Set(t, c, p).cl[c] = p
<1>1. p.exists = t.cl[c].exists
  BY Fields DEF Fit, ClientSet
<1>2. PICK u : u = Set(t, c, p)
  OBVIOUS
<1>3. u \in State /\ Within(t, u, c) /\ u.cl[c] = p
  BY <1>1, <1>2, Patched
<1>4. Kept(t, u, c)
  BY <1>3, KeptIs
<1> QED BY <1>2, <1>3, <1>4

LEMMA KeptBoth ==
  ASSUME NEW t, NEW u, NEW v, NEW c \in Clients, Within(t, u, c), Kept(u, v, c)
  PROVE  Kept(t, v, c)
BY WithinBoth DEF Kept

LEMMA CheckDestroyKeeps ==
  ASSUME NEW t \in State, NEW c \in Clients, t.cl[c].exists, Fit(t.cl[c])
  PROVE  Kept(t, CheckDestroy(t, c), c)
<1>1. CASE HasPurpose(t.cl[c])
  <2>1. Kept(t, t, c)
    BY <1>1, Stays, KeptIs DEF Kind
  <2> QED BY <1>1, <2>1 DEF CheckDestroy
<1>2. CASE ~HasPurpose(t.cl[c])
  BY <1>2, Destroyed DEF CheckDestroy
<1> QED BY <1>1, <1>2

LEMMA EstablishKeeps ==
  ASSUME NEW t \in State, NEW c \in Clients, t.cl[c].exists, Sound(t, c), NEW ok
  PROVE  Kept(t, Establish(t, c, ok), c)
<1> DEFINE u == Establish(t, c, ok)
<1>1. PICK r \in ClientSet : r = t.cl[c]
  BY Fields
<1>2. Fit(r) /\ Kind(t, c, r)
  BY <1>1, SoundIs
<1>3. CASE u = t
  BY <1>3, Stays DEF Kept
<1>4. CASE u = Destroy(t, c)
  <2>1. Kept(t, Destroy(t, c), c)
    BY Destroyed
  <2> QED BY <1>4, <2>1
<1>5. CASE r.sock = "none" /\ u = [t EXCEPT !.cl[c].cb = TRUE]
  <2>1. PICK p : p = [r EXCEPT !.cb = TRUE]
    OBVIOUS
  <2>2. p \in ClientSet
    BY <2>1 DEF ClientSet
  <2>3. Fit(p) /\ Kind(t, c, p)
    BY <1>2, <2>1 DEF Fit, Kind, HasPurpose, ClientSet
  <2>4. u = Set(t, c, p)
    <3>1. Set(t, c, p) = [t EXCEPT !.cl[c].cb = TRUE]
      BY <1>1, <2>1, Zenon DEF Set
    <3> QED BY <1>5, <3>1
  <2> QED BY <2>2, <2>3, <2>4, Patching
<1>6. CASE r.sock = "none" /\ u = [t EXCEPT !.cl[c].sock = "connecting", !.cl[c].sess = {"alive"}]
  <2>1. PICK p : p = [r EXCEPT !.sock = "connecting", !.sess = {"alive"}]
    OBVIOUS
  <2>2. p \in ClientSet
    BY <2>1 DEF ClientSet
  <2>3. Fit(p) /\ Kind(t, c, p)
    BY <1>2, <1>6, <2>1 DEF Fit, Kind, HasPurpose, ClientSet
  <2>4. u = Set(t, c, p)
    <3>1. Set(t, c, p) = [t EXCEPT !.cl[c].sock = "connecting", !.cl[c].sess = {"alive"}]
      BY <1>1, <2>1, Zenon DEF Set
    <3> QED BY <1>6, <3>1
  <2> QED BY <2>2, <2>3, <2>4, Patching
<1> QED BY <1>1, <1>3, <1>4, <1>5, <1>6 DEF Establish

LEMMA ReqDownloadKeeps ==
  ASSUME NEW t \in State, NEW c \in Clients, t.cl[c].exists, Sound(t, c)
  PROVE  Kept(t, ReqDownload(t, c), c)
<1> DEFINE u == ReqDownload(t, c)
<1>1. PICK r \in ClientSet : r = t.cl[c]
  BY Fields
<1>2. Fit(r) /\ Kind(t, c, r)
  BY <1>1, SoundIs
<1>3. PICK p : p = [r EXCEPT !.sess = @ \cup {"req"}]
  OBVIOUS
<1>4. p \in ClientSet
  BY <1>3 DEF ClientSet
<1>5. Fit(p) /\ Kind(t, c, p)
  BY <1>2, <1>3 DEF Fit, Kind, HasPurpose, ClientSet
<1>6. u = Set(t, c, p)
  BY <1>1, <1>3, Zenon DEF State, ReqDownload, Set
<1> QED BY <1>4, <1>5, <1>6, Patching

\* c becomes a source.
Offered(t, c) == [t EXCEPT !.cl[c].src = "live", !.sources = @ \cup {c}]

LEMMA OfferedKeeps ==
  ASSUME NEW t \in State, NEW c \in Clients, t.cl[c].exists, Fit(t.cl[c])
  PROVE  Offered(t, c) \in State /\ Kept(t, Offered(t, c), c)
         /\ Offered(t, c).cl[c] = [t.cl[c] EXCEPT !.src = "live"]
<1> DEFINE u == Offered(t, c)
<1>1. PICK r \in ClientSet : r = t.cl[c]
  BY Fields
<1>2. PICK p : p = [r EXCEPT !.src = "live"]
  OBVIOUS
<1>3. p \in ClientSet /\ p.exists = r.exists
  BY <1>2 DEF ClientSet
<1>4. Fit(p) /\ Kind(t, c, p)
  BY <1>1, <1>2 DEF Fit, Kind, HasPurpose, ClientSet
<1>5. PICK v : v = Set(t, c, p)
  OBVIOUS
<1>6. v \in State /\ Within(t, v, c) /\ v.cl[c] = p
  BY <1>1, <1>3, <1>5, Patched
<1>7. u = [v EXCEPT !.sources = @ \cup {c}]
  BY <1>1, <1>2, <1>5, Zenon DEF State, Offered, Set
<1> HIDE DEF u
<1>8. u \in State /\ u.cl = v.cl /\ u.events = v.events
      /\ u.uploading = v.uploading /\ u.queued = v.queued
  BY <1>6, <1>7 DEF State
<1>9. Within(t, u, c) /\ u.cl[c] = p
  <2>1. \A d, evt : Has(u, d, evt) <=> Has(v, d, evt)
    BY <1>8 DEF Has
  <2> QED BY <1>6, <1>8, <2>1 DEF Within
<1>10. Kept(t, u, c)
  BY <1>4, <1>9, KeptIs
<1> QED BY <1>1, <1>2, <1>8, <1>9, <1>10 DEF u

\* A source that was named keeps c, or is asked for the file.
LEMMA AddOfferedKeeps ==
  ASSUME NEW t \in State, NEW c \in Clients, t.cl[c].exists, Fit(t.cl[c]),
         t.cl[c].src = "none" \/ Sound(t, c), NEW doConn, NEW ok
  PROVE  Kept(t, AddOffered(t, c, doConn, ok), c)
<1>1. PICK v \in State : v = Offered(t, c) /\ Kept(t, v, c)
  BY OfferedKeeps
<1>2. v.cl[c].exists /\ Sound(v, c) /\ Within(t, v, c)
  BY <1>1 DEF Kept, Within
<1>3. CASE t.cl[c].src # "none"
  BY <1>3, Stays DEF AddOffered, Kept
<1>4. CASE t.cl[c].src = "none"
  <2>1. Kept(t, Establish(v, c, ok), c)
    BY <1>2, EstablishKeeps, KeptBoth
  <2>2. Kept(t, ReqDownload(v, c), c)
    BY <1>2, ReqDownloadKeeps, KeptBoth
  <2> QED BY <1>1, <1>4, <2>1, <2>2 DEF AddOffered, Offered
<1> QED BY <1>3, <1>4

\* remOffered(): c is kept for something else, or destroyed.
LEMMA RemOfferedKeeps ==
  ASSUME NEW t \in State, NEW c \in Clients, t.cl[c].exists, Fit(t.cl[c])
  PROVE  Kept(t, RemOffered(t, c), c)
<1>1. PICK v \in State : v = DropSource(t, c) /\ Within(t, v, c)
                         /\ v.cl[c] = [t.cl[c] EXCEPT !.src = "none"]
  <2>1. Within(t, DropSource(t, c), c)
        /\ DropSource(t, c).cl[c] = [t.cl[c] EXCEPT !.src = "none"]
    BY Dropped
  <2> QED BY <2>1 DEF Within
<1>2. PICK r \in ClientSet : r = v.cl[c]
  BY Fields
<1>3. r.exists /\ Fit(r)
  BY <1>1, <1>2, Fields DEF Fit, ClientSet
<1>4. PICK p : p = [r EXCEPT !.dl = FALSE]
  OBVIOUS
<1>5. p \in ClientSet /\ p.exists = r.exists /\ Fit(p)
  BY <1>3, <1>4 DEF ClientSet, Fit
<1>6. PICK u \in State : u = Set(v, c, p) /\ Within(v, u, c) /\ u.cl[c] = p
  BY <1>2, <1>5, Patched
<1>7. RemOffered(t, c) = CheckDestroy(u, c)
  BY <1>1, <1>2, <1>4, <1>6, Zenon DEF RemOffered, Set, State
<1>8. Kept(u, CheckDestroy(u, c), c)
  BY <1>3, <1>5, <1>6, CheckDestroyKeeps
<1>9. Within(t, u, c)
  BY <1>1, <1>6, WithinBoth
<1> QED BY <1>7, <1>8, <1>9, KeptBoth

\* What onLostConnection() decides of c, whose socket is gone.
Decided(t, c, off, why) ==
    LET p   == t.cl[c]
        src == p.src # "none"
    IN  IF \/ ~p.q /\ src /\ why = "unasked"
           \/ ~p.q /\ ~src
           \/ why = "tried"
        THEN Destroy(off, c)
        ELSE IF p.dl \/ (src /\ why = "requested")
        THEN off
        ELSE IF p.up
        THEN Post([off EXCEPT !.cl[c].q = TRUE], c, "uploadreq")
        ELSE IF \/ src /\ "alive" \in p.sess /\ "req" \notin p.sess /\ ~p.q
                \/ "alive" \in p.sess /\ "hello" \notin p.sess
        THEN Destroy(off, c)
        ELSE off

LEMMA LostConnectionIs ==
  ASSUME NEW t, NEW c, NEW why
  PROVE  LostConnection(t, c, why) =
           [Decided(t, c, [t EXCEPT !.cl[c].sock = "none"], why) EXCEPT
                !.cl[c].dl = FALSE, !.cl[c].up = FALSE, !.cl[c].sess = {}]
BY DEF LostConnection, Decided

\* onLostConnection(): what is left of c has a reason, or is destroyed.
LEMMA LostConnectionKeeps ==
  ASSUME NEW t \in State, NEW c \in Clients, t.cl[c].exists, NEW why
  PROVE  Kept(t, LostConnection(t, c, why), c)
<1>1. PICK r \in ClientSet : r = t.cl[c] /\ r.exists
  BY Fields
<1>2. PICK o \in ClientSet : o = [r EXCEPT !.sock = "none"]
  BY DEF ClientSet
<1>3. o.exists = r.exists
  BY <1>2 DEF ClientSet
<1>4. PICK off \in State : off = Set(t, c, o) /\ Within(t, off, c) /\ off.cl[c] = o
  BY <1>1, <1>3, Patched
<1>5. off = [t EXCEPT !.cl[c].sock = "none"]
  BY <1>1, <1>2, <1>4, Zenon DEF Set
<1> DEFINE Left(w) == /\ w \in State /\ Within(t, w, c) /\ w.cl[c].sock = "none"
                      /\ w.cl[c].src # "none" \/ w.cl[c].q \/ Has(w, c, "destroy")
<1>6. PICK w : w = Decided(t, c, off, why)
  OBVIOUS
<1>7. Left(Destroy(off, c))
  <2>1. off.cl[c].exists
    BY <1>1, <1>3, <1>4
  <2>2. Kept(off, Destroy(off, c), c) /\ Has(Destroy(off, c), c, "destroy")
        /\ Destroy(off, c).cl[c] = [off.cl[c] EXCEPT !.src = "none", !.sock = "none",
                                       !.dl = FALSE, !.q = FALSE, !.up = FALSE]
    BY <2>1, Destroyed
  <2>3. Destroy(off, c).cl[c].sock = "none"
    BY <1>4, <2>2 DEF ClientSet
  <2>4. Within(off, Destroy(off, c), c)
    BY <2>2 DEF Kept
  <2>5. Within(t, Destroy(off, c), c)
    BY <1>4, <2>4, WithinBoth
  <2>6. Within(t, Destroy(off, c), c) /\ Destroy(off, c) \in State
    BY <2>5 DEF Within
  <2> QED BY <2>2, <2>3, <2>6
<1>8. r.src # "none" \/ r.q => Left(off)
  <2>1. off.cl[c].sock = "none" /\ off.cl[c].src = r.src /\ off.cl[c].q = r.q
    BY <1>2, <1>4 DEF ClientSet
  <2> QED BY <1>4, <2>1
<1>9. Left(Post([off EXCEPT !.cl[c].q = TRUE], c, "uploadreq"))
  <2>1. PICK p : p = [o EXCEPT !.q = TRUE]
    OBVIOUS
  <2>2. p \in ClientSet /\ p.exists = o.exists /\ p.sock = "none" /\ p.q
    BY <1>2, <2>1 DEF ClientSet
  <2>3. PICK v \in State : v = Set(off, c, p) /\ Within(off, v, c) /\ v.cl[c] = p
    BY <1>4, <2>2, Patched
  <2>4. v = [off EXCEPT !.cl[c].q = TRUE]
    BY <1>4, <2>1, <2>3, Zenon DEF Set
  <2>5. PICK u : u = Post(v, c, "uploadreq")
    OBVIOUS
  <2>6. Within(v, u, c) /\ u.cl = v.cl
    BY <2>5, Posted DEF EventSet
  <2>7. Within(t, v, c)
    BY <1>4, <2>3, WithinBoth
  <2>8. Within(t, u, c)
    BY <2>6, <2>7, WithinBoth
  <2>9. Within(t, u, c) /\ u \in State
    BY <2>8 DEF Within
  <2>10. Left(u)
    BY <2>2, <2>3, <2>6, <2>9
  <2> QED BY <2>4, <2>5, <2>10
<1>10. Left(w)
  <2> HIDE DEF Left
  <2> QED BY <1>1, <1>6, <1>7, <1>8, <1>9 DEF Decided
<1>11. PICK x \in ClientSet : x = w.cl[c] /\ x.exists
  BY <1>1, <1>10, Fields DEF Within
<1>12. PICK p : p = [x EXCEPT !.dl = FALSE, !.up = FALSE, !.sess = {}]
  OBVIOUS
<1>17. x.sock = "none"
  BY <1>10, <1>11
<1>18. p \in ClientSet
  BY <1>11, <1>12 DEF ClientSet
<1>13. p \in ClientSet /\ p.exists /\ p.sock = "none" /\ p.dl = FALSE
       /\ p.src = x.src /\ p.q = x.q
  <2>1. p.exists = x.exists /\ p.sock = x.sock /\ p.src = x.src /\ p.q = x.q /\ p.dl = FALSE
    BY <1>11, <1>12 DEF ClientSet
  <2> QED BY <1>11, <1>17, <1>18, <2>1
<1>14. Fit(p) /\ Kind(w, c, p)
  BY <1>10, <1>11, <1>13 DEF Fit, Kind, HasPurpose
<1>15. LostConnection(t, c, why) = Set(w, c, p)
  <2>1. LostConnection(t, c, why) =
          [w EXCEPT !.cl[c].dl = FALSE, !.cl[c].up = FALSE, !.cl[c].sess = {}]
    <3>1. w = Decided(t, c, [t EXCEPT !.cl[c].sock = "none"], why)
      BY <1>5, <1>6
    <3> QED BY <3>1, LostConnectionIs
  <2>2. w \in State
    BY <1>10
  <2> HIDE DEF Left
  <2>3. [w EXCEPT !.cl[c].dl = FALSE, !.cl[c].up = FALSE, !.cl[c].sess = {}] = Set(w, c, p)
    BY <1>11, <1>12, <2>2, Zenon DEF Set
  <2> QED BY <2>1, <2>3
<1>16. Kept(w, Set(w, c, p), c)
  BY <1>10, <1>11, <1>13, <1>14, Patching
<1> QED BY <1>10, <1>15, <1>16, KeptBoth

\* A change of the record of c, and an event.
LEMMA Noted ==
  ASSUME NEW t \in State, NEW c \in Clients, NEW p \in ClientSet, p.exists, t.cl[c].exists,
         NEW evt \in EventSet
  PROVE  /\ Post(Set(t, c, p), c, evt) \in State
         /\ Within(t, Post(Set(t, c, p), c, evt), c)
         /\ Post(Set(t, c, p), c, evt).cl[c] = p
<1>1. p.exists = t.cl[c].exists
  BY Fields DEF ClientSet
<1>2. PICK v \in State : v = Set(t, c, p) /\ Within(t, v, c) /\ v.cl[c] = p
  BY <1>1, Patched
<1>3. PICK w : w = Post(v, c, evt)
  OBVIOUS
<1>4. Within(v, w, c) /\ w.cl = v.cl
  BY <1>3, Posted
<1>5. Within(t, w, c) /\ w \in State
  BY <1>2, <1>4, WithinBoth DEF Within
<1> QED BY <1>2, <1>3, <1>4, <1>5

\* What sendNextChunk() makes of t when all that was asked for has been sent.
EndOf(t, c) == Post([t EXCEPT !.cl[c].up = FALSE, !.cl[c].q = FALSE], c, "cancel")
CutOf(t, c, how) ==
    IF t.cl[c].dl THEN EndOf(t, c) ELSE LostConnection(EndOf(t, c), c, how)

LEMMA SendNextChunkIs ==
  ASSUME NEW t, NEW c, NEW how
  PROVE  SendNextChunk(t, c, how) =
           IF t.cl[c].up /\ ~t.cl[c].q /\ IsConnected(t, c) /\ how # "error"
           THEN IF how = "go" THEN t
                ELSE IF CutOf(t, c, how).cl[c].src = "none" THEN Destroy(CutOf(t, c, how), c)
                ELSE CutOf(t, c, how)
           ELSE IF t.cl[c].up
           THEN Post([t EXCEPT !.cl[c].up = FALSE, !.cl[c].q = TRUE], c, "uploadreq")
           ELSE CheckDestroy(t, c)
BY DEF SendNextChunk, CutOf, EndOf

\* sendNextChunk(), whether data goes out, all has been sent or something fails.
LEMMA SendNextChunkKeeps ==
  ASSUME NEW t \in State, NEW c \in Clients, t.cl[c].exists, Sound(t, c), NEW how
  PROVE  Kept(t, SendNextChunk(t, c, how), c)
<1>1. PICK r \in ClientSet : r = t.cl[c] /\ r.exists /\ Fit(r)
  BY Fields, SoundIs
<1>2. Kept(t, t, c)
  BY Stays DEF Kept
<1>3. Kept(t, CheckDestroy(t, c), c)
  BY <1>1, CheckDestroyKeeps
<1>4. Kept(t, Post([t EXCEPT !.cl[c].up = FALSE, !.cl[c].q = TRUE], c, "uploadreq"), c)
  <2>1. PICK p : p = [r EXCEPT !.up = FALSE, !.q = TRUE]
    OBVIOUS
  <2>2. p \in ClientSet /\ p.exists = r.exists /\ Fit(p) /\ Kind(t, c, p)
    BY <1>1, <2>1 DEF ClientSet, Fit, Kind, HasPurpose
  <2>3. Set(t, c, p) = [t EXCEPT !.cl[c].up = FALSE, !.cl[c].q = TRUE]
    BY <1>1, <2>1, Zenon DEF Set
  <2>4. "uploadreq" \in EventSet /\ p.exists
    BY <1>1, <2>2 DEF EventSet
  <2>5. PICK w \in State : w = Post(Set(t, c, p), c, "uploadreq") /\ Within(t, w, c) /\ w.cl[c] = p
    <3>1. /\ Post(Set(t, c, p), c, "uploadreq") \in State
          /\ Within(t, Post(Set(t, c, p), c, "uploadreq"), c)
          /\ Post(Set(t, c, p), c, "uploadreq").cl[c] = p
      BY <2>2, <2>4, Noted
    <3> QED BY <3>1
  <2>6. Kept(t, w, c)
    BY <2>2, <2>5, KeptIs
  <2> QED BY <2>3, <2>5, <2>6
<1>5. PICK end : end = EndOf(t, c)
  OBVIOUS
<1>6. PICK cut : cut = CutOf(t, c, how)
  OBVIOUS
<1>7. ASSUME IsConnected(t, c)
      PROVE  Kept(t, cut, c)
  <2>1. PICK p : p = [r EXCEPT !.up = FALSE, !.q = FALSE]
    OBVIOUS
  <2>2. p \in ClientSet /\ p.exists = r.exists /\ Fit(p) /\ Kind(t, c, p)
    BY <1>1, <1>7, <2>1 DEF ClientSet, Fit, Kind, HasPurpose, IsConnected
  <2>3. Set(t, c, p) = [t EXCEPT !.cl[c].up = FALSE, !.cl[c].q = FALSE]
    BY <1>1, <2>1, Zenon DEF Set
  <2>4. "cancel" \in EventSet /\ p.exists
    BY <1>1, <2>2 DEF EventSet
  <2>5. PICK w \in State : w = Post(Set(t, c, p), c, "cancel") /\ Within(t, w, c) /\ w.cl[c] = p
    <3>1. /\ Post(Set(t, c, p), c, "cancel") \in State
          /\ Within(t, Post(Set(t, c, p), c, "cancel"), c)
          /\ Post(Set(t, c, p), c, "cancel").cl[c] = p
      BY <2>2, <2>4, Noted
    <3> QED BY <3>1
  <2>6. Kept(t, w, c)
    BY <2>2, <2>5, KeptIs
  <2>7. Kept(t, LostConnection(w, c, how), c)
    BY <1>1, <2>2, <2>5, LostConnectionKeeps, KeptBoth
  <2>8. w = end
    BY <1>5, <2>3, <2>5 DEF EndOf
  <2>9. cut \in {w, LostConnection(w, c, how)}
    BY <1>5, <1>6, <2>8 DEF CutOf
  <2> QED BY <2>6, <2>7, <2>9
<1>8. ASSUME IsConnected(t, c)
      PROVE  Kept(t, Destroy(cut, c), c)
  <2>1. PICK w : w = cut
    OBVIOUS
  <2>2. Kept(t, w, c)
    BY <1>7, <1>8, <2>1
  <2>3. w \in State /\ w.cl[c].exists /\ Within(t, w, c)
    BY <2>2 DEF Kept, Within
  <2>4. Kept(t, Destroy(w, c), c)
    BY <2>3, Destroyed, KeptBoth
  <2> QED BY <2>1, <2>4
<1>9. \/ SendNextChunk(t, c, how) = t
      \/ IsConnected(t, c) /\ SendNextChunk(t, c, how) \in {cut, Destroy(cut, c)}
      \/ SendNextChunk(t, c, how) =
           Post([t EXCEPT !.cl[c].up = FALSE, !.cl[c].q = TRUE], c, "uploadreq")
      \/ SendNextChunk(t, c, how) = CheckDestroy(t, c)
  BY <1>6, SendNextChunkIs
<1> QED BY <1>2, <1>3, <1>4, <1>7, <1>8, <1>9

\* startUpload()
LEMMA StartUploadKeeps ==
  ASSUME NEW t \in State, NEW c \in Clients, t.cl[c].exists, Sound(t, c), NEW how, NEW ok
  PROVE  Kept(t, StartUpload(t, c, how, ok), c)
<1>1. PICK r \in ClientSet : r = t.cl[c] /\ r.exists /\ Fit(r)
  BY Fields, SoundIs
<1>2. PICK p : p = [r EXCEPT !.up = TRUE, !.q = FALSE]
  OBVIOUS
<1>3. p \in ClientSet /\ p.exists = r.exists /\ Fit(p) /\ Kind(t, c, p)
  BY <1>1, <1>2 DEF ClientSet, Fit, Kind, HasPurpose
<1>4. PICK on \in State : on = Set(t, c, p) /\ Kept(t, on, c) /\ on.cl[c] = p
  BY <1>1, <1>3, Patching
<1>5. on = [t EXCEPT !.cl[c].up = TRUE, !.cl[c].q = FALSE]
  <2>1. Set(t, c, p) = [t EXCEPT !.cl[c].up = TRUE, !.cl[c].q = FALSE]
    BY <1>1, <1>2, Zenon DEF Set
  <2> QED BY <1>4, <2>1
<1>6. on.cl[c].exists /\ Sound(on, c) /\ Within(t, on, c)
  BY <1>1, <1>3, <1>4 DEF Kept
<1>7. Kept(t, Establish(on, c, ok), c)
  BY <1>6, EstablishKeeps, KeptBoth
<1>8. Kept(t, SendNextChunk(on, c, how), c)
  BY <1>6, SendNextChunkKeeps, KeptBoth
<1> QED BY <1>4, <1>5, <1>7, <1>8 DEF StartUpload

\* handshakeCompleted()
LEMMA HandshakeKeeps ==
  ASSUME NEW t \in State, NEW c \in Clients, t.cl[c].exists, Sound(t, c), NEW hs, NEW how, NEW ok
  PROVE  Kept(t, HandshakeCompleted(t, c, hs, how, ok), c)
<1>1. Kept(t, t, c)
  BY Stays DEF Kept
<1>2. PICK up : up = IF t.cl[c].up THEN StartUpload(t, c, how, ok) ELSE t
  OBVIOUS
<1>3. Kept(t, up, c)
  BY <1>1, <1>2, StartUploadKeeps
<1>4. up \in State /\ up.cl[c].exists /\ Sound(up, c) /\ Within(t, up, c)
  BY <1>3 DEF Kept, Within
<1>5. Kept(t, Destroy(up, c), c)
  BY <1>4, Destroyed, KeptBoth
<1>6. Kept(t, ReqDownload(up, c), c)
  BY <1>4, ReqDownloadKeeps, KeptBoth
<1> QED BY <1>1, <1>2, <1>3, <1>5, <1>6 DEF HandshakeCompleted

\* onUploadReq()
LEMMA UploadReqKeeps ==
  ASSUME NEW t \in State, NEW c \in Clients, t.cl[c].exists, Sound(t, c), NEW how, NEW ok
  PROVE  Kept(t, OnUploadReq(t, c, how, ok), c)
<1>1. PICK r \in ClientSet : r = t.cl[c] /\ r.exists /\ Fit(r)
  BY Fields, SoundIs
<1>2. PICK p : p = [r EXCEPT !.q = TRUE]
  OBVIOUS
<1>3. p \in ClientSet /\ p.exists = r.exists /\ Fit(p) /\ Kind(t, c, p)
  BY <1>1, <1>2 DEF ClientSet, Fit, Kind, HasPurpose
<1>4. Set(t, c, p) = [t EXCEPT !.cl[c].q = TRUE]
  BY <1>1, <1>2, Zenon DEF Set
<1>5. "uploadreq" \in EventSet /\ p.exists
  BY <1>1, <1>3 DEF EventSet
<1>6. PICK w \in State : w = Post(Set(t, c, p), c, "uploadreq") /\ Within(t, w, c) /\ w.cl[c] = p
  <2>1. /\ Post(Set(t, c, p), c, "uploadreq") \in State
        /\ Within(t, Post(Set(t, c, p), c, "uploadreq"), c)
        /\ Post(Set(t, c, p), c, "uploadreq").cl[c] = p
    BY <1>3, <1>5, Noted
  <2> QED BY <2>1
<1>7. Kept(t, w, c)
  BY <1>3, <1>6, KeptIs
<1> QED BY <1>4, <1>6, <1>7, StartUploadKeeps DEF OnUploadReq

\* reaskForDownload()
LEMMA ReaskKeeps ==
  ASSUME NEW t \in State, NEW c \in Clients, t.cl[c].exists, Sound(t, c),
         NEW by, NEW recent, NEW ok
  PROVE  Kept(t, ReaskForDownload(t, c, by, recent, ok), c)
<1>1. Kept(t, t, c)
  BY Stays DEF Kept
<1>2. Kept(t, Destroy(t, c), c)
  BY Destroyed
<1>3. Kept(t, ReqDownload(t, c), c)
  BY ReqDownloadKeeps
<1>4. Kept(t, Establish(t, c, ok), c)
  BY EstablishKeeps
<1> QED BY <1>1, <1>2, <1>3, <1>4 DEF ReaskForDownload

-----------------------------------------------------------------------------
(* Handlers that concern several clients                                   *)

\* Good states stay so when only the sets, the queue and the sources change.
LEMMA Places ==
  ASSUME NEW t, NEW u, Good(t), u \in State, u.cl = t.cl, u.events = t.events,
         \A c \in u.uploading \cup u.queued : u.cl[c].exists
  PROVE  Good(u)
<1>1. \A d, evt : Has(u, d, evt) <=> Has(t, d, evt)
  BY DEF Has
<1>2. Live(u)
  BY <1>1 DEF Good, Live
<1>3. ASSUME NEW c \in Clients PROVE Sound(u, c)
  <2>1. Sound(t, c)
    BY DEF Good
  <2> QED BY <1>1, <2>1 DEF Sound
<1> QED BY <1>2, <1>3 DEF Good

\* c has a slot.
LEMMA SlotGood ==
  ASSUME NEW t, Good(t), NEW c \in Clients, t.cl[c].exists
  PROVE  /\ Good([t EXCEPT !.uploading = @ \cup {c}])
         /\ [t EXCEPT !.uploading = @ \cup {c}].cl = t.cl
<1>1. PICK u : u = [t EXCEPT !.uploading = @ \cup {c}]
  OBVIOUS
<1>2. t \in State /\ Live(t)
  BY DEF Good
<1>3. /\ u \in State /\ u.cl = t.cl /\ u.events = t.events
      /\ u.uploading = t.uploading \cup {c} /\ u.queued = t.queued
  BY <1>1, <1>2 DEF State
<1>4. \A d \in u.uploading \cup u.queued : u.cl[d].exists
  BY <1>2, <1>3 DEF Live
<1>5. Good(u)
  BY <1>3, <1>4, Places
<1> QED BY <1>1, <1>3, <1>5

LEMMA HandlerGood ==
  ASSUME NEW t, Good(t), NEW c \in Clients, t.cl[c].exists, NEW u, Kept(t, u, c)
  PROVE  Good(u) /\ u.cl[c].exists /\ u \in State
<1>1. Near(t, c)
  BY GoodIsNear
<1>2. Good(u) /\ u.cl[c].exists
  BY <1>1, KeptGood
<1> QED BY <1>2 DEF Good

\* The record of a client that takes another one's purposes.
TakenBy(pj, pc) ==
    [pj EXCEPT
        !.sock  = IF pc.sock # "none" THEN pc.sock ELSE @,
        !.sess  = IF pc.sock # "none" THEN pc.sess ELSE @,
        !.src   = IF pj.src = "none" /\ pc.src # "none" THEN pc.src ELSE @,
        !.q     = @ \/ pc.q, !.up = @ \/ pc.up, !.dl = @ \/ pc.dl,
        !.cb = FALSE]
Joined(pj, pc) == [TakenBy(pj, pc) EXCEPT !.udp = @ \/ pc.udp]
LeftOf(pj, pc) ==
    [pc EXCEPT !.sock = "none", !.src = IF pj.src = "none" /\ pc.src # "none" THEN "none" ELSE @]

LEMMA MergeIs ==
  ASSUME NEW t, NEW j, NEW c
  PROVE  Merge(t, j, c) =
           Set(Set(t, j, Joined(t.cl[j], t.cl[c])), c, LeftOf(t.cl[j], t.cl[c]))
BY DEF Merge, Joined, TakenBy, LeftOf

LEMMA JoinedFits ==
  ASSUME NEW pj \in ClientSet, NEW pc \in ClientSet, Fit(pj), Fit(pc),
         pj.sock = "none" \/ pc.sock = "none"
  PROVE  /\ Joined(pj, pc) \in ClientSet /\ Fit(Joined(pj, pc))
         /\ Joined(pj, pc).sock = "none" => pj.sock = "none"
         /\ HasPurpose(pj) => HasPurpose(Joined(pj, pc))
         /\ LeftOf(pj, pc) \in ClientSet /\ LeftOf(pj, pc).exists = pc.exists
<1> DEFINE x == Joined(pj, pc)
<1>1. x \in ClientSet
  <2>1. PICK so \in {"none", "connecting", "open", "up"} :
               so = IF pc.sock # "none" THEN pc.sock ELSE pj.sock
    BY DEF ClientSet
  <2>2. PICK se \in SUBSET {"alive", "req", "hello"} :
               se = IF pc.sock # "none" THEN pc.sess ELSE pj.sess
    BY DEF ClientSet
  <2>3. PICK sr \in {"none", "live", "stale"} :
               sr = IF pj.src = "none" /\ pc.src # "none" THEN pc.src ELSE pj.src
    BY DEF ClientSet
  <2>4. PICK q \in BOOLEAN, up \in BOOLEAN, dl \in BOOLEAN :
               q = (pj.q \/ pc.q) /\ up = (pj.up \/ pc.up) /\ dl = (pj.dl \/ pc.dl)
    BY DEF ClientSet
  <2>5. PICK y \in ClientSet : y = [pj EXCEPT !.sock = so, !.sess = se, !.src = sr]
    BY DEF ClientSet
  <2>6. PICK z \in ClientSet : z = [y EXCEPT !.q = q, !.up = up]
    BY DEF ClientSet
  <2>7. TakenBy(pj, pc) = [z EXCEPT !.dl = dl, !.cb = FALSE]
    BY <2>1, <2>2, <2>3, <2>4, <2>5, <2>6 DEF TakenBy, ClientSet
  <2>10. PICK v \in ClientSet : v = [z EXCEPT !.dl = dl, !.cb = FALSE]
    BY DEF ClientSet
  <2>8. PICK r \in ClientSet : r = TakenBy(pj, pc)
    BY <2>7, <2>10
  <2>9. x = [r EXCEPT !.udp = @ \/ pc.udp]
    BY <2>8 DEF Joined
  <2> HIDE DEF x
  <2> QED BY <2>9 DEF ClientSet
<1>2. /\ x.exists = pj.exists
      /\ x.sock = IF pc.sock # "none" THEN pc.sock ELSE pj.sock
      /\ x.sess = IF pc.sock # "none" THEN pc.sess ELSE pj.sess
      /\ x.src = IF pj.src = "none" /\ pc.src # "none" THEN pc.src ELSE pj.src
  BY DEF ClientSet, Joined, TakenBy
<1>3. /\ x.q = (pj.q \/ pc.q) /\ x.up = (pj.up \/ pc.up) /\ x.dl = (pj.dl \/ pc.dl)
  BY DEF ClientSet, Joined, TakenBy
<1> HIDE DEF x
<1>4. Fit(x)
  BY <1>2, <1>3 DEF Fit
<1>5. x.sock = "none" => pj.sock = "none"
  BY <1>2
<1>6. HasPurpose(pj) => HasPurpose(x)
  BY <1>2, <1>3 DEF HasPurpose
<1>7. LeftOf(pj, pc) \in ClientSet /\ LeftOf(pj, pc).exists = pc.exists
  BY DEF ClientSet, LeftOf
<1> QED BY <1>1, <1>4, <1>5, <1>6, <1>7 DEF x

\* Two clients that turn out to be one peer: one takes all, the other goes.
LEMMA MergedGood ==
  ASSUME NEW t, Good(t), NEW c \in Clients, NEW j \in Clients \ {c},
         t.cl[c].exists, t.cl[j].exists, t.cl[j].sock = "none" \/ t.cl[c].sock = "none"
  PROVE  Good(Destroy(Merge(t, j, c), c)) /\ Destroy(Merge(t, j, c), c).cl[j].exists
<1>1. PICK pj \in ClientSet, pc \in ClientSet : pj = t.cl[j] /\ pc = t.cl[c]
  BY Fields DEF Good
<1>2. Fit(pj) /\ Fit(pc) /\ Kind(t, j, pj)
  BY <1>1, SoundIs DEF Good
<1>3. PICK x \in ClientSet : x = Joined(pj, pc) /\ Fit(x) /\ Kind(t, j, x)
  <2>1. Kind(t, j, Joined(pj, pc))
    BY <1>1, <1>2, JoinedFits DEF Kind
  <2> QED BY <1>1, <1>2, <2>1, JoinedFits
<1>4. PICK y \in ClientSet : y = LeftOf(pj, pc) /\ y.exists = pc.exists
  BY <1>1, <1>2, JoinedFits
<1>5. t \in State
  BY DEF Good
<1>6. PICK v \in State : v = Set(t, j, x) /\ Kept(t, v, j)
  BY <1>1, <1>3, <1>5, Patching
<1>7. Good(v) /\ v.cl[c] = pc /\ v.cl[j].exists
  <2>1. Good(v) /\ v.cl[j].exists
    BY <1>6, HandlerGood
  <2>2. v.cl[c] = t.cl[c]
    BY <1>6 DEF Kept, Within
  <2> QED BY <1>1, <2>1, <2>2
<1>8. PICK w \in State : w = Set(v, c, y) /\ Within(v, w, c)
  BY <1>4, <1>7, Patched
<1>9. Near(w, c) /\ w.cl[c].exists /\ w.cl[j].exists
  <2>1. Near(v, c)
    BY <1>1, <1>7, GoodIsNear
  <2>2. w.cl[c].exists /\ w.cl[j] = v.cl[j]
    BY <1>1, <1>7, <1>8 DEF Within
  <2> QED BY <1>7, <1>8, <2>1, <2>2, NearWithin
<1>10. PICK u : u = Destroy(w, c)
  OBVIOUS
<1>11. Kept(w, u, c)
  BY <1>9, <1>10, Destroyed
<1>12. Good(u) /\ u.cl[j].exists
  <2>1. Good(u)
    BY <1>9, <1>11, KeptGood
  <2>2. u.cl[j] = w.cl[j]
    BY <1>11 DEF Kept, Within
  <2> QED BY <1>9, <2>1, <2>2
<1>13. Merge(t, j, c) = w
  BY <1>1, <1>3, <1>4, <1>6, <1>8, MergeIs
<1> QED BY <1>10, <1>12, <1>13

\* Other clients of the ID, one of them, and the transfers that go on.
Same(t, c, p) == {j \in Clients \ {c} : t.cl[j].exists /\ t.cl[j].id = p}
One(S) == CHOOSE k \in S : TRUE
Going(u, k, hs, how, ok) ==
    HandshakeCompleted([u EXCEPT !.uploading = IF u.cl[k].up THEN @ \cup {k} ELSE @],
                       k, hs, how, ok)

LEMMA IdChangeIs ==
  ASSUME NEW t, NEW c, NEW p, NEW hs, NEW how, NEW ok
  PROVE  OnIdChange(t, c, p, hs, how, ok) =
           IF Same(t, c, p) = {} THEN Going([t EXCEPT !.cl[c].id = p], c, hs, how, ok)
           ELSE IF t.cl[One(Same(t, c, p))].sock # "none" /\ t.cl[c].sock # "none"
           THEN Destroy([t EXCEPT !.cl[c].id = p], c)
           ELSE Going(Destroy(Merge([t EXCEPT !.cl[c].id = p], One(Same(t, c, p)), c), c),
                      One(Same(t, c, p)), hs, how, ok)
BY DEF OnIdChange, Same, One, Going

\* onIdChange()
LEMMA IdChangeGood ==
  ASSUME NEW t, Good(t), NEW c \in Clients, t.cl[c].exists, NEW p \in Peers,
         NEW hs, NEW how, NEW ok
  PROVE  Good(OnIdChange(t, c, p, hs, how, ok))
<1>1. t \in State /\ Sound(t, c)
  BY DEF Good
<1>2. PICK r \in ClientSet : r = t.cl[c] /\ r.exists
  BY <1>1, Fields
<1>3. PICK n \in ClientSet : n = [r EXCEPT !.id = p]
  BY DEF ClientSet
<1>4. Fit(n) /\ Kind(t, c, n) /\ n.sock = r.sock
  BY <1>1, <1>2, <1>3, SoundIs DEF Fit, Kind, HasPurpose, ClientSet
<1>5. PICK named \in State : named = Set(t, c, n) /\ Kept(t, named, c) /\ named.cl[c] = n
  BY <1>1, <1>2, <1>4, Patching
<1>6. named = [t EXCEPT !.cl[c].id = p]
  BY <1>1, <1>2, <1>3, <1>5, Zenon DEF Set
<1>7. Good(named) /\ named.cl[c].exists
  BY <1>5, HandlerGood
<1>8. ASSUME NEW u, Good(u), NEW k \in Clients, u.cl[k].exists
      PROVE  Good(Going(u, k, hs, how, ok))
  <2>1. PICK v : v = [u EXCEPT !.uploading = IF u.cl[k].up THEN @ \cup {k} ELSE @]
    OBVIOUS
  <2>2. Good(v) /\ v.cl = u.cl
    <3>1. CASE u.cl[k].up
      <4>1. v = [u EXCEPT !.uploading = @ \cup {k}]
        BY <2>1, <3>1
      <4> QED BY <1>8, <4>1, SlotGood
    <3>2. CASE ~u.cl[k].up
      <4>1. v = [u EXCEPT !.uploading = @]
        BY <2>1, <3>2
      <4>2. v = u
        BY <1>8, <4>1 DEF Good, State
      <4> QED BY <1>8, <4>2
    <3> QED BY <3>1, <3>2
  <2>3. v \in State /\ v.cl[k].exists /\ Sound(v, k)
    BY <1>8, <2>2 DEF Good
  <2>4. PICK w : w = HandshakeCompleted(v, k, hs, how, ok)
    OBVIOUS
  <2>5. Kept(v, w, k)
    BY <2>3, <2>4, HandshakeKeeps
  <2>6. Good(w)
    BY <2>2, <2>3, <2>5, HandlerGood
  <2> QED BY <2>1, <2>4, <2>6 DEF Going
<1>9. ASSUME NEW j \in Same(t, c, p)
       PROVE  \/ Good(Destroy(named, c)) /\ t.cl[j].sock # "none" /\ t.cl[c].sock # "none"
              \/ Good(Going(Destroy(Merge(named, j, c), c), j, hs, how, ok))
                 /\ ~(t.cl[j].sock # "none" /\ t.cl[c].sock # "none")
  <2>1. j \in Clients \ {c} /\ t.cl[j].exists
    BY DEF Same
  <2>2. named.cl[j] = t.cl[j]
    BY <1>5, <2>1 DEF Kept, Within
  <2>3. CASE t.cl[j].sock # "none" /\ t.cl[c].sock # "none"
    <3>1. PICK u : u = Destroy(named, c)
      OBVIOUS
    <3>2. Kept(named, u, c)
      BY <1>7, <3>1, Destroyed
    <3>3. Good(u)
      BY <1>7, <3>2, HandlerGood
    <3> QED BY <2>3, <3>1, <3>3
  <2>4. CASE ~(t.cl[j].sock # "none" /\ t.cl[c].sock # "none")
    <3>1. named.cl[j].sock = "none" \/ named.cl[c].sock = "none"
      BY <1>2, <1>4, <1>5, <2>2, <2>4
    <3>2. PICK u : u = Destroy(Merge(named, j, c), c)
      OBVIOUS
    <3>3. Good(u) /\ u.cl[j].exists
      BY <1>7, <2>1, <2>2, <3>1, <3>2, MergedGood
    <3>4. Good(Going(u, j, hs, how, ok))
      BY <1>8, <2>1, <3>3
    <3> QED BY <2>4, <3>2, <3>4
  <2> QED BY <2>3, <2>4
<1>10. CASE Same(t, c, p) = {}
  <2>1. OnIdChange(t, c, p, hs, how, ok) = Going(named, c, hs, how, ok)
    BY <1>6, <1>10, IdChangeIs
  <2> QED BY <1>7, <1>8, <2>1
<1>11. CASE Same(t, c, p) # {}
  <2>1. PICK j \in Same(t, c, p) : j = One(Same(t, c, p))
    BY <1>11 DEF One
  <2>2. OnIdChange(t, c, p, hs, how, ok) =
          IF t.cl[j].sock # "none" /\ t.cl[c].sock # "none" THEN Destroy(named, c)
          ELSE Going(Destroy(Merge(named, j, c), c), j, hs, how, ok)
    BY <1>6, <1>11, <2>1, IdChangeIs
  <2> QED BY <1>9, <2>2
<1> QED BY <1>10, <1>11

-----------------------------------------------------------------------------
(* Repetition                                                              *)

LEMMA Least ==
  ASSUME NEW T, T \subseteq Nat, T # {}
  PROVE  \E n \in T : \A m \in T : n <= m
<1>1. PICK n \in T : \A m \in T : <<m, n>> \notin OpToRel(<, Nat)
  BY NatLessThanWellFounded, WFMin
<1>2. \A m \in T : ~(m < n)
  BY <1>1 DEF OpToRel
<1>3. ASSUME NEW m \in T PROVE n <= m
  <2>1. m \in Nat /\ n \in Nat
    OBVIOUS
  <2> QED BY <1>2, <2>1
<1> QED BY <1>3

\* A set of numbers that has 0, and with each number the next, has all.
LEMMA Induction ==
  ASSUME NEW P, 0 \in P, \A n \in Nat : n \in P => n + 1 \in P
  PROVE  Nat \subseteq P
<1> SUFFICES ASSUME Nat \ P # {} PROVE FALSE
  OBVIOUS
<1>1. PICK n \in Nat \ P : \A m \in Nat \ P : n <= m
  BY Least
<1>2. n - 1 \in Nat /\ n - 1 \in P
  BY <1>1
<1> QED BY <1>1, <1>2

\* The first values of a recursive function: x, and what step makes of the number and
\* the value before.
Steps(S) == [Nat \X S -> S]
Begun(S, step, x, n) ==
    {g \in [0..n -> S] : g[0] = x /\ \A k \in 0..(n - 1) : g[k + 1] = step[<<k, g[k]>>]}

LEMMA BegunExists ==
  ASSUME NEW S, NEW step \in Steps(S), NEW x \in S
  PROVE  \A n \in Nat : Begun(S, step, x, n) # {}
<1> DEFINE P == {n \in Nat : Begun(S, step, x, n) # {}}
<1>1. 0 \in P
  <2>1. [k \in 0..0 |-> x] \in Begun(S, step, x, 0)
    BY DEF Begun
  <2> QED BY <2>1
<1>2. ASSUME NEW n \in Nat, n \in P PROVE n + 1 \in P
  <2>1. PICK g : g \in Begun(S, step, x, n)
    BY <1>2
  <2>2. g \in [0..n -> S] /\ g[0] = x /\ \A k \in 0..(n - 1) : g[k + 1] = step[<<k, g[k]>>]
    BY <2>1 DEF Begun
  <2>3. PICK y \in S : y = step[<<n, g[n]>>]
    BY <2>2 DEF Steps
  <2> DEFINE h == [k \in 0..(n + 1) |-> IF k = n + 1 THEN y ELSE g[k]]
  <2>4. h \in [0..(n + 1) -> S] /\ h[0] = x
    BY <2>2
  <2>5. ASSUME NEW k \in 0..n PROVE h[k + 1] = step[<<k, h[k]>>]
    <3>1. h[k] = g[k]
      OBVIOUS
    <3>2. CASE k = n
      <4>1. h[k + 1] = y
        BY <3>2
      <4> HIDE DEF h
      <4> QED BY <2>3, <3>1, <3>2, <4>1
    <3>3. CASE k # n
      <4>1. h[k + 1] = g[k + 1] /\ k \in 0..(n - 1)
        BY <3>3
      <4> HIDE DEF h
      <4> QED BY <2>2, <3>1, <4>1
    <3> QED BY <3>2, <3>3
  <2>6. h \in Begun(S, step, x, n + 1)
    BY <2>4, <2>5, SMTT(20) DEF Begun
  <2> QED BY <2>6
<1> HIDE DEF P
<1>3. Nat \subseteq P
  BY <1>1, <1>2, Induction
<1> QED BY <1>3 DEF P

LEMMA BegunAgree ==
  ASSUME NEW S, NEW step \in Steps(S), NEW x \in S, NEW m \in Nat, NEW n \in Nat, m <= n,
         NEW g \in Begun(S, step, x, m), NEW h \in Begun(S, step, x, n)
  PROVE  \A k \in 0..m : g[k] = h[k]
<1> DEFINE P == {k \in Nat : k <= m => g[k] = h[k]}
<1>1. 0 \in P
  BY DEF Begun
<1>2. ASSUME NEW k \in Nat, k \in P PROVE k + 1 \in P
  <2>1. ASSUME k + 1 <= m PROVE g[k + 1] = h[k + 1]
    <3>1. k \in 0..(m - 1) /\ k \in 0..(n - 1) /\ k <= m
      BY <2>1
    <3>2. g[k + 1] = step[<<k, g[k]>>] /\ h[k + 1] = step[<<k, h[k]>>]
      BY <3>1 DEF Begun
    <3>3. g[k] = h[k]
      BY <1>2, <3>1
    <3> QED BY <3>2, <3>3
  <2> QED BY <2>1
<1> HIDE DEF P
<1>3. Nat \subseteq P
  BY <1>1, <1>2, Induction
<1> QED BY <1>3 DEF P

Recurs(f, S, step, x) ==
    f \in [Nat -> S] /\ f[0] = x /\ \A n \in Nat : f[n + 1] = step[<<n, f[n]>>]

\* The recursive functions of the model exist.
LEMMA Recursion ==
  ASSUME NEW S, NEW step \in Steps(S), NEW x \in S
  PROVE  \E f : Recurs(f, S, step, x)
<1> DEFINE g(n) == CHOOSE h : h \in Begun(S, step, x, n)
           f == [n \in Nat |-> g(n)[n]]
<1>1. \A n \in Nat : g(n) \in Begun(S, step, x, n)
  BY BegunExists
<1> HIDE DEF g
<1>2. f \in [Nat -> S] /\ f[0] = x
  BY <1>1 DEF Begun
<1>3. ASSUME NEW n \in Nat PROVE f[n + 1] = step[<<n, f[n]>>]
  <2>1. g(n) \in Begun(S, step, x, n) /\ g(n + 1) \in Begun(S, step, x, n + 1)
    BY <1>1
  <2>2. g(n)[n] = g(n + 1)[n]
    <3>1. PICK a \in Begun(S, step, x, n), b \in Begun(S, step, x, n + 1) :
             a = g(n) /\ b = g(n + 1)
      BY <2>1
    <3>2. PICK l \in Nat : l = n + 1 /\ n <= l /\ n \in 0..n
      OBVIOUS
    <3>3. b \in Begun(S, step, x, l)
      BY <3>2
    <3>4. \A k \in 0..n : a[k] = b[k]
      BY <3>2, <3>3, BegunAgree
    <3> QED BY <3>1, <3>2, <3>4
  <2>3. g(n + 1)[n + 1] = step[<<n, g(n + 1)[n]>>]
    BY <2>1 DEF Begun
  <2> QED BY <2>2, <2>3
<1> QED BY <1>2, <1>3 DEF Recurs

\* A loop stays in a set that its step does not leave.
LEMMA LoopStays ==
  ASSUME NEW S, NEW step, \A u \in S : step[u] \in S, NEW x \in S, NEW n \in Nat
  PROVE  Loop(step, x, n) \in S
<1> DEFINE Eq(g) == g = [k \in Nat |-> IF k = 0 THEN x ELSE step[g[k - 1]]]
           after == CHOOSE g : Eq(g)
<1>1. Loop(step, x, n) = after[n]
  BY DEF Loop
<1>2. PICK next \in Steps(S) : \A k \in Nat, u \in S : next[<<k, u>>] = step[u]
  <2>1. [p \in Nat \X S |-> step[p[2]]] \in [Nat \X S -> S]
    OBVIOUS
  <2> QED BY <2>1 DEF Steps
<1>3. PICK f : Recurs(f, S, next, x)
  BY Recursion
<1>4. f \in [Nat -> S] /\ f[0] = x /\ \A k \in Nat : f[k + 1] = step[f[k]]
  BY <1>2, <1>3 DEF Recurs
<1>5. Eq(f)
  <2>1. ASSUME NEW k \in Nat PROVE f[k] = IF k = 0 THEN x ELSE step[f[k - 1]]
    <3>1. CASE k = 0
      BY <1>4, <3>1
    <3>2. CASE k # 0
      <4>1. k - 1 \in Nat /\ (k - 1) + 1 = k
        BY <3>2
      <4>2. f[k] = step[f[k - 1]]
        BY <1>4, <4>1
      <4> QED BY <3>2, <4>2
    <3> QED BY <3>1, <3>2
  <2> QED BY <1>4, <2>1
<1>6. Eq(after)
  <2> HIDE DEF Eq
  <2> QED BY <1>5
<1> HIDE DEF after
<1>7. after[0] = x /\ \A k \in Nat : after[k + 1] = step[after[k]]
  BY <1>6
<1> DEFINE P == {k \in Nat : after[k] \in S}
<1>8. 0 \in P
  BY <1>7
<1>9. ASSUME NEW k \in Nat, k \in P PROVE k + 1 \in P
  BY <1>7, <1>9
<1> HIDE DEF P
<1>10. Nat \subseteq P
  BY <1>8, <1>9, Induction
<1> QED BY <1>1, <1>10 DEF P

-----------------------------------------------------------------------------
(* Lists without some of their entries, and what is done for each client    *)

\* What Without() computes is a list of the entries that are no hits.
LEMMA WithoutIs ==
  ASSUME NEW S, NEW list \in Seq(S), NEW hits
  PROVE  /\ Without(list, hits) \in Seq(S)
         /\ \A x : (\E i \in 1..Len(Without(list, hits)) : Without(list, hits)[i] = x)
                     <=> x \notin hits /\ \E i \in 1..Len(list) : list[i] = x
<1> DEFINE Eq(g) == g = [n \in Nat |->
                IF n = 0 THEN <<>>
                ELSE IF list[n] \in hits THEN g[n - 1]
                ELSE Append(g[n - 1], list[n])]
           kept == CHOOSE g : Eq(g)
<1>1. Without(list, hits) = kept[Len(list)]
  BY DEF Without
<1>2. PICK T : T = {list[n] : n \in Nat}
  OBVIOUS
<1>3. PICK next \in Steps(Seq(T)) :
        \A n \in Nat, l \in Seq(T) :
          next[<<n, l>>] = IF list[n + 1] \in hits THEN l ELSE Append(l, list[n + 1])
  <2> DEFINE f == [p \in Nat \X Seq(T) |->
                IF list[p[1] + 1] \in hits THEN p[2] ELSE Append(p[2], list[p[1] + 1])]
  <2>1. ASSUME NEW n \in Nat, NEW l \in Seq(T) PROVE Append(l, list[n + 1]) \in Seq(T)
    <3>1. list[n + 1] \in T
      BY <1>2
    <3> QED BY <3>1, AppendProperties
  <2>2. f \in [Nat \X Seq(T) -> Seq(T)]
    BY <2>1
  <2> QED BY <2>2 DEF Steps
<1>4. PICK f : Recurs(f, Seq(T), next, <<>>)
  <2>1. <<>> \in Seq(T)
    OBVIOUS
  <2> QED BY <2>1, Recursion
<1>5. f \in [Nat -> Seq(T)] /\ f[0] = <<>> /\ \A n \in Nat :
        f[n + 1] = IF list[n + 1] \in hits THEN f[n] ELSE Append(f[n], list[n + 1])
  BY <1>3, <1>4 DEF Recurs
<1>6. Eq(f)
  <2>1. ASSUME NEW n \in Nat
        PROVE  f[n] = IF n = 0 THEN <<>>
                      ELSE IF list[n] \in hits THEN f[n - 1]
                      ELSE Append(f[n - 1], list[n])
    <3>1. CASE n = 0
      BY <1>5, <3>1
    <3>2. CASE n # 0
      <4>1. n - 1 \in Nat /\ (n - 1) + 1 = n
        BY <3>2
      <4>2. f[n] = IF list[n] \in hits THEN f[n - 1] ELSE Append(f[n - 1], list[n])
        BY <1>5, <4>1
      <4> QED BY <3>2, <4>2
    <3> QED BY <3>1, <3>2
  <2> QED BY <1>5, <2>1
<1>7. Eq(kept)
  <2> HIDE DEF Eq
  <2> QED BY <1>6
<1> HIDE DEF kept
<1>8. kept[0] = <<>> /\ \A n \in Nat :
        kept[n + 1] = IF list[n + 1] \in hits THEN kept[n] ELSE Append(kept[n], list[n + 1])
  <2>1. kept[0] = <<>>
    BY <1>7
  <2>2. ASSUME NEW n \in Nat
        PROVE  kept[n + 1] = IF list[n + 1] \in hits THEN kept[n]
                             ELSE Append(kept[n], list[n + 1])
    <3>1. PICK k \in Nat : k = n + 1 /\ k # 0 /\ k - 1 = n
      OBVIOUS
    <3>2. kept[k] = IF list[k] \in hits THEN kept[k - 1] ELSE Append(kept[k - 1], list[k])
      BY <1>7, <3>1
    <3> HIDE DEF Eq
    <3> QED BY <3>1, <3>2
  <2> QED BY <2>1, <2>2
<1>9. PICK m \in Nat : m = Len(list)
  OBVIOUS
<1> DEFINE In(l, x) == \E i \in 1..Len(l) : l[i] = x
           Upto(n, x) == \E i \in 1..n : list[i] = x
           Is(n, l) == l \in Seq(S) /\ \A x : In(l, x) <=> x \notin hits /\ Upto(n, x)
           P == {n \in Nat : n <= m => Is(n, kept[n])}
<1>10. 0 \in P
  <2>1. Is(0, <<>>)
    OBVIOUS
  <2> HIDE DEF Is
  <2> QED BY <1>8, <2>1
<1>11. ASSUME NEW n \in Nat, n \in P PROVE n + 1 \in P
  <2> SUFFICES ASSUME n + 1 <= m PROVE Is(n + 1, kept[n + 1])
    OBVIOUS
  <2>1. n <= m
    BY <1>9
  <2>2. PICK l \in Seq(S) : l = kept[n] /\ Is(n, l)
    <3>1. Is(n, kept[n])
      <4> HIDE DEF Is
      <4> QED BY <1>11, <2>1
    <3>2. kept[n] \in Seq(S)
      BY <3>1
    <3> HIDE DEF Is
    <3> QED BY <3>1, <3>2
  <2>3. PICK x \in S : x = list[n + 1]
    BY <1>9
  <2>4. \A y : Upto(n + 1, y) <=> Upto(n, y) \/ y = x
    <3>1. \A y : Upto(n, y) => Upto(n + 1, y)
      OBVIOUS
    <3>2. Upto(n + 1, x)
      BY <2>3
    <3>3. ASSUME NEW y, Upto(n + 1, y), ~Upto(n, y) PROVE y = x
      <4>1. PICK i \in 1..(n + 1) : list[i] = y
        BY <3>3
      <4>2. i = n + 1
        BY <3>3, <4>1
      <4> QED BY <2>3, <4>1, <4>2
    <3> QED BY <3>1, <3>2, <3>3
  <2>5. CASE x \in hits
    <3>1. kept[n + 1] = l
      BY <1>8, <2>2, <2>3, <2>5
    <3>2. Is(n + 1, l)
      <4> HIDE DEF In, Upto
      <4> QED BY <2>2, <2>4, <2>5
    <3> QED BY <3>1, <3>2
  <2>6. CASE x \notin hits
    <3>1. PICK k : k = Append(l, x)
      OBVIOUS
    <3>2. kept[n + 1] = k
      BY <1>8, <2>2, <2>3, <2>6, <3>1
    <3>3. PICK z \in Nat : z = Len(l)
      OBVIOUS
    <3>4. k \in Seq(S) /\ Len(k) = z + 1 /\ k[z + 1] = x /\ \A i \in 1..z : k[i] = l[i]
      BY <3>1, <3>3, AppendProperties
    <3>5. \A y : In(k, y) <=> In(l, y) \/ y = x
      <4>1. \A y : In(l, y) => In(k, y)
        BY <3>3, <3>4
      <4>2. In(k, x)
        BY <3>4
      <4>3. ASSUME NEW y, In(k, y), y # x PROVE In(l, y)
        <5>1. PICK i \in 1..(z + 1) : k[i] = y
          BY <3>4, <4>3
        <5>2. i \in 1..z
          BY <3>4, <4>3, <5>1
        <5> QED BY <3>3, <3>4, <5>1, <5>2
      <4> QED BY <4>1, <4>2, <4>3
    <3>6. Is(n + 1, k)
      <4> HIDE DEF In, Upto
      <4> QED BY <2>2, <2>4, <2>6, <3>4, <3>5
    <3> QED BY <3>2, <3>6
  <2> QED BY <2>5, <2>6
<1> HIDE DEF P
<1>12. Nat \subseteq P
  BY <1>10, <1>11, Induction
<1>13. Is(m, kept[m])
  <2> HIDE DEF Is
  <2> QED BY <1>12 DEF P
<1> QED BY <1>1, <1>9, <1>13

\* What is done for clients one by one stays in a set that doing it for any does not leave.
LEMMA ForEachStays ==
  ASSUME NEW G \in SUBSET State, NEW step, NEW cs \in SUBSET Clients,
         \A u \in G, c \in cs : step[c][u] \in G, NEW t \in G
  PROVE  ForEach(step, t, cs) \in G
<1> DEFINE visit(r) ==
             LET c == CHOOSE c \in r.left : TRUE
             IN  IF r.left = {} THEN r
                 ELSE [state |-> step[c][r.state], left |-> r.left \ {c}]
           rounds == [state : State, left : SUBSET cs]
           round == [r \in rounds |-> visit(r)]
<1>1. PICK S : S = [state : G, left : SUBSET cs]
  OBVIOUS
<1>2. ASSUME NEW r \in S PROVE round[r] \in S
  <2>1. r \in rounds /\ r.state \in G /\ r.left \in SUBSET cs
    BY <1>1
  <2>2. round[r] = visit(r)
    BY <2>1
  <2>3. CASE r.left = {}
    BY <2>2, <2>3
  <2>4. CASE r.left # {}
    <3>1. PICK c \in r.left : c = CHOOSE d \in r.left : TRUE
      BY <2>4
    <3>2. visit(r) = [state |-> step[c][r.state], left |-> r.left \ {c}]
      BY <2>4, <3>1
    <3>3. step[c][r.state] \in G
      BY <2>1, <3>1
    <3> QED BY <1>1, <2>1, <2>2, <3>2, <3>3
  <2> QED BY <2>3, <2>4
<1>3. PICK x \in S : x = [state |-> t, left |-> cs]
  BY <1>1
<1>4. PICK n \in Nat : n = Cardinality(cs)
  <2>1. IsFiniteSet(cs)
    BY DonkeyAssumption, FS_Subset
  <2> QED BY <2>1, FS_CardinalityType
<1>5. ForEach(step, t, cs) = Loop(round, x, n).state
  BY <1>3, <1>4 DEF ForEach
<1> HIDE DEF round
<1>6. Loop(round, x, n) \in S
  BY <1>2, LoopStays
<1> QED BY <1>1, <1>5, <1>6

-----------------------------------------------------------------------------
(* The slots and the queue                                                 *)

LEMMA ServeFirstGood ==
  ASSUME NEW t, Good(t), NEW ok
  PROVE  Good(ServeFirst(t, ok))
<1>1. t \in State /\ Live(t) /\ t.queue \in Seq(Clients)
  BY DEF Good, State
<1>2. CASE t.queue = <<>>
  BY <1>2 DEF ServeFirst
<1>3. CASE t.queue # <<>>
  <2>1. PICK c \in Clients : c = Head(t.queue)
    BY <1>1, <1>3, HeadTailProperties
  <2>2. PICK rest : rest = [t EXCEPT !.queue = Tail(@), !.queued = @ \ {c}]
    OBVIOUS
  <2>3. Tail(t.queue) \in Seq(Clients)
    BY <1>1, <1>3, HeadTailProperties
  <2>4. /\ rest \in State /\ rest.cl = t.cl /\ rest.events = t.events
        /\ rest.uploading = t.uploading /\ rest.queued = t.queued \ {c}
    BY <1>1, <2>2, <2>3 DEF State
  <2>5. Good(rest)
    <3>1. \A d \in rest.uploading \cup rest.queued : rest.cl[d].exists
      BY <1>1, <2>4 DEF Live
    <3> QED BY <2>4, <3>1, Places
  <2>6. CASE c \in t.queued
    <3>1. rest.cl[c].exists /\ Sound(rest, c)
      BY <1>1, <2>4, <2>5, <2>6 DEF Live, Good
    <3>2. PICK on : on = StartUpload(rest, c, "go", ok[c])
      OBVIOUS
    <3>3. Kept(rest, on, c)
      BY <2>4, <3>1, <3>2, StartUploadKeeps
    <3>4. Good(on) /\ on.cl[c].exists
      BY <2>5, <3>1, <3>3, HandlerGood
    <3>5. PICK got : got = [on EXCEPT !.uploading = @ \cup {c}]
      OBVIOUS
    <3>6. Good(got)
      BY <3>4, <3>5, SlotGood
    <3>7. ServeFirst(t, ok) \in {t, rest, got}
      BY <2>1, <2>2, <3>2, <3>5 DEF ServeFirst
    <3> QED BY <2>5, <3>6, <3>7
  <2>7. CASE c \notin t.queued
    <3>1. ServeFirst(t, ok) \in {t, rest}
      BY <2>1, <2>2, <2>7 DEF ServeFirst
    <3> QED BY <2>5, <3>1
  <2> QED BY <2>6, <2>7
<1> QED BY <1>2, <1>3

LEMMA FillSlotsGood ==
  ASSUME NEW t, Good(t), NEW ok
  PROVE  Good(FillSlots(t, ok))
<1>1. PICK S : S = {u \in State : Good(u)}
  OBVIOUS
<1>2. PICK step : step = [u \in State |-> ServeFirst(u, ok)]
  OBVIOUS
<1>3. ASSUME NEW u \in S PROVE step[u] \in S
  <2>1. Good(ServeFirst(u, ok))
    BY <1>1, ServeFirstGood
  <2> QED BY <1>1, <1>2, <2>1 DEF Good
<1>4. t \in S
  BY <1>1 DEF Good
<1>5. PICK n \in Nat : n = Len(t.queue)
  <2>1. t.queue \in Seq(Clients)
    BY DEF Good, State
  <2> QED BY <2>1, LenProperties
<1>6. Loop(step, t, n) \in S
  BY <1>3, <1>4, LoopStays
<1>7. StartNextUpload(t, ok) = Loop(step, t, n)
  BY <1>2, <1>5 DEF StartNextUpload
<1> QED BY <1>1, <1>6, <1>7 DEF FillSlots

\* removeClient(): c is nowhere any more.
LEMMA RemoveGood ==
  ASSUME NEW t, NEW c \in Clients, Near(t, c), NEW ok
  PROVE  Good(RemoveClient(t, c, ok))
<1>1. t \in State /\ Live(t) /\ t.cl[c].exists
  BY DEF Near
<1>2. PICK gone \in State : gone = DropSource(t, c) /\ Within(t, gone, c)
  <2>1. Within(t, DropSource(t, c), c)
    BY <1>1, Dropped
  <2> QED BY <2>1 DEF Within
<1>3. PICK hits : hits = {c} \X EventSet
  OBVIOUS
<1>4. PICK Entries : Entries = Clients \X EventSet
  OBVIOUS
<1>5. PICK evs \in Seq(Entries) : evs = gone.events
  BY <1>2, <1>4, Fields
<1>6. PICK list : list = Without(evs, hits)
  OBVIOUS
<1>7. list \in Seq(Entries)
      /\ \A x : (\E i \in 1..Len(list) : list[i] = x)
              <=> x \notin hits /\ \E i \in 1..Len(evs) : evs[i] = x
  BY <1>6, WithoutIs
<1>8. list \in Seq(Clients \X EventSet)
  BY <1>4, <1>7
<1>9. \A x : (\E i \in 1..Len(list) : list[i] = x)
              <=> x \notin {c} \X EventSet /\ \E i \in 1..Len(gone.events) : gone.events[i] = x
  BY <1>3, <1>5, <1>7
<1>10. PICK p \in ClientSet : p = Fresh(FALSE)
  BY DEF Fresh, ClientSet
<1>11. /\ p.exists = FALSE /\ p.sock = "none" /\ p.src = "none" /\ p.dl = FALSE
      /\ p.q = FALSE /\ p.up = FALSE /\ p.cb = FALSE
  BY <1>10 DEF Fresh
<1>12. PICK u : u = [gone EXCEPT !.cl[c] = p, !.uploading = @ \ {c}, !.queued = @ \ {c},
                                !.events = list]
  OBVIOUS
<1>13. /\ u.cl = [gone.cl EXCEPT ![c] = p] /\ u.events = list
       /\ u.uploading = gone.uploading \ {c} /\ u.queued = gone.queued \ {c}
  BY <1>2, <1>12 DEF State
<1>14. u \in State
  BY <1>2, <1>8, <1>10, <1>12 DEF State
<1>15. u.cl[c] = p /\ \A d \in Clients \ {c} : u.cl[d] = t.cl[d]
  BY <1>2, <1>13, Fields DEF Within
<1>16. ASSUME NEW d \in Clients, NEW evt \in EventSet
       PROVE  Has(u, d, evt) <=> d # c /\ Has(t, d, evt)
  <2>1. Has(u, d, evt) <=> d # c /\ Has(gone, d, evt)
    BY <1>9, <1>13 DEF Has
  <2>2. d # c => (Has(gone, d, evt) <=> Has(t, d, evt))
    BY <1>2 DEF Within
  <2> QED BY <2>1, <2>2
<1>17. Live(u)
  <2>1. ASSUME NEW d \in Clients, NEW evt \in EventSet, Has(u, d, evt) PROVE u.cl[d].exists
    BY <1>1, <1>15, <1>16, <2>1 DEF Live
  <2>2. ASSUME NEW d \in u.uploading \cup u.queued PROVE u.cl[d].exists
    <3>1. d \in Clients \ {c} /\ d \in gone.uploading \cup gone.queued
      BY <1>2, <1>13, Fields
    <3>2. d \in t.uploading \cup t.queued
      BY <1>2, <3>1 DEF Within
    <3> QED BY <1>1, <1>15, <3>1, <3>2 DEF Live
  <2> QED BY <2>1, <2>2 DEF Live
<1>18. ASSUME NEW d \in Clients PROVE Sound(u, d)
  <2>1. CASE d = c
    BY <1>11, <1>15, <2>1 DEF Sound, HasPurpose
  <2>2. CASE d # c
    <3>1. Sound(t, d) /\ u.cl[d] = t.cl[d]
      BY <1>15, <2>2 DEF Near
    <3>2. Has(t, d, "destroy") => Has(u, d, "destroy")
      BY <1>16, <2>2 DEF EventSet
    <3> QED BY <3>1, <3>2 DEF Sound
  <2> QED BY <2>1, <2>2
<1>19. Good(u)
  BY <1>14, <1>17, <1>18 DEF Good
<1>20. RemoveClient(t, c, ok) = FillSlots(u, ok)
  <2>1. u = [gone EXCEPT !.cl[c] = Fresh(FALSE), !.uploading = @ \ {c}, !.queued = @ \ {c},
                         !.events = Without(@, {c} \X EventSet)]
    BY <1>3, <1>5, <1>6, <1>10, <1>12
  <2> QED BY <1>2, <2>1 DEF RemoveClient
<1> QED BY <1>19, <1>20, FillSlotsGood

\* onClientEvent(EVT_UPLOADREQ)
LEMMA UploadReqEventGood ==
  ASSUME NEW t, Good(t), NEW c \in Clients, t.cl[c].exists, NEW how, NEW ok
  PROVE  Good(OnUploadReqEvent(t, c, how, ok))
<1>1. t \in State /\ Live(t)
  BY DEF Good
<1>2. PICK off : off = [t EXCEPT !.uploading = @ \ {c}]
  OBVIOUS
<1>3. /\ off \in State /\ off.cl = t.cl /\ off.events = t.events
      /\ off.uploading = t.uploading \ {c} /\ off.queued = t.queued /\ off.queue = t.queue
  BY <1>1, <1>2 DEF State
<1>4. Good(off)
  <2>1. \A d \in off.uploading \cup off.queued : off.cl[d].exists
    BY <1>1, <1>3 DEF Live
  <2> QED BY <1>3, <2>1, Places
<1>5. PICK on : on = StartUpload(off, c, how, ok[c])
  OBVIOUS
<1>6. Good(on) /\ on.cl[c].exists
  <2>1. off.cl[c].exists /\ Sound(off, c)
    BY <1>3, <1>4 DEF Good
  <2>2. Kept(off, on, c)
    BY <1>3, <1>5, <2>1, StartUploadKeeps
  <2> QED BY <1>4, <2>1, <2>2, HandlerGood
<1>7. Good([on EXCEPT !.uploading = @ \cup {c}])
  BY <1>6, SlotGood
<1>8. Good(FillSlots(off, ok))
  BY <1>4, FillSlotsGood
<1>9. PICK w : w = [off EXCEPT !.queued = @ \cup {c}, !.queue = Append(@, c)]
  OBVIOUS
<1>10. Good(w)
  <2>1. Append(off.queue, c) \in Seq(Clients)
    BY <1>3, Fields, AppendProperties
  <2>2. /\ w \in State /\ w.cl = off.cl /\ w.events = off.events
        /\ w.uploading = off.uploading /\ w.queued = off.queued \cup {c}
    BY <1>3, <1>9, <2>1 DEF State
  <2>3. \A d \in w.uploading \cup w.queued : w.cl[d].exists
    BY <1>1, <1>3, <2>2 DEF Live
  <2> QED BY <1>4, <2>2, <2>3, Places
<1>11. OnUploadReqEvent(t, c, how, ok) \in
         {off, FillSlots(off, ok), [on EXCEPT !.uploading = @ \cup {c}], w}
  BY <1>2, <1>5, <1>9 DEF OnUploadReqEvent
<1> QED BY <1>4, <1>7, <1>8, <1>10, <1>11

\* onClientEvent(): an event that is not the last one of c finds c in order.
LEMMA ClientEventGood ==
  ASSUME NEW t, NEW c \in Clients, NEW evt \in EventSet, Near(t, c),
         evt # "destroy" => Good(t), NEW how, NEW by, NEW recent, NEW ok
  PROVE  Good(OnClientEvent(t, c, evt, how, by, recent, ok))
<1>1. t \in State /\ t.cl[c].exists /\ Live(t)
  BY DEF Near
<1>2. CASE evt = "destroy"
  BY <1>2, RemoveGood DEF OnClientEvent
<1>3. CASE evt # "destroy"
  <2>1. Good(t) /\ Sound(t, c)
    BY <1>3 DEF Good
  <2>2. CASE evt = "uploadreq"
    BY <1>1, <2>1, <2>2, UploadReqEventGood DEF OnClientEvent
  <2>3. CASE evt = "cancel"
    <3>1. PICK u : u = [t EXCEPT !.uploading = @ \ {c}, !.queued = @ \ {c}]
      OBVIOUS
    <3>2. /\ u \in State /\ u.cl = t.cl /\ u.events = t.events
          /\ u.uploading = t.uploading \ {c} /\ u.queued = t.queued \ {c}
      BY <1>1, <3>1 DEF State
    <3>3. \A d \in u.uploading \cup u.queued : u.cl[d].exists
      BY <1>1, <3>2 DEF Live
    <3>4. Good(u)
      BY <2>1, <3>2, <3>3, Places
    <3> QED BY <2>3, <3>1, <3>4, FillSlotsGood DEF OnClientEvent
  <2>4. CASE evt = "callback"
    BY <2>1, <2>4, RemoveGood DEF OnClientEvent
  <2>5. CASE evt = "reask"
    <3>1. PICK u : u = ReaskForDownload(t, c, by, recent, ok[c])
      OBVIOUS
    <3>2. Kept(t, u, c)
      BY <1>1, <2>1, <3>1, ReaskKeeps
    <3>3. Good(u)
      BY <1>1, <2>1, <3>2, HandlerGood
    <3> QED BY <2>1, <2>5, <3>1, <3>3 DEF OnClientEvent
  <2>6. CASE evt = "timeout"
    <3>1. PICK u : u = Establish(t, c, ok[c])
      OBVIOUS
    <3>2. Kept(t, u, c)
      BY <1>1, <2>1, <3>1, EstablishKeeps
    <3>3. Good(u)
      BY <1>1, <2>1, <3>2, HandlerGood
    <3> QED BY <2>1, <2>6, <3>1, <3>3 DEF OnClientEvent
  <2> QED BY <1>3, <2>2, <2>3, <2>4, <2>5, <2>6 DEF EventSet
<1> QED BY <1>2, <1>3

\* removeFromQueue(), and whatever else takes c's place in the queue from it.
Withdrawn(u, c) == CheckDestroy(Post([u EXCEPT !.cl[c].q = FALSE], c, "cancel"), c)

LEMMA WithdrawnKeeps ==
  ASSUME NEW t \in State, NEW c \in Clients, t.cl[c].exists, Sound(t, c)
  PROVE  Kept(t, Withdrawn(t, c), c)
<1>1. PICK r \in ClientSet : r = t.cl[c] /\ r.exists /\ Fit(r)
  BY Fields, SoundIs
<1>2. PICK p : p = [r EXCEPT !.q = FALSE]
  OBVIOUS
<1>3. p \in ClientSet /\ p.exists = r.exists /\ Fit(p)
  BY <1>1, <1>2 DEF ClientSet, Fit
<1>4. Set(t, c, p) = [t EXCEPT !.cl[c].q = FALSE]
  BY <1>1, <1>2, Zenon DEF Set
<1>5. "cancel" \in EventSet /\ p.exists
  BY <1>1, <1>3 DEF EventSet
<1>6. PICK w \in State : w = Post(Set(t, c, p), c, "cancel") /\ Within(t, w, c) /\ w.cl[c] = p
  <2>1. /\ Post(Set(t, c, p), c, "cancel") \in State
        /\ Within(t, Post(Set(t, c, p), c, "cancel"), c)
        /\ Post(Set(t, c, p), c, "cancel").cl[c] = p
    BY <1>3, <1>5, Noted
  <2> QED BY <2>1
<1>7. Kept(w, CheckDestroy(w, c), c)
  BY <1>3, <1>6, CheckDestroyKeeps DEF Fit
<1>8. Withdrawn(t, c) = CheckDestroy(w, c)
  BY <1>4, <1>6 DEF Withdrawn
<1> QED BY <1>6, <1>7, <1>8, KeptBoth

\* What is done for each of a set of clients that exist, if each time all is in order.
LEMMA ForEachGood ==
  ASSUME NEW t, Good(t), NEW step, NEW cs \in SUBSET Clients, \A c \in cs : t.cl[c].exists,
         \A u \in State : \A c \in cs :
             Good(u) /\ u.cl[c].exists => Kept(u, step[c][u], c)
  PROVE  Good(ForEach(step, t, cs))
<1>1. PICK G \in SUBSET State : G = {u \in State : Good(u) /\ \A c \in cs : u.cl[c].exists}
  OBVIOUS
<1>2. ASSUME NEW u \in G, NEW c \in cs PROVE step[c][u] \in G
  <2>1. u \in State /\ Good(u) /\ \A d \in cs : u.cl[d].exists
    BY <1>1
  <2>2. PICK v : v = step[c][u]
    OBVIOUS
  <2>3. Kept(u, v, c)
    BY <2>1, <2>2
  <2>4. Good(v) /\ v \in State
    BY <2>1, <2>3, HandlerGood
  <2>5. ASSUME NEW d \in cs PROVE v.cl[d].exists
    BY <2>1, <2>3 DEF Kept, Within
  <2> QED BY <1>1, <2>2, <2>4, <2>5
<1>3. t \in G
  BY <1>1 DEF Good
<1>4. ForEach(step, t, cs) \in G
  BY <1>2, <1>3, ForEachStays
<1> QED BY <1>1, <1>4

\* updateQueue()
LEMMA UpdateQueueGood ==
  ASSUME NEW t, Good(t), NEW late \in SUBSET t.queued, NEW order \in Seq(Clients)
  PROVE  Good(UpdateQueue(t, late, order))
<1>1. t \in State /\ Live(t) /\ t.queued \in SUBSET Clients
  BY DEF Good, State
<1>2. PICK drop \in SUBSET Clients :
             drop = {c \in t.queued \cap late : t.cl[c].q /\ t.cl[c].src = "none"}
  BY <1>1
<1>3. PICK step : step = [c \in Clients |-> [u \in State |->
            CheckDestroy(Post([u EXCEPT !.cl[c].q = FALSE], c, "cancel"), c)]]
  OBVIOUS
<1>4. ASSUME NEW u \in State, NEW c \in drop, Good(u), u.cl[c].exists
      PROVE  Kept(u, step[c][u], c)
  <2>1. step[c][u] = Withdrawn(u, c)
    BY <1>3 DEF Withdrawn
  <2> QED BY <1>4, <2>1, WithdrawnKeeps DEF Good
<1>5. \A c \in drop : t.cl[c].exists
  BY <1>1, <1>2 DEF Live
<1>6. PICK v : v = ForEach(step, t, drop)
  OBVIOUS
<1>7. Good(v)
  BY <1>4, <1>5, <1>6, ForEachGood
<1>8. PICK hits : hits = late \cup {c \in Clients : ~t.cl[c].q}
  OBVIOUS
<1>9. PICK list : list = Without(order, hits)
  OBVIOUS
<1>10. list \in Seq(Clients)
  BY <1>9, WithoutIs
<1>11. PICK w : w = [v EXCEPT !.queue = list]
  OBVIOUS
<1>12. /\ w \in State /\ w.cl = v.cl /\ w.events = v.events
       /\ w.uploading = v.uploading /\ w.queued = v.queued
  BY <1>7, <1>10, <1>11 DEF Good, State
<1>13. Good(w)
  BY <1>7, <1>12, Places DEF Good, Live
<1>14. UpdateQueue(t, late, order) = w
  BY <1>2, <1>3, <1>6, <1>8, <1>9, <1>11 DEF UpdateQueue
<1> QED BY <1>13, <1>14

-----------------------------------------------------------------------------
(* Clients that are new, and what a client that exists gives                *)

\* What a client has, it has because it exists.
LEMMA Exists ==
  ASSUME NEW t, Good(t), NEW c \in Clients,
         \/ t.cl[c].sock # "none" \/ t.cl[c].src # "none" \/ t.cl[c].q \/ t.cl[c].up
         \/ t.cl[c].dl \/ t.cl[c].cb
  PROVE  t.cl[c].exists
<1>1. Sound(t, c)
  BY DEF Good
<1> QED BY <1>1 DEF Sound, HasPurpose

LEMMA Given ==
  ASSUME NEW t, Good(t), NEW c \in Clients, t.cl[c].exists
  PROVE  t \in State /\ Sound(t, c) /\ Fit(t.cl[c]) /\ Kind(t, c, t.cl[c]) /\ Near(t, c)
<1>1. t \in State /\ Sound(t, c)
  BY DEF Good
<1> QED BY <1>1, SoundIs, GoodIsNear

LEMMA PatchGood ==
  ASSUME NEW t, Good(t), NEW c \in Clients, t.cl[c].exists,
         NEW p \in ClientSet, Fit(p), Kind(t, c, p)
  PROVE  Good(Set(t, c, p)) /\ Set(t, c, p).cl[c].exists
<1>1. PICK u : u = Set(t, c, p)
  OBVIOUS
<1>2. t \in State
  BY DEF Good
<1>3. Kept(t, u, c)
  BY <1>1, <1>2, Patching
<1> QED BY <1>1, <1>3, HandlerGood

LEMMA PostGood ==
  ASSUME NEW t, Good(t), NEW c \in Clients, t.cl[c].exists, NEW evt \in EventSet
  PROVE  Good(Post(t, c, evt))
<1>1. PICK u : u = Post(t, c, evt)
  OBVIOUS
<1>2. Within(t, u, c) /\ u.cl = t.cl
  BY <1>1, Posted DEF Good
<1>3. Kept(t, u, c)
  BY <1>2, Given, KeptIs
<1> QED BY <1>1, <1>3, HandlerGood

\* A Client object is made: all but it is in order.
LEMMA NewIsNear ==
  ASSUME NEW t, Good(t), NEW c \in Clients, ~t.cl[c].exists, NEW p \in ClientSet, p.exists
  PROVE  /\ Near(Set(t, c, p), c) /\ Set(t, c, p).cl[c] = p
<1>1. t \in State /\ Live(t) /\ \A d \in Clients : Sound(t, d)
  BY DEF Good
<1>2. PICK u : u = Set(t, c, p)
  OBVIOUS
<1>3. u = [t EXCEPT !.cl = [t.cl EXCEPT ![c] = p]]
  BY <1>1, <1>2, Zenon DEF Set
<1>4. u \in State
  BY <1>1, <1>3 DEF State
<1>5. /\ u.cl = [t.cl EXCEPT ![c] = p] /\ u.events = t.events
      /\ u.uploading = t.uploading /\ u.queued = t.queued
  BY <1>1, <1>3 DEF State
<1>6. u.cl[c] = p /\ \A d \in Clients \ {c} : u.cl[d] = t.cl[d]
  BY <1>1, <1>5, Fields
<1>7. \A d, evt : Has(u, d, evt) <=> Has(t, d, evt)
  BY <1>5 DEF Has
<1>8. Live(u)
  <2>1. ASSUME NEW d \in Clients, NEW evt \in EventSet, Has(u, d, evt) PROVE u.cl[d].exists
    BY <1>1, <1>6, <1>7, <2>1 DEF Live
  <2>2. ASSUME NEW d \in u.uploading \cup u.queued PROVE u.cl[d].exists
    <3>1. d \in Clients /\ t.cl[d].exists
      BY <1>1, <1>5, Fields DEF Live
    <3> QED BY <1>6, <3>1
  <2> QED BY <2>1, <2>2 DEF Live
<1>9. ASSUME NEW d \in Clients \ {c} PROVE Sound(u, d)
  BY <1>1, <1>6, <1>7 DEF Sound
<1>10. Near(u, c)
  BY <1>4, <1>6, <1>8, <1>9 DEF Near
<1> QED BY <1>2, <1>6, <1>10

LEMMA NewGood ==
  ASSUME NEW t, Good(t), NEW c \in Clients, ~t.cl[c].exists,
         NEW p \in ClientSet, Fit(p), p.sock # "none"
  PROVE  Good(Set(t, c, p))
<1>1. PICK u : u = Set(t, c, p)
  OBVIOUS
<1>2. Near(u, c) /\ u.cl[c] = p
  BY <1>1, NewIsNear DEF Fit
<1>3. Sound(u, c)
  BY <1>2, SoundIs DEF Fit, Kind
<1> QED BY <1>1, <1>2, <1>3, GoodIsNear DEF Fit

\* The first event leaves m_pending.
Rest(t) == [t EXCEPT !.events = Tail(@)]

LEMMA TailGood ==
  ASSUME NEW t, Good(t), t.events # <<>>, NEW c, NEW evt, Head(t.events) = <<c, evt>>
  PROVE  /\ c \in Clients /\ evt \in EventSet
         /\ Near(Rest(t), c)
         /\ evt # "destroy" => Good(Rest(t))
<1>1. t \in State /\ Live(t) /\ (\A d \in Clients : Sound(t, d))
      /\ t.events \in Seq(Clients \X EventSet)
  BY DEF Good, State
<1>2. PICK n \in Nat : n + 1 = Len(t.events)
  <2>1. Len(t.events) \in Nat /\ Len(t.events) # 0
    BY <1>1, LenProperties, EmptySeq
  <2>2. PICK k \in Nat : k = Len(t.events)
    BY <2>1
  <2>3. k - 1 \in Nat /\ (k - 1) + 1 = k
    BY <2>1, <2>2
  <2> QED BY <2>2, <2>3
<1>3. t.events[1] = <<c, evt>> /\ c \in Clients /\ evt \in EventSet
  <2>1. Head(t.events) = t.events[1] /\ Head(t.events) \in Clients \X EventSet
    BY <1>1, HeadTailProperties
  <2> QED BY <2>1
<1>4. PICK u : u = Rest(t)
  OBVIOUS
<1>5. PICK rest \in Seq(Clients \X EventSet) : rest = Tail(t.events)
  BY <1>1, HeadTailProperties
<1>6. Len(rest) = n /\ \A i \in 1..n : rest[i] = t.events[i + 1]
  BY <1>1, <1>2, <1>5, HeadTailProperties
<1>7. /\ u \in State /\ u.cl = t.cl /\ u.events = rest
      /\ u.uploading = t.uploading /\ u.queued = t.queued
  BY <1>1, <1>4, <1>5 DEF Rest, State
<1>8. ASSUME NEW d, NEW e, Has(u, d, e) PROVE Has(t, d, e)
  <2>1. PICK i \in 1..n : rest[i] = <<d, e>>
    BY <1>6, <1>7, <1>8 DEF Has
  <2>2. i + 1 \in 1..(n + 1) /\ t.events[i + 1] = <<d, e>>
    BY <1>6, <2>1
  <2> QED BY <1>2, <2>2 DEF Has
<1>9. ASSUME NEW d, NEW e, Has(t, d, e), <<d, e>> # <<c, evt>> PROVE Has(u, d, e)
  <2>1. PICK i \in 1..(n + 1) : t.events[i] = <<d, e>>
    BY <1>2, <1>9 DEF Has
  <2>2. i # 1
    BY <1>3, <1>9, <2>1
  <2>3. i - 1 \in 1..n /\ (i - 1) + 1 = i
    BY <2>1, <2>2
  <2>4. rest[i - 1] = <<d, e>>
    BY <1>6, <2>1, <2>3
  <2> QED BY <1>6, <1>7, <2>3, <2>4 DEF Has
<1>10. Live(u)
  BY <1>1, <1>7, <1>8 DEF Live
<1>11. ASSUME NEW d \in Clients, d # c \/ evt # "destroy" PROVE Sound(u, d)
  <2>1. Sound(t, d) /\ u.cl[d] = t.cl[d]
    BY <1>1, <1>7
  <2>2. Has(t, d, "destroy") => Has(u, d, "destroy")
    BY <1>9, <1>11
  <2> QED BY <2>1, <2>2 DEF Sound
<1>12. u.cl[c].exists
  <2>1. 1 \in 1..Len(t.events)
    BY <1>2
  <2>2. Has(t, c, evt)
    BY <1>3, <2>1 DEF Has
  <2> QED BY <1>1, <1>3, <1>7, <2>2 DEF Live
<1>13. Near(u, c)
  BY <1>7, <1>10, <1>11, <1>12 DEF Near
<1>14. evt # "destroy" => Good(u)
  BY <1>7, <1>10, <1>11 DEF Good
<1> QED BY <1>3, <1>4, <1>13, <1>14

-----------------------------------------------------------------------------
(* The steps: the main loop                                                *)

\* Whatever the event, the handler leaves all in order.
LEMMA DispatchGood ==
  ASSUME Good(s), Dispatch
  PROVE  Good(s')
<1>1. PICK how \in Hows, by \in Bys, recent \in BOOLEAN, ok \in Oks :
        s' = OnClientEvent([s EXCEPT !.events = Tail(@)],
                 Head(s.events)[1], Head(s.events)[2], how, by, recent, ok)
  BY DEF Dispatch, Becomes
<1>2. s.events # <<>> /\ s.events \in Seq(Clients \X EventSet)
  BY DEF Dispatch, Good, State
<1>3. PICK c \in Clients, evt \in EventSet : Head(s.events) = <<c, evt>>
  <2>1. Head(s.events) \in Clients \X EventSet
    BY <1>2, HeadTailProperties
  <2> QED BY <2>1
<1>4. PICK u : u = Rest(s)
  OBVIOUS
<1>5. Near(u, c) /\ (evt # "destroy" => Good(u))
  BY <1>2, <1>3, <1>4, TailGood
<1>6. Good(OnClientEvent(u, c, evt, how, by, recent, ok))
  BY <1>5, ClientEventGood
<1>7. s' = OnClientEvent(u, c, evt, how, by, recent, ok)
  BY <1>1, <1>3, <1>4 DEF Rest
<1> QED BY <1>6, <1>7

LEMMA RegenQueueGood ==
  ASSUME Good(s), RegenQueue
  PROVE  Good(s')
<1>1. PICK late \in SUBSET s.queued,
           order \in {q \in [1..Cardinality(s.queued) -> s.queued] :
                         \A c \in s.queued : \E i \in DOMAIN q : q[i] = c} :
        s' = UpdateQueue(s, late, order)
  BY DEF RegenQueue, Becomes
<1>2. s.queued \in SUBSET Clients
  BY DEF Good, State
<1>3. PICK n \in Nat : n = Cardinality(s.queued)
  BY <1>2, DonkeyAssumption, FS_Subset, FS_CardinalityType
<1>4. order \in [1..n -> Clients]
  BY <1>2, <1>3
<1>5. order \in Seq(Clients)
  BY <1>4, SeqDef
<1> QED BY <1>1, <1>5, UpdateQueueGood

LEMMA TimerGood ==
  ASSUME Good(s), NEW c \in Clients,
         \/ CallbackDue(c) \/ ReaskDue(c) \/ TimeoutDue(c) \/ ResendDue(c) \/ ReconnectDue(c)
  PROVE  Good(s')
<1>1. CASE CallbackDue(c)
  BY <1>1, Exists, PostGood DEF CallbackDue, Becomes, EventSet
<1>2. CASE ReaskDue(c)
  BY <1>2, Exists, PostGood DEF ReaskDue, Becomes, EventSet
<1>3. CASE TimeoutDue(c)
  BY <1>3, Exists, PostGood DEF TimeoutDue, Becomes, EventSet
<1>4. CASE ResendDue(c)
  <2>1. PICK how \in Hows : s' = SendNextChunk(s, c, how)
    BY <1>4 DEF ResendDue, Becomes
  <2>2. s.cl[c].exists
    BY <1>4 DEF ResendDue
  <2>3. Kept(s, s', c)
    BY <2>1, <2>2, Given, SendNextChunkKeeps
  <2> QED BY <2>2, <2>3, HandlerGood
<1>5. CASE ReconnectDue(c)
  <2>1. PICK ok \in BOOLEAN : s' = Establish(s, c, ok)
    BY <1>5 DEF ReconnectDue, Becomes
  <2>2. s.cl[c].exists
    BY <1>5 DEF ReconnectDue
  <2>3. Kept(s, s', c)
    BY <2>1, <2>2, Given, EstablishKeeps
  <2> QED BY <2>2, <2>3, HandlerGood
<1> QED BY <1>1, <1>2, <1>3, <1>4, <1>5

-----------------------------------------------------------------------------
(* The steps: connections and other clients                                *)

LEMMA AcceptGood ==
  ASSUME Good(s), NEW c \in Clients, Accept(c)
  PROVE  Good(s')
<1>1. PICK p : p = [Fresh(TRUE) EXCEPT !.sock = "up", !.sess = {"alive"}]
  OBVIOUS
<1>2. p \in ClientSet /\ Fit(p) /\ p.sock # "none"
  BY <1>1 DEF Fresh, ClientSet, Fit
<1>3. ~s.cl[c].exists /\ s' = Set(s, c, p)
  BY <1>1 DEF Accept, Becomes
<1> QED BY <1>2, <1>3, NewGood

LEMMA AddClientGood ==
  ASSUME Good(s), NEW c \in Clients, NEW p \in Peers, AddClient(c, p)
  PROVE  Good(s')
<1>1. PICK ok \in BOOLEAN :
        \/ c \in Known(p) /\ s' = Establish(s, c, ok)
        \/ /\ ~s.cl[c].exists
           /\ s' = Set(s, c, [Fresh(TRUE) EXCEPT
                      !.id = p, !.sock = "connecting", !.sess = {"alive"}])
  BY DEF AddClient, Becomes
<1>2. CASE c \in Known(p) /\ s' = Establish(s, c, ok)
  <2>1. s.cl[c].exists
    BY <1>2 DEF Known
  <2>2. Kept(s, s', c)
    BY <1>2, <2>1, Given, EstablishKeeps
  <2> QED BY <2>1, <2>2, HandlerGood
<1>3. CASE /\ ~s.cl[c].exists
           /\ s' = Set(s, c, [Fresh(TRUE) EXCEPT
                      !.id = p, !.sock = "connecting", !.sess = {"alive"}])
  <2>1. PICK n : n = [Fresh(TRUE) EXCEPT
                         !.id = p, !.sock = "connecting", !.sess = {"alive"}]
    OBVIOUS
  <2>2. n \in ClientSet /\ Fit(n) /\ n.sock # "none"
    BY <2>1 DEF Fresh, ClientSet, Fit
  <2> QED BY <1>3, <2>1, <2>2, NewGood
<1> QED BY <1>1, <1>2, <1>3

LEMMA AddSourceGood ==
  ASSUME Good(s), NEW c \in Clients, NEW p \in Peers, AddSource(c, p)
  PROVE  Good(s')
<1>1. PICK ok \in BOOLEAN, doConn \in BOOLEAN :
        \/ c \in Known(p) /\ s' = AddOffered(s, c, doConn, ok)
        \/ /\ ~s.cl[c].exists
           /\ LET new == AddOffered(Set(s, c, [Fresh(TRUE) EXCEPT !.id = p]), c, FALSE, ok)
              IN  s' = IF doConn THEN Establish(new, c, ok) ELSE new
  BY DEF AddSource, Becomes
<1>2. CASE c \in Known(p) /\ s' = AddOffered(s, c, doConn, ok)
  <2>1. s.cl[c].exists
    BY <1>2 DEF Known
  <2>2. Kept(s, s', c)
    BY <1>2, <2>1, Given, AddOfferedKeeps
  <2> QED BY <2>1, <2>2, HandlerGood
<1>3. CASE /\ ~s.cl[c].exists
           /\ LET new == AddOffered(Set(s, c, [Fresh(TRUE) EXCEPT !.id = p]), c, FALSE, ok)
              IN  s' = IF doConn THEN Establish(new, c, ok) ELSE new
  <2>1. PICK n : n = [Fresh(TRUE) EXCEPT !.id = p]
    OBVIOUS
  <2>2. n \in ClientSet /\ Fit(n) /\ n.src = "none" /\ n.exists
    BY <2>1 DEF Fresh, ClientSet, Fit
  <2>3. PICK born : born = Set(s, c, n)
    OBVIOUS
  <2>4. Near(born, c) /\ born.cl[c] = n
    BY <1>3, <2>2, <2>3, NewIsNear
  <2>5. PICK new : new = AddOffered(born, c, FALSE, ok)
    OBVIOUS
  <2>6. Kept(born, new, c)
    BY <2>2, <2>4, <2>5, AddOfferedKeeps DEF Near
  <2>7. Good(new) /\ new.cl[c].exists
    BY <2>4, <2>6, KeptGood
  <2>8. PICK on : on = Establish(new, c, ok)
    OBVIOUS
  <2>9. Kept(new, on, c)
    BY <2>7, <2>8, Given, EstablishKeeps
  <2>10. Good(on)
    BY <2>7, <2>9, HandlerGood
  <2>11. s' \in {new, on}
    BY <1>3, <2>1, <2>3, <2>5, <2>8
  <2> QED BY <2>7, <2>10, <2>11
<1> QED BY <1>1, <1>2, <1>3

LEMMA ConnectionGood ==
  ASSUME Good(s), NEW c \in Clients,
         Opened(c) \/ Connected(c) \/ ConnFailed(c) \/ Lost(c) \/ Writable(c)
  PROVE  Good(s')
<1>1. s.cl[c].sock # "none"
  BY DEF Opened, Connected, ConnFailed, Lost, Writable
<1>2. s.cl[c].exists
  BY <1>1, Exists
<1>3. s \in State /\ Sound(s, c) /\ Fit(s.cl[c])
  BY <1>2, Given
<1>4. PICK r \in ClientSet : r = s.cl[c] /\ Fit(r)
  BY <1>3, Fields
<1>5. CASE Opened(c)
  <2>1. PICK p : p = [r EXCEPT !.sock = "open"]
    OBVIOUS
  <2>2. p \in ClientSet /\ Fit(p) /\ Kind(s, c, p)
    BY <1>1, <1>4, <2>1 DEF ClientSet, Fit, Kind
  <2>3. s' = Set(s, c, p)
    <3>1. s' = [s EXCEPT !.cl[c].sock = "open"]
      BY <1>5 DEF Opened, Becomes
    <3> QED BY <1>3, <1>4, <2>1, <3>1 DEF Set, State
  <2> QED BY <1>2, <2>2, <2>3, PatchGood
<1>6. CASE Connected(c)
  <2>1. PICK p : p = [r EXCEPT !.sock = "up", !.sess = {"alive"}]
    OBVIOUS
  <2>2. p \in ClientSet /\ Fit(p) /\ Kind(s, c, p)
    BY <1>4, <2>1 DEF ClientSet, Fit, Kind
  <2>3. s' = Set(s, c, p)
    <3>1. s' = [s EXCEPT !.cl[c].sock = "up", !.cl[c].sess = {"alive"}]
      BY <1>6 DEF Connected, Becomes
    <3> QED BY <1>3, <1>4, <2>1, <3>1 DEF Set, State
  <2> QED BY <1>2, <2>2, <2>3, PatchGood
<1>7. CASE ConnFailed(c)
  <2>1. Kept(s, s', c)
    BY <1>2, <1>3, <1>7, Destroyed DEF ConnFailed, Becomes
  <2> QED BY <1>2, <2>1, HandlerGood
<1>8. CASE Lost(c)
  <2>1. PICK why \in Ends : s' = LostConnection(s, c, why)
    BY <1>8 DEF Lost, Becomes
  <2>2. Kept(s, s', c)
    BY <1>2, <1>3, <2>1, LostConnectionKeeps
  <2> QED BY <1>2, <2>2, HandlerGood
<1>9. CASE Writable(c)
  <2>1. PICK how \in Hows \cup Ends : s' = SendNextChunk(s, c, how)
    BY <1>9 DEF Writable, Becomes
  <2>2. Kept(s, s', c)
    BY <1>2, <1>3, <2>1, SendNextChunkKeeps
  <2> QED BY <1>2, <2>2, HandlerGood
<1> QED BY <1>5, <1>6, <1>7, <1>8, <1>9

-----------------------------------------------------------------------------
(* The steps: packets                                                      *)

\* A packet comes over a connection of a client that exists.
LEMMA Sender ==
  ASSUME Good(s), NEW c \in Clients, Packet(c)
  PROVE  /\ s.cl[c].exists /\ s.cl[c].sock = "up" /\ s.cl[c].sess # {}
         /\ s \in State /\ Sound(s, c) /\ Fit(s.cl[c])
<1>1. s.cl[c].sock = "up"
  BY DEF Packet
<1>2. s.cl[c].exists
  BY <1>1, Exists
<1>3. s \in State /\ Sound(s, c) /\ Fit(s.cl[c])
  BY <1>2, Given
<1> QED BY <1>1, <1>2, <1>3 DEF Fit

\* Hello, HelloAnswer, a change of the ID, and what identifies a peer.
LEMMA IdentityGood ==
  ASSUME Good(s), NEW c \in Clients, Hello(c) \/ ChangeId(c) \/ Identified(c) \/ Garbage(c)
  PROVE  Good(s')
<1>1. Packet(c)
  BY DEF Hello, ChangeId, Identified, Garbage
<1>2. /\ s.cl[c].exists /\ s.cl[c].sock = "up" /\ s.cl[c].sess # {}
      /\ s \in State /\ Sound(s, c) /\ Fit(s.cl[c])
  BY <1>1, Sender
<1>3. CASE Hello(c)
  <2>1. PICK r \in ClientSet : r = s.cl[c]
    BY <1>2, Fields
  <2>2. PICK p : p = [r EXCEPT !.sess = @ \cup {"hello"}, !.udp = TRUE]
    OBVIOUS
  <2>3. p \in ClientSet /\ Fit(p) /\ Kind(s, c, p)
    BY <1>2, <2>1, <2>2 DEF ClientSet, Fit, Kind
  <2>4. PICK t : t = Set(s, c, p)
    OBVIOUS
  <2>5. Good(t) /\ t.cl[c].exists
    BY <1>2, <2>3, <2>4, PatchGood
  <2>6. t = [s EXCEPT !.cl[c].sess = @ \cup {"hello"}, !.cl[c].udp = TRUE]
    BY <1>2, <2>1, <2>2, <2>4 DEF Set, State
  <2>7. PICK id \in Peers, hs \in BOOLEAN, ok \in BOOLEAN, how \in Hows :
            s' = OnIdChange([s EXCEPT !.cl[c].sess = @ \cup {"hello"}, !.cl[c].udp = TRUE],
                            c, id, hs, how, ok)
    BY <1>2, <1>3 DEF Hello, Becomes
  <2>8. s' = OnIdChange(t, c, id, hs, how, ok)
    BY <2>6, <2>7
  <2> QED BY <2>5, <2>8, IdChangeGood
<1>4. CASE ChangeId(c)
  <2>1. PICK id \in Peers, hs \in BOOLEAN, ok \in BOOLEAN, how \in Hows :
            s' = OnIdChange(s, c, id, hs, how, ok)
    BY <1>4 DEF ChangeId, Becomes
  <2> QED BY <1>2, <2>1, IdChangeGood
<1>5. CASE Identified(c)
  <2>1. PICK ok \in BOOLEAN, how \in Hows : s' = HandshakeCompleted(s, c, FALSE, how, ok)
    BY <1>5 DEF Identified, Becomes
  <2>2. Kept(s, s', c)
    BY <1>2, <2>1, HandshakeKeeps
  <2> QED BY <1>2, <2>2, HandlerGood
<1>6. CASE Garbage(c)
  <2>1. Kept(s, s', c)
    BY <1>2, <1>6, Destroyed DEF Garbage, Becomes
  <2> QED BY <1>2, <2>1, HandlerGood
<1> QED BY <1>3, <1>4, <1>5, <1>6

\* The peer asks: for the file, for a slot, for chunks, or for nothing more.
LEMMA RequestGood ==
  ASSUME Good(s), NEW c \in Clients,
         ReqFile(c) \/ SetReqFileId(c) \/ StartUploadReq(c) \/ ReqChunks(c) \/ CancelTransfer(c)
  PROVE  Good(s')
<1>1. Packet(c)
  BY DEF ReqFile, SetReqFileId, StartUploadReq, ReqChunks, CancelTransfer
<1>2. /\ s.cl[c].exists /\ s.cl[c].sock = "up" /\ s.cl[c].sess # {}
      /\ s \in State /\ Sound(s, c) /\ Fit(s.cl[c])
  BY <1>1, Sender
<1>3. SUFFICES Kept(s, s', c)
  BY <1>2, HandlerGood
<1>4. CASE ReqFile(c)
  <2>1. PICK new : new = Offered(s, c)
    OBVIOUS
  <2>2. new \in State /\ Kept(s, new, c)
    BY <1>2, <2>1, OfferedKeeps
  <2>3. new.cl[c].exists /\ Sound(new, c) /\ Within(s, new, c)
    BY <1>2, <2>2 DEF Kept, Within
  <2>4. Kept(s, Destroy(new, c), c)
    BY <2>2, <2>3, Destroyed, KeptBoth
  <2>5. Kept(s, ReqDownload(new, c), c)
    BY <2>2, <2>3, ReqDownloadKeeps, KeptBoth
  <2>6. Kept(s, Destroy(s, c), c)
    BY <1>2, Destroyed
  <2>7. s' \in {Destroy(s, c), Destroy(new, c), ReqDownload(new, c)}
    BY <1>4, <2>1 DEF ReqFile, Becomes, Offered
  <2> QED BY <2>4, <2>5, <2>6, <2>7
<1>5. CASE SetReqFileId(c)
  <2>1. s' = OnUploadReq(s, c, "go", TRUE)
    BY <1>5 DEF SetReqFileId, Becomes, OnUploadReq
  <2> QED BY <1>2, <2>1, UploadReqKeeps
<1>6. CASE StartUploadReq(c)
  <2>1. PICK ok \in BOOLEAN, how \in Hows : s' = OnUploadReq(s, c, how, ok)
    BY <1>6 DEF StartUploadReq, Becomes
  <2> QED BY <1>2, <2>1, UploadReqKeeps
<1>7. CASE ReqChunks(c)
  <2>1. PICK how \in Hows \cup Ends :
            s' = IF s.cl[c].up THEN SendNextChunk(s, c, how) ELSE Destroy(s, c)
    BY <1>7 DEF ReqChunks, Becomes
  <2>2. Kept(s, SendNextChunk(s, c, how), c)
    BY <1>2, SendNextChunkKeeps
  <2>3. Kept(s, Destroy(s, c), c)
    BY <1>2, Destroyed
  <2> QED BY <2>1, <2>2, <2>3
<1>8. CASE CancelTransfer(c)
  <2>1. PICK r \in ClientSet : r = s.cl[c]
    BY <1>2, Fields
  <2>2. PICK p : p = [r EXCEPT !.up = FALSE, !.q = FALSE]
    OBVIOUS
  <2>3. p \in ClientSet /\ p.exists = r.exists /\ Fit(p) /\ Kind(s, c, p)
    BY <1>2, <2>1, <2>2 DEF ClientSet, Fit, Kind
  <2>4. PICK off \in State : off = Set(s, c, p) /\ Kept(s, off, c)
    BY <1>2, <2>3, Patching
  <2>5. off = [s EXCEPT !.cl[c].up = FALSE, !.cl[c].q = FALSE]
    BY <1>2, <2>1, <2>2, <2>4, Zenon DEF Set
  <2>6. off.cl[c].exists /\ Within(s, off, c) /\ Sound(off, c)
    BY <1>2, <2>4 DEF Kept, Within
  <2>7. Kept(s, Destroy(off, c), c)
    BY <2>6, Destroyed, KeptBoth
  <2>8. Kept(s, Post(off, c, "cancel"), c)
    <3>1. PICK u : u = Post(off, c, "cancel")
      OBVIOUS
    <3>2. Within(off, u, c) /\ u.cl = off.cl
      BY <3>1, Posted DEF EventSet
    <3>3. Kept(off, u, c)
      BY <2>6, <3>2, SoundIs, KeptIs
    <3> QED BY <2>6, <3>1, <3>3, KeptBoth
  <2>9. s' \in {Destroy(off, c), Post(off, c, "cancel")}
    BY <1>8, <2>5 DEF CancelTransfer, Becomes
  <2> QED BY <2>7, <2>8, <2>9
<1> QED BY <1>4, <1>5, <1>6, <1>7, <1>8

\* The peer answers: it has the file or not, we have a place in its queue, a slot,
\* or a chunk.
LEMMA AnswerGood ==
  ASSUME Good(s), NEW c \in Clients,
         FileStatus(c) \/ NoFile(c) \/ QueueRanking(c) \/ AcceptUploadReq(c) \/ DataChunk(c)
  PROVE  Good(s')
<1>1. Packet(c)
  BY DEF FileStatus, NoFile, QueueRanking, AcceptUploadReq, DataChunk
<1>2. /\ s.cl[c].exists /\ s.cl[c].sock = "up" /\ s.cl[c].sess # {}
      /\ s \in State /\ Sound(s, c) /\ Fit(s.cl[c])
  BY <1>1, Sender
<1>3. SUFFICES Kept(s, s', c)
  BY <1>2, HandlerGood
<1>4. PICK r \in ClientSet : r = s.cl[c]
  BY <1>2, Fields
<1>5. Kept(s, Destroy(s, c), c)
  BY <1>2, Destroyed
<1>6. Kept(s, [s EXCEPT !.cl[c].dl = FALSE], c)
  <2>1. PICK p : p = [r EXCEPT !.dl = FALSE]
    OBVIOUS
  <2>2. p \in ClientSet /\ Fit(p) /\ Kind(s, c, p)
    BY <1>2, <1>4, <2>1 DEF ClientSet, Fit, Kind
  <2>3. Set(s, c, p) = [s EXCEPT !.cl[c].dl = FALSE]
    BY <1>2, <1>4, <2>1, Zenon DEF Set
  <2>4. Kept(s, Set(s, c, p), c)
    BY <1>2, <2>2, Patching
  <2> QED BY <2>3, <2>4
<1>7. CASE FileStatus(c)
  <2>1. s' = AddOffered(s, c, TRUE, FALSE)
    BY <1>7 DEF FileStatus, Becomes
  <2> QED BY <1>2, <2>1, AddOfferedKeeps
<1>8. CASE NoFile(c)
  BY <1>2, <1>8, RemOfferedKeeps DEF NoFile, Becomes
<1>9. CASE QueueRanking(c)
  BY <1>5, <1>6, <1>9 DEF QueueRanking, Becomes
<1>10. CASE AcceptUploadReq(c)
  <2>1. PICK p : p = [r EXCEPT !.dl = TRUE, !.sess = IF @ = {} THEN @ ELSE @ \cup {"req"}]
    OBVIOUS
  <2>2. p \in ClientSet /\ Fit(p) /\ Kind(s, c, p)
    BY <1>2, <1>4, <2>1 DEF ClientSet, Fit, Kind
  <2>3. Set(s, c, p) = [s EXCEPT !.cl[c].dl = TRUE,
                           !.cl[c].sess = IF @ = {} THEN @ ELSE @ \cup {"req"}]
    BY <1>2, <1>4, <2>1, Zenon DEF Set
  <2>4. Kept(s, Set(s, c, p), c)
    BY <1>2, <2>2, Patching
  <2>5. s' \in {Set(s, c, p), [s EXCEPT !.cl[c].dl = FALSE]}
    BY <1>10, <2>3 DEF AcceptUploadReq, Becomes
  <2> QED BY <1>6, <2>4, <2>5
<1>11. CASE DataChunk(c)
  BY <1>5, <1>6, <1>11 DEF DataChunk, Becomes
<1> QED BY <1>7, <1>8, <1>9, <1>10, <1>11

LEMMA DatagramGood ==
  ASSUME Good(s), NEW c \in Clients, ReaskFilePing(c) \/ FileNotFound(c)
  PROVE  Good(s')
<1>1. s.cl[c].exists
  BY DEF ReaskFilePing, FileNotFound, Datagram
<1>2. s \in State /\ Sound(s, c) /\ Fit(s.cl[c])
  BY <1>1, Given
<1>3. CASE ReaskFilePing(c)
  <2>1. PICK ok \in BOOLEAN, how \in Hows :
          LET asks == IF shared THEN OnUploadReq(s, c, how, ok) ELSE s
          IN  s' = IF download THEN AddOffered(asks, c, TRUE, ok) ELSE asks
    BY <1>3 DEF ReaskFilePing, Becomes
  <2>2. PICK asks : asks = IF shared THEN OnUploadReq(s, c, how, ok) ELSE s
    OBVIOUS
  <2>3. Kept(s, OnUploadReq(s, c, how, ok), c)
    BY <1>1, <1>2, UploadReqKeeps
  <2>4. Good(asks) /\ asks.cl[c].exists
    BY <1>1, <2>2, <2>3, HandlerGood
  <2>5. PICK u : u = AddOffered(asks, c, TRUE, ok)
    OBVIOUS
  <2>6. Kept(asks, u, c)
    BY <2>4, <2>5, Given, AddOfferedKeeps
  <2>7. Good(u)
    BY <2>4, <2>6, HandlerGood
  <2>8. s' \in {u, asks}
    BY <2>1, <2>2, <2>5
  <2> QED BY <2>4, <2>7, <2>8
<1>4. CASE FileNotFound(c)
  <2>1. Kept(s, s', c)
    BY <1>1, <1>2, <1>4, RemOfferedKeeps DEF FileNotFound, Becomes
  <2> QED BY <1>1, <2>1, HandlerGood
<1> QED BY <1>3, <1>4

-----------------------------------------------------------------------------
(* The steps: the file                                                     *)

\* The Download lets go of its sources: who it knows nothing of keeps a stale one.
LEMMA DownloadGoneGood ==
  ASSUME Good(s), DownloadGone
  PROVE  Good(s')
<1>1. s \in State /\ Live(s)
  BY DEF Good
<1>2. PICK cs \in SUBSET Clients : cs = {c \in s.sources : s.cl[c].exists}
  BY <1>1 DEF State
<1>3. PICK step : step = [c \in Clients |-> [t \in State |-> RemOffered(t, c)]]
  OBVIOUS
<1>4. ASSUME NEW u \in State, NEW c \in cs, Good(u), u.cl[c].exists
      PROVE  Kept(u, step[c][u], c)
  <2>1. step[c][u] = RemOffered(u, c)
    BY <1>3
  <2> QED BY <1>4, <2>1, Given, RemOfferedKeeps
<1>5. PICK off : off = ForEach(step, s, cs)
  OBVIOUS
<1>6. Good(off)
  BY <1>2, <1>4, <1>5, ForEachGood
<1>7. off \in State /\ Live(off) /\ \A c \in Clients : Sound(off, c)
  BY <1>6 DEF Good
<1>8. PICK clients : clients =
            [c \in Clients |-> IF off.cl[c].src = "live" THEN [off.cl[c] EXCEPT !.src = "stale"]
                               ELSE off.cl[c]]
  OBVIOUS
<1>9. s' = [off EXCEPT !.sources = {}, !.cl = clients]
  BY <1>2, <1>3, <1>5, <1>8 DEF DownloadGone
<1>10. ASSUME NEW c \in Clients
       PROVE  /\ clients[c] \in ClientSet /\ clients[c].exists = off.cl[c].exists
              /\ HasPurpose(clients[c]) <=> HasPurpose(off.cl[c])
              /\ clients[c].sock = off.cl[c].sock /\ clients[c].dl = off.cl[c].dl
              /\ clients[c].sess = off.cl[c].sess /\ clients[c].cb = off.cl[c].cb
  <2>1. PICK r \in ClientSet : r = off.cl[c]
    BY <1>7, Fields
  <2>2. clients[c] = IF r.src = "live" THEN [r EXCEPT !.src = "stale"] ELSE r
    BY <1>8, <2>1
  <2> QED BY <2>1, <2>2 DEF ClientSet, HasPurpose
<1>11. /\ s' \in State /\ s'.cl = clients /\ s'.events = off.events
       /\ s'.uploading = off.uploading /\ s'.queued = off.queued
  <2>1. clients \in [Clients -> ClientSet]
    BY <1>8, <1>10
  <2> QED BY <1>7, <1>9, <2>1 DEF State
<1>12. \A d, evt : Has(s', d, evt) <=> Has(off, d, evt)
  BY <1>11 DEF Has
<1>13. Live(s')
  <2>1. s'.uploading \in SUBSET Clients /\ s'.queued \in SUBSET Clients
    BY <1>11 DEF State
  <2> QED BY <1>7, <1>10, <1>11, <1>12, <2>1 DEF Live
<1>14. ASSUME NEW c \in Clients PROVE Sound(s', c)
  <2>1. Sound(off, c)
    BY <1>7
  <2> QED BY <1>10, <1>11, <1>12, <2>1 DEF Sound
<1> QED BY <1>11, <1>13, <1>14 DEF Good

\* The upload of the file ends for c.
Ended(t, c) == CheckDestroy([t EXCEPT !.cl[c].q = FALSE, !.cl[c].up = FALSE], c)

LEMMA EndedKeeps ==
  ASSUME NEW t \in State, NEW c \in Clients, t.cl[c].exists, Sound(t, c)
  PROVE  Kept(t, Ended(t, c), c)
<1>1. PICK r \in ClientSet : r = t.cl[c] /\ Fit(r)
  BY Fields, SoundIs
<1>2. PICK p : p = [r EXCEPT !.q = FALSE, !.up = FALSE]
  OBVIOUS
<1>3. p \in ClientSet /\ p.exists = r.exists /\ Fit(p)
  BY <1>1, <1>2 DEF ClientSet, Fit
<1>4. PICK u \in State : u = Set(t, c, p) /\ Within(t, u, c) /\ u.cl[c] = p
  BY <1>1, <1>3, Patched
<1>5. Ended(t, c) = CheckDestroy(u, c)
  <2>1. u = [t EXCEPT !.cl[c].q = FALSE, !.cl[c].up = FALSE]
    <3>1. Set(t, c, p) = [t EXCEPT !.cl[c].q = FALSE, !.cl[c].up = FALSE]
      BY <1>1, <1>2, Zenon DEF Set
    <3> QED BY <1>4, <3>1
  <2> QED BY <2>1 DEF Ended
<1>6. Kept(u, CheckDestroy(u, c), c)
  BY <1>1, <1>3, <1>4, CheckDestroyKeeps
<1> QED BY <1>4, <1>5, <1>6, KeptBoth

LEMMA FileGoneGood ==
  ASSUME Good(s), FileGone
  PROVE  Good(s')
<1>1. PICK cs \in SUBSET Clients : cs = {c \in Clients : s.cl[c].exists}
  OBVIOUS
<1>2. PICK step : step = [c \in Clients |-> [t \in State |->
                      CheckDestroy([t EXCEPT !.cl[c].q = FALSE, !.cl[c].up = FALSE], c)]]
  OBVIOUS
<1>3. ASSUME NEW u \in State, NEW c \in cs, Good(u), u.cl[c].exists
      PROVE  Kept(u, step[c][u], c)
  <2>1. step[c][u] = Ended(u, c)
    BY <1>2 DEF Ended
  <2> QED BY <1>3, <2>1, Given, EndedKeeps
<1>4. s' = ForEach(step, s, cs)
  BY <1>1, <1>2 DEF FileGone
<1> QED BY <1>1, <1>3, <1>4, ForEachGood

-----------------------------------------------------------------------------
(* The theorems                                                            *)

IInv ==
    /\ Good(s)
    /\ download \in BOOLEAN /\ shared \in BOOLEAN
    /\ low \in SUBSET (Peers \cup {"self"})

LEMMA InitIInv == Init => IInv
<1>1. SUFFICES ASSUME Init PROVE IInv
  OBVIOUS
<1>2. /\ s.cl = [c \in Clients |-> Fresh(FALSE)] /\ s.events = <<>>
      /\ s.uploading = {} /\ s.queued = {} /\ s.queue = <<>> /\ s.sources = {}
  BY <1>1 DEF Init
<1>3. PICK p \in ClientSet : p = Fresh(FALSE)
  BY DEF Fresh, ClientSet
<1>4. /\ p.exists = FALSE /\ p.sock = "none" /\ p.src = "none" /\ p.dl = FALSE
      /\ p.q = FALSE /\ p.up = FALSE /\ p.cb = FALSE
  BY <1>3 DEF Fresh
<1>5. s \in State
  <2>1. s.events \in Seq(Clients \X EventSet) /\ s.queue \in Seq(Clients)
    BY <1>2
  <2>2. s.cl \in [Clients -> ClientSet]
    BY <1>2, <1>3
  <2>3. s = [cl |-> s.cl, events |-> s.events, uploading |-> s.uploading,
             queued |-> s.queued, queue |-> s.queue, sources |-> s.sources]
    BY <1>1 DEF Init
  <2> QED BY <1>2, <2>1, <2>2, <2>3 DEF State
<1>6. \A d, evt : ~Has(s, d, evt)
  BY <1>2 DEF Has
<1>7. Live(s)
  BY <1>2, <1>6 DEF Live
<1>8. ASSUME NEW c \in Clients PROVE Sound(s, c)
  BY <1>2, <1>3, <1>4 DEF Sound, HasPurpose
<1> QED BY <1>1, <1>5, <1>7, <1>8 DEF Init, IInv, Good

LEMMA PacketGood ==
  ASSUME Good(s), NEW c \in Clients, PacketFrom(c)
  PROVE  Good(s')
BY IdentityGood, RequestGood, AnswerGood, DatagramGood DEF PacketFrom

LEMMA FlagsKept ==
  ASSUME Next
  PROVE  /\ download' = download \/ download' = FALSE
         /\ shared' = shared \/ shared' = FALSE
         /\ low' = low
<1>1. ASSUME NEW t, Becomes(t) PROVE UNCHANGED <<download, shared, low>>
  BY <1>1 DEF Becomes
<1>2. CASE Dispatch \/ RegenQueue
  BY <1>1, <1>2 DEF Dispatch, RegenQueue
<1>3. ASSUME NEW c \in Clients,
             \/ CallbackDue(c) \/ ReaskDue(c) \/ TimeoutDue(c) \/ ResendDue(c) \/ ReconnectDue(c)
             \/ Accept(c) \/ Opened(c) \/ Connected(c) \/ ConnFailed(c) \/ Lost(c) \/ Writable(c)
      PROVE  UNCHANGED <<download, shared, low>>
  BY <1>1, <1>3 DEF CallbackDue, ReaskDue, TimeoutDue, ResendDue, ReconnectDue,
                    Accept, Opened, Connected, ConnFailed, Lost, Writable
<1>4. ASSUME NEW c \in Clients, NEW p \in Peers, AddClient(c, p) \/ AddSource(c, p)
      PROVE  UNCHANGED <<download, shared, low>>
  BY <1>1, <1>4 DEF AddClient, AddSource
<1>5. ASSUME NEW c \in Clients, PacketFrom(c) PROVE UNCHANGED <<download, shared, low>>
  <2>1. CASE Hello(c) \/ ChangeId(c) \/ Identified(c) \/ Garbage(c)
    BY <1>1, <2>1 DEF Hello, ChangeId, Identified, Garbage
  <2>2. CASE ReqFile(c) \/ SetReqFileId(c) \/ StartUploadReq(c) \/ ReqChunks(c) \/ CancelTransfer(c)
    BY <1>1, <2>2 DEF ReqFile, SetReqFileId, StartUploadReq, ReqChunks, CancelTransfer
  <2>3. CASE FileStatus(c) \/ NoFile(c) \/ QueueRanking(c) \/ AcceptUploadReq(c) \/ DataChunk(c)
    BY <1>1, <2>3 DEF FileStatus, NoFile, QueueRanking, AcceptUploadReq, DataChunk
  <2>4. CASE ReaskFilePing(c) \/ FileNotFound(c)
    BY <1>1, <2>4 DEF ReaskFilePing, FileNotFound
  <2> QED BY <1>5, <2>1, <2>2, <2>3, <2>4 DEF PacketFrom
<1>6. CASE DownloadGone
  BY <1>6 DEF DownloadGone
<1>7. CASE FileGone
  BY <1>7 DEF FileGone
<1> QED BY <1>2, <1>3, <1>4, <1>5, <1>6, <1>7 DEF Next

LEMMA NextIInv == IInv /\ [Next]_vars => IInv'
<1>1. SUFFICES ASSUME IInv, [Next]_vars PROVE IInv'
  OBVIOUS
<1>2. CASE UNCHANGED vars
  BY <1>1, <1>2 DEF vars, IInv, Good, Live, Sound, Has
<1>3. CASE Next
  <2>1. Good(s)
    BY <1>1 DEF IInv
  <2>2. Good(s')
    <3>1. ASSUME NEW c \in Clients,
                 \/ CallbackDue(c) \/ ReaskDue(c) \/ TimeoutDue(c) \/ ResendDue(c)
                 \/ ReconnectDue(c)
          PROVE  Good(s')
      BY <2>1, <3>1, TimerGood
    <3>2. ASSUME NEW c \in Clients,
                 Opened(c) \/ Connected(c) \/ ConnFailed(c) \/ Lost(c) \/ Writable(c)
          PROVE  Good(s')
      BY <2>1, <3>2, ConnectionGood
    <3>3. ASSUME NEW c \in Clients, Accept(c) PROVE Good(s')
      BY <2>1, <3>3, AcceptGood
    <3>4. ASSUME NEW c \in Clients, NEW p \in Peers, AddClient(c, p) \/ AddSource(c, p)
          PROVE  Good(s')
      BY <2>1, <3>4, AddClientGood, AddSourceGood
    <3>5. ASSUME NEW c \in Clients, PacketFrom(c) PROVE Good(s')
      BY <2>1, <3>5, PacketGood
    <3>6. CASE Dispatch \/ RegenQueue
      BY <2>1, <3>6, DispatchGood, RegenQueueGood
    <3>7. CASE DownloadGone \/ FileGone
      BY <2>1, <3>7, DownloadGoneGood, FileGoneGood
    <3> QED BY <1>3, <3>1, <3>2, <3>3, <3>4, <3>5, <3>6, <3>7 DEF Next
  <2>3. /\ download' = download \/ download' = FALSE
        /\ shared' = shared \/ shared' = FALSE
        /\ low' = low
    BY <1>3, FlagsKept
  <2>4. download' \in BOOLEAN /\ shared' \in BOOLEAN /\ low' \in SUBSET (Peers \cup {"self"})
    BY <1>1, <2>3 DEF IInv
  <2> QED BY <2>2, <2>4 DEF IInv, Good, Live, Sound, Has
<1> QED BY <1>1, <1>2, <1>3

LEMMA Invariance == Spec => []IInv
BY InitIInv, NextIInv, PTL DEF Spec

\* The values of the variables are those that the types of the code allow.
THEOREM TypeCorrect == Spec => []TypeOK
<1>1. IInv => TypeOK
  BY DEF IInv, Good, TypeOK
<1> QED BY <1>1, Invariance, PTL

\* A slot, and a place in the queue, is given to no client that was deleted: removeClient()
\* takes its pointer from the sets, and no event of it comes after that.
THEOREM NoDanglingHolds == Spec => []NoDangling
<1>1. IInv => NoDangling
  BY DEF IInv, Good, Live, NoDangling
<1> QED BY <1>1, Invariance, PTL

\* The client is deleted when nothing is left to keep it for: whichever handler takes its
\* last purpose, or its socket, posts the event for it.
THEOREM NoZombiesHolds == Spec => []NoZombies
<1>1. ASSUME IInv, NEW c \in Clients, s.cl[c].exists, s.cl[c].sock = "none",
             ~HasPurpose(s.cl[c])
      PROVE  Dying(c)
  <2>1. s.events \in Seq(Clients \X EventSet) /\ Sound(s, c)
    BY <1>1 DEF IInv, Good, State
  <2>2. Has(s, c, "destroy")
    BY <1>1, <2>1 DEF Sound
  <2>3. DOMAIN s.events = 1..Len(s.events)
    BY <2>1
  <2> QED BY <2>2, <2>3 DEF Has, Dying
<1>2. IInv => NoZombies
  BY <1>1 DEF NoZombies
<1> QED BY <1>2, Invariance, PTL

\* What a client downloads from has a connection, and what has a connection has a session:
\* every handler that closes the socket ends the download.
THEOREM DownloadsConnectedHolds == Spec => []DownloadsConnected
<1>1. IInv => DownloadsConnected
  BY DEF IInv, Good, Sound, DownloadsConnected, IsConnected
<1> QED BY <1>1, Invariance, PTL
=============================================================================
